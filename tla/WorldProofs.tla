----------------------------- MODULE WorldProofs ------------------------------
(***************************************************************************)
(* Proofs about the world status (World): in any order of batches units    *)
(* are conserved, what was reserved stays backed, and settling it never    *)
(* fails.  For any accounts, any units and any batches.                    *)
(***************************************************************************)
EXTENDS World, FoldLemmas

----------------------------------------------------------------------------
(* One transaction.                                                        *)

Resources == [idle : Nat, sell : Nat, tradingS : Nat, tradingB : Nat]

\* What a loop carries along.
Carried == [res : [Accounts -> Resources], success : Nat, fail : Nat, list : Seq(TxTest)]

Methods == {"UpdateByP", "UpdateStateP", "UpdateState"}

LEMMA TxTyped ==
  ASSUME NEW t \in TxTest
  PROVE  /\ t.seller \in Accounts /\ t.buyer \in Accounts /\ t.seller # t.buyer
         /\ t.amount \in Nat /\ t.amount > 0
  BY WorldAssumption DEF TxTest

LEMMA FailsOnly ==
  ASSUME NEW w \in Carried
  PROVE  /\ Fails(w) \in Carried /\ Fails(w).res = w.res /\ Fails(w).list = w.list
         /\ Fails(w).fail = w.fail + 1 /\ Fails(w).success = w.success
  BY DEF Carried, Fails

LEMMA CarriedIs ==
  ASSUME NEW R \in [Accounts -> Resources], NEW i \in Nat, NEW j \in Nat, NEW l \in Seq(TxTest)
  PROVE  [res |-> R, success |-> i, fail |-> j, list |-> l] \in Carried
  BY Zenon DEF Carried

LEMMA FieldsTyped ==
  ASSUME NEW R \in [Accounts -> Resources], NEW a \in Accounts, NEW v \in Nat
  PROVE  /\ [R EXCEPT ![a].idle = v] \in [Accounts -> Resources]
         /\ [R EXCEPT ![a].tradingS = v] \in [Accounts -> Resources]
         /\ [R EXCEPT ![a].tradingB = v] \in [Accounts -> Resources]
  BY DEF Resources

\* A transaction of x units from s to b.
IsReserved(Q, R, s, b, x) ==
  Q = [R EXCEPT ![s].sell = @ - x, ![s].tradingS = @ + x, ![b].tradingB = @ + x]

IsSettled(Q, R, s, b, x) ==
  Q = [R EXCEPT ![s].tradingS = @ - x, ![b].tradingB = @ - x, ![b].idle = @ + x]

IsExecuted(Q, R, s, b, x) ==
  Q = [R EXCEPT ![s].sell = @ - x, ![b].idle = @ + x]

\* The resources of every account after it.
AfterReserve(Q, R, s, b, x) ==
  \A a \in Accounts :
    /\ Q[a].idle = R[a].idle
    /\ Q[a].sell = IF a = s THEN R[a].sell - x ELSE R[a].sell
    /\ Q[a].tradingS = IF a = s THEN R[a].tradingS + x ELSE R[a].tradingS
    /\ Q[a].tradingB = IF a = b THEN R[a].tradingB + x ELSE R[a].tradingB

AfterSettle(Q, R, s, b, x) ==
  \A a \in Accounts :
    /\ Q[a].idle = IF a = b THEN R[a].idle + x ELSE R[a].idle
    /\ Q[a].sell = R[a].sell
    /\ Q[a].tradingS = IF a = s THEN R[a].tradingS - x ELSE R[a].tradingS
    /\ Q[a].tradingB = IF a = b THEN R[a].tradingB - x ELSE R[a].tradingB

AfterExecute(Q, R, s, b, x) ==
  \A a \in Accounts :
    /\ Q[a].idle = IF a = b THEN R[a].idle + x ELSE R[a].idle
    /\ Q[a].sell = IF a = s THEN R[a].sell - x ELSE R[a].sell
    /\ Q[a].tradingS = R[a].tradingS
    /\ Q[a].tradingB = R[a].tradingB

LEMMA ReservedRes ==
  ASSUME NEW R \in [Accounts -> Resources], NEW s \in Accounts, NEW b \in Accounts, s # b,
         NEW x \in Nat, x <= R[s].sell, NEW Q, IsReserved(Q, R, s, b, x)
  PROVE  Q \in [Accounts -> Resources] /\ AfterReserve(Q, R, s, b, x)
<1> USE DEF IsReserved
<1>1. Q \in [Accounts -> Resources]
  BY DEF Resources
<1>2. ASSUME NEW a \in Accounts
      PROVE  /\ Q[a].idle = R[a].idle
             /\ Q[a].sell = IF a = s THEN R[a].sell - x ELSE R[a].sell
  BY DEF Resources
<1>3. ASSUME NEW a \in Accounts
      PROVE  Q[a].tradingS = IF a = s THEN R[a].tradingS + x ELSE R[a].tradingS
  BY DEF Resources
<1>4. ASSUME NEW a \in Accounts
      PROVE  Q[a].tradingB = IF a = b THEN R[a].tradingB + x ELSE R[a].tradingB
  BY DEF Resources
<1> QED
  BY <1>1, <1>2, <1>3, <1>4 DEF AfterReserve

LEMMA SettledRes ==
  ASSUME NEW R \in [Accounts -> Resources], NEW s \in Accounts, NEW b \in Accounts, s # b,
         NEW x \in Nat, x <= R[s].tradingS, x <= R[b].tradingB, NEW Q, IsSettled(Q, R, s, b, x)
  PROVE  Q \in [Accounts -> Resources] /\ AfterSettle(Q, R, s, b, x)
<1> USE DEF IsSettled
<1>1. Q \in [Accounts -> Resources]
  <2> DEFINE P == [R EXCEPT ![s].tradingS = @ - x]
             O == [P EXCEPT ![b].tradingB = @ - x]
  <2>1. P \in [Accounts -> Resources] /\ P[b].tradingB = R[b].tradingB
    BY DEF Resources
  <2>2. Q = [O EXCEPT ![b].idle = @ + x]
    OBVIOUS
  <2> HIDE DEF P
  <2>3. P[b].tradingB - x \in Nat
    BY <2>1 DEF Resources
  <2>4. O \in [Accounts -> Resources]
    BY <2>1, <2>3, FieldsTyped
  <2> HIDE DEF O
  <2>5. O[b].idle + x \in Nat
    BY ONLY <2>4, b \in Accounts, x \in Nat DEF Resources
  <2>6. [O EXCEPT ![b].idle = O[b].idle + x] \in [Accounts -> Resources]
    BY ONLY <2>4, <2>5, b \in Accounts, FieldsTyped
  <2> QED
    BY ONLY <2>2, <2>6
<1>2. ASSUME NEW a \in Accounts
      PROVE  /\ Q[a].sell = R[a].sell
             /\ Q[a].idle = IF a = b THEN R[a].idle + x ELSE R[a].idle
  BY DEF Resources
<1>3. ASSUME NEW a \in Accounts
      PROVE  Q[a].tradingS = IF a = s THEN R[a].tradingS - x ELSE R[a].tradingS
  BY DEF Resources
<1>4. ASSUME NEW a \in Accounts
      PROVE  Q[a].tradingB = IF a = b THEN R[a].tradingB - x ELSE R[a].tradingB
  BY DEF Resources
<1> QED
  BY <1>1, <1>2, <1>3, <1>4 DEF AfterSettle

LEMMA ExecutedRes ==
  ASSUME NEW R \in [Accounts -> Resources], NEW s \in Accounts, NEW b \in Accounts, s # b,
         NEW x \in Nat, x <= R[s].sell, NEW Q, IsExecuted(Q, R, s, b, x)
  PROVE  Q \in [Accounts -> Resources] /\ AfterExecute(Q, R, s, b, x)
<1> USE DEF IsExecuted
<1>1. Q \in [Accounts -> Resources]
  BY DEF Resources
<1>2. ASSUME NEW a \in Accounts
      PROVE  /\ Q[a].tradingS = R[a].tradingS
             /\ Q[a].tradingB = R[a].tradingB
  BY DEF Resources
<1>3. ASSUME NEW a \in Accounts
      PROVE  /\ Q[a].idle = IF a = b THEN R[a].idle + x ELSE R[a].idle
             /\ Q[a].sell = IF a = s THEN R[a].sell - x ELSE R[a].sell
  BY DEF Resources
<1> QED
  BY <1>1, <1>2, <1>3 DEF AfterExecute

\* The three methods, where they do not fail.
LEMMA ReserveDoes ==
  ASSUME NEW w \in Carried, NEW t \in TxTest, ~(t.amount > w.res[t.seller].sell)
  PROVE  Reserve(w, t) =
           [res |-> [w.res EXCEPT ![t.seller].sell = @ - t.amount,
                                  ![t.seller].tradingS = @ + t.amount,
                                  ![t.buyer].tradingB = @ + t.amount],
            success |-> w.success, fail |-> w.fail, list |-> Append(w.list, t)]
<1>1. PICK R, l, i, j : w = [res |-> R, success |-> i, fail |-> j, list |-> l]
  BY DEF Carried
<1>2. w.res = R /\ w.list = l /\ w.success = i /\ w.fail = j
  BY <1>1
<1>3. ~(t.amount > R[t.seller].sell)
  BY <1>2
<1> QED
  BY ONLY <1>1, <1>2, <1>3 DEF Reserve

LEMMA SettleDoes ==
  ASSUME NEW w \in Carried, NEW t \in TxTest,
         ~(w.res[t.seller].tradingS < t.amount), ~(w.res[t.buyer].tradingB < t.amount)
  PROVE  Settle(w, t) =
           [res |-> [w.res EXCEPT ![t.seller].tradingS = @ - t.amount,
                                  ![t.buyer].tradingB = @ - t.amount,
                                  ![t.buyer].idle = @ + t.amount],
            success |-> w.success + 1, fail |-> w.fail, list |-> w.list]
<1>1. PICK R, l, i, j : w = [res |-> R, success |-> i, fail |-> j, list |-> l]
  BY DEF Carried
<1>2. w.res = R /\ w.list = l /\ w.success = i /\ w.fail = j
  BY <1>1
<1>3. ~(R[t.seller].tradingS < t.amount) /\ ~(R[t.buyer].tradingB < t.amount)
  BY <1>2
<1> QED
  BY ONLY <1>1, <1>2, <1>3 DEF Settle

LEMMA ExecuteDoes ==
  ASSUME NEW w \in Carried, NEW t \in TxTest, ~(w.res[t.seller].sell < t.amount)
  PROVE  Execute(w, t) =
           [res |-> [w.res EXCEPT ![t.seller].sell = @ - t.amount,
                                  ![t.buyer].idle = @ + t.amount],
            success |-> w.success + 1, fail |-> w.fail, list |-> w.list]
<1>1. PICK R, l, i, j : w = [res |-> R, success |-> i, fail |-> j, list |-> l]
  BY DEF Carried
<1>2. w.res = R /\ w.list = l /\ w.success = i /\ w.fail = j
  BY <1>1
<1>3. ~(R[t.seller].sell < t.amount)
  BY <1>2
<1> QED
  BY ONLY <1>1, <1>2, <1>3 DEF Execute
----------------------------------------------------------------------------
(* Units.                                                                  *)

UnitsIn(R) == [a \in Accounts |-> R[a].idle + R[a].sell + R[a].tradingS]

UnitsOf(R) == SumFunctionOnSet(UnitsIn(R), Accounts)

LEMMA UnitsTyped ==
  ASSUME NEW R \in [Accounts -> Resources]
  PROVE  IntOn(UnitsIn(R), Accounts)
  BY DEF UnitsIn, IntOn, Resources

\* x units go from s to b.
Moved(g, f, s, b, x) ==
  g[s] = f[s] - x /\ g[b] = f[b] + x /\ \A a \in Accounts \ {s, b} : g[a] = f[a]

LEMMA UnitsMoved ==
  ASSUME NEW R \in [Accounts -> Resources], NEW Q,
         NEW s \in Accounts, NEW b \in Accounts, s # b, NEW x \in Nat,
         Moved(UnitsIn(Q), UnitsIn(R), s, b, x)
  PROVE  UnitsOf(Q) = UnitsOf(R)
<1> DEFINE f == UnitsIn(R)
           g == UnitsIn(Q)
<1>1. IsFiniteSet(Accounts) /\ IntOn(f, Accounts) /\ x \in Int
  BY WorldAssumption, UnitsTyped
<1>2. g[s] = f[s] - x /\ g[b] = f[b] + x /\ \A a \in Accounts \ {s, b} : g[a] = f[a]
  BY DEF Moved
<1> HIDE DEF f, g
<1>3. SumFunctionOnSet(g, Accounts) = SumFunctionOnSet(f, Accounts)
  BY ONLY <1>1, <1>2, s \in Accounts, b \in Accounts, s # b, SumMoved
<1> QED
  BY <1>3 DEF UnitsOf, f, g

LEMMA UnitsAt ==
  ASSUME NEW R, NEW a \in Accounts
  PROVE  UnitsIn(R)[a] = R[a].idle + R[a].sell + R[a].tradingS
  BY DEF UnitsIn

LEMMA ResourcesAt ==
  ASSUME NEW R \in [Accounts -> Resources], NEW a \in Accounts
  PROVE  /\ R[a].idle \in Nat /\ R[a].sell \in Nat
         /\ R[a].tradingS \in Nat /\ R[a].tradingB \in Nat
  BY DEF Resources

LEMMA SettleMoves ==
  ASSUME NEW R \in [Accounts -> Resources], NEW Q,
         NEW s \in Accounts, NEW b \in Accounts, s # b, NEW x \in Nat,
         AfterSettle(Q, R, s, b, x)
  PROVE  Moved(UnitsIn(Q), UnitsIn(R), s, b, x)
<1>1. UnitsIn(Q)[s] = UnitsIn(R)[s] - x
  BY UnitsAt, ResourcesAt DEF AfterSettle
<1>2. UnitsIn(Q)[b] = UnitsIn(R)[b] + x
  BY UnitsAt, ResourcesAt DEF AfterSettle
<1>3. ASSUME NEW a \in Accounts \ {s, b} PROVE UnitsIn(Q)[a] = UnitsIn(R)[a]
  BY UnitsAt, ResourcesAt DEF AfterSettle
<1> QED
  BY <1>1, <1>2, <1>3 DEF Moved

LEMMA ExecuteMoves ==
  ASSUME NEW R \in [Accounts -> Resources], NEW Q,
         NEW s \in Accounts, NEW b \in Accounts, s # b, NEW x \in Nat,
         AfterExecute(Q, R, s, b, x)
  PROVE  Moved(UnitsIn(Q), UnitsIn(R), s, b, x)
<1>1. UnitsIn(Q)[s] = UnitsIn(R)[s] - x
  BY UnitsAt, ResourcesAt DEF AfterExecute
<1>2. UnitsIn(Q)[b] = UnitsIn(R)[b] + x
  BY UnitsAt, ResourcesAt DEF AfterExecute
<1>3. ASSUME NEW a \in Accounts \ {s, b} PROVE UnitsIn(Q)[a] = UnitsIn(R)[a]
  BY UnitsAt, ResourcesAt DEF AfterExecute
<1> QED
  BY <1>1, <1>2, <1>3 DEF Moved

LEMMA UnitsStay ==
  ASSUME NEW R \in [Accounts -> Resources], NEW Q \in [Accounts -> Resources],
         \A a \in Accounts : UnitsIn(Q)[a] = UnitsIn(R)[a]
  PROVE  UnitsOf(Q) = UnitsOf(R)
<1>1. IsFiniteSet(Accounts) /\ IntOn(UnitsIn(R), Accounts)
  BY WorldAssumption, UnitsTyped
<1> QED
  BY <1>1, SumSame, Zenon DEF UnitsOf

\* The trading of account a in one role.
Roles == {"seller", "buyer"}

Trading(R, a, role) == IF role = "seller" THEN R[a].tradingS ELSE R[a].tradingB

Part(t, a, role) == IF t[role] = a THEN t.amount ELSE 0

LEMMA ReserveStep ==
  ASSUME NEW w \in Carried, NEW t \in TxTest
  PROVE  LET n == Reserve(w, t)
         IN  /\ n \in Carried /\ UnitsOf(n.res) = UnitsOf(w.res)
             /\ \/ /\ n.list = w.list
                   /\ n.res = w.res
                \/ /\ n.list = Append(w.list, t)
                   /\ \A a \in Accounts, role \in Roles :
                        Trading(n.res, a, role) = Trading(w.res, a, role) + Part(t, a, role)
<1>1. CASE t.amount > w.res[t.seller].sell
  <2>1. Reserve(w, t) = Fails(w)
    BY <1>1 DEF Reserve
  <2> QED
    BY <2>1, FailsOnly
<1>2. CASE ~(t.amount > w.res[t.seller].sell)
  <2> DEFINE s == t.seller
             b == t.buyer
             x == t.amount
             R == w.res
             Q == [R EXCEPT ![s].sell = @ - x, ![s].tradingS = @ + x, ![b].tradingB = @ + x]
  <2>1. /\ s \in Accounts /\ b \in Accounts /\ s # b /\ x \in Nat
        /\ R \in [Accounts -> Resources] /\ x <= R[s].sell
        /\ w.success \in Nat /\ w.fail \in Nat /\ Append(w.list, t) \in Seq(TxTest)
    BY <1>2, TxTyped DEF Carried, Resources
  <2>2. Reserve(w, t) =
          [res |-> Q, success |-> w.success, fail |-> w.fail, list |-> Append(w.list, t)]
    BY <1>2, ReserveDoes
  <2>0. IsReserved(Q, R, s, b, x)
    BY DEF IsReserved
  <2>4. t["seller"] = s /\ t["buyer"] = b
    OBVIOUS
  <2> HIDE DEF Q, R, s, b, x
  <2>3. /\ Q \in [Accounts -> Resources]
        /\ AfterReserve(Q, R, s, b, x)
    BY ONLY <2>0, <2>1, ReservedRes
  <2>5. ASSUME NEW a \in Accounts PROVE UnitsIn(Q)[a] = UnitsIn(R)[a]
    <3>1. R[a].sell \in Nat /\ R[a].tradingS \in Nat /\ R[a].idle \in Nat
      BY <2>1 DEF Resources
    <3>2. /\ UnitsIn(Q)[a] = Q[a].idle + Q[a].sell + Q[a].tradingS
          /\ UnitsIn(R)[a] = R[a].idle + R[a].sell + R[a].tradingS
      BY DEF UnitsIn
    <3> QED
      BY <2>1, <2>3, <3>1, <3>2 DEF AfterReserve
  <2>6. UnitsOf(Q) = UnitsOf(R)
    BY <2>1, <2>3, <2>5, UnitsStay
  <2>7. ASSUME NEW a \in Accounts, NEW role \in Roles
        PROVE  Trading(Q, a, role) = Trading(R, a, role) + Part(t, a, role)
    <3>1. R[a].tradingS \in Nat /\ R[a].tradingB \in Nat
      BY <2>1 DEF Resources
    <3>2. CASE role = "seller"
      BY <2>3, <2>4, <3>1, <3>2 DEF Trading, Part, AfterReserve, x
    <3>3. CASE role = "buyer"
      BY <2>3, <2>4, <3>1, <3>3 DEF Trading, Part, AfterReserve, x
    <3> QED
      BY <3>2, <3>3 DEF Roles
  <2>8. Reserve(w, t) \in Carried
    BY <2>1, <2>2, <2>3, CarriedIs
  <2>9. Reserve(w, t).res = Q /\ Reserve(w, t).list = Append(w.list, t)
    BY <2>2
  <2> QED
    BY <2>6, <2>7, <2>8, <2>9, Zenon DEF R
<1> QED
  BY <1>1, <1>2

LEMMA SettleStep ==
  ASSUME NEW w \in Carried, NEW t \in TxTest
  PROVE  LET n == Settle(w, t)
         IN  /\ n \in Carried /\ UnitsOf(n.res) = UnitsOf(w.res)
             /\ \/ /\ w.res[t.seller].tradingS < t.amount \/ w.res[t.buyer].tradingB < t.amount
                   /\ n.res = w.res
                \/ /\ n.fail = w.fail
                   /\ \A a \in Accounts, role \in Roles :
                        Trading(n.res, a, role) = Trading(w.res, a, role) - Part(t, a, role)
<1>1. CASE w.res[t.seller].tradingS < t.amount \/ w.res[t.buyer].tradingB < t.amount
  <2>1. Settle(w, t) = Fails(w)
    BY <1>1 DEF Settle
  <2> QED
    BY <1>1, <2>1, FailsOnly
<1>2. CASE ~(w.res[t.seller].tradingS < t.amount) /\ ~(w.res[t.buyer].tradingB < t.amount)
  <2> DEFINE s == t.seller
             b == t.buyer
             x == t.amount
             R == w.res
             Q == [R EXCEPT ![s].tradingS = @ - x, ![b].tradingB = @ - x, ![b].idle = @ + x]
  <2>0. /\ s \in Accounts /\ b \in Accounts /\ s # b /\ x \in Nat
        /\ R \in [Accounts -> Resources]
        /\ w.success + 1 \in Nat /\ w.fail \in Nat /\ w.list \in Seq(TxTest)
    BY TxTyped DEF Carried
  <2>1. /\ s \in Accounts /\ b \in Accounts /\ s # b /\ x \in Nat
        /\ R \in [Accounts -> Resources] /\ x <= R[s].tradingS /\ x <= R[b].tradingB
    <3>1. R[s].tradingS \in Nat /\ R[b].tradingB \in Nat
      BY <2>0, ResourcesAt
    <3>2. ~(R[s].tradingS < x) /\ ~(R[b].tradingB < x)
      BY <1>2
    <3> HIDE DEF R, s, b, x
    <3> QED
      BY <2>0, <3>1, <3>2
  <2>2. Settle(w, t) =
          [res |-> Q, success |-> w.success + 1, fail |-> w.fail, list |-> w.list]
    BY <1>2, SettleDoes
  <2>3. IsSettled(Q, R, s, b, x)
    BY DEF IsSettled
  <2>4. t["seller"] = s /\ t["buyer"] = b
    OBVIOUS
  <2> HIDE DEF Q, R, s, b, x
  <2>5. Q \in [Accounts -> Resources] /\ AfterSettle(Q, R, s, b, x)
    BY ONLY <2>1, <2>3, SettledRes
  <2>6. Moved(UnitsIn(Q), UnitsIn(R), s, b, x)
    BY ONLY <2>1, <2>5, SettleMoves
  <2>7. UnitsOf(Q) = UnitsOf(R)
    BY ONLY <2>1, <2>6, UnitsMoved
  <2>8. ASSUME NEW a \in Accounts, NEW role \in Roles
        PROVE  Trading(Q, a, role) = Trading(R, a, role) - Part(t, a, role)
    <3>1. R[a].tradingS \in Nat /\ R[a].tradingB \in Nat
      BY <2>1 DEF Resources
    <3>2. CASE role = "seller"
      BY <2>4, <2>5, <3>1, <3>2 DEF Trading, Part, AfterSettle, x
    <3>3. CASE role = "buyer"
      BY <2>4, <2>5, <3>1, <3>3 DEF Trading, Part, AfterSettle, x
    <3> QED
      BY <3>2, <3>3 DEF Roles
  <2>9. Settle(w, t) \in Carried
    BY <2>0, <2>2, <2>5, CarriedIs
  <2>10. Settle(w, t).res = Q /\ Settle(w, t).fail = w.fail
    BY <2>2
  <2> QED
    BY <2>7, <2>8, <2>9, <2>10, Zenon DEF R
<1> QED
  BY <1>1, <1>2

LEMMA ExecuteStep ==
  ASSUME NEW w \in Carried, NEW t \in TxTest
  PROVE  LET n == Execute(w, t)
         IN  /\ n \in Carried /\ UnitsOf(n.res) = UnitsOf(w.res)
             /\ \A a \in Accounts, role \in Roles :
                  Trading(n.res, a, role) = Trading(w.res, a, role)
<1>1. CASE w.res[t.seller].sell < t.amount
  <2>1. Execute(w, t) = Fails(w)
    BY <1>1 DEF Execute
  <2> QED
    BY <2>1, FailsOnly
<1>2. CASE ~(w.res[t.seller].sell < t.amount)
  <2> DEFINE s == t.seller
             b == t.buyer
             x == t.amount
             R == w.res
             Q == [R EXCEPT ![s].sell = @ - x, ![b].idle = @ + x]
  <2>1. /\ s \in Accounts /\ b \in Accounts /\ s # b /\ x \in Nat
        /\ R \in [Accounts -> Resources] /\ x <= R[s].sell
        /\ w.success + 1 \in Nat /\ w.fail \in Nat /\ w.list \in Seq(TxTest)
    BY <1>2, TxTyped DEF Carried, Resources
  <2>2. Execute(w, t) =
          [res |-> Q, success |-> w.success + 1, fail |-> w.fail, list |-> w.list]
    BY <1>2, ExecuteDoes
  <2>3. IsExecuted(Q, R, s, b, x)
    BY DEF IsExecuted
  <2> HIDE DEF Q, R, s, b, x
  <2>5. Q \in [Accounts -> Resources] /\ AfterExecute(Q, R, s, b, x)
    BY ONLY <2>1, <2>3, ExecutedRes
  <2>6. Moved(UnitsIn(Q), UnitsIn(R), s, b, x)
    BY ONLY <2>1, <2>5, ExecuteMoves
  <2>7. UnitsOf(Q) = UnitsOf(R)
    BY ONLY <2>1, <2>6, UnitsMoved
  <2>8. ASSUME NEW a \in Accounts, NEW role \in Roles
        PROVE  Trading(Q, a, role) = Trading(R, a, role)
    BY <2>5 DEF Trading, AfterExecute
  <2>9. Execute(w, t) \in Carried
    BY <2>1, <2>2, <2>5, CarriedIs
  <2>10. Execute(w, t).res = Q
    BY <2>2
  <2> QED
    BY <2>7, <2>8, <2>9, <2>10, Zenon DEF R
<1> QED
  BY <1>1, <1>2

LEMMA HandleIs ==
  ASSUME NEW w, NEW t
  PROVE  /\ Handle("UpdateByP", w, t) = Reserve(w, t)
         /\ Handle("UpdateStateP", w, t) = Settle(w, t)
         /\ Handle("UpdateState", w, t) = Execute(w, t)
  BY DEF Handle

LEMMA HandleTyped ==
  ASSUME NEW method \in Methods, NEW w \in Carried, NEW t \in TxTest
  PROVE  Handle(method, w, t) \in Carried /\ UnitsOf(Handle(method, w, t).res) = UnitsOf(w.res)
<1>1. CASE method = "UpdateByP"
  BY <1>1, HandleIs, ReserveStep
<1>2. CASE method = "UpdateStateP"
  BY <1>2, HandleIs, SettleStep
<1>3. CASE method = "UpdateState"
  BY <1>3, HandleIs, ExecuteStep
<1> QED
  BY <1>1, <1>2, <1>3 DEF Methods

----------------------------------------------------------------------------
(* A batch.                                                                *)

\* What FoldLeft is defined by, here.
LoopIter(g, method, txs) ==
  g = [s \in SUBSET DOMAIN txs |->
         IF s = {} THEN Now ELSE Handle(method, g[s \ {Max(s)}], txs[Max(s)])]

LEMMA LoopUnfolds ==
  ASSUME NEW method, NEW txs
  PROVE  Loop(method, txs) = (CHOOSE g : LoopIter(g, method, txs))[DOMAIN txs]
  BY DEF Loop, FoldLeft, MapThenFoldSet, LoopIter

\* What is carried after each transaction of the batch.
Runs(v, method, txs) ==
  /\ v[0] = Now
  /\ \A i \in 1..Len(txs) : v[i - 1] \in Carried /\ v[i] = Handle(method, v[i - 1], txs[i])
  /\ \A i \in 0..Len(txs) : v[i] \in Carried

LEMMA LoopIterExists ==
  ASSUME Now \in Carried, NEW method \in Methods, NEW txs \in Seq(TxTest)
  PROVE  \E g \in [SUBSET DOMAIN txs -> Carried] : LoopIter(g, method, txs)
<1> DEFINE n == Len(txs)
           F == [p \in Carried \X (1..n) |-> Handle(method, p[1], txs[p[2]])]
           pick == [s \in SUBSET (1..n) |-> Max(s)]
<1>1. n \in Nat /\ DOMAIN txs = 1..n /\ \A i \in 1..n : txs[i] \in TxTest
  OBVIOUS
<1>2. \A w \in Carried, i \in 1..n : Handle(method, w, txs[i]) \in Carried
  BY <1>1, HandleTyped
<1>3. /\ F \in [Carried \X (1..n) -> Carried]
      /\ \A w \in Carried, i \in 1..n : F[<<w, i>>] = Handle(method, w, txs[i])
  BY <1>2
<1> HIDE DEF F
<1>4. \A s \in SUBSET (1..n) : pick[s] = Max(s) /\ (s # {} => pick[s] \in s)
  <2>1. \A s \in SUBSET (1..n) : s # {} => Max(s) \in s
    BY <1>1, GreatestIndex DEF Max
  <2> QED
    BY <2>1
<1> HIDE DEF pick, n
<1>5. PICK g \in [SUBSET (1..n) -> Carried] :
        \A s \in SUBSET (1..n) :
          g[s] = IF s = {} THEN Now ELSE F[<<g[s \ {pick[s]}], pick[s]>>]
  <2>1. IsFiniteSet(1..n)
    BY <1>1, FS_Interval
  <2>2. IsPick(pick, 1..n)
    BY <1>4 DEF IsPick
  <2>3. \E g \in [SUBSET (1..n) -> Carried] : IsFold(g, 1..n, Now, F, pick)
    BY <1>3, <2>1, <2>2, FoldExists, Zenon
  <2> QED
    BY <2>3 DEF IsFold
<1>6. ASSUME NEW s \in SUBSET (1..n), s # {}
      PROVE  g[s] = Handle(method, g[s \ {Max(s)}], txs[Max(s)])
  <2>1. Max(s) \in 1..n /\ pick[s] = Max(s) /\ s \ {Max(s)} \in SUBSET (1..n)
    BY <1>4, <1>6
  <2>2. g[s \ {Max(s)}] \in Carried /\ g[s] = F[<<g[s \ {Max(s)}], Max(s)>>]
    BY <1>5, <1>6, <2>1
  <2> QED
    BY <1>3, <2>1, <2>2
<1>7. LoopIter(g, method, txs)
  <2>1. \A s \in SUBSET (1..n) :
          g[s] = IF s = {} THEN Now ELSE Handle(method, g[s \ {Max(s)}], txs[Max(s)])
    BY <1>5, <1>6
  <2> QED
    BY <1>1, <2>1 DEF LoopIter
<1> QED
  BY <1>1, <1>7

LEMMA LoopRuns ==
  ASSUME Now \in Carried, NEW method \in Methods, NEW txs \in Seq(TxTest)
  PROVE  \E v : Runs(v, method, txs) /\ Loop(method, txs) = v[Len(txs)]
<1> DEFINE n == Len(txs)
           g == CHOOSE h : LoopIter(h, method, txs)
           v == [i \in 0..n |-> g[1..i]]
<1>1. n \in Nat /\ DOMAIN txs = 1..n /\ \A i \in 1..n : txs[i] \in TxTest
  OBVIOUS
<1>2. LoopIter(g, method, txs)
  <2>1. \E h : LoopIter(h, method, txs)
    BY LoopIterExists
  <2> QED
    BY <2>1
<1>3. Loop(method, txs) = g[1..n]
  BY <1>1, LoopUnfolds
<1> HIDE DEF g, n
<1>4. \A s \in SUBSET (1..n) :
        g[s] = IF s = {} THEN Now ELSE Handle(method, g[s \ {Max(s)}], txs[Max(s)])
  BY <1>1, <1>2 DEF LoopIter
<1>5. g[1..0] = Now
  <2>1. 1..0 = {} /\ {} \in SUBSET (1..n)
    OBVIOUS
  <2> QED
    BY <1>4, <2>1
<1>6. ASSUME NEW i \in 1..n
      PROVE  g[1..i] = Handle(method, g[1..(i - 1)], txs[i])
  <2>1. 1..i \in SUBSET (1..n) /\ 1..i # {} /\ (1..i) \ {i} = 1..(i - 1) /\ i \in 1..i
    <3>1. n \in Nat /\ i \in 1..n
      BY <1>1
    <3>2. i \in 1..i /\ 1..i \in SUBSET (1..n)
      BY ONLY <3>1
    <3>3. (1..i) \ {i} = 1..(i - 1)
      BY ONLY <3>1
    <3> QED
      BY <3>2, <3>3
  <2>2. Max(1..i) = i
    <3>1. Max(1..i) \in 1..i /\ \A y \in 1..i : y <= Max(1..i)
      BY <1>1, <2>1, GreatestIndex DEF Max
    <3> QED
      BY <2>1, <3>1
  <2> QED
    BY <1>4, <2>1, <2>2
<1>7. \A i \in 0..n : v[i] = g[1..i]
  OBVIOUS
<1> HIDE DEF v
<1>8. v[0] = Now /\ v[n] = g[1..n]
  BY <1>1, <1>5, <1>7
<1>9. ASSUME NEW i \in 1..n PROVE v[i] = Handle(method, v[i - 1], txs[i])
  <2>1. i \in 0..n /\ i - 1 \in 0..n
    BY <1>1
  <2> QED
    BY <1>6, <1>7, <2>1
<1> DEFINE T == {i \in 0..n : v[i] \notin Carried}
<1>10. T = {}
  <2> SUFFICES ASSUME T # {} PROVE FALSE
    OBVIOUS
  <2>1. PICK k \in T : \A j \in T : ~(j < k)
    <3>1. T \subseteq Nat
      OBVIOUS
    <3> HIDE DEF T
    <3> QED
      BY <3>1, LeastNumber
  <2>2. k # 0
    BY <1>8, <2>1
  <2>3. k \in 1..n /\ k - 1 \in 0..n /\ k - 1 < k
    BY <1>1, <2>1, <2>2
  <2>4. v[k - 1] \in Carried
    BY <2>1, <2>3
  <2>5. v[k] \in Carried
    BY <1>1, <1>9, <2>3, <2>4, HandleTyped
  <2> QED
    BY <2>1, <2>5
<1>11. \A i \in 0..n : v[i] \in Carried
  BY <1>10
<1>12. \A i \in 1..n : i - 1 \in 0..n
  BY <1>1
<1>13. Runs(v, method, txs)
  BY <1>8, <1>9, <1>11, <1>12 DEF Runs, n
<1> QED
  BY <1>3, <1>8, <1>13 DEF n

\* A batch makes and loses no units.
LEMMA UnitsThroughLoop ==
  ASSUME Now \in Carried, NEW method \in Methods, NEW txs \in Seq(TxTest)
  PROVE  Loop(method, txs) \in Carried /\ UnitsOf(Loop(method, txs).res) = UnitsOf(res)
<1>1. PICK v : Runs(v, method, txs) /\ Loop(method, txs) = v[Len(txs)]
  BY LoopRuns
<1> DEFINE n == Len(txs)
           T == {i \in 0..n : UnitsOf(v[i].res) # UnitsOf(res)}
<1>2. n \in Nat /\ \A i \in 1..n : txs[i] \in TxTest
  OBVIOUS
<1>3. T = {}
  <2> SUFFICES ASSUME T # {} PROVE FALSE
    OBVIOUS
  <2>1. PICK k \in T : \A j \in T : ~(j < k)
    <3>1. T \subseteq Nat
      OBVIOUS
    <3> HIDE DEF T
    <3> QED
      BY <3>1, LeastNumber
  <2>2. k # 0
    BY <1>1, <2>1 DEF Runs, Now
  <2>3. k \in 1..n /\ k - 1 \in 0..n /\ k - 1 < k
    BY <1>2, <2>1, <2>2
  <2>4. UnitsOf(v[k - 1].res) = UnitsOf(res)
    BY <2>1, <2>3
  <2>5. v[k - 1] \in Carried /\ v[k] = Handle(method, v[k - 1], txs[k])
    BY <1>1, <2>3 DEF Runs
  <2>6. UnitsOf(v[k].res) = UnitsOf(v[k - 1].res)
    BY <1>2, <2>3, <2>5, HandleTyped
  <2> QED
    BY <2>1, <2>4, <2>6
<1>4. n \in 0..n
  BY <1>2
<1> QED
  BY <1>1, <1>3, <1>4 DEF Runs

----------------------------------------------------------------------------
(* What a list amounts to.                                                 *)

Listed(list, a, role) == SumFunction(Amounts(list, a, role))

LEMMA AmountsAt ==
  ASSUME NEW list \in Seq(TxTest), NEW a, NEW role
  PROVE  /\ DOMAIN Amounts(list, a, role) = 1..Len(list)
         /\ \A i \in 1..Len(list) : Amounts(list, a, role)[i] = Part(list[i], a, role)
         /\ Listed(list, a, role) = SumFunctionOnSet(Amounts(list, a, role), 1..Len(list))
<1>1. DOMAIN list = 1..Len(list) /\ Len(list) \in Nat
  OBVIOUS
<1>2. DOMAIN Amounts(list, a, role) = 1..Len(list)
  BY <1>1 DEF Amounts
<1>3. \A i \in 1..Len(list) : Amounts(list, a, role)[i] = Part(list[i], a, role)
  BY <1>1 DEF Amounts, Part
<1> QED
  BY <1>2, <1>3 DEF Listed, SumFunction

LEMMA PartNat ==
  ASSUME NEW t \in TxTest, NEW a, NEW role
  PROVE  Part(t, a, role) \in Nat
  BY TxTyped DEF Part

LEMMA AmountsNat ==
  ASSUME NEW list \in Seq(TxTest), NEW a, NEW role
  PROVE  /\ \A i \in 1..Len(list) : Amounts(list, a, role)[i] \in Nat
         /\ IntOn(Amounts(list, a, role), 1..Len(list))
         /\ Listed(list, a, role) \in Nat
<1>1. \A i \in 1..Len(list) : list[i] \in TxTest
  OBVIOUS
<1>2. \A i \in 1..Len(list) : Amounts(list, a, role)[i] \in Nat
  BY <1>1, AmountsAt, PartNat
<1>3. IsFiniteSet(1..Len(list))
  BY FS_Interval
<1> DEFINE f == Amounts(list, a, role)
           S == 1..Len(list)
<1> HIDE DEF f
<1>4. SumFunctionOnSet(f, S) \in Nat
  BY <1>2, <1>3, SumNat DEF f
<1> QED
  BY <1>2, <1>4, AmountsAt DEF IntOn, f

LEMMA ListedNone ==
  ASSUME NEW a, NEW role
  PROVE  Listed(<< >>, a, role) = 0
<1>1. << >> \in Seq(TxTest) /\ 1..Len(<< >>) = {}
  OBVIOUS
<1> QED
  BY <1>1, AmountsAt, SumEmpty

LEMMA ListedAppend ==
  ASSUME NEW list \in Seq(TxTest), NEW t \in TxTest, NEW a, NEW role
  PROVE  Listed(Append(list, t), a, role) = Listed(list, a, role) + Part(t, a, role)
<1> DEFINE n == Len(list)
           more == Append(list, t)
           f == Amounts(more, a, role)
           g == Amounts(list, a, role)
<1>1. /\ n \in Nat /\ more \in Seq(TxTest) /\ Len(more) = n + 1
      /\ more[n + 1] = t /\ \A i \in 1..n : more[i] = list[i]
  OBVIOUS
<1> HIDE DEF more
<1>2. /\ IntOn(f, 1..(n + 1)) /\ Listed(more, a, role) = SumFunctionOnSet(f, 1..(n + 1))
      /\ \A i \in 1..(n + 1) : f[i] = Part(more[i], a, role)
  BY <1>1, AmountsAt, AmountsNat
<1>3. /\ IntOn(g, 1..n) /\ Listed(list, a, role) = SumFunctionOnSet(g, 1..n)
      /\ \A i \in 1..n : g[i] = Part(list[i], a, role)
  BY AmountsAt, AmountsNat
<1> HIDE DEF f, g, n
<1>4. /\ IsFiniteSet(1..n) /\ IsFiniteSet(1..(n + 1))
      /\ n + 1 \in 1..(n + 1) /\ (1..(n + 1)) \ {n + 1} = 1..n
      /\ \A i \in 1..n : i \in 1..(n + 1)
  <2>1. n \in Nat
    BY <1>1
  <2>2. n + 1 \in 1..(n + 1) /\ (1..(n + 1)) \ {n + 1} = 1..n
    BY ONLY <2>1
  <2> QED
    BY <2>1, <2>2, FS_Interval
<1>5. SumFunctionOnSet(f, 1..(n + 1)) = f[n + 1] + SumFunctionOnSet(f, (1..(n + 1)) \ {n + 1})
  BY <1>2, <1>4, SumRemove
<1>6. SumFunctionOnSet(f, 1..n) = SumFunctionOnSet(g, 1..n)
  <2>1. \A i \in 1..n : f[i] = g[i]
    BY <1>1, <1>2, <1>3, <1>4
  <2> QED
    BY ONLY <1>3, <1>4, <2>1, SumSame
<1>7. f[n + 1] = Part(t, a, role)
  BY <1>1, <1>2, <1>4
<1>8. SumFunctionOnSet(g, 1..n) \in Int /\ Part(t, a, role) \in Int
  BY <1>3, <1>4, SumInt, PartNat
<1>9. Listed(more, a, role) = Part(t, a, role) + Listed(list, a, role)
  BY <1>2, <1>3, <1>4, <1>5, <1>6, <1>7
<1>10. Listed(list, a, role) \in Int
  BY <1>3, <1>8
<1> QED
  BY <1>8, <1>9, <1>10 DEF more

\* What is left of a list after its first i transactions.
Left(list, a, role, i) == SumFunctionOnSet(Amounts(list, a, role), (i + 1)..Len(list))

LEMMA LeftOfList ==
  ASSUME NEW list \in Seq(TxTest), NEW a, NEW role
  PROVE  /\ Left(list, a, role, 0) = Listed(list, a, role)
         /\ Left(list, a, role, Len(list)) = 0
         /\ \A i \in 0..Len(list) : Left(list, a, role, i) \in Nat
         /\ \A i \in 1..Len(list) :
              /\ Left(list, a, role, i - 1) = Part(list[i], a, role) + Left(list, a, role, i)
              /\ Part(list[i], a, role) <= Left(list, a, role, i - 1)
<1> DEFINE n == Len(list)
           f == Amounts(list, a, role)
           left(i) == Left(list, a, role, i)
<1>1. n \in Nat
  OBVIOUS
<1>2. /\ \A i \in 1..n : f[i] \in Nat /\ f[i] = Part(list[i], a, role)
      /\ Listed(list, a, role) = SumFunctionOnSet(f, 1..n)
  BY AmountsAt, AmountsNat
<1>3. \A i : left(i) = SumFunctionOnSet(f, (i + 1)..n)
  BY DEF Left
<1> HIDE DEF f, n, left
<1>4. ASSUME NEW i \in 0..n
      PROVE  IsFiniteSet((i + 1)..n) /\ \A j \in (i + 1)..n : f[j] \in Nat
  <2>1. i + 1 \in Int /\ n \in Int /\ \A j \in (i + 1)..n : j \in 1..n
    <3>1. n \in Nat /\ i \in 0..n
      BY <1>1
    <3> QED
      BY ONLY <3>1
  <2>2. IsFiniteSet((i + 1)..n)
    BY ONLY <2>1, FS_Interval
  <2> QED
    BY <1>2, <2>1, <2>2
<1>5. \A i \in 0..n : left(i) \in Nat
  BY <1>3, <1>4, SumNat
<1>6. ASSUME NEW i \in 1..n
      PROVE  left(i - 1) = Part(list[i], a, role) + left(i) /\ Part(list[i], a, role) <= left(i - 1)
  <2>1. /\ i - 1 \in 0..n /\ (i - 1) + 1 = i /\ i \in i..n /\ (i..n) \ {i} = (i + 1)..n
        /\ i \in 0..n
    <3>1. n \in Nat /\ i \in 1..n
      BY <1>1
    <3> QED
      BY ONLY <3>1
  <2>2. IsFiniteSet(i..n) /\ IntOn(f, i..n)
    BY <1>4, <2>1 DEF IntOn
  <2>3. SumFunctionOnSet(f, i..n) = f[i] + SumFunctionOnSet(f, (i..n) \ {i})
    BY <2>1, <2>2, SumRemove
  <2>4. left(i - 1) = Part(list[i], a, role) + left(i)
    BY <1>2, <1>3, <2>1, <2>3
  <2>5. left(i) \in Nat /\ left(i - 1) \in Nat /\ Part(list[i], a, role) \in Nat
    BY <1>2, <1>5, <2>1
  <2> QED
    BY <2>4, <2>5
<1>7. left(n) = 0
  <2>1. (n + 1)..n = {}
    BY <1>1
  <2> QED
    BY <1>3, <2>1, SumEmpty
<1>8. left(0) = Listed(list, a, role)
  <2>1. 0 + 1 = 1
    OBVIOUS
  <2> QED
    BY <1>2, <1>3, <2>1
<1> QED
  BY <1>5, <1>6, <1>7, <1>8 DEF left, n

LEMMA TradingInt ==
  ASSUME NEW R \in [Accounts -> Resources], NEW a \in Accounts, NEW role
  PROVE  Trading(R, a, role) \in Nat
  BY ResourcesAt DEF Trading

\* What UpdateByP adds to the trading of an account is what it returns.
LEMMA LoopReserves ==
  ASSUME Now \in Carried, NEW txs \in Seq(TxTest), NEW a \in Accounts, NEW role \in Roles
  PROVE  LET w == Loop("UpdateByP", txs)
         IN  Trading(w.res, a, role) = Trading(res, a, role) + Listed(w.list, a, role)
<1>1. PICK v : Runs(v, "UpdateByP", txs) /\ Loop("UpdateByP", txs) = v[Len(txs)]
  BY LoopRuns DEF Methods
<1> DEFINE n == Len(txs)
           Adds(w) == Trading(w.res, a, role) = Trading(res, a, role) + Listed(w.list, a, role)
           T == {i \in 0..n : ~Adds(v[i])}
<1>2. n \in Nat /\ (\A i \in 1..n : txs[i] \in TxTest) /\ res \in [Accounts -> Resources]
  BY DEF Now, Carried
<1>3. T = {}
  <2> SUFFICES ASSUME T # {} PROVE FALSE
    OBVIOUS
  <2>1. PICK k \in T : \A j \in T : ~(j < k)
    <3>1. T \subseteq Nat
      OBVIOUS
    <3> HIDE DEF T
    <3> QED
      BY <3>1, LeastNumber
  <2>2. k # 0
    <3>1. v[0].res = res /\ v[0].list = << >>
      BY <1>1 DEF Runs, Now
    <3>2. Adds(v[0])
      BY <1>2, <3>1, ListedNone, TradingInt
    <3> QED
      BY <2>1, <3>2
  <2>3. k \in 1..n /\ k - 1 \in 0..n /\ k - 1 < k
    BY <1>2, <2>1, <2>2
  <2>4. Adds(v[k - 1])
    BY <2>1, <2>3
  <2> DEFINE w == v[k - 1]
             u == v[k]
             t == txs[k]
  <2>5. w \in Carried /\ t \in TxTest /\ u = Reserve(w, t)
    BY <1>1, <1>2, <2>3, HandleIs DEF Runs
  <2>6. ~Adds(u)
    BY <2>1
  <2> HIDE DEF w, u, t, T
  <2>7. \/ u.list = w.list /\ u.res = w.res
        \/ /\ u.list = Append(w.list, t)
           /\ Trading(u.res, a, role) = Trading(w.res, a, role) + Part(t, a, role)
    BY <2>5, ReserveStep
  <2>8. CASE u.list = w.list /\ u.res = w.res
    BY <2>4, <2>6, <2>8 DEF w
  <2>9. CASE /\ u.list = Append(w.list, t)
             /\ Trading(u.res, a, role) = Trading(w.res, a, role) + Part(t, a, role)
    <3>1. w.list \in Seq(TxTest) /\ w.res \in [Accounts -> Resources]
      BY <2>5 DEF Carried
    <3>2. Listed(u.list, a, role) = Listed(w.list, a, role) + Part(t, a, role)
      BY <2>5, <2>9, <3>1, ListedAppend
    <3>3. /\ Listed(w.list, a, role) \in Nat /\ Part(t, a, role) \in Nat
          /\ Trading(res, a, role) \in Nat
      BY <1>2, <2>5, <3>1, AmountsNat, PartNat, TradingInt
    <3>4. Trading(w.res, a, role) = Trading(res, a, role) + Listed(w.list, a, role)
      BY <2>4 DEF w
    <3>5. Trading(u.res, a, role) # Trading(res, a, role) + Listed(u.list, a, role)
      BY <2>6
    <3> QED
      BY ONLY <2>9, <3>2, <3>3, <3>4, <3>5
  <2> QED
    BY <2>7, <2>8, <2>9
<1>4. n \in 0..n
  BY <1>2
<1>5. Adds(v[n])
  BY <1>3, <1>4
<1> QED
  BY <1>1, <1>5

\* A list that is backed is settled, and nothing fails.
LEMMA LoopSettles ==
  ASSUME Now \in Carried, NEW txs \in Seq(TxTest),
         \A a \in Accounts, role \in Roles : Listed(txs, a, role) <= Trading(res, a, role)
  PROVE  LET w == Loop("UpdateStateP", txs)
         IN  /\ w.fail = txFail
             /\ \A a \in Accounts, role \in Roles :
                  Trading(w.res, a, role) = Trading(res, a, role) - Listed(txs, a, role)
<1>1. PICK v : Runs(v, "UpdateStateP", txs) /\ Loop("UpdateStateP", txs) = v[Len(txs)]
  BY LoopRuns DEF Methods
<1> DEFINE n == Len(txs)
           More(a, role) == Trading(res, a, role) - Listed(txs, a, role)
           Holds(i) == /\ v[i].fail = txFail
                       /\ \A a \in Accounts, role \in Roles :
                            Trading(v[i].res, a, role) = More(a, role) + Left(txs, a, role, i)
           T == {i \in 0..n : ~Holds(i)}
<1>2. n \in Nat /\ (\A i \in 1..n : txs[i] \in TxTest) /\ res \in [Accounts -> Resources]
  BY DEF Now, Carried
<1>3. ASSUME NEW a \in Accounts, NEW role \in Roles
      PROVE  /\ More(a, role) \in Nat
             /\ Trading(res, a, role) = More(a, role) + Left(txs, a, role, 0)
             /\ More(a, role) + Left(txs, a, role, n) = More(a, role)
  <2>1. /\ Trading(res, a, role) \in Nat /\ Listed(txs, a, role) \in Nat
        /\ Listed(txs, a, role) <= Trading(res, a, role)
    BY <1>2, AmountsNat, TradingInt
  <2>2. Left(txs, a, role, 0) = Listed(txs, a, role) /\ Left(txs, a, role, n) = 0
    BY LeftOfList
  <2> QED
    BY <2>1, <2>2
<1>4. T = {}
  <2> SUFFICES ASSUME T # {} PROVE FALSE
    OBVIOUS
  <2>1. PICK k \in T : \A j \in T : ~(j < k)
    <3>1. T \subseteq Nat
      OBVIOUS
    <3> HIDE DEF T
    <3> QED
      BY <3>1, LeastNumber
  <2>2. k # 0
    <3>1. v[0].res = res /\ v[0].fail = txFail
      BY <1>1 DEF Runs, Now
    <3>2. Holds(0)
      BY <1>3, <3>1
    <3> QED
      BY <2>1, <3>2
  <2>3. k \in 1..n /\ k - 1 \in 0..n /\ k - 1 < k
    BY <1>2, <2>1, <2>2
  <2>4. Holds(k - 1)
    BY <2>1, <2>3
  <2> DEFINE w == v[k - 1]
             u == v[k]
             t == txs[k]
  <2>5. w \in Carried /\ t \in TxTest /\ u = Settle(w, t)
    BY <1>1, <1>2, <2>3, HandleIs DEF Runs
  <2>6. ~Holds(k)
    BY <2>1
  <2>7. ASSUME NEW a \in Accounts, NEW role \in Roles
        PROVE  /\ Trading(w.res, a, role) >= Part(t, a, role)
               /\ Trading(w.res, a, role) - Part(t, a, role) = More(a, role) + Left(txs, a, role, k)
    <3>1. Trading(w.res, a, role) = More(a, role) + Left(txs, a, role, k - 1)
      BY <2>4
    <3>2. /\ Left(txs, a, role, k - 1) = Part(t, a, role) + Left(txs, a, role, k)
          /\ Part(t, a, role) <= Left(txs, a, role, k - 1)
          /\ Left(txs, a, role, k) \in Nat
      BY <2>3, LeftOfList
    <3>3. More(a, role) \in Nat /\ Part(t, a, role) \in Nat
      BY <1>3, <2>5, PartNat
    <3> QED
      BY ONLY <3>1, <3>2, <3>3
  <2>8. w.fail = txFail
    BY <2>4
  <2>9. ~(w.res[t.seller].tradingS < t.amount) /\ ~(w.res[t.buyer].tradingB < t.amount)
    <3>1. /\ t.seller \in Accounts /\ t.buyer \in Accounts /\ t.amount \in Nat
          /\ w.res \in [Accounts -> Resources]
      BY <2>5, TxTyped DEF Carried
    <3>2. /\ Trading(w.res, t.seller, "seller") >= Part(t, t.seller, "seller")
          /\ Trading(w.res, t.buyer, "buyer") >= Part(t, t.buyer, "buyer")
      BY <2>7, <3>1 DEF Roles
    <3>3. /\ Trading(w.res, t.seller, "seller") = w.res[t.seller].tradingS
          /\ Trading(w.res, t.buyer, "buyer") = w.res[t.buyer].tradingB
          /\ Part(t, t.seller, "seller") = t.amount /\ Part(t, t.buyer, "buyer") = t.amount
      BY DEF Trading, Part
    <3>4. w.res[t.seller].tradingS \in Nat /\ w.res[t.buyer].tradingB \in Nat
      BY <3>1, ResourcesAt
    <3> QED
      BY <3>1, <3>2, <3>3, <3>4
  <2>10. /\ u.fail = w.fail
         /\ \A a \in Accounts, role \in Roles :
              Trading(u.res, a, role) = Trading(w.res, a, role) - Part(t, a, role)
    <3> HIDE DEF w, u, t
    <3>1. w \in Carried /\ t \in TxTest /\ u = Settle(w, t)
      BY <2>5
    <3>2. ~(w.res[t.seller].tradingS < t.amount) /\ ~(w.res[t.buyer].tradingB < t.amount)
      BY <2>9
    <3> QED
      BY ONLY <3>1, <3>2, SettleStep
  <2>11. Holds(k)
    BY <2>7, <2>8, <2>10
  <2> QED
    BY <2>6, <2>11
<1>5. n \in 0..n
  BY <1>2
<1>6. Holds(n)
  BY <1>4, <1>5
<1> QED
  BY <1>1, <1>3, <1>6

\* UpdateState reserves nothing.
LEMMA LoopExecutes ==
  ASSUME Now \in Carried, NEW txs \in Seq(TxTest), NEW a \in Accounts, NEW role \in Roles
  PROVE  Trading(Loop("UpdateState", txs).res, a, role) = Trading(res, a, role)
<1>1. PICK v : Runs(v, "UpdateState", txs) /\ Loop("UpdateState", txs) = v[Len(txs)]
  BY LoopRuns DEF Methods
<1> DEFINE n == Len(txs)
           T == {i \in 0..n : Trading(v[i].res, a, role) # Trading(res, a, role)}
<1>2. n \in Nat /\ \A i \in 1..n : txs[i] \in TxTest
  OBVIOUS
<1>3. T = {}
  <2> SUFFICES ASSUME T # {} PROVE FALSE
    OBVIOUS
  <2>1. PICK k \in T : \A j \in T : ~(j < k)
    <3>1. T \subseteq Nat
      OBVIOUS
    <3> HIDE DEF T
    <3> QED
      BY <3>1, LeastNumber
  <2>2. k # 0
    BY <1>1, <2>1 DEF Runs, Now
  <2>3. k \in 1..n /\ k - 1 \in 0..n /\ k - 1 < k
    BY <1>2, <2>1, <2>2
  <2>4. Trading(v[k - 1].res, a, role) = Trading(res, a, role)
    BY <2>1, <2>3
  <2>5. v[k - 1] \in Carried /\ v[k] = Execute(v[k - 1], txs[k])
    BY <1>1, <2>3, HandleIs DEF Runs
  <2>6. Trading(v[k].res, a, role) = Trading(v[k - 1].res, a, role)
    <3> DEFINE w == v[k - 1]
               t == txs[k]
    <3>1. w \in Carried /\ t \in TxTest /\ v[k] = Execute(w, t)
      BY <1>2, <2>3, <2>5
    <3> HIDE DEF w, t
    <3>2. Trading(v[k].res, a, role) = Trading(w.res, a, role)
      BY ONLY <3>1, a \in Accounts, role \in Roles, ExecuteStep
    <3> QED
      BY <3>2 DEF w
  <2> QED
    BY <2>1, <2>4, <2>6
<1>4. n \in 0..n
  BY <1>2
<1> QED
  BY <1>1, <1>3, <1>4

----------------------------------------------------------------------------
(* All batches.                                                            *)

\* What UpdateByP returned, and in which call.
Settlements == [call : Nat, list : Seq(TxTest)]

DueIn(S, a, role) == SumFunctionOnSet([r \in S |-> Listed(r.list, a, role)], S)

LEMMA DueIs ==
  ASSUME NEW a, NEW role
  PROVE  Due(a, role) = DueIn(reserved, a, role)
  BY DEF Due, DueIn, Listed, SumFunction

LEMMA DueWithout ==
  ASSUME NEW S, IsFiniteSet(S), S \subseteq Settlements, NEW a, NEW role, NEW r \in S
  PROVE  /\ DueIn(S, a, role) = Listed(r.list, a, role) + DueIn(S \ {r}, a, role)
         /\ DueIn(S \ {r}, a, role) \in Nat /\ Listed(r.list, a, role) \in Nat
<1> DEFINE f == [q \in S |-> Listed(q.list, a, role)]
           R == S \ {r}
           g == [q \in R |-> Listed(q.list, a, role)]
<1>1. \A q \in S : q.list \in Seq(TxTest)
  BY DEF Settlements
<1>2. \A q \in S : Listed(q.list, a, role) \in Nat
  BY <1>1, AmountsNat
<1>3. /\ \A q \in S : f[q] = Listed(q.list, a, role) /\ f[q] \in Nat
      /\ \A q \in R : g[q] = f[q]
      /\ \A q \in R : f[q] \in Nat /\ g[q] \in Nat
  BY <1>2
<1>4. IsFiniteSet(R)
  BY FS_Subset
<1>5. DueIn(S, a, role) = SumFunctionOnSet(f, S) /\ DueIn(R, a, role) = SumFunctionOnSet(g, R)
  BY DEF DueIn
<1> HIDE DEF f, g
<1>6. IntOn(f, S) /\ IntOn(f, R)
  BY <1>3 DEF IntOn
<1>7. SumFunctionOnSet(f, S) = f[r] + SumFunctionOnSet(f, R)
  BY <1>6, SumRemove
<1> HIDE DEF R
<1>8. SumFunctionOnSet(g, R) = SumFunctionOnSet(f, R)
  BY ONLY <1>3, <1>4, <1>6, SumSame
<1>9. SumFunctionOnSet(g, R) \in Nat
  BY ONLY <1>3, <1>4, SumNat
<1> QED
  BY <1>2, <1>3, <1>5, <1>7, <1>8, <1>9 DEF R

Backed == \A a \in Accounts, role \in Roles : Trading(res, a, role) = DueIn(reserved, a, role)

WorldInv ==
  /\ res \in [Accounts -> Resources]
  /\ txSuccess \in Nat /\ txFail \in Nat /\ calls \in Nat
  /\ IsFiniteSet(reserved) /\ reserved \subseteq Settlements
  /\ \A r \in reserved : r.call < calls
  /\ UnitsOf(res) = Devices * Cardinality(Accounts)
  /\ Backed

LEMMA NowCarried ==
  ASSUME WorldInv
  PROVE  Now \in Carried
<1>1. << >> \in Seq(TxTest)
  OBVIOUS
<1>2. res \in [Accounts -> Resources] /\ txSuccess \in Nat /\ txFail \in Nat
  BY DEF WorldInv
<1> QED
  BY <1>1, <1>2, CarriedIs, Zenon DEF Now

LEMMA BatchTyped ==
  ASSUME NEW txs \in Batches
  PROVE  txs \in Seq(TxTest)
  BY WorldAssumption DEF Batches, BoundedSeq, SeqOf

\* What is settled was backed.
LEMMA SettlementBacked ==
  ASSUME WorldInv, NEW r \in reserved
  PROVE  /\ r.list \in Seq(TxTest)
         /\ \A a \in Accounts, role \in Roles : Listed(r.list, a, role) <= Trading(res, a, role)
<1>1. r.list \in Seq(TxTest)
  BY DEF WorldInv, Settlements
<1>2. ASSUME NEW a \in Accounts, NEW role \in Roles
      PROVE  Listed(r.list, a, role) <= Trading(res, a, role)
  <2>1. /\ DueIn(reserved, a, role) = Listed(r.list, a, role) + DueIn(reserved \ {r}, a, role)
        /\ DueIn(reserved \ {r}, a, role) \in Nat /\ Listed(r.list, a, role) \in Nat
    BY DueWithout DEF WorldInv
  <2>2. Trading(res, a, role) = DueIn(reserved, a, role)
    BY DEF WorldInv, Backed
  <2> QED
    BY <2>1, <2>2
<1> QED
  BY <1>1, <1>2

\* A batch as far as resources and counters go.
LEMMA BecomesTyped ==
  ASSUME WorldInv, NEW w \in Carried, UnitsOf(w.res) = UnitsOf(res), Becomes(w)
  PROVE  /\ res' = w.res /\ res' \in [Accounts -> Resources]
         /\ txSuccess' \in Nat /\ txFail' \in Nat
         /\ UnitsOf(res') = Devices * Cardinality(Accounts)
<1>1. res' = w.res /\ txSuccess' = w.success /\ txFail' = w.fail
  BY DEF Becomes
<1>2. w.res \in [Accounts -> Resources] /\ w.success \in Nat /\ w.fail \in Nat
  BY DEF Carried
<1>3. UnitsOf(w.res) = Devices * Cardinality(Accounts)
  BY DEF WorldInv
<1> QED
  BY <1>1, <1>2, <1>3

LEMMA UpdateByPKeeps ==
  ASSUME WorldInv, NEW txs \in Batches, UpdateByP(txs)
  PROVE  WorldInv'
<1> DEFINE w == Loop("UpdateByP", txs)
           r == [call |-> calls, list |-> w.list]
<1>1. txs \in Seq(TxTest) /\ Now \in Carried /\ "UpdateByP" \in Methods
  BY BatchTyped, NowCarried DEF Methods
<1>2. w \in Carried /\ UnitsOf(w.res) = UnitsOf(res)
  BY <1>1, UnitsThroughLoop
<1>3. calls' = calls + 1 /\ Becomes(w) /\ reserved' = reserved \cup {r}
  BY DEF UpdateByP
<1>4. ASSUME NEW a \in Accounts, NEW role \in Roles
      PROVE  Trading(w.res, a, role) = Trading(res, a, role) + Listed(w.list, a, role)
  BY <1>1, LoopReserves
<1>5. r \in Settlements /\ r.call = calls /\ r.list = w.list
  <2>1. w.list \in Seq(TxTest) /\ calls \in Nat
    BY <1>2 DEF WorldInv, Carried
  <2> QED
    BY <2>1 DEF Settlements
<1> HIDE DEF w, r
<1>6. /\ res' = w.res /\ res' \in [Accounts -> Resources] /\ txSuccess' \in Nat /\ txFail' \in Nat
      /\ UnitsOf(res') = Devices * Cardinality(Accounts)
  BY <1>2, <1>3, BecomesTyped
<1>7. /\ r \notin reserved /\ IsFiniteSet(reserved') /\ reserved' \subseteq Settlements
      /\ r \in reserved' /\ reserved' \ {r} = reserved
  <2>1. calls \in Nat /\ \A q \in reserved : q.call < calls
    BY DEF WorldInv
  <2>2. r \notin reserved
    BY <1>5, <2>1
  <2>3. IsFiniteSet(reserved')
    BY <1>3, FS_AddElement DEF WorldInv
  <2> QED
    BY <1>3, <1>5, <2>2, <2>3 DEF WorldInv
<1>8. calls' \in Nat /\ \A q \in reserved' : q.call < calls'
  <2>1. calls \in Nat /\ \A q \in reserved : q.call \in Nat /\ q.call < calls
    BY DEF WorldInv, Settlements
  <2> QED
    BY <1>3, <1>5, <2>1
<1>9. ASSUME NEW a \in Accounts, NEW role \in Roles
      PROVE  Trading(res', a, role) = DueIn(reserved', a, role)
  <2>1. /\ DueIn(reserved', a, role) = Listed(r.list, a, role) + DueIn(reserved, a, role)
        /\ DueIn(reserved, a, role) \in Nat /\ Listed(r.list, a, role) \in Nat
    <3> DEFINE S == reserved'
    <3>1. IsFiniteSet(S) /\ S \subseteq Settlements /\ r \in S /\ S \ {r} = reserved
      BY <1>7
    <3> HIDE DEF S
    <3>2. /\ DueIn(S, a, role) = Listed(r.list, a, role) + DueIn(S \ {r}, a, role)
          /\ DueIn(S \ {r}, a, role) \in Nat /\ Listed(r.list, a, role) \in Nat
      BY <3>1, DueWithout
    <3> QED
      BY <3>1, <3>2 DEF S
  <2>2. Trading(res, a, role) = DueIn(reserved, a, role)
    BY DEF WorldInv, Backed
  <2>3. Trading(res', a, role) = Trading(res, a, role) + Listed(r.list, a, role)
    BY <1>4, <1>5, <1>6
  <2> QED
    BY <2>1, <2>2, <2>3
<1> QED
  BY <1>6, <1>7, <1>8, <1>9 DEF WorldInv, Backed

LEMMA UpdateStatePKeeps ==
  ASSUME WorldInv, NEW r \in reserved, UpdateStateP(r)
  PROVE  WorldInv' /\ txFail' = txFail
<1> DEFINE w == Loop("UpdateStateP", r.list)
           S == reserved \ {r}
<1>1. Now \in Carried /\ "UpdateStateP" \in Methods
  BY NowCarried DEF Methods
<1>2. /\ r.list \in Seq(TxTest)
      /\ \A a \in Accounts, role \in Roles : Listed(r.list, a, role) <= Trading(res, a, role)
  BY SettlementBacked
<1>3. w \in Carried /\ UnitsOf(w.res) = UnitsOf(res)
  BY <1>1, <1>2, UnitsThroughLoop
<1>4. /\ w.fail = txFail
      /\ \A a \in Accounts, role \in Roles :
           Trading(w.res, a, role) = Trading(res, a, role) - Listed(r.list, a, role)
  BY <1>1, <1>2, LoopSettles
<1>5. Becomes(w) /\ reserved' = S /\ calls' = calls
  BY DEF UpdateStateP
<1> HIDE DEF w
<1>6. /\ res' = w.res /\ res' \in [Accounts -> Resources] /\ txSuccess' \in Nat /\ txFail' \in Nat
      /\ UnitsOf(res') = Devices * Cardinality(Accounts)
  BY <1>3, <1>5, BecomesTyped
<1>7. txFail' = txFail
  BY <1>4, <1>5 DEF Becomes
<1>8. /\ IsFiniteSet(S) /\ S \subseteq Settlements /\ calls \in Nat
      /\ \A q \in S : q.call < calls
  BY FS_Subset DEF WorldInv
<1>9. ASSUME NEW a \in Accounts, NEW role \in Roles
      PROVE  Trading(res', a, role) = DueIn(S, a, role)
  <2>1. /\ DueIn(reserved, a, role) = Listed(r.list, a, role) + DueIn(S, a, role)
        /\ DueIn(S, a, role) \in Nat /\ Listed(r.list, a, role) \in Nat
    BY DueWithout DEF WorldInv
  <2>2. Trading(res, a, role) = DueIn(reserved, a, role)
    BY DEF WorldInv, Backed
  <2>3. Trading(res', a, role) = Trading(res, a, role) - Listed(r.list, a, role)
    BY <1>4, <1>6
  <2> QED
    BY <2>1, <2>2, <2>3
<1> HIDE DEF S
<1> QED
  BY <1>5, <1>6, <1>7, <1>8, <1>9 DEF WorldInv, Backed

LEMMA UpdateStateKeeps ==
  ASSUME WorldInv, NEW txs \in Batches, UpdateState(txs)
  PROVE  WorldInv'
<1> DEFINE w == Loop("UpdateState", txs)
<1>1. txs \in Seq(TxTest) /\ Now \in Carried /\ "UpdateState" \in Methods
  BY BatchTyped, NowCarried DEF Methods
<1>2. w \in Carried /\ UnitsOf(w.res) = UnitsOf(res)
  BY <1>1, UnitsThroughLoop
<1>3. calls' = calls + 1 /\ Becomes(w) /\ reserved' = reserved
  BY DEF UpdateState
<1>4. \A a \in Accounts, role \in Roles : Trading(w.res, a, role) = Trading(res, a, role)
  BY <1>1, LoopExecutes
<1> HIDE DEF w
<1>5. /\ res' = w.res /\ res' \in [Accounts -> Resources] /\ txSuccess' \in Nat /\ txFail' \in Nat
      /\ UnitsOf(res') = Devices * Cardinality(Accounts)
  BY <1>2, <1>3, BecomesTyped
<1>6. /\ IsFiniteSet(reserved) /\ reserved \subseteq Settlements /\ calls' \in Nat
      /\ \A q \in reserved : q.call < calls'
  <2>1. calls \in Nat /\ \A q \in reserved : q.call \in Nat /\ q.call < calls
    BY DEF WorldInv, Settlements
  <2> QED
    BY <1>3, <2>1 DEF WorldInv
<1>7. \A a \in Accounts, role \in Roles : Trading(res', a, role) = DueIn(reserved, a, role)
  BY <1>4, <1>5 DEF WorldInv, Backed
<1> QED
  BY <1>3, <1>5, <1>6, <1>7 DEF WorldInv, Backed

LEMMA UpdateResKeeps ==
  ASSUME WorldInv, UpdateRes
  PROVE  WorldInv'
<1> DEFINE Q == [a \in Accounts |-> Offered(res[a])]
<1>1. res' = Q /\ UNCHANGED <<reserved, txSuccess, txFail, calls>>
  BY DEF UpdateRes
<1>2. res \in [Accounts -> Resources] /\ Keep \in Nat
  BY WorldAssumption DEF WorldInv
<1>3. ASSUME NEW q \in Resources
      PROVE  /\ Offered(q) \in Resources
             /\ Offered(q).idle + Offered(q).sell + Offered(q).tradingS = q.idle + q.sell + q.tradingS
             /\ Offered(q).tradingS = q.tradingS /\ Offered(q).tradingB = q.tradingB
  <2>1. CASE q.idle > Keep
    <3>1. PICK i, l, m, k : q = [idle |-> i, sell |-> l, tradingS |-> m, tradingB |-> k]
      BY DEF Resources
    <3>2. i \in Nat /\ l \in Nat /\ m \in Nat /\ k \in Nat /\ i > Keep
      BY <2>1, <3>1 DEF Resources
    <3>3. Offered(q) = [idle |-> Keep, sell |-> l + i - Keep, tradingS |-> m, tradingB |-> k]
      BY ONLY <3>1, <3>2 DEF Offered
    <3>4. l + i - Keep \in Nat /\ Keep + (l + i - Keep) + m = i + l + m
      BY <1>2, <3>2
    <3>5. Offered(q) \in Resources
      <4> DEFINE y == l + i - Keep
      <4>1. y \in Nat /\ Keep \in Nat /\ m \in Nat /\ k \in Nat
        BY <1>2, <3>2, <3>4
      <4>2. Offered(q) = [idle |-> Keep, sell |-> y, tradingS |-> m, tradingB |-> k]
        BY <3>3
      <4> HIDE DEF y
      <4> QED
        BY ONLY <4>1, <4>2 DEF Resources
    <3> QED
      BY <3>1, <3>3, <3>4, <3>5
  <2>2. CASE ~(q.idle > Keep)
    BY <2>2 DEF Offered
  <2> QED
    BY <2>1, <2>2
<1>4. Q \in [Accounts -> Resources] /\ \A a \in Accounts : Q[a] = Offered(res[a]) /\ res[a] \in Resources
  BY <1>2, <1>3
<1> HIDE DEF Q
<1>5. \A a \in Accounts : UnitsIn(Q)[a] = UnitsIn(res)[a]
  BY <1>3, <1>4, UnitsAt
<1>6. UnitsOf(Q) = UnitsOf(res)
  BY <1>2, <1>4, <1>5, UnitsStay
<1>7. \A a \in Accounts, role \in Roles : Trading(Q, a, role) = Trading(res, a, role)
  BY <1>3, <1>4 DEF Trading
<1> QED
  BY <1>1, <1>4, <1>6, <1>7 DEF WorldInv, Backed

LEMMA WorldNextKeeps ==
  ASSUME WorldInv, [WorldNext]_worldVars
  PROVE  WorldInv'
<1>1. CASE \E txs \in Batches : UpdateByP(txs)
  BY <1>1, UpdateByPKeeps
<1>2. CASE \E txs \in Batches : UpdateState(txs)
  BY <1>2, UpdateStateKeeps
<1>3. CASE \E r \in reserved : UpdateStateP(r)
  BY <1>3, UpdateStatePKeeps
<1>4. CASE UpdateRes
  BY <1>4, UpdateResKeeps
<1>5. CASE UNCHANGED worldVars
  BY <1>5 DEF worldVars, WorldInv, Backed
<1> QED
  BY <1>1, <1>2, <1>3, <1>4, <1>5 DEF WorldNext

LEMMA WorldInvInit == WorldInit => WorldInv
<1> SUFFICES ASSUME WorldInit PROVE WorldInv
  OBVIOUS
<1>1. /\ IsFiniteSet(Accounts) /\ Keep \in Nat /\ Devices \in Nat /\ Devices - Keep \in Nat
      /\ Keep + (Devices - Keep) + 0 = Devices
  BY WorldAssumption
<1>2. res \in [Accounts -> Resources]
  BY <1>1 DEF WorldInit, Resources
<1>3. \A a \in Accounts : UnitsIn(res)[a] = Devices
  <2>1. \A a \in Accounts :
          res[a].idle = Keep /\ res[a].sell = Devices - Keep /\ res[a].tradingS = 0
    BY DEF WorldInit
  <2> QED
    BY <1>1, <2>1, UnitsAt
<1>4. UnitsOf(res) = Devices * Cardinality(Accounts)
  BY <1>1, <1>3, SumConstant DEF UnitsOf
<1>5. reserved = {} /\ txSuccess = 0 /\ txFail = 0 /\ calls = 0
  BY DEF WorldInit
<1>6. ASSUME NEW a \in Accounts, NEW role \in Roles
      PROVE  Trading(res, a, role) = DueIn(reserved, a, role)
  <2>1. Trading(res, a, role) = 0
    BY DEF WorldInit, Trading
  <2> QED
    BY <1>5, <2>1, SumEmpty DEF DueIn
<1> QED
  BY <1>2, <1>4, <1>5, <1>6, FS_EmptySet DEF WorldInv, Backed

LEMMA WorldInvImplies == WorldInv => UnitsConserved /\ ReservationsBacked
<1> SUFFICES ASSUME WorldInv PROVE UnitsConserved /\ ReservationsBacked
  OBVIOUS
<1>1. UnitsConserved
  <2>1. SumFunction([a \in Accounts |-> Units(a)]) = UnitsOf(res)
    BY DEF SumFunction, UnitsOf, UnitsIn, Units
  <2>2. ASSUME NEW a \in Accounts, NEW k \in {"idle", "sell", "tradingS", "tradingB"}
        PROVE  res[a][k] >= 0
    <3>1. res[a].idle >= 0 /\ res[a].sell >= 0 /\ res[a].tradingS >= 0 /\ res[a].tradingB >= 0
      BY ResourcesAt DEF WorldInv
    <3> QED
      BY <3>1
  <2> QED
    BY <2>1, <2>2 DEF UnitsConserved, WorldInv
<1>2. ReservationsBacked
  <2>1. ASSUME NEW a \in Accounts
        PROVE  res[a].tradingS = Due(a, "seller") /\ res[a].tradingB = Due(a, "buyer")
    <3>1. /\ Trading(res, a, "seller") = DueIn(reserved, a, "seller")
          /\ Trading(res, a, "buyer") = DueIn(reserved, a, "buyer")
      BY DEF WorldInv, Backed, Roles
    <3>2. Trading(res, a, "seller") = res[a].tradingS /\ Trading(res, a, "buyer") = res[a].tradingB
      BY DEF Trading
    <3> QED
      BY <3>1, <3>2, DueIs
  <2> QED
    BY <2>1 DEF ReservationsBacked
<1> QED
  BY <1>1, <1>2

LEMMA WorldInvAlways == WorldSpec => []WorldInv
<1>1. WorldInv /\ [WorldNext]_worldVars => WorldInv'
  BY WorldNextKeeps
<1> QED
  BY <1>1, WorldInvInit, PTL DEF WorldSpec

\* Whatever batches are reserved, settled and executed in whatever order, and
\* whichever of their transactions fail, units are moved and none is made or
\* lost, and nobody has less than nothing (WorldStatus.go:282-384).
THEOREM UnitsAreConserved == WorldSpec => []UnitsConserved
  BY WorldInvAlways, WorldInvImplies, PTL

\* What an account has in trading is what the unsettled transactions of that
\* account amount to, as a seller and as a buyer (WorldStatus.go:292-356).
THEOREM ReservationsAreBacked == WorldSpec => []ReservationsBacked
  BY WorldInvAlways, WorldInvImplies, PTL

\* Settling what UpdateByP returned counts no failure: UpdateStateP never meets a
\* seller or a buyer with too little in trading (WorldStatus.go:323-356).
THEOREM SettlingNeverFails ==
  WorldSpec => [][\A r \in reserved : UpdateStateP(r) => txFail' = txFail]_worldVars
<1>1. WorldInv => \A r \in reserved : UpdateStateP(r) => txFail' = txFail
  BY UpdateStatePKeeps
<1> QED
  BY <1>1, WorldInvAlways, PTL

===============================================================================
