---------------------------- MODULE SqlSessionProofs ----------------------------
(***************************************************************************)
(* Proofs about SqlSession, for every set of operations and every number   *)
(* of statements: no operation leaves a transaction open, however many     *)
(* connections are lost; and transactions are atomic while none is.        *)
(***************************************************************************)
EXTENDS SqlSession, SequenceTheorems, TLAPS

(* While a transaction is open on the server the connection is up and a    *)
(* transaction is being executed; only those begin, commit or roll back.   *)
TxInv ==
    /\ inTx => mMysql = "open" /\ phase \in {"stmt", "commit", "rollback"}
    /\ inTx => op.kind # "plain"
    /\ ~inTx => pending = {}
    /\ phase \in {"begin", "commit", "rollback"} => op.kind # "plain"

(* The invariant holds initially and every step keeps it.                  *)
LEMMA TxInductive ==
    /\ Init => TxInv
    /\ TxInv /\ [Next]_vars => TxInv'
<1>1. Init => TxInv
  BY DEF Init, TxInv
<1>2. ASSUME TxInv, [Next]_vars PROVE TxInv'
  <2>. USE <1>2 DEF TxInv
  <2>1. CASE UNCHANGED vars
    BY <2>1 DEF vars, session
  <2>2. CASE ConnectionLost
    BY <2>2 DEF ConnectionLost, Lose
  <2>3. CASE StatementUnanswered
    BY <2>3 DEF StatementUnanswered, Lose
  <2>4. ASSUME NEW o \in Operations, StartOperation(o) PROVE TxInv'
    BY <2>4 DEF StartOperation, session
  <2>5. CASE BeginTransaction
    BY <2>5 DEF BeginTransaction, Return, session
  <2>6. CASE StatementDone
    BY <2>6 DEF StatementDone, Perform
  <2>7. CASE StatementRefused
    BY <2>7 DEF StatementRefused, StatementFailed, Return
  <2>8. CASE ExecuteAgain
    BY <2>8 DEF ExecuteAgain, StatementFailed, Return, AtStatement
  <2>9. CASE StatementWithoutConnection
    BY <2>9 DEF StatementWithoutConnection, StatementFailed, Return, AtStatement, session
  <2>10. CASE StatementsDone
    BY <2>10 DEF StatementsDone, Return, session
  <2>11. CASE CommitTransaction
    BY <2>11 DEF CommitTransaction, Return, Lose, session
  <2>12. CASE RollbackTransaction
    BY <2>12 DEF RollbackTransaction, Return
  <2>13. ASSUME NEW at \in {"begin", "commit", "rollback"}, CrashOnNull(at) PROVE TxInv'
    BY <2>13 DEF CrashOnNull, session
  <2>14. CASE Ping
    BY <2>14 DEF Ping, CanReconnect
  <2>15. CASE Crashed
    BY <2>15 DEF Crashed, vars, session
  <2>. QED
    BY <2>1, <2>2, <2>3, <2>4, <2>5, <2>6, <2>7, <2>8, <2>9, <2>10, <2>11, <2>12,
       <2>13, <2>14, <2>15 DEF Next, Step
<1>. QED BY <1>1, <1>2

(* Between two operations no transaction is open on the connection,        *)
(* whatever SqlTransaction::Execute and DirectTransaction ran into:        *)
(* refused statements, deadlocks, lost connections at any point, failed    *)
(* reconnections.                                                          *)
THEOREM NoTransactionLeft == Spec => []NoOpenTransaction
<1>1. TxInv => NoOpenTransaction
  BY DEF TxInv, NoOpenTransaction
<1>. QED BY <1>1, TxInductive, PTL DEF Spec

-----------------------------------------------------------------------------
(* The operations are sequences of statements, the empty one included.     *)
LEMMA OperationTypes ==
    \A o \in Operations \cup {NoOp} : Len(o.stmts) \in Nat
<1>1. ASSUME NEW o \in Operations PROVE Len(o.stmts) \in Nat
  <2>1. o \in [kind : {"plain", "trans", "direct"}, stmts : Seq({"text", "prepared"})]
    BY SessionAssumption
  <2>2. o.stmts \in Seq({"text", "prepared"})
    BY <2>1
  <2>. QED BY <2>2, LenProperties
<1>2. Len(NoOp.stmts) \in Nat
  BY DEF NoOp
<1>. QED BY <1>1, <1>2

(* Every step keeps the types.                                             *)
LEMMA TypeInductive == TypeOK /\ TxInv /\ [Next]_vars => TypeOK'
<1>. SUFFICES ASSUME TypeOK, TxInv, [Next]_vars PROVE TypeOK'
  OBVIOUS
<1>a. MaxLosses \in Nat
  BY SessionAssumption
<1>b. Len(op.stmts) \in Nat
  BY OperationTypes DEF TypeOK
<1>c. losses < MaxLosses /\ losses' = losses + 1 => losses' \in 0 .. MaxLosses
  BY <1>a DEF TypeOK
<1>d. ASSUME NEW S PROVE Permanently(S) => applied' \in [1 .. Len(op.stmts) -> Nat]
  <2>1. \A i \in 1 .. Len(op.stmts) : applied[i] + (IF i \in S THEN 1 ELSE 0) \in Nat
    BY DEF TypeOK, Stmts
  <2>. QED BY <2>1 DEF Permanently, Stmts
<1>. USE <1>a, <1>b DEF TypeOK, Stmts
<1>1. CASE UNCHANGED vars
  BY <1>1 DEF vars, session
<1>2. ASSUME NEW o \in Operations, StartOperation(o) PROVE TypeOK'
  BY <1>2, OperationTypes DEF StartOperation, session, TxInv
<1>3. ASSUME NEW at \in {"begin", "commit", "rollback"}, CrashOnNull(at) PROVE TypeOK'
  BY <1>3 DEF CrashOnNull, session
<1>4. CASE Crashed
  BY <1>4 DEF Crashed, vars, session
<1>5. CASE ConnectionLost
  BY <1>5, <1>c DEF ConnectionLost, Lose
<1>6. CASE StatementUnanswered
  BY <1>6, <1>c, <1>d DEF StatementUnanswered, Lose
<1>7. CASE BeginTransaction
  BY <1>7 DEF BeginTransaction, Return, session
<1>8. CASE StatementDone
  <2>1. pos' \in 1 .. Len(op.stmts) + 1 /\ op' = op
    BY <1>8 DEF StatementDone
  <2>2. applied' \in [1 .. Len(op.stmts) -> Nat] /\ pending' \subseteq 1 .. Len(op.stmts)
    BY <1>8, <1>d DEF StatementDone, Perform
  <2>. QED BY <1>8, <2>1, <2>2 DEF StatementDone
<1>9. CASE StatementRefused
  BY <1>9 DEF StatementRefused, StatementFailed, Return
<1>10. CASE ExecuteAgain
  BY <1>10, <1>c DEF ExecuteAgain, StatementFailed, Return, AtStatement
<1>11. CASE StatementWithoutConnection
  BY <1>11 DEF StatementWithoutConnection, StatementFailed, Return, AtStatement, session
<1>12. CASE StatementsDone
  BY <1>12 DEF StatementsDone, Return, session
<1>13. CASE CommitTransaction
  BY <1>13, <1>c, <1>d DEF CommitTransaction, Return, Lose, session
<1>14. CASE RollbackTransaction
  BY <1>14 DEF RollbackTransaction, Return
<1>15. CASE Ping
  BY <1>15 DEF Ping, CanReconnect
<1>. QED
  BY <1>1, <1>2, <1>3, <1>4, <1>5, <1>6, <1>7, <1>8, <1>9, <1>10, <1>11, <1>12, <1>13, <1>14, <1>15 DEF Next, Step

(* The variables keep their types.                                         *)
THEOREM SessionTypes == Spec => []TypeOK
<1>1. Init => TypeOK
  <2>. SUFFICES ASSUME Init PROVE TypeOK
    OBVIOUS
  <2>1. Len(op.stmts) = 0 /\ 1 .. Len(op.stmts) = {} /\ 1 \in 1 .. Len(op.stmts) + 1
    BY DEF Init, NoOp
  <2>2. <<>> \in [{} -> Nat]
    OBVIOUS
  <2>3. 0 \in 0 .. MaxLosses
    BY SessionAssumption
  <2>. QED BY <2>1, <2>2, <2>3 DEF Init, TypeOK, Stmts
<1>. QED BY <1>1, TypeInductive, TxInductive, PTL DEF Spec

-----------------------------------------------------------------------------
Untouched == \A i \in Stmts : applied[i] = 0

(* While no connection is lost: what a transaction has executed is pending *)
(* on the server, up to the statement before pos, and nothing of it is     *)
(* permanent before COMMIT.                                                *)
AtomicInv ==
    /\ mMysql = "open"
    /\ op.kind # "plain" =>
         /\ phase = "begin" => pos = 1 /\ Untouched
         /\ phase = "stmt" => inTx /\ pending = 1 .. pos - 1 /\ Untouched
         /\ phase = "commit" => inTx /\ pending = Stmts /\ Untouched
         /\ phase = "rollback" => Untouched
         /\ phase = "idle" => AllOrNothing

(* Every step that loses no connection keeps it.                           *)
LEMMA AtomicInductive ==
    /\ TypeOK /\ TxInv /\ (losses = 0 => AtomicInv) /\ [Next]_vars
    => (losses = 0 => AtomicInv)'
<1>. SUFFICES ASSUME TypeOK, TxInv, losses = 0 => AtomicInv, [Next]_vars, losses' = 0
              PROVE  AtomicInv'
  OBVIOUS
<1>0. losses \in Nat /\ (losses' = losses \/ losses' = losses + 1)
  <2>1. losses \in Nat
    BY SessionAssumption DEF TypeOK
  <2>2. losses' = losses \/ losses' = losses + 1
    BY DEF Next, Step, vars, session, ConnectionLost, Lose, StatementUnanswered,
           StartOperation, BeginTransaction, StatementDone, StatementRefused,
           ExecuteAgain, StatementWithoutConnection, StatementsDone,
           CommitTransaction, RollbackTransaction, CrashOnNull, Ping, Crashed
  <2>. QED BY <2>1, <2>2
<1>a. losses = 0 /\ losses' # losses + 1
  BY <1>0
<1>. AtomicInv
  BY <1>a
<1>b. Len(op.stmts) \in Nat /\ pos \in 1 .. Len(op.stmts) + 1
  BY OperationTypes DEF TypeOK
<1>c. mMysql = "open"
  BY DEF AtomicInv
<1>. USE <1>c DEF AtomicInv, Untouched, AllOrNothing, Stmts
<1>1. CASE UNCHANGED vars
  BY <1>1 DEF vars, session
<1>2. ASSUME NEW o \in Operations, StartOperation(o) PROVE AtomicInv'
  BY <1>2 DEF StartOperation, session
<1>3. CASE ConnectionLost \/ StatementUnanswered
  BY <1>3, <1>a DEF ConnectionLost, StatementUnanswered, Lose
<1>4. CASE BeginTransaction
  <2>1. /\ inTx' = TRUE /\ pending' = {} /\ phase' = "stmt"
        /\ mMysql' = "open" /\ op' = op /\ pos' = pos /\ applied' = applied
    BY <1>4 DEF BeginTransaction
  <2>2. op.kind # "plain" => pos' = 1 /\ \A i \in 1 .. Len(op'.stmts) : applied'[i] = 0
    BY <1>4, <2>1 DEF BeginTransaction
  <2>3. op.kind # "plain" => pending' = 1 .. pos' - 1
    BY <2>1, <2>2
  <2>. QED BY <2>1, <2>2, <2>3
<1>5. CASE StatementDone
  <2>1. op.kind # "plain" =>
          /\ pending' = 1 .. pos' - 1 /\ applied' = applied /\ inTx' = inTx /\ phase' = "stmt"
    <3>1. (1 .. pos - 1) \cup {pos} = 1 .. (pos + 1) - 1
      BY <1>b
    <3>. QED BY <1>5, <3>1 DEF StatementDone, Perform
  <2>. QED BY <1>5, <2>1 DEF StatementDone
<1>6. CASE StatementRefused
  BY <1>6 DEF StatementRefused, StatementFailed, Return
<1>7. CASE ExecuteAgain \/ StatementWithoutConnection \/ Ping
  BY <1>7 DEF ExecuteAgain, StatementWithoutConnection, Ping, CanReconnect
<1>8. CASE StatementsDone
  <2>1. op.kind # "plain" => pending = 1 .. Len(op.stmts)
    BY <1>8, <1>b DEF StatementsDone
  <2>. QED BY <1>8, <2>1 DEF StatementsDone, Return, session
<1>9. CASE CommitTransaction
  <2>1. mMysql' = "open" /\ phase' = "idle" /\ op' = op /\ Permanently(pending)
    BY <1>9, <1>a DEF CommitTransaction, Lose, Return
  <2>2. op.kind # "plain" => \A i \in Stmts : applied'[i] = 1
    BY <1>9, <2>1 DEF CommitTransaction, Permanently
  <2>. QED BY <2>1, <2>2
<1>10. CASE RollbackTransaction
  BY <1>10 DEF RollbackTransaction, Return
<1>11. ASSUME NEW at \in {"begin", "commit", "rollback"}, CrashOnNull(at) PROVE AtomicInv'
  BY <1>11 DEF CrashOnNull
<1>12. CASE Crashed
  BY <1>12 DEF Crashed, vars, session
<1>. QED
  BY <1>1, <1>2, <1>3, <1>4, <1>5, <1>6, <1>7, <1>8, <1>9, <1>10, <1>11, <1>12
  DEF Next, Step

(* As long as no connection is lost, a transaction of any length is        *)
(* permanent as a whole or not at all, and as a whole when Execute or      *)
(* DirectTransaction returned true, whichever statement is refused or      *)
(* loses a deadlock.                                                       *)
THEOREM TransactionsAreAtomic == Spec => []AtomicUntilLoss
<1>1. Init => AtomicInv
  BY DEF Init, AtomicInv, NoOp
<1>2. AtomicInv => AllOrNothing
  BY DEF AtomicInv, AllOrNothing
<1>3. Spec => []TypeOK
  BY SessionTypes
<1>4. Spec => [](losses = 0 => AtomicInv)
  BY <1>1, <1>3, TxInductive, AtomicInductive, PTL DEF Spec
<1>5. (losses = 0 => AtomicInv) => AtomicUntilLoss
  BY <1>2 DEF AtomicUntilLoss
<1>. QED BY <1>4, <1>5, PTL
=============================================================================
