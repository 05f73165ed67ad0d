------------------------------- MODULE SqlSession -------------------------------
(***************************************************************************)
(* One MySQLConnection and the operations that run on it, one at a time    *)
(* (SqlConnection::Lock): statements, SqlTransaction::Execute,             *)
(* Database::DirectTransaction and the ping of the delay thread            *)
(* (src/shared/Database/SqlOperations.cpp, Database.cpp, DatabaseMysql.cpp)*)
(* against a server that may refuse a statement and may lose the           *)
(* connection at any point, also between executing and answering.          *)
(*                                                                         *)
(* The server session is external: autocommit unless in a transaction; a   *)
(* session that ends takes its open transaction with it.                   *)
(***************************************************************************)
EXTENDS Naturals, Sequences

CONSTANTS Operations,  \* what may be run: kind and statements
          MaxLosses    \* bound: connections lost or not re-established

(* A statement is a text (Execute) or prepared (ExecuteStmt).              *)
ASSUME SessionAssumption ==
    /\ Operations \subseteq [kind : {"plain", "trans", "direct"},
                             stmts : Seq({"text", "prepared"})]
    /\ MaxLosses \in Nat
    /\ \A o \in Operations : o.kind = "plain" => Len(o.stmts) = 1

VARIABLES
    mMysql,   \* "open"; "lost": the server ended it; "null"
    inTx,     \* server: the session is in a transaction
    pending,  \* server: statements of the open transaction
    op, pos,  \* the operation and its next statement
    phase,    \* where it is
    applied,  \* server: how often each statement of op was made permanent
    value,    \* what the last operation returned
    losses

session == <<mMysql, inTx, pending, losses>>
vars == <<session, op, pos, phase, applied, value>>

NoOp == [kind |-> "plain", stmts |-> <<>>]
Stmts == 1 .. Len(op.stmts)

(* MySQLConnection::OpenConnection sets autocommit.                        *)
Init ==
    /\ mMysql = "open" /\ inTx = FALSE /\ pending = {} /\ losses = 0
    /\ op = NoOp /\ pos = 1 /\ phase = "idle" /\ applied = <<>> /\ value = TRUE

-----------------------------------------------------------------------------
(* The server.                                                             *)

(* The session ends; what was not committed is rolled back.                *)
Lose ==
    /\ losses < MaxLosses /\ losses' = losses + 1
    /\ mMysql' = "lost" /\ inTx' = FALSE /\ pending' = {}

(* It ends between two commands.                                           *)
ConnectionLost ==
    /\ mMysql = "open" /\ Lose
    /\ UNCHANGED <<op, pos, phase, applied, value>>

Permanently(S) == applied' = [i \in Stmts |-> applied[i] + (IF i \in S THEN 1 ELSE 0)]

(* The statement at pos is executed.                                       *)
Perform ==
    IF inTx THEN pending' = pending \cup {pos} /\ UNCHANGED applied
            ELSE Permanently({pos}) /\ UNCHANGED pending

-----------------------------------------------------------------------------
(* The client.                                                             *)

(* A delay thread or a caller of DirectTransaction takes the connection.   *)
StartOperation(o) ==
    /\ phase = "idle"
    /\ op' = o /\ pos' = 1
    /\ applied' = [i \in 1 .. Len(o.stmts) |-> 0]
    /\ phase' = IF o.kind = "plain" THEN "stmt" ELSE "begin"
    /\ UNCHANGED <<session, value>>

(* Execute returns.                                                        *)
Return(v) == phase' = "idle" /\ value' = v

(* _TransactionCmd: mysql_query without a look at mMysql, which is fatal   *)
(* for a null pointer, and without a second try.                           *)
CrashOnNull(at) ==
    /\ phase = at /\ mMysql = "null"
    /\ phase' = "crashed"
    /\ UNCHANGED <<session, op, pos, applied, value>>

(* BeginTransaction; DirectTransaction looks at the result,                *)
(* SqlTransaction::Execute does not.                                       *)
BeginTransaction ==
    /\ phase = "begin"
    /\ \/ /\ mMysql = "open" /\ inTx' = TRUE /\ pending' = {}
          /\ phase' = "stmt" /\ UNCHANGED <<mMysql, losses, value>>
       \/ /\ mMysql = "lost" /\ UNCHANGED session
          /\ IF op.kind = "direct" THEN Return(FALSE)
                                   ELSE phase' = "stmt" /\ UNCHANGED value
    /\ UNCHANGED <<op, pos, applied>>

\* Mutant: a failed statement ends the transaction without ROLLBACK.
FailedAtOnce == Return(FALSE)

(* A statement returned false.                                             *)
StatementFailed ==
    IF op.kind = "plain" THEN Return(FALSE)
                         ELSE phase' = "rollback" /\ UNCHANGED value

AtStatement(form) ==
    phase = "stmt" /\ pos \in Stmts /\ op.stmts[pos] = form

\* Mutant: the loop over m_queue advances twice.
StatementSkipped ==
    /\ phase = "stmt" /\ pos \in Stmts /\ mMysql = "open"
    /\ Perform /\ pos' = pos + 2
    /\ UNCHANGED <<mMysql, inTx, losses, op, phase, value>>

(* The server executed the statement and said so.                          *)
StatementDone ==
    /\ phase = "stmt" /\ pos \in Stmts /\ mMysql = "open"
    /\ Perform /\ pos' = pos + 1
    /\ UNCHANGED <<mMysql, inTx, losses, op, phase, value>>

\* Mutant: the result of the statement is not looked at.
RefusalIgnored ==
    /\ phase = "stmt" /\ pos \in Stmts /\ mMysql = "open"
    /\ \/ UNCHANGED <<inTx, pending>>
       \/ inTx /\ inTx' = FALSE /\ pending' = {}
    /\ pos' = pos + 1
    /\ UNCHANGED <<mMysql, losses, op, phase, value, applied>>

(* The server refused it (ER_DUP_ENTRY), or chose the transaction as the   *)
(* victim of a deadlock (ER_LOCK_DEADLOCK) and rolled it back.             *)
StatementRefused ==
    /\ phase = "stmt" /\ pos \in Stmts /\ mMysql = "open"
    /\ \/ UNCHANGED <<inTx, pending>>
       \/ inTx /\ inTx' = FALSE /\ pending' = {}
    /\ StatementFailed
    /\ UNCHANGED <<mMysql, losses, op, pos, applied>>

(* The connection is lost while the statement is on its way, before or     *)
(* after the server executed it.                                           *)
StatementUnanswered ==
    /\ phase = "stmt" /\ pos \in Stmts /\ mMysql = "open" /\ Lose
    /\ IF inTx THEN UNCHANGED applied
               ELSE UNCHANGED applied \/ Permanently({pos})
    /\ UNCHANGED <<op, pos, phase, value>>

(* HandleMySQLError for a lost connection: close, reconnect, and Execute   *)
(* tries the same statement again; or the reconnection failed.             *)
ExecuteAgain ==
    /\ AtStatement("text") /\ mMysql = "lost"
    /\ \/ mMysql' = "open" /\ UNCHANGED <<losses, phase, value>>
       \/ /\ losses < MaxLosses /\ losses' = losses + 1
          /\ mMysql' = "null" /\ StatementFailed
    /\ UNCHANGED <<inTx, pending, op, pos, applied>>

(* Execute without a connection; a prepared statement is not tried again.  *)
StatementWithoutConnection ==
    /\ \/ AtStatement("text") /\ mMysql = "null"
       \/ AtStatement("prepared") /\ mMysql \in {"lost", "null"}
    /\ StatementFailed
    /\ UNCHANGED <<session, op, pos, applied>>

(* All statements returned true.                                           *)
StatementsDone ==
    /\ phase = "stmt" /\ pos \notin Stmts
    /\ IF op.kind = "plain" THEN Return(TRUE) ELSE phase' = "commit" /\ UNCHANGED value
    /\ UNCHANGED <<session, op, pos, applied>>

(* CommitTransaction; DirectTransaction rolls back when it failed.         *)
CommitTransaction ==
    /\ phase = "commit"
    /\ \/ /\ mMysql = "open" /\ inTx' = FALSE /\ pending' = {}
          /\ Permanently(pending) /\ Return(TRUE) /\ UNCHANGED <<mMysql, losses>>
       \/ /\ mMysql = "open" /\ Lose
          /\ UNCHANGED applied \/ Permanently(pending)
          /\ IF op.kind = "direct" THEN phase' = "rollback" /\ UNCHANGED value
                                   ELSE Return(FALSE)
       \/ /\ mMysql = "lost" /\ UNCHANGED <<session, applied>>
          /\ IF op.kind = "direct" THEN phase' = "rollback" /\ UNCHANGED value
                                   ELSE Return(FALSE)
    /\ UNCHANGED <<op, pos>>

(* RollbackTransaction; the operation returns false, whatever it returned. *)
RollbackTransaction ==
    /\ phase = "rollback" /\ mMysql # "null"
    /\ IF mMysql = "open" THEN inTx' = FALSE /\ pending' = {}
                          ELSE UNCHANGED <<inTx, pending>>
    /\ Return(FALSE)
    /\ UNCHANGED <<mMysql, losses, op, pos, applied>>

\* Mutant: _Query gives up on a null connection, as Execute does.
MayReconnect(handle) == handle = "lost"

(* _Query reconnects a lost connection and one that is null.               *)
CanReconnect(handle) == handle \in {"lost", "null"}

(* The ping of SqlDelayThread::run, Query("SELECT 1").                     *)
Ping ==
    /\ phase = "idle" /\ CanReconnect(mMysql)
    /\ \/ mMysql' = "open" /\ UNCHANGED losses
       \/ losses < MaxLosses /\ losses' = losses + 1 /\ mMysql' = "null"
    /\ UNCHANGED <<inTx, pending, op, pos, phase, applied, value>>

Crashed == phase = "crashed" /\ UNCHANGED vars

-----------------------------------------------------------------------------
Step ==
    \/ BeginTransaction \/ StatementDone \/ StatementRefused \/ ExecuteAgain
    \/ StatementWithoutConnection \/ StatementsDone \/ CommitTransaction
    \/ RollbackTransaction
    \/ \E at \in {"begin", "commit", "rollback"} : CrashOnNull(at)

Next ==
    \/ ConnectionLost \/ StatementUnanswered
    \/ \E o \in Operations : StartOperation(o)
    \/ Step \/ Ping \/ Crashed

Spec == Init /\ [][Next]_vars

(* The thread goes on with its operation, and comes to its ping between    *)
(* two operations again and again.                                         *)
FairSpec == Spec /\ WF_vars(Step) /\ SF_vars(Ping)

-----------------------------------------------------------------------------
(* The types of the variables.                                             *)
TypeOK ==
    /\ mMysql \in {"open", "lost", "null"} /\ inTx \in BOOLEAN
    /\ op \in Operations \cup {NoOp}
    /\ pending \subseteq Stmts /\ pos \in 1 .. Len(op.stmts) + 1
    /\ phase \in {"idle", "begin", "stmt", "commit", "rollback", "crashed"}
    /\ applied \in [Stmts -> Nat] /\ value \in BOOLEAN
    /\ losses \in 0 .. MaxLosses

(* No operation leaves a transaction open on the connection, on any error  *)
(* path of SqlTransaction::Execute or DirectTransaction: the statements of *)
(* the next operation would silently become part of it.                    *)
NoOpenTransaction == phase = "idle" => ~inTx

(* A transaction is made permanent as a whole or not at all, and as a      *)
(* whole when Execute or DirectTransaction returned true.  It is not when  *)
(* START TRANSACTION fails on a lost connection, which Execute ignores:    *)
(* the statements then run in a new session, each permanent at once, and   *)
(* ROLLBACK after a refused one undoes nothing.                            *)
AllOrNothing ==
    phase = "idle" /\ op.kind \in {"trans", "direct"} =>
        /\ \A i, j \in Stmts : applied[i] = applied[j]
        /\ value => \A i \in Stmts : applied[i] = 1

(* As long as no connection was lost, whichever statements the server      *)
(* refuses: a lost one is what Execute cannot repair.                      *)
AtomicUntilLoss == losses = 0 => AllOrNothing

(* A connection that could not be re-established is not given up: the      *)
(* ping of the delay thread brings it back when the server does answer.    *)
Recovers == <>[](mMysql = "open" \/ phase = "crashed")
=============================================================================
