----------------------------- MODULE MCSqlSession -----------------------------
(* Small instances of SqlSession for TLC.                                  *)
EXTENDS SqlSession

Forms == {"text", "prepared"}
Transaction(s) == [kind |-> "trans", stmts |-> s]

AllOperations ==
    {[kind |-> "plain", stmts |-> <<a>>] : a \in Forms}
    \cup {[kind |-> k, stmts |-> <<a, b, c>>] :
             k \in {"trans", "direct"}, a \in Forms, b \in Forms, c \in Forms}
=============================================================================
