------------------------------ MODULE MCSqlDelay ------------------------------
(* Small instances of SqlDelay for TLC.                                    *)
EXTENDS SqlDelay

Save(s) == [kind |-> "trans", serial |-> s, cb |-> "none"]
Login(s) == [kind |-> "holder", serial |-> s, cb |-> "unsafe"]
Query(cb) == [kind |-> "query", serial |-> 0, cb |-> cb]

(* Saves of two characters whose serial ids go to different threads, a     *)
(* login of one, operations without a serial id, callbacks of each kind.   *)
AllShapes ==
    {Save(1), Save(2), Save(0), Login(1), Query("safe"),
     [kind |-> "plain", serial |-> 0, cb |-> "op"]}

UnsafeShapes == {Query("unsafe")}
=============================================================================
