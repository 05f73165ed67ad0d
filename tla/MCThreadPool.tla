----------------------------- MODULE MCThreadPool -----------------------------
(* Small instances of ThreadPool for TLC.                                  *)
EXTENDS ThreadPool

AllClearModes == {"NEVER", "UPPON_COMPLETION", "AT_NEXT_WORKLOAD"}
\* the modes in which a workload survives a task that throws, and NONE
SurvivingErrorModes == {"NONE", "IGNORE", "LOG"}
AllErrorModes == SurvivingErrorModes \cup {"TERMINATE"}
BothQueues == {"SingleQueue", "MultiQueue"}
=============================================================================
