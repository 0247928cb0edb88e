----------------------------- MODULE MCRpcClient -----------------------------
(* Two callers of one chunk and the caller of the other polling task share  *)
(* a limiter; a worker has its own.                                         *)
EXTENDS RpcClient
CONSTANTS c1, c2, c3, hist, work, polling, own

MCTaskOf == [c \in Caller |-> IF c \in {c1, c2} THEN hist ELSE work]
MCLimiterOf == [t \in Task |-> IF t = work THEN own ELSE polling]
=============================================================================
