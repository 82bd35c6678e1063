-------------------------- MODULE MCPoolScheduler --------------------------
(* The certified latencies of native_pool_contracts.py, in units of 25 ms.   *)
EXTENDS PoolScheduler
CertifiedMax ==
  [callback \in Callbacks |->
     IF callback \in {"arm", "mark_dispatched", "finalize"} THEN 4
     ELSE IF callback = "check" THEN 8
     ELSE IF callback = "send_input" THEN 11 ELSE 10]
=============================================================================
