--------------------------- MODULE MCDeliveryLock ---------------------------
(* TLC instances of DeliveryLock: two processes of one host, and a third on *)
(* another host.                                                            *)
EXTENDS DeliveryLock, TLC

CONSTANTS a, b, c, p, q, r

\* one orchestrator per process
OneEach == [x \in Contender |-> IF x = a THEN p ELSE IF x = b THEN q ELSE r]
\* one of them may come back for a second acquisition
Uses == [x \in Contender |-> IF x = a THEN 2 ELSE 1]
Hosts == [x \in Process |-> IF x = r THEN "foreign" ELSE "local"]
=============================================================================
