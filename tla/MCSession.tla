----------------------------- MODULE MCSession -----------------------------
(* Two routers; the starter runs on the first, where the first request also *)
(* arrives, the second request arrives on the other.  Clients abort and      *)
(* finish generic sessions, and use and close the others.                    *)
EXTENDS Session

CONSTANTS r1, r2, t1, t2, q1, q2, Asked

MCRouters == {r1, r2}
MCRouterOf == [r \in Requests |-> IF r = q1 THEN r1 ELSE r2]
MCOpsOf == [k \in Kinds |-> Asked \cap (IF k = "generic" THEN GenericOps ELSE SessionOps)]

ASSUME RoutesAssumption == KindRoutes
=============================================================================
