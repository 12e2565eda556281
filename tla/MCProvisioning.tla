--------------------------- MODULE MCProvisioning ---------------------------
(* Two starts that do not fit on one light instance together, and a group of *)
(* a light and a heavy instance.                                            *)
EXTENDS Provisioning

CONSTANTS s1, s2, i1, i2

MCStarts == {s1, s2}
MCDemand == [s \in Starts |-> IF s = s1 THEN [cpu |-> 1, memory |-> 2] ELSE [cpu |-> 2, memory |-> 1]]
MCFirstHost == [s \in Starts |-> IF s = s2 THEN i1 ELSE Nowhere]
MCInstances == {i1, i2}
MCWeight == [i \in Instances |-> IF i = i1 THEN 1 ELSE 2]
MCInstanceResources == [cpu |-> 2, memory |-> 2]
=============================================================================
