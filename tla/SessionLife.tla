---------------------------- MODULE SessionLife ----------------------------
(***************************************************************************)
(* What a session promises to everybody but its own starter: it is queued,  *)
(* served at most once, stopped for good, and forgotten; and its resource    *)
(* usage is reported at most once, when it can no longer be served.          *)
(***************************************************************************)
EXTENDS Naturals

VARIABLES record,  \* what the session's record says
          open,    \* whether the starter may still publish a state
          usage    \* how often the usage has been reported

vars == <<record, open, usage>>

Init == record = "absent" /\ open = TRUE /\ usage = 0

Queue == /\ open /\ record = "absent"
         /\ record' = "queued" /\ UNCHANGED <<open, usage>>

\* The starter publishes its outcome ...
Publish(outcome) == /\ open
                    /\ record' = outcome /\ open' = FALSE /\ UNCHANGED usage

\* ... or dies, or its write is lost.
GiveUp == /\ open
          /\ open' = FALSE /\ UNCHANGED <<record, usage>>

\* A session that was served is stopped.  Someone who stopped it late may
\* bring the record of a forgotten session back, stopped.
Stop == /\ ~open /\ record \in {"served", "absent"}
        /\ record' = "stopped" /\ UNCHANGED <<open, usage>>

\* Only a queued or a stopped session can be forgotten.
Forget == /\ ~open /\ record \in {"queued", "stopped"}
          /\ record' = "absent" /\ UNCHANGED <<open, usage>>

Report == /\ ~open /\ record \in {"stopped", "absent"} /\ usage = 0
          /\ usage' = 1 /\ UNCHANGED <<record, open>>

Next == \/ Queue \/ GiveUp \/ Stop \/ Forget \/ Report
        \/ \E outcome \in {"served", "stopped"} : Publish(outcome)

Spec == Init /\ [][Next]_vars
=============================================================================
