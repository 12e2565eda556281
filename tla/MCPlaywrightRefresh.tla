-------------------------- MODULE MCPlaywrightRefresh --------------------------
(* Two refreshes: one changes the browser, the other its arguments. *)
EXTENDS PlaywrightRefresh

CONSTANTS r1, r2, browserName, args

MCRequests == {r1, r2}
MCSettings == {browserName, args}
MCChanges == [r \in Requests |-> IF r = r1 THEN {browserName} ELSE {args}]
=============================================================================
