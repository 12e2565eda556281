---------------------------- MODULE TaskResources ----------------------------
(***************************************************************************)
(* How many CPU units and how much memory the containers of a task get.      *)
(* Sidecars have fixed resources; one or two containers (the browser or the   *)
(* executor, and mitm) are scaled between a minimum and what the request      *)
(* asks for, within the smallest instance type of the capacity provider.      *)
(* CPU and memory are computed alike, so every operator is about one of them. *)
(***************************************************************************)
EXTENDS Integers

Scaled == {"main", "mitm"}

Demand == [Scaled -> Int]

Total(amount) == amount["main"] + amount["mitm"]

CeilDiv(a, b) == (a + b - 1) \div b

\* A plausible bug: the whole memory of the instance is given away.
NoMemoryDeviation(memory) == 0

\* 2.8 % of the memory and 16 % of a gigabyte, rounded up: what the agent and
\* the operating system take of an instance with that many megabytes.
getMemoryDeviation(memory) == CeilDiv(28 * memory + 163840, 1000)

-----------------------------------------------------------------------------

\* What is asked for above the minimum; a demand below it is raised to it.
WantedRes(requested, minimum) ==
    [c \in Scaled |-> IF requested[c] > minimum[c] THEN requested[c] - minimum[c] ELSE 0]

\* The factor, in hundredths, that free is exceeded by, rounded up.
ExceedCoefficient(wanted, free) == CeilDiv(100 * wanted, free)

\* What is granted above the minimum: all of it when it fits, else every
\* container's part is divided by the factor and cut off to a whole number.  (The
\* code divides floating-point numbers: an exact quotient may come out one lower.)
Share(wanted, free) ==
    IF Total(wanted) <= free THEN wanted
    ELSE IF free = 0 THEN [c \in Scaled |-> 0]
    ELSE [c \in Scaled |-> (100 * wanted[c]) \div ExceedCoefficient(Total(wanted), free)]

\* The minimum of each container in turn fits in what the earlier ones leave.
MinimumFits(minimum, left) ==
    /\ left >= minimum["main"]
    /\ left - minimum["main"] >= minimum["mitm"]

\* calculateResources, once the minimum fits.
Granted(requested, minimum, left) ==
    LET share == Share(WantedRes(requested, minimum), left - Total(minimum))
    IN  [c \in Scaled |-> minimum[c] + share[c]]
=============================================================================
