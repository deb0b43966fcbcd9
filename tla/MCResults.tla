----------------------------- MODULE MCResults ------------------------------
(* Instances of VastClient and Results for TLC: one unit of time is half    *)
(* the first backoff, 250 ms.  The times from there up keep the code's      *)
(* order, first backoff < poll interval < longest Retry-After < polling     *)
(* time < timeout, not its ratios.                                          *)
EXTENDS Results

\* A Retry-After below the cap and one above it.
SomeHints == {1, 9}

\* Characters of three bytes, up to the budget of a wrapped text, 11, and past
\* the cap, 142; and bytes among which none begins, past the budget.
Of(width, len) == [len |-> len, starts |-> {k \in 0..len : k % width = 0}]
SomeTexts == {Of(3, 11), Of(3, 143), [len |-> 12, starts |-> {0}]}
=============================================================================
