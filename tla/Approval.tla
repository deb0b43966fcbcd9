------------------------------ MODULE Approval ------------------------------
(***************************************************************************)
(* What the confirmation flow promises, without clocks, keys, nonces or    *)
(* maps: an approval is asked for once, stays open until it is decided or  *)
(* withdrawn (it expires, or the process ends), and is decided at most     *)
(* once, by one call.                                                      *)
(***************************************************************************)
CONSTANTS
    Approvals,  \* the questions that can be put to the user
    Callers     \* the calls that can bring an answer

VARIABLES
    asked,      \* approvals ever asked for
    open,       \* approvals that may still be decided
    verdicts    \* what was decided, and on the word of which approval

avars == <<asked, open, verdicts>>

VerdictRecord == [call : Callers, approval : Approvals, yes : BOOLEAN]

AInit == asked = {} /\ open = {} /\ verdicts = {}

AskFor(a) ==
    /\ a \notin asked
    /\ asked' = asked \cup {a}
    /\ open' = open \cup {a}
    /\ UNCHANGED verdicts

DecideOn(c, a, yes) ==
    /\ a \in open
    /\ open' = open \ {a}
    /\ verdicts' = verdicts \cup {[call |-> c, approval |-> a, yes |-> yes]}
    /\ UNCHANGED asked

Withdraw(A) ==
    /\ open' = open \ A
    /\ UNCHANGED <<asked, verdicts>>

ANext ==
    \/ \E a \in Approvals : AskFor(a)
    \/ \E c \in Callers, a \in Approvals, yes \in BOOLEAN : DecideOn(c, a, yes)
    \/ \E A \in SUBSET open : Withdraw(A)

ASpec == AInit /\ [][ANext]_avars

\* An approval decides at most one call, and only if it was asked for.
OneShot ==
    /\ \A v \in verdicts : v.approval \in asked \ open
    /\ \A v, w \in verdicts : v.approval = w.approval => v = w
=============================================================================
