--------------------------- MODULE MCConfirmation ---------------------------
(* Instances of Confirmation for TLC. *)
EXTENDS Confirmation, TLC

CallSymmetry == Permutations(Calls)

\* An account nothing changes in.
OneView == {[price |-> 500000, preview |-> "at 0.50"]}

\* Views of one bid: the preview carries the price to 4 digits.
OfferViews == {[price |-> 2000, preview |-> "at 0.0020"],
               [price |-> 2040, preview |-> "at 0.0020"],
               [price |-> 9000, preview |-> "at 0.0090"]}

\* verify on its own, as state_test.go calls it, with prices that do and do not
\* show: 2000 and 2040 are the same to four digits, 9000 is beyond the
\* tolerance.
LooseViews == {[price |-> 2000, preview |-> "P"],
               [price |-> 2040, preview |-> "P"],
               [price |-> 9000, preview |-> "P"],
               [price |-> 2000, preview |-> "Q"]}

Eliciting == {[elicits |-> TRUE, confirm |-> TRUE]}
AnyClient == {[elicits |-> TRUE, confirm |-> TRUE],
              [elicits |-> FALSE, confirm |-> TRUE],
              [elicits |-> FALSE, confirm |-> FALSE]}
=============================================================================
