---------------------------- MODULE ConfirmState ----------------------------
(***************************************************************************)
(* The data of a confirmation (internal/tools/state.go): prices, the two   *)
(* conversions a price goes through, and the signed state ("token") that   *)
(* carries one preview from the question to the answer.                    *)
(*                                                                         *)
(* Prices are natural numbers of micro-dollars per hour.  HMAC, base64 and *)
(* JSON are abstracted to what they buy: a token that verifies is one this *)
(* process signed, field for field; anything else is NoState.              *)
(***************************************************************************)
EXTENDS Integers

CONSTANTS
    Tools,      \* the mutating tools
    Args,       \* canonical argument objects, the `confirm` key removed
    Previews    \* preview texts

Dollar == 1000000

PriceMin(a, b) == IF a <= b THEN a ELSE b
PriceMax(a, b) == IF a >= b THEN a ELSE b

\* A mistake: 1% without the floor of $0.001.
ToleranceWithoutFloor(a, b) == PriceMin(5 * Dollar, PriceMax(a, b))

\* One hundred times the drift allowed between two prices: 1%, at least
\* $0.001/hr, at most $0.05/hr.
Tolerance100(a, b) ==
    PriceMin(5 * Dollar, PriceMax(Dollar \div 10, PriceMax(a, b)))

PriceMatches(a, b) ==
    /\ 100 * (a - b) <= Tolerance100(a, b)
    /\ 100 * (b - a) <= Tolerance100(a, b)

\* round4 of tools.go: to the nearest $0.0001.
Round4(p) == (p + 50) \div 100

\* What a token binds: hashArgs drops the confirm flag, so a request is a
\* tool and the remaining arguments.
Request == [tool : Tools, args : Args]

\* What the handler is about to act on, read from the account just before
\* the confirmation: the price and the preview text shown for it.
View == [price : Nat, preview : Previews]

\* A RequestState that is missing, or that this program never signed.
NoState == [gen |-> -1]

\* A preview text is a function of the view it was made from.  Create puts
\* the price in its preview, rounded to 4 digits; the other tools confirm at
\* price 0.
SamePreviewSamePrice(V) ==
    \A v, w \in V : v.preview = w.preview => Round4(v.price) = Round4(w.price)
=============================================================================
