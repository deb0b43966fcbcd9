------------------------------- MODULE Output -------------------------------
(***************************************************************************)
(* How long a tool result is: Truncate (internal/vast/client.go), capText  *)
(* and wrapUntrusted (internal/tools/guard.go), textResult (tools.go).     *)
(*                                                                         *)
(* A text is its length in bytes and the places where its characters       *)
(* begin; what it says, and the stripping of escapes and look-alikes that  *)
(* comes first, are left out.  Bytes that are no UTF-8 may go on for long  *)
(* without a beginning.                                                    *)
(***************************************************************************)
EXTENDS Integers, FiniteSets

CONSTANTS
    MaxOutput,  \* Config.maxOutput: what a result may have
    Preamble,   \* len(untrustedPreamble)
    Source      \* length of the name of where a text is from

\* A body is at most 8 MiB, and not a hundred times that as text.
MaxText == 10^9 - 1

Text == [len : 0..MaxText, starts : SUBSET Nat]

\* What the wrapper is allowed for: the preamble, the name, and 128 bytes.
Overhead == Preamble + Source + 128

\* The default of 96 KiB leaves room; nothing on the command line changes it.
ASSUME OutputAssumption ==
    /\ MaxOutput \in Nat /\ Preamble \in Nat /\ Source \in Nat
    /\ Overhead <= MaxOutput

\* "…" in UTF-8.
Ellipsis == 3

\* In decimal.
Digits(n) == 1 + Cardinality({d \in 1..9 : n >= 10^d})

\* "\n…[truncated %d bytes]"
Marker(n) == 1 + Ellipsis + 11 + Digits(n) + 7

\* Where Truncate may cut, and where it does: as late as it can.
Ends(t, n) == {k \in 0..n : k = 0 \/ k \in t.starts}
Cuts(t, n) == {k \in Ends(t, n) : \A j \in Ends(t, n) : j <= k}

\* A mistake: the ellipsis Truncate appends is taken for text.
KeptWithEllipsis(cut) == cut

Kept(cut) == cut - Ellipsis

\* capText: how many bytes of the text are there, how many the marker says
\* are not, and the length of it all.  (A set of one.)
CapText(t, max) ==
    IF t.len <= max THEN {[shown |-> t.len, said |-> 0, len |-> t.len]}
    ELSE {[shown |-> k,
           said  |-> t.len - Kept(k + Ellipsis),
           len   |-> k + Ellipsis + Marker(t.len - Kept(k + Ellipsis))] : k \in Cuts(t, max)}

\* A mistake: the payload is given all there is.
BudgetOfAll == MaxOutput

Budget == IF MaxOutput < Overhead THEN 0 ELSE MaxOutput - Overhead

\* The preamble, `<untrusted source="`, the name, `">`, the payload and
\* `</untrusted>`, with two line ends.
Wrapped(r) == [r EXCEPT !.len = Preamble + 19 + Source + 3 + @ + 13]

\* textResult of what is wrapped: if it is too long, it is cut again, and the
\* end of the wrapper goes first.
Closed(r) == r.len <= MaxOutput
=============================================================================
