---------------------------- MODULE MCGuardrails ----------------------------
(* Instances of Guardrails for TLC. *)
EXTENDS Guardrails, TLC

CallSymmetry == Permutations(Calls)

AnOp(tool, target, bid) == [tool |-> tool, target |-> target, bid |-> bid, valid |-> TRUE]

Broken(tool) == [tool |-> tool, target |-> 1, bid |-> 0, valid |-> FALSE]

\* Prices are in units of which the cap is 10: an offer within it and one over
\* it; and the same with a storage price that cannot be read, or a minimum bid
\* above what is bid.
Cheap  == [total |-> 8, storage |-> 1, minBid |-> 3]
Dear   == [total |-> 12, storage |-> 6, minBid |-> 3]
Opaque == [Cheap EXCEPT !.storage = NoPrice]
Choosy == [Dear EXCEPT !.minBid = 5]

TwoListings == {Cheap, Dear}
OddListings == {Opaque, Choosy}

Creates == {AnOp("create", 1, 0)}

\* Stopped instances of another client, over the cap and within it.
Stopped(id, dph) == [id |-> id, dph |-> dph, running |-> FALSE, by |-> Other,
                     stray |-> FALSE]
NoInstances  == {}
TwoInstances == {Stopped(1, 12), Stopped(2, 8)}

\* What acts on those two, and a bid.
ConsentOps == {AnOp("destroy", 2, 0), AnOp("start", 1, 0), AnOp("start", 2, 0),
               AnOp("create", 1, 4)}

\* Every kind of handler, and arguments that fail the checks of two of them.
AllOps == {AnOp("create", 1, 0), AnOp("create", 1, 4), AnOp("destroy", 1, 0),
           AnOp("start", 1, 0), AnOp("stop", 1, 0), AnOp("execute", 1, 0),
           Broken("execute"), Broken("ssh")}
=============================================================================
