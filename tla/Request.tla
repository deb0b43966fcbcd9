------------------------------ MODULE Request -------------------------------
(***************************************************************************)
(* What a request that changes the account comes to, without attempts,     *)
(* time and answers: it is made once, takes effect at most once, and may   *)
(* do so at any time after, whether or not anybody still waits for it.     *)
(* The calls of VastClient that are not retried implement this; the        *)
(* handlers of Guardrails make their requests through it.                  *)
(***************************************************************************)
EXTENDS Integers

CONSTANT Callers    \* those that make one request each

VARIABLES
    wire,       \* where each request is
    landed      \* how often it took effect

qvars == <<wire, landed>>

QInit ==
    /\ wire = [c \in Callers |-> "none"]
    /\ landed = [c \in Callers |-> 0]

Issue(c) ==
    /\ wire[c] = "none"
    /\ wire' = [wire EXCEPT ![c] = "sent"]
    /\ UNCHANGED landed

TakeEffect(c) ==
    /\ wire[c] = "sent"
    /\ wire' = [wire EXCEPT ![c] = "landed"]
    /\ landed' = [landed EXCEPT ![c] = @ + 1]

\* It is refused, or never gets there.
Refuse(c) ==
    /\ wire[c] \in {"none", "sent"}
    /\ wire' = [wire EXCEPT ![c] = "refused"]
    /\ UNCHANGED landed

QNext == \E c \in Callers : Issue(c) \/ TakeEffect(c) \/ Refuse(c)

QSpec == QInit /\ [][QNext]_qvars
=============================================================================
