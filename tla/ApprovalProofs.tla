--------------------------- MODULE ApprovalProofs ---------------------------
(* The promise of the abstract approval, proved of its specification. *)
EXTENDS Approval, TLAPS

AInv ==
    /\ open \subseteq asked
    /\ OneShot

\* An approval asked for once and closed when it is decided decides at most
\* one call: what "single-use" (state.go:30-31) means.
THEOREM ApprovalsAreOneShot == ASpec => []OneShot
<1>1. AInit => AInv
  BY DEF AInit, AInv, OneShot
<1>2. AInv /\ [ANext]_avars => AInv'
  <2> SUFFICES ASSUME AInv, [ANext]_avars PROVE AInv'
    OBVIOUS
  <2>1. ASSUME NEW a \in Approvals, AskFor(a) PROVE AInv'
    BY <2>1 DEF AskFor, AInv, OneShot
  <2>2. ASSUME NEW c \in Callers, NEW a \in Approvals, NEW yes \in BOOLEAN,
               DecideOn(c, a, yes)
        PROVE  AInv'
    <3> DEFINE v == [call |-> c, approval |-> a, yes |-> yes]
    <3>1. v.approval = a
      OBVIOUS
    <3>2. \A w \in verdicts : w.approval # a
      BY <2>2 DEF DecideOn, AInv, OneShot
    <3>3. verdicts' = verdicts \cup {v} /\ open' = open \ {a} /\ asked' = asked
      BY <2>2 DEF DecideOn
    <3> HIDE DEF v
    <3> QED
      BY <2>2, <3>1, <3>2, <3>3 DEF DecideOn, AInv, OneShot
  <2>3. ASSUME NEW A \in SUBSET open, Withdraw(A) PROVE AInv'
    BY <2>3 DEF Withdraw, AInv, OneShot
  <2>4. CASE UNCHANGED avars
    BY <2>4 DEF avars, AInv, OneShot
  <2> QED
    BY <2>1, <2>2, <2>3, <2>4 DEF ANext
<1>3. AInv => OneShot
  BY DEF AInv
<1> QED
  BY <1>1, <1>2, <1>3, PTL DEF ASpec
=============================================================================
