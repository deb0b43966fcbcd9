-------------------------- MODULE GuardrailsProofs --------------------------
(***************************************************************************)
(* Theorems about the handlers, for any number of concurrent calls, any    *)
(* account and any caps.  Each conjunct of the invariant below is a lemma; *)
(* those about effects, records and consent rest on WireInv, which says at *)
(* which stages of a call its one API request is where; the one about      *)
(* starts on IdInv, that ids name instances and are not given again.       *)
(***************************************************************************)
EXTENDS Guardrails, FiniteSetTheorems, TLAPS

Before == {"new", "look", "count", "confirm", "recount", "send", "asked"}

\* The request of a call is sent once, lands at most once, and is answered
\* only after it landed or was refused.
WireInv ==
    \A c \in Calls :
        /\ pc[c] \in Before => wire[c] = "none"
        /\ pc[c] = "wait" => wire[c] # "none"
        /\ pc[c] \in {"post", "done"} => wire[c] = "landed"
        /\ landed[c] = IF wire[c] = "landed" THEN 1 ELSE 0

AuditInv ==
    \A c \in Calls :
        /\ pc[c] \in {"post", "done"} => Logged(c, {"created", "destroyed", "ok"})
        /\ pc[c] = "failed" /\ wire[c] # "none" => Logged(c, {"error"})
        /\ Logged(c, {"created", "destroyed", "ok", "PRICE_BREACH"}) => wire[c] = "landed"

ConsentTo(c) ==
    \/ call[c].way = "arg"
    \/ Pays(c) \in verdicts /\ Shows(call[c].answers, c)

ConsentInv ==
    \A c \in Calls :
        /\ pc[c] # "new" /\ call[c].way = "arg" => call[c].answers = NoApproval
        /\ /\ pc[c] \in {"recount", "send", "wait", "post", "done"} \/ wire[c] # "none"
           /\ call[c].op.tool \in Guarded
           => ConsentTo(c)

\* An approval is decided once.
VerdictInv ==
    /\ \A v \in verdicts : v.approval \in asked \ open
    /\ \A v, w \in verdicts : v.approval = w.approval => v = w
-----------------------------------------------------------------------------
LEMMA OfferPriceType ==
    ASSUME NEW o \in Ops, NEW l \in Listings
    PROVE  OfferPrice(o, l) \in Price
BY DataAssumption DEF Op, Listing, Price, OfferPrice, NoPrice

LEMMA TypeInit == Init => TypeOK
<1> SUFFICES ASSUME Init PROVE TypeOK
    OBVIOUS
<1>1. Cardinality(InitInst) \in Nat
  BY AccountAssumption, FS_CardinalityType
<1> QED
  BY <1>1, CapsAssumption, AccountAssumption DEF Init, Q!QInit, TypeOK, NoCall, A!AInit

LEMMA TypeStep == TypeOK /\ WireInv /\ [Next]_vars => TypeOK'
<1> SUFFICES ASSUME TypeOK, WireInv, [Next]_vars PROVE TypeOK'
    OBVIOUS
<1> USE DEF TypeOK
<1>1. ASSUME NEW c \in Calls, Begin(c) PROVE TypeOK'
  <2>1. PICK o \in Ops, w \in Ways, a \in asked \cup {NoApproval} :
          /\ call' = [call EXCEPT ![c] = [op |-> o, way |-> w, answers |-> a, quote |-> 0]]
          /\ Goto(c, IF o.valid THEN First(o) ELSE "failed")
          /\ IF ~o.valid /\ o.tool = "execute" THEN Log(c, "rejected") ELSE UNCHANGED audit
    BY <1>1 DEF Begin
  <2>2. [op |-> o, way |-> w, answers |-> a, quote |-> 0] \in Call
    BY DEF Call, Price
  <2>3. First(o) \in Active
    BY DEF First, Active
  <2>4. audit' \subseteq Record
    BY <2>1 DEF Log, Record, Status
  <2>5. pc' \in [Calls -> {"new"} \cup Active \cup Ended]
    BY <2>1, <2>3 DEF Goto, Ended
  <2>6. call' \in [Calls -> Call \cup {NoCall}]
        /\ \A d \in Calls : pc'[d] # "new" => call'[d] \in Call
    BY <2>1, <2>2, <2>5 DEF Goto
  <2> QED
    BY <1>1, <2>4, <2>5, <2>6 DEF Begin, account, approval
<1>2. ASSUME NEW c \in Calls, NEW stage \in Active \cup Ended,
             Goto(c, stage), call[c] \in Call, UNCHANGED call
      PROVE  /\ pc' \in [Calls -> {"new"} \cup Active \cup Ended]
             /\ \A d \in Calls : pc'[d] # "new" => call'[d] \in Call
  BY <1>2 DEF Goto
<1>3. ASSUME NEW c \in Calls, NEW status \in Status, Log(c, status)
      PROVE  audit' \subseteq Record
  BY <1>3 DEF Log, Record
<1>4. ASSUME NEW c \in Calls, LookOffer(c) PROVE TypeOK'
  <2>1. call[c] \in Call /\ call[c].op.target \in OfferIds
    BY <1>4, DataAssumption DEF LookOffer, Missing, Call
  <2>2. OfferPrice(call[c].op, market[call[c].op.target]) \in Price
        \/ market[call[c].op.target] = Gone
    BY <2>1, OfferPriceType DEF Call
  <2>3. call' \in [Calls -> Call \cup {NoCall}] /\ call'[c] \in Call
        /\ \A d \in Calls \ {c} : call'[d] = call[d]
    BY <1>4, <2>1, <2>2 DEF LookOffer, Missing, Call
  <2>4. \E stage \in Active \cup Ended : Goto(c, stage)
    BY <1>4 DEF LookOffer, Missing, FailSilently, Reject, Proceed, Active, Ended
  <2>5. audit' \subseteq Record
    BY <1>4, <1>3 DEF LookOffer, Missing, FailSilently, Reject, Proceed, Status
  <2>6. pc' \in [Calls -> {"new"} \cup Active \cup Ended]
        /\ \A d \in Calls \ {c} : pc'[d] = pc[d]
    BY <2>4 DEF Goto
  <2> QED
    BY <1>4, <2>3, <2>5, <2>6 DEF LookOffer, Missing, account, approval
<1>5. ASSUME NEW c \in Calls, LookInstance(c) PROVE TypeOK'
  <2>1. call[c] \in Call
    BY <1>5 DEF LookInstance
  <2>2. call' \in [Calls -> Call \cup {NoCall}] /\ call'[c] \in Call
        /\ \A d \in Calls \ {c} : call'[d] = call[d]
    BY <1>5, <2>1 DEF LookInstance, Call, Instance
  <2>3. \E stage \in Active \cup Ended : Goto(c, stage)
    BY <1>5 DEF LookInstance, FailSilently, Reject, Proceed, Active, Ended
  <2>4. audit' \subseteq Record
    BY <1>5, <1>3 DEF LookInstance, FailSilently, Reject, Proceed, Status
  <2>5. pc' \in [Calls -> {"new"} \cup Active \cup Ended]
        /\ \A d \in Calls \ {c} : pc'[d] = pc[d]
    BY <2>3 DEF Goto
  <2> QED
    BY <1>5, <2>2, <2>4, <2>5 DEF LookInstance, account, approval
<1>6. ASSUME NEW c \in Calls, Count(c) PROVE TypeOK'
  <2>1. /\ pc' \in [Calls -> {"new"} \cup Active \cup Ended]
        /\ \A d \in Calls : pc'[d] # "new" => call'[d] \in Call
    BY <1>6, <1>2 DEF Count, FailSilently, Reject, Proceed, Active, Ended
  <2>2. audit' \subseteq Record
    BY <1>6, <1>3 DEF Count, FailSilently, Reject, Proceed, Status
  <2> QED
    BY <1>6, <2>1, <2>2 DEF Count, account, approval
<1>7. ASSUME NEW c \in Calls, ConfirmStep(c) PROVE TypeOK'
  <2>1. call[c] \in Call
    BY <1>7 DEF ConfirmStep
  <2>2. AfterConfirm(c) \in Active
    BY DEF AfterConfirm, Active
  <2>3. /\ pc' \in [Calls -> {"new"} \cup Active \cup Ended]
        /\ \A d \in Calls : pc'[d] # "new" => call'[d] \in Call
    BY <1>7, <1>2, <2>1, <2>2 DEF ConfirmStep, NotConfirmed, Proceed, Ended
  <2>4. audit' \subseteq Record
    BY <1>7, <1>3 DEF ConfirmStep, NotConfirmed, Proceed, Status
  <2>5. asked' \subseteq AnApproval /\ open' \subseteq asked'
        /\ verdicts' \subseteq A!VerdictRecord
    <3>1. CASE UNCHANGED approval
      BY <3>1 DEF approval
    <3>2. CASE A!AskFor(Preview(c))
      BY <2>1, <3>2 DEF A!AskFor, Preview, AnApproval, Call
    <3>3. ASSUME call[c].answers \in open,
                 A!DecideOn(c, call[c].answers, call[c].way = "accept")
          PROVE  asked' \subseteq AnApproval /\ open' \subseteq asked'
                 /\ verdicts' \subseteq A!VerdictRecord
      <4> DEFINE a == call[c].answers
                 yes == call[c].way = "accept"
      <4>1. a \in AnApproval /\ yes \in BOOLEAN
        BY <3>3
      <4>2. /\ asked' = asked /\ open' = open \ {a}
            /\ verdicts' = verdicts \cup {[call |-> c, approval |-> a, yes |-> yes]}
        BY <3>3 DEF A!DecideOn
      <4> HIDE DEF a, yes
      <4>3. [call |-> c, approval |-> a, yes |-> yes] \in A!VerdictRecord
        BY <4>1 DEF A!VerdictRecord
      <4> QED
        BY <4>2, <4>3
    <3>4. \/ UNCHANGED approval
          \/ A!AskFor(Preview(c))
          \/ /\ call[c].answers \in open
             /\ A!DecideOn(c, call[c].answers, call[c].way = "accept")
      BY <1>7 DEF ConfirmStep
    <3> QED
      BY <3>1, <3>2, <3>3, <3>4
  <2> QED
    BY <1>7, <2>3, <2>4, <2>5 DEF ConfirmStep, account
<1>8. ASSUME NEW c \in Calls, Recount(c) PROVE TypeOK'
  <2>1. /\ pc' \in [Calls -> {"new"} \cup Active \cup Ended]
        /\ \A d \in Calls : pc'[d] # "new" => call'[d] \in Call
    BY <1>8, <1>2 DEF Recount, FailSilently, Reject, Proceed, Active, Ended
  <2>2. audit' \subseteq Record
    BY <1>8, <1>3 DEF Recount, FailSilently, Reject, Proceed, Status
  <2>3. Cardinality(Creating \cup {c}) \in Nat
    <3>1. Creating \cup {c} \subseteq Calls
      BY DEF Creating
    <3> QED
      BY <3>1, FiniteCalls, FS_Subset, FS_CardinalityType
  <2> QED
    BY <1>8, <2>1, <2>2, <2>3 DEF Recount, account, approval
<1>9. ASSUME NEW c \in Calls, Send(c) PROVE TypeOK'
  <2>1. /\ pc' \in [Calls -> {"new"} \cup Active \cup Ended]
        /\ \A d \in Calls : pc'[d] # "new" => call'[d] \in Call
    BY <1>9, <1>2 DEF Send, Q!Issue, Proceed, Active
  <2> QED
    BY <1>9, <2>1 DEF Send, Q!Issue, Proceed, account, approval
<1>10. ASSUME NEW c \in Calls, Reply(c) \/ GiveUp(c) PROVE TypeOK'
  <2>1. /\ pc' \in [Calls -> {"new"} \cup Active \cup Ended]
        /\ \A d \in Calls : pc'[d] # "new" => call'[d] \in Call
    BY <1>10, <1>2 DEF Reply, GiveUp, Active, Ended
  <2>2. Success(call[c].op) \in Status
    BY DEF Success, Status
  <2>3. audit' \subseteq Record
    BY <1>10, <1>3, <2>2 DEF Reply, GiveUp, Status
  <2> QED
    BY <1>10, <2>1, <2>3 DEF Reply, GiveUp, account, approval
<1>11. ASSUME NEW c \in Calls, PostCheck(c) PROVE TypeOK'
  <2>1. /\ pc' \in [Calls -> {"new"} \cup Active \cup Ended]
        /\ \A d \in Calls : pc'[d] # "new" => call'[d] \in Call
    BY <1>11, <1>2 DEF PostCheck, Breach, Ended
  <2>2. audit' \subseteq Record /\ reread' \in [Calls -> BOOLEAN]
    BY <1>11, <1>3 DEF PostCheck, Breach, Status
  <2> QED
    BY <1>11, <2>1, <2>2 DEF PostCheck, Breach, account, approval
<1>12. ASSUME NEW c \in Calls, Land(c) PROVE TypeOK'
  <2> DEFINE o == call[c].op
  <2>0. call[c] \in Call
    BY <1>12 DEF Land, Q!TakeEffect, WireInv, Before
  <2>1. inst' \subseteq Instance /\ nextId' \in 1..(MaxId + 1)
    <3>1. CASE o.tool = "create"
      <4>1. market[o.target] \in Listings
        BY <1>12, <2>0, <3>1, DataAssumption DEF Land, Q!TakeEffect, Effect, Call
      <4>2. OfferPrice(o, market[o.target]) \in Price
        BY <2>0, <4>1, OfferPriceType DEF Call
      <4>3. nextId <= MaxId /\ nextId' = nextId + 1
            /\ inst' = inst \cup
                {[id |-> nextId, dph |-> OfferPrice(o, market[o.target]),
                  running |-> TRUE, by |-> c, stray |-> pc[c] # "wait"]}
        BY <1>12, <3>1 DEF Land, Q!TakeEffect, Effect
      <4>4. nextId \in 1..MaxId /\ (pc[c] # "wait") \in BOOLEAN
        BY <4>3, CapsAssumption
      <4> DEFINE price == OfferPrice(o, market[o.target])
                 late == pc[c] # "wait"
      <4>5. price \in Price /\ late \in BOOLEAN /\ nextId' = nextId + 1
            /\ inst' = inst \cup {[id |-> nextId, dph |-> price, running |-> TRUE,
                                   by |-> c, stray |-> late]}
        BY <4>2, <4>3, <4>4
      <4> HIDE DEF o, price, late
      <4>6. [id |-> nextId, dph |-> price, running |-> TRUE, by |-> c, stray |-> late]
              \in Instance
        BY <4>4, <4>5 DEF Instance
      <4>7. inst' \subseteq Instance
        BY <4>5, <4>6
      <4> QED
        BY <4>4, <4>5, <4>7, CapsAssumption
    <3>2. CASE o.tool # "create"
      <4>1. CASE o.tool \in {"start", "stop"}
        <5>1. inst' = {IF i.id = o.target
                       THEN [i EXCEPT !.running = (o.tool = "start")] ELSE i : i \in inst}
              /\ nextId' = nextId
          BY <1>12, <4>1 DEF Land, Q!TakeEffect, Effect
        <5>2. \A on \in BOOLEAN, i \in inst : [i EXCEPT !.running = on] \in Instance
          BY DEF Instance
        <5> DEFINE on == o.tool = "start"
        <5>3. on \in BOOLEAN
          OBVIOUS
        <5>4. inst' = {IF i.id = o.target THEN [i EXCEPT !.running = on] ELSE i : i \in inst}
          BY <5>1
        <5> HIDE DEF on, o
        <5> QED
          BY <5>1, <5>2, <5>3, <5>4
      <4>2. CASE o.tool \notin {"start", "stop"}
        BY <1>12, <3>2, <4>2 DEF Land, Q!TakeEffect, Effect
      <4> QED
        BY <4>1, <4>2
    <3> QED
      BY <3>1, <3>2
  <2>2. wire' \in [Calls -> {"none", "sent", "landed", "refused"}]
        /\ landed' \in [Calls -> Nat]
    BY <1>12 DEF Land, Q!TakeEffect
  <2> QED
    BY <1>12, <2>1, <2>2 DEF Land, Q!TakeEffect, approval
<1>13. ASSUME NEW c \in Calls, Bounce(c) PROVE TypeOK'
  BY <1>13 DEF Bounce, Q!Refuse, account, approval
<1>14. ASSUME NEW f \in OfferIds, Relist(f) PROVE TypeOK'
  BY <1>14 DEF Relist, approval
<1>15. CASE OtherCreates
  <2>1. nextId \in 1..MaxId /\ nextId' \in 1..(MaxId + 1)
    BY <1>15, CapsAssumption DEF OtherCreates
  <2>2. PICK l \in Listings :
          inst' = inst \cup {[id |-> nextId, dph |-> l.total, running |-> TRUE,
                              by |-> Other, stray |-> FALSE]}
    BY <1>15 DEF OtherCreates
  <2>3. l.total \in Price
    BY DataAssumption DEF Listing
  <2>4. inst' \subseteq Instance
    <3> DEFINE price == l.total
               new == [id |-> nextId, dph |-> price, running |-> TRUE,
                       by |-> Other, stray |-> FALSE]
    <3>1. price \in Price
      BY <2>3
    <3> HIDE DEF price
    <3>2. new \in Instance
      BY <2>1, <3>1 DEF Instance
    <3>3. inst' = inst \cup {new}
      BY <2>2 DEF price
    <3> QED
      BY <3>2, <3>3
  <2>5. UNCHANGED <<pc, call, wire, landed, reread, audit, market, crashes, peak, asked,
                    open, verdicts>>
    BY <1>15 DEF OtherCreates, approval
  <2> QED
    BY <2>1, <2>4, <2>5
<1>16. CASE OtherDestroys
  BY <1>16 DEF OtherDestroys, approval
<1>17. CASE Expire
  BY <1>17 DEF Expire, A!Withdraw, account
<1>18. CASE Crash
  BY <1>18, CapsAssumption DEF Crash, A!Withdraw, account, Ended, Active
<1>19. CASE UNCHANGED vars
  BY <1>19 DEF vars
<1> QED
  BY <1>1, <1>4, <1>5, <1>6, <1>7, <1>8, <1>9, <1>10, <1>11, <1>12, <1>13, <1>14, <1>15,
     <1>16, <1>17, <1>18, <1>19 DEF Next, Handler
-----------------------------------------------------------------------------
\* The stages before the request only move the call to another of them, or
\* end it; and they leave the request and its effect alone.
LEMMA EarlySteps ==
    ASSUME TypeOK, NEW c \in Calls,
           Begin(c) \/ LookOffer(c) \/ LookInstance(c) \/ Count(c) \/ ConfirmStep(c)
               \/ Recount(c)
    PROVE  /\ pc[c] \in {"new", "look", "count", "confirm", "recount"}
           /\ \E stage \in {"look", "count", "confirm", "recount", "send", "asked", "failed"} :
                pc' = [pc EXCEPT ![c] = stage]
           /\ UNCHANGED <<wire, landed, reread, inst, nextId, market>>
<1>1. ASSUME NEW o \in Ops PROVE First(o) \in {"look", "confirm", "send"}
  BY DEF First
<1>2. AfterConfirm(c) \in {"recount", "send"}
  BY DEF AfterConfirm
<1> QED
  BY <1>1, <1>2 DEF Begin, LookOffer, Missing, LookInstance, Count, ConfirmStep, Recount, Goto,
     FailSilently, Reject, Proceed, NotConfirmed, account

LEMMA WireStep == TypeOK /\ WireInv /\ [Next]_vars => WireInv'
<1> SUFFICES ASSUME TypeOK, WireInv, [Next]_vars PROVE WireInv'
    OBVIOUS
<1> USE DEF WireInv, Before, TypeOK
<1>1. ASSUME NEW c \in Calls,
             Begin(c) \/ LookOffer(c) \/ LookInstance(c) \/ Count(c) \/ ConfirmStep(c)
                 \/ Recount(c)
      PROVE  WireInv'
  BY <1>1, EarlySteps
<1>2. ASSUME NEW c \in Calls, Send(c) PROVE WireInv'
  BY <1>2 DEF Send, Q!Issue, Proceed, Goto
<1>3. ASSUME NEW c \in Calls, Reply(c) PROVE WireInv'
  BY <1>3 DEF Reply, Goto
<1>4. ASSUME NEW c \in Calls, GiveUp(c) \/ PostCheck(c) PROVE WireInv'
  BY <1>4 DEF GiveUp, PostCheck, Breach, Goto
<1>5. ASSUME NEW c \in Calls, Land(c) \/ Bounce(c) PROVE WireInv'
  BY <1>5 DEF Land, Q!TakeEffect, Bounce, Q!Refuse
<1>6. CASE Crash
  BY <1>6 DEF Crash, Active
<1>7. CASE UNCHANGED <<pc, wire, landed>>
  BY <1>7
<1> QED
  BY <1>1, <1>2, <1>3, <1>4, <1>5, <1>6, <1>7
  DEF Next, Handler, Relist, OtherCreates, OtherDestroys, Expire, vars

LEMMA LogAdds ==
    ASSUME NEW c \in Calls, NEW status \in Status, Log(c, status), NEW d \in Calls, NEW S
    PROVE  Logged(d, S)' <=> Logged(d, S) \/ (d = c /\ status \in S)
<1> DEFINE new == [call |-> c, status |-> status]
<1>1. audit' = audit \cup {new} /\ new.call = c /\ new.status = status
  BY DEF Log
<1> HIDE DEF new
<1> QED
  BY <1>1 DEF Logged

LEMMA AuditStep == TypeOK /\ WireInv /\ AuditInv /\ [Next]_vars => AuditInv'
<1> SUFFICES ASSUME TypeOK, WireInv, AuditInv, [Next]_vars, NEW d \in Calls
             PROVE  /\ pc'[d] \in {"post", "done"} =>
                         Logged(d, {"created", "destroyed", "ok"})'
                    /\ pc'[d] = "failed" /\ wire'[d] # "none" => Logged(d, {"error"})'
                    /\ Logged(d, {"created", "destroyed", "ok", "PRICE_BREACH"})' =>
                         wire'[d] = "landed"
    BY DEF AuditInv
<1> DEFINE Goal == /\ pc'[d] \in {"post", "done"} =>
                         Logged(d, {"created", "destroyed", "ok"})'
                   /\ pc'[d] = "failed" /\ wire'[d] # "none" => Logged(d, {"error"})'
                   /\ Logged(d, {"created", "destroyed", "ok", "PRICE_BREACH"})' =>
                         wire'[d] = "landed"
<1> USE DEF AuditInv
\* A step that logs nothing about d, or at most that it was turned down.
<1>1. ASSUME NEW c \in Calls, NEW status \in {"rejected", "not_confirmed"},
             audit' = audit \/ Log(c, status)
      PROVE  \A S \in SUBSET (Status \ {"rejected", "not_confirmed"}) :
                Logged(d, S)' <=> Logged(d, S)
  BY <1>1 DEF Logged, Log
<1>2. ASSUME NEW c \in Calls,
             Begin(c) \/ LookOffer(c) \/ LookInstance(c) \/ Count(c) \/ ConfirmStep(c)
                 \/ Recount(c)
      PROVE  Goal
  <2>1. \E status \in {"rejected", "not_confirmed"} : audit' = audit \/ Log(c, status)
    BY <1>2 DEF Begin, LookOffer, Missing, LookInstance, Count, ConfirmStep, Recount,
       FailSilently, Reject, Proceed, NotConfirmed
  <2>2. \A S \in SUBSET (Status \ {"rejected", "not_confirmed"}) :
                Logged(d, S)' <=> Logged(d, S)
    BY <1>1, <2>1
  <2>3. /\ {"created", "destroyed", "ok"} \in SUBSET (Status \ {"rejected", "not_confirmed"})
        /\ {"error"} \in SUBSET (Status \ {"rejected", "not_confirmed"})
        /\ {"created", "destroyed", "ok", "PRICE_BREACH"}
             \in SUBSET (Status \ {"rejected", "not_confirmed"})
    BY DEF Status
  <2>4. wire' = wire /\ wire[c] = "none"
        /\ \E stage \in {"look", "count", "confirm", "recount", "send", "asked", "failed"} :
                pc' = [pc EXCEPT ![c] = stage]
    BY <1>2, EarlySteps DEF WireInv, Before
  <2> QED
    BY <2>2, <2>3, <2>4 DEF TypeOK
<1>3. ASSUME NEW c \in Calls, Send(c) PROVE Goal
  BY <1>3 DEF Send, Q!Issue, Proceed, Goto, WireInv, Before, TypeOK, Logged
<1>4. ASSUME NEW c \in Calls, Reply(c) PROVE Goal
  <2>1. Success(call[c].op) \in {"created", "destroyed", "ok"}
        /\ Success(call[c].op) \in Status
    BY DEF Success, Status
  <2>2. wire' = wire /\ wire[c] # "none"
    BY <1>4 DEF Reply
  <2>3. CASE wire[c] = "landed"
    <3>1. Log(c, Success(call[c].op))
          /\ \E stage \in {"post", "done"} : pc' = [pc EXCEPT ![c] = stage]
      BY <1>4, <2>3 DEF Reply, Goto
    <3>2. \A S : Logged(d, S)' <=> Logged(d, S) \/ (d = c /\ Success(call[c].op) \in S)
      BY <2>1, <3>1, LogAdds DEF Status
    <3> QED
      BY <2>1, <2>2, <2>3, <3>1, <3>2 DEF TypeOK
  <2>4. CASE wire[c] = "refused"
    <3>1. Log(c, "error") /\ pc' = [pc EXCEPT ![c] = "failed"]
      BY <1>4, <2>4 DEF Reply, Goto
    <3>2. \A S : Logged(d, S)' <=> Logged(d, S) \/ (d = c /\ "error" \in S)
      BY <2>1, <3>1, LogAdds DEF Status
    <3> QED
      BY <2>2, <3>1, <3>2 DEF TypeOK
  <2> QED
    BY <1>4, <2>3, <2>4 DEF Reply
<1>5. ASSUME NEW c \in Calls, GiveUp(c) PROVE Goal
  <2>1. Log(c, "error") /\ pc' = [pc EXCEPT ![c] = "failed"] /\ wire' = wire
    BY <1>5 DEF GiveUp, Goto
  <2>2. \A S : Logged(d, S)' <=> Logged(d, S) \/ (d = c /\ "error" \in S)
    BY <2>1, LogAdds DEF Status
  <2> QED
    BY <2>1, <2>2 DEF TypeOK
<1>6. ASSUME NEW c \in Calls, PostCheck(c) PROVE Goal
  <2>1. wire' = wire /\ pc' = [pc EXCEPT ![c] = "done"] /\ pc[c] = "post"
        /\ wire[c] = "landed" /\ (audit' = audit \/ Log(c, "PRICE_BREACH"))
    BY <1>6 DEF PostCheck, Breach, Goto, WireInv
  <2> QED
    BY <2>1 DEF Log, Logged, TypeOK
<1>7. ASSUME NEW c \in Calls, Land(c) \/ Bounce(c) PROVE Goal
  <2>1. UNCHANGED <<pc, audit>> /\ wire[c] = "sent"
        /\ \E w \in {"landed", "refused"} : wire' = [wire EXCEPT ![c] = w]
    BY <1>7 DEF Land, Q!TakeEffect, Bounce, Q!Refuse
  <2> QED
    BY <2>1 DEF Logged, WireInv, TypeOK
<1>8. CASE Crash
  BY <1>8 DEF Crash, Logged, TypeOK
<1>9. CASE UNCHANGED <<pc, wire, audit>>
  BY <1>9 DEF Logged
<1> QED
  BY <1>2, <1>3, <1>4, <1>5, <1>6, <1>7, <1>8, <1>9
  DEF Next, Handler, Relist, OtherCreates, OtherDestroys, Expire, vars
-----------------------------------------------------------------------------
\* Approvals only change as Approval lets them.
LEMMA ApprovalSteps ==
    ASSUME TypeOK, [Next]_vars
    PROVE  \/ UNCHANGED approval
           \/ \E a \in AnApproval : A!AskFor(a)
           \/ \E c \in Calls, a \in open, yes \in BOOLEAN : A!DecideOn(c, a, yes)
           \/ \E S \in SUBSET open : A!Withdraw(S)
<1> DEFINE Goal ==
           \/ UNCHANGED approval
           \/ \E a \in AnApproval : A!AskFor(a)
           \/ \E c \in Calls, a \in open, yes \in BOOLEAN : A!DecideOn(c, a, yes)
           \/ \E S \in SUBSET open : A!Withdraw(S)
<1>1. ASSUME NEW c \in Calls, ConfirmStep(c) PROVE Goal
  <2>1. Preview(c) \in AnApproval
    BY <1>1 DEF ConfirmStep, Preview, AnApproval, TypeOK, Call
  <2> DEFINE yes == call[c].way = "accept"
  <2>2. \/ UNCHANGED approval
        \/ A!AskFor(Preview(c))
        \/ call[c].answers \in open /\ A!DecideOn(c, call[c].answers, yes)
    BY <1>1 DEF ConfirmStep
  <2>3. yes \in BOOLEAN
    OBVIOUS
  <2> HIDE DEF yes
  <2> QED
    BY <2>1, <2>2, <2>3
<1>2. CASE Expire
  BY <1>2 DEF Expire
<1>3. CASE Crash
  BY <1>3 DEF Crash
<1>4. ASSUME UNCHANGED approval PROVE Goal
  BY <1>4
<1>5. ASSUME NEW c \in Calls,
             Begin(c) \/ LookOffer(c) \/ LookInstance(c) \/ Count(c) \/ Recount(c)
               \/ Send(c) \/ Reply(c) \/ GiveUp(c) \/ PostCheck(c) \/ Land(c) \/ Bounce(c)
      PROVE  UNCHANGED approval
  BY <1>5 DEF Begin, LookOffer, Missing, LookInstance, Count, Recount, Send, Q!Issue, Reply, GiveUp,
     PostCheck, Breach, Land, Q!TakeEffect, Bounce, Q!Refuse
<1>6. CASE OtherCreates \/ OtherDestroys \/ (\E f \in OfferIds : Relist(f))
           \/ UNCHANGED vars
  BY <1>6 DEF OtherCreates, OtherDestroys, Relist, vars, approval
<1> QED
  BY <1>1, <1>2, <1>3, <1>4, <1>5, <1>6 DEF Next, Handler

LEMMA VerdictStep ==
    TypeOK /\ VerdictInv /\ [Next]_vars => VerdictInv' /\ verdicts \subseteq verdicts'
<1> SUFFICES ASSUME TypeOK, VerdictInv, [Next]_vars
             PROVE  VerdictInv' /\ verdicts \subseteq verdicts'
    OBVIOUS
<1> USE DEF VerdictInv
<1>1. CASE UNCHANGED approval
  BY <1>1 DEF approval
<1>2. ASSUME NEW a \in AnApproval, A!AskFor(a)
      PROVE  VerdictInv' /\ verdicts \subseteq verdicts'
  BY <1>2 DEF A!AskFor, TypeOK
<1>3. ASSUME NEW c \in Calls, NEW a \in open, NEW yes \in BOOLEAN, A!DecideOn(c, a, yes)
      PROVE  VerdictInv' /\ verdicts \subseteq verdicts'
  <2> DEFINE v == [call |-> c, approval |-> a, yes |-> yes]
  <2>1. v.approval = a /\ \A w \in verdicts : w.approval # a
    OBVIOUS
  <2>2. verdicts' = verdicts \cup {v} /\ open' = open \ {a} /\ asked' = asked
    BY <1>3 DEF A!DecideOn
  <2> HIDE DEF v
  <2> QED
    BY <2>1, <2>2 DEF TypeOK
<1>4. ASSUME NEW S \in SUBSET open, A!Withdraw(S)
      PROVE  VerdictInv' /\ verdicts \subseteq verdicts'
  BY <1>4 DEF A!Withdraw, TypeOK
<1> QED
  BY <1>1, <1>2, <1>3, <1>4, ApprovalSteps

LEMMA ConsentStep ==
    TypeOK /\ WireInv /\ VerdictInv /\ ConsentInv /\ [Next]_vars => ConsentInv'
<1> SUFFICES ASSUME TypeOK, WireInv, VerdictInv, ConsentInv, [Next]_vars, NEW d \in Calls
             PROVE  /\ pc'[d] # "new" /\ call'[d].way = "arg" =>
                          call'[d].answers = NoApproval
                    /\ /\ \/ pc'[d] \in {"recount", "send", "wait", "post", "done"}
                          \/ wire'[d] # "none"
                       /\ call'[d].op.tool \in Guarded
                       => ConsentTo(d)'
    BY DEF ConsentInv
<1> DEFINE Goal == /\ pc'[d] # "new" /\ call'[d].way = "arg" =>
                          call'[d].answers = NoApproval
                   /\ /\ \/ pc'[d] \in {"recount", "send", "wait", "post", "done"}
                         \/ wire'[d] # "none"
                      /\ call'[d].op.tool \in Guarded
                      => ConsentTo(d)'
<1>1. verdicts \subseteq verdicts'
  BY VerdictStep
\* d keeps what it carries, and does not get past the confirmation.
<1>2. ASSUME call'[d] = call[d],
             pc'[d] # "new" => pc[d] # "new",
             \/ pc'[d] \in {"recount", "send", "wait", "post", "done"}
             \/ wire'[d] # "none"
             => \/ pc[d] \in {"recount", "send", "wait", "post", "done"}
                \/ wire[d] # "none"
      PROVE  Goal
  BY <1>1, <1>2 DEF ConsentInv, ConsentTo, Pays, Shows
<1>3. ASSUME NEW c \in Calls, Begin(c) PROVE Goal
  <2>1. CASE c # d
    BY <1>2, <1>3, <2>1 DEF Begin, Goto, TypeOK
  <2>2. CASE c = d
    <3>1. wire'[d] = "none"
      BY <1>3, <2>2 DEF Begin, WireInv, Before
    <3>2. PICK o \in Ops, w \in Ways, a \in asked \cup {NoApproval} :
            /\ w \notin {"accept", "refuse"} => a = NoApproval
            /\ call' = [call EXCEPT ![c] = [op |-> o, way |-> w, answers |-> a, quote |-> 0]]
            /\ Goto(c, IF o.valid THEN First(o) ELSE "failed")
      BY <1>3 DEF Begin
    <3>3. o.tool \in Guarded => First(o) \in {"look", "confirm"}
      BY DataAssumption DEF First, Confirmable
    <3> QED
      BY <2>2, <3>1, <3>2, <3>3 DEF Goto, TypeOK
  <2> QED
    BY <2>1, <2>2
<1>4. ASSUME NEW c \in Calls, LookOffer(c) \/ LookInstance(c) PROVE Goal
  <2>1. CASE c # d
    BY <1>2, <1>4, <2>1
    DEF LookOffer, Missing, LookInstance, FailSilently, Reject, Proceed, Goto, TypeOK
  <2>2. CASE c = d
    <3>1. pc[d] = "look" /\ wire'[d] = "none"
      BY <1>4, <2>2 DEF LookOffer, Missing, LookInstance, WireInv, Before
    <3>2. call'[d].op = call[d].op /\ call'[d].way = call[d].way
          /\ call'[d].answers = call[d].answers
      BY <1>4, <2>2 DEF LookOffer, Missing, LookInstance, TypeOK, Call
    <3>3. pc'[d] \in {"count", "confirm", "failed"}
          \/ (pc'[d] = "send" /\ call[d].op.tool = "start")
      BY <1>4, <2>2
      DEF LookOffer, Missing, LookInstance, FailSilently, Reject, Proceed, Goto, TypeOK
    <3>4. "start" \notin Guarded
      BY DataAssumption DEF Confirmable
    <3> QED
      BY <3>1, <3>2, <3>3, <3>4 DEF ConsentInv
  <2> QED
    BY <2>1, <2>2
<1>5. ASSUME NEW c \in Calls, ConfirmStep(c) PROVE Goal
  <2>1. CASE c # d
    BY <1>2, <1>5, <2>1 DEF ConfirmStep, NotConfirmed, Proceed, Goto, TypeOK
  <2>2. CASE c = d
    <3>1. call' = call /\ pc[d] = "confirm" /\ wire'[d] = "none"
      BY <1>5, <2>2 DEF ConfirmStep, WireInv, Before
    <3>2. CASE call[d].op.tool \notin Guarded \/ call[d].way = "arg"
      BY <3>1, <3>2 DEF ConsentInv, ConsentTo
    <3>3. CASE call[d].way = "accept" /\ A!DecideOn(d, call[d].answers, TRUE)
               /\ Shows(call[d].answers, d)
      BY <3>1, <3>3 DEF ConsentInv, ConsentTo, Pays, Shows, A!DecideOn
    <3>4. CASE pc'[d] \in {"asked", "failed"}
      BY <3>1, <3>4 DEF ConsentInv
    <3>5. \/ call[d].op.tool \notin Guarded \/ call[d].way = "arg"
          \/ /\ call[d].way = "accept" /\ A!DecideOn(d, call[d].answers, TRUE)
             /\ Shows(call[d].answers, d)
          \/ pc'[d] \in {"asked", "failed"}
      BY <1>5, <2>2 DEF ConfirmStep, NotConfirmed, Proceed, Goto, TypeOK
    <3> QED
      BY <3>2, <3>3, <3>4, <3>5
  <2> QED
    BY <2>1, <2>2
<1>6. ASSUME NEW c \in Calls, Count(c) \/ Recount(c) PROVE Goal
  BY <1>2, <1>6 DEF Count, Recount, FailSilently, Reject, Proceed, Goto, TypeOK
<1>7. ASSUME NEW c \in Calls, Send(c) \/ Reply(c) \/ GiveUp(c) \/ PostCheck(c) PROVE Goal
  BY <1>2, <1>7 DEF Send, Q!Issue, Reply, GiveUp, PostCheck, Breach, Proceed, Goto, TypeOK
<1>8. ASSUME NEW c \in Calls, Land(c) \/ Bounce(c) PROVE Goal
  BY <1>2, <1>8 DEF Land, Q!TakeEffect, Bounce, Q!Refuse, TypeOK
<1>9. CASE Crash
  BY <1>2, <1>9 DEF Crash, Active, TypeOK
<1>10. CASE UNCHANGED <<pc, call, wire>>
  BY <1>2, <1>10
<1> QED
  BY <1>3, <1>4, <1>5, <1>6, <1>7, <1>8, <1>9, <1>10
  DEF Next, Handler, Relist, OtherCreates, OtherDestroys, Expire, vars
-----------------------------------------------------------------------------
(* The instance cap.  A create past its own re-check counts against the    *)
(* bound as if it had landed, so landing does not move the sum; a re-check  *)
(* passes only below the cap, and raises the peak by what it adds.         *)

FiniteInst == IsFiniteSet(inst)

RaceInv ==
    MaxInstances > 0 =>
        /\ Cardinality(Ours) + Cardinality(Creating) <= MaxInstances - 1 + peak
        /\ Cardinality(Creating) <= peak

LEMMA FiniteSets ==
    ASSUME TypeOK, FiniteInst
    PROVE  /\ IsFiniteSet(Ours) /\ Cardinality(Ours) \in Nat
           /\ Cardinality(Ours) <= Cardinality(inst) /\ Cardinality(inst) \in Nat
           /\ IsFiniteSet(Creating) /\ Cardinality(Creating) \in Nat
<1>1. Ours \subseteq inst /\ Creating \subseteq Calls
  BY DEF Ours, Creating
<1>2. IsFiniteSet(Ours) /\ Cardinality(Ours) <= Cardinality(inst)
  BY <1>1, FS_Subset DEF FiniteInst
<1>3. IsFiniteSet(Creating)
  BY <1>1, FiniteCalls, FS_Subset
<1> QED
  BY <1>2, <1>3, FS_CardinalityType DEF FiniteInst

\* The image of a finite set is finite and no larger.
LEMMA ImageCardinality ==
    ASSUME NEW S, IsFiniteSet(S), NEW f \in [S -> Instance]
    PROVE  /\ IsFiniteSet({f[i] : i \in S})
           /\ Cardinality({f[i] : i \in S}) <= Cardinality(S)
<1> DEFINE T == {f[i] : i \in S}
<1>1. f \in Surjection(S, T)
  BY DEF Surjection
<1> HIDE DEF T
<1>2. IsFiniteSet(T) /\ Cardinality(T) <= Cardinality(S)
  BY <1>1, FS_Surjection
<1> QED
  BY <1>2 DEF T

\* Turning instances on or off renames them; it creates none.
Switched(o) ==
    [i \in inst |-> IF i.id = o.target THEN [i EXCEPT !.running = (o.tool = "start")] ELSE i]

LEMMA SwitchStep ==
    ASSUME TypeOK, FiniteInst, NEW o,
           inst' = {IF i.id = o.target
                    THEN [i EXCEPT !.running = (o.tool = "start")] ELSE i : i \in inst}
    PROVE  FiniteInst' /\ Cardinality(Ours') <= Cardinality(Ours)
<1> DEFINE f == Switched(o)
           g == [i \in Ours |-> f[i]]
           on == o.tool = "start"
<1>1. on \in BOOLEAN
  OBVIOUS
<1>2. \A i \in inst : f[i] \in Instance /\ f[i].by = i.by /\ f[i].stray = i.stray
  <2>1. \A i \in inst : f[i] = IF i.id = o.target THEN [i EXCEPT !.running = on] ELSE i
    BY DEF Switched
  <2>2. ASSUME NEW b \in BOOLEAN, NEW i \in Instance
        PROVE  /\ [i EXCEPT !.running = b] \in Instance
               /\ [i EXCEPT !.running = b].by = i.by
               /\ [i EXCEPT !.running = b].stray = i.stray
    <3>1. i = [id |-> i.id, dph |-> i.dph, running |-> i.running, by |-> i.by,
               stray |-> i.stray]
      BY Zenon DEF Instance
    <3>2. [i EXCEPT !.running = b] \in Instance
      BY Zenon DEF Instance
    <3>3. [i EXCEPT !.running = b].by = i.by
      BY Zenon DEF Instance
    <3>4. [i EXCEPT !.running = b].stray = i.stray
      BY Zenon DEF Instance
    <3> QED
      BY <3>2, <3>3, <3>4
  <2>3. inst \subseteq Instance
    BY DEF TypeOK
  <2> HIDE DEF f, on
  <2> SUFFICES ASSUME NEW i \in inst
               PROVE  f[i] \in Instance /\ f[i].by = i.by /\ f[i].stray = i.stray
    OBVIOUS
  <2>4. i \in Instance
    BY <2>3
  <2>5. CASE i.id = o.target
    <3>1. f[i] = [i EXCEPT !.running = on]
      BY <2>1, <2>5, Zenon
    <3> QED
      BY <1>1, <2>2, <2>4, <3>1, Zenon
  <2>6. CASE i.id # o.target
    <3>1. f[i] = i
      BY <2>1, <2>6, Zenon
    <3> QED
      BY <2>4, <3>1
  <2> QED
    BY <2>5, <2>6
<1>3. inst' = {f[i] : i \in inst}
  BY DEF Switched
<1>4. f \in [inst -> Instance]
  BY <1>2 DEF Switched
<1>5. IsFiniteSet(inst')
  BY <1>3, <1>4, ImageCardinality DEF FiniteInst
<1> HIDE DEF f
<1>6. Ours' = {g[i] : i \in Ours}
  BY <1>2, <1>3 DEF Ours
<1>7. g \in [Ours -> Instance]
  BY <1>2 DEF Ours
<1>8. Cardinality({g[i] : i \in Ours}) <= Cardinality(Ours)
  BY <1>7, FiniteSets, ImageCardinality
<1> QED
  BY <1>5, <1>6, <1>8 DEF FiniteInst

LEMMA Shrink ==
    ASSUME TypeOK, FiniteInst, inst' \subseteq inst
    PROVE  FiniteInst' /\ Cardinality(Ours') <= Cardinality(Ours)
           /\ Cardinality(Ours') \in Nat
<1>1. Ours' \subseteq Ours
  BY DEF Ours
<1> QED
  BY <1>1, FiniteSets, FS_Subset, FS_CardinalityType DEF FiniteInst

LEMMA RaceStep ==
    TypeOK /\ WireInv /\ FiniteInst /\ RaceInv /\ [Next]_vars => FiniteInst' /\ RaceInv'
<1> SUFFICES ASSUME TypeOK, WireInv, FiniteInst, RaceInv, [Next]_vars
             PROVE  FiniteInst' /\ RaceInv'
    OBVIOUS
<1> USE CapsAssumption
<1>0. peak \in Nat
  BY DEF TypeOK
\* Nothing new counts: no create got past its re-check, none landed.
<1>1. ASSUME FiniteInst', Cardinality(Ours') <= Cardinality(Ours),
             Cardinality(Ours') \in Nat,
             MaxInstances > 0 => Creating' \subseteq Creating, peak' = peak
      PROVE  FiniteInst' /\ RaceInv'
  <2>1. MaxInstances > 0 =>
          Cardinality(Creating') <= Cardinality(Creating) /\ Cardinality(Creating') \in Nat
    BY <1>1, FiniteSets, FS_Subset, FS_CardinalityType
  <2> QED
    BY <1>0, <1>1, <2>1, FiniteSets DEF RaceInv
<1>2. ASSUME MaxInstances > 0 => Creating' \subseteq Creating, peak' = peak, inst' = inst
      PROVE  FiniteInst' /\ RaceInv'
  <2>1. Ours' = Ours
    BY <1>2 DEF Ours
  <2> QED
    BY <1>1, <1>2, <2>1, FiniteSets DEF FiniteInst
<1>3. ASSUME NEW c \in Calls,
             Begin(c) \/ LookOffer(c) \/ LookInstance(c) \/ Count(c) \/ ConfirmStep(c)
      PROVE  FiniteInst' /\ RaceInv'
  <2>1. /\ pc[c] \in {"new", "look", "count", "confirm"}
        /\ \E stage : pc' = [pc EXCEPT ![c] = stage]
        /\ UNCHANGED <<wire, inst, peak>>
    BY <1>3, EarlySteps DEF Begin, LookOffer, Missing, LookInstance, Count, ConfirmStep
  <2>2. wire[c] = "none" /\ \A d \in Calls \ {c} : call'[d] = call[d]
    BY <1>3, <2>1
    DEF WireInv, Before, Begin, LookOffer, Missing, LookInstance, Count, ConfirmStep, TypeOK
  <2>3. MaxInstances > 0 /\ pc'[c] = "send" => call'[c].op.tool # "create"
    <3>1. \A o \in Ops : First(o) = "send" => o.tool # "create"
      BY DEF First
    <3>2. MaxInstances > 0 /\ AfterConfirm(c) = "send" => call[c].op.tool # "create"
      BY DEF AfterConfirm
    <3>3. CASE Begin(c)
      BY <3>1, <3>3 DEF Begin, Goto, TypeOK
    <3>4. CASE LookInstance(c)
      BY <3>4 DEF LookInstance, TypeOK, Call
    <3>5. CASE LookOffer(c) \/ Count(c)
      BY <3>5 DEF LookOffer, Missing, Count, FailSilently, Reject, Proceed, Goto, TypeOK
    <3>6. CASE ConfirmStep(c)
      BY <3>2, <3>6 DEF ConfirmStep, NotConfirmed, Proceed, Goto, TypeOK
    <3> QED
      BY <1>3, <3>3, <3>4, <3>5, <3>6
  <2>4. MaxInstances > 0 => Creating' \subseteq Creating
    BY <2>1, <2>2, <2>3 DEF Creating, TypeOK
  <2> QED
    BY <1>2, <2>1, <2>4
<1>4. ASSUME NEW c \in Calls, Recount(c) PROVE FiniteInst' /\ RaceInv'
  <2>1. pc[c] = "recount" /\ UNCHANGED <<call, wire, inst>> /\ wire[c] = "none"
    BY <1>4 DEF Recount, account, WireInv, Before
  <2>2. CASE pc' = [pc EXCEPT ![c] = "failed"] /\ peak' = peak
    <3>1. Creating' \subseteq Creating
      BY <2>1, <2>2 DEF Creating, TypeOK
    <3> QED
      BY <1>2, <2>1, <2>2, <3>1
  <2>3. CASE ~Full /\ pc' = [pc EXCEPT ![c] = "send"]
             /\ peak' = LET n == Cardinality(Creating \cup {c})
                        IN  IF n > peak THEN n ELSE peak
    <3>1. Creating' \subseteq Creating \cup {c}
      BY <2>1, <2>3 DEF Creating, TypeOK
    <3>2. IsFiniteSet(Creating \cup {c})
      BY FiniteSets, FS_AddElement
    <3>3. Cardinality(Creating') <= Cardinality(Creating \cup {c})
          /\ Cardinality(Creating \cup {c}) \in Nat /\ Cardinality(Creating') \in Nat
      BY <3>1, <3>2, FS_Subset, FS_CardinalityType
    <3>4. Ours' = Ours /\ FiniteInst'
      BY <2>1 DEF Ours, FiniteInst
    <3>5. Cardinality(Ours) <= MaxInstances - 1
      BY <2>3, FiniteSets DEF Full
    <3> QED
      BY <1>0, <2>3, <3>3, <3>4, <3>5, FiniteSets DEF RaceInv
  <2> QED
    BY <1>4, <2>2, <2>3 DEF Recount, FailSilently, Reject, Proceed, Goto
<1>5. ASSUME NEW c \in Calls, Send(c) \/ Reply(c) \/ GiveUp(c) \/ PostCheck(c) \/ Bounce(c)
      PROVE  FiniteInst' /\ RaceInv'
  <2>1. Creating' \subseteq Creating
    BY <1>5 DEF Send, Q!Issue, Reply, GiveUp, PostCheck, Breach, Bounce, Q!Refuse, Proceed, Goto, Creating, TypeOK
  <2>2. inst' = inst /\ peak' = peak
    BY <1>5 DEF Send, Q!Issue, Reply, GiveUp, PostCheck, Breach, Bounce, Q!Refuse, account
  <2> QED
    BY <1>2, <2>1, <2>2
<1>6. ASSUME NEW c \in Calls, Land(c) PROVE FiniteInst' /\ RaceInv'
  <2> DEFINE o == call[c].op
  <2>1. /\ wire[c] = "sent" /\ wire' = [wire EXCEPT ![c] = "landed"]
        /\ UNCHANGED <<pc, call, peak>>
    BY <1>6 DEF Land, Q!TakeEffect
  <2>2. Creating' \subseteq Creating /\ c \notin Creating'
    BY <2>1 DEF Creating, TypeOK, WireInv, Before
  <2>3. CASE o.tool = "create"
    <3> DEFINE new == [id |-> nextId, dph |-> OfferPrice(o, market[o.target]),
                       running |-> TRUE, by |-> c, stray |-> pc[c] # "wait"]
    <3>a. inst' = inst \cup {new}
      BY <1>6, <2>3, Zenon DEF Land, Q!TakeEffect, Effect
    <3>b. new.by = c
      OBVIOUS
    <3>c. new.stray = (pc[c] # "wait")
      BY Zenon
    <3> HIDE DEF new, o
    <3>1. inst' = inst \cup {new} /\ new.by = c /\ (new.stray <=> pc[c] # "wait")
      BY <3>a, <3>b, <3>c
    <3>2. FiniteInst'
      BY <3>1, FS_AddElement DEF FiniteInst
    <3>3. CASE pc[c] = "wait"
      <4>1. c \in Creating
        BY <2>1, <2>3, <3>3 DEF Creating, o
      <4>2. Creating' \subseteq Creating \ {c}
        BY <2>2
      <4>3. Cardinality(Creating \ {c}) = Cardinality(Creating) - 1
            /\ IsFiniteSet(Creating \ {c})
        BY <4>1, FiniteSets, FS_RemoveElement
      <4>4. Cardinality(Creating') <= Cardinality(Creating) - 1
            /\ Cardinality(Creating') \in Nat
        BY <4>2, <4>3, FS_Subset, FS_CardinalityType
      <4>5. Ours' \subseteq Ours \cup {new}
        BY <3>1 DEF Ours
      <4>a. IsFiniteSet(Ours) /\ Cardinality(Ours) \in Nat
        BY FiniteSets
      <4>b. /\ IsFiniteSet(Ours \cup {new})
            /\ Cardinality(Ours \cup {new}) =
                  IF new \in Ours THEN Cardinality(Ours) ELSE Cardinality(Ours) + 1
        BY <4>a, FS_AddElement, Zenon
      <4>6. IsFiniteSet(Ours \cup {new})
            /\ Cardinality(Ours \cup {new}) <= Cardinality(Ours) + 1
        BY <4>a, <4>b
      <4>7. Cardinality(Ours') <= Cardinality(Ours) + 1 /\ Cardinality(Ours') \in Nat
            /\ Cardinality(Ours \cup {new}) \in Nat
        BY <4>5, <4>6, FiniteSets, FS_Subset, FS_CardinalityType
      <4> QED
        BY <1>0, <2>1, <3>2, <4>4, <4>7, FiniteSets DEF RaceInv
    <3>4. CASE pc[c] # "wait"
      <4>1. Ours' = Ours
        BY <3>1, <3>4 DEF Ours
      <4> QED
        BY <1>1, <2>1, <2>2, <3>2, <4>1, FiniteSets
    <3> QED
      BY <3>3, <3>4
  <2>4. CASE o.tool \in {"start", "stop"}
    <3>1. inst' = {IF i.id = o.target
                   THEN [i EXCEPT !.running = (o.tool = "start")] ELSE i : i \in inst}
      BY <1>6, <2>4 DEF Land, Q!TakeEffect, Effect
    <3> HIDE DEF o
    <3>2. FiniteInst' /\ Cardinality(Ours') <= Cardinality(Ours)
      BY <3>1, SwitchStep
    <3>3. Cardinality(Ours') \in Nat
      <4>1. Ours' \subseteq inst'
        BY DEF Ours
      <4> QED
        BY <3>2, <4>1, FS_Subset, FS_CardinalityType DEF FiniteInst
    <3> QED
      BY <1>1, <2>1, <2>2, <3>2, <3>3
  <2>5. CASE o.tool \notin {"create", "start", "stop"}
    <3>1. inst' \subseteq inst
      BY <1>6, <2>5 DEF Land, Q!TakeEffect, Effect
    <3> QED
      BY <1>1, <2>1, <2>2, <3>1, Shrink
  <2> QED
    BY <2>3, <2>4, <2>5
<1>7. CASE OtherCreates
  <2>1. UNCHANGED <<pc, call, wire, peak>>
        /\ \E new : new.by = Other /\ inst' = inst \cup {new}
    BY <1>7 DEF OtherCreates
  <2>2. Ours' = Ours
    BY <2>1, AccountAssumption DEF Ours
  <2>3. FiniteInst'
    BY <2>1, FS_AddElement DEF FiniteInst
  <2>4. Creating' = Creating
    BY <2>1 DEF Creating
  <2> QED
    BY <1>1, <2>1, <2>2, <2>3, <2>4, FiniteSets
<1>8. CASE OtherDestroys
  <2>1. UNCHANGED <<pc, call, wire, peak>> /\ inst' \subseteq inst
    BY <1>8 DEF OtherDestroys
  <2>2. Creating' = Creating
    BY <2>1 DEF Creating
  <2> QED
    BY <1>1, <2>1, <2>2, Shrink
<1>9. CASE Crash
  <2>1. Creating' \subseteq Creating /\ inst' = inst /\ peak' = peak
    BY <1>9 DEF Crash, account, Creating, Active, TypeOK
  <2> QED
    BY <1>2, <2>1
<1>10. CASE UNCHANGED <<pc, call, wire, inst, peak>>
  BY <1>2, <1>10 DEF Creating
<1> QED
  BY <1>3, <1>4, <1>5, <1>6, <1>7, <1>8, <1>9, <1>10
  DEF Next, Handler, Relist, Expire, account, vars
-----------------------------------------------------------------------------
(* The price check after a create.  It looks at the instance the create      *)
(* made; that this is the one above the cap takes the fact that a call makes *)
(* at most one, which starting and stopping do not rename.                   *)

BreachInv ==
    /\ \A c \in Calls : reread[c] => wire[c] = "landed"
    /\ \A i \in inst : i.by \in Calls => wire[i.by] = "landed"
    /\ \A i, j \in inst : i.by \in Calls /\ i.by = j.by => i.dph = j.dph
    /\ \A i \in inst :
         i.by \in Calls /\ reread[i.by] /\ MaxDPH > 0 /\ i.dph > MaxDPH
             => Logged(i.by, {"PRICE_BREACH"})

\* Every instance after the step was there before, with the same maker and
\* price.
Kept == \A j \in inst' : \E i \in inst : i.by = j.by /\ i.dph = j.dph

LEMMA KeptBreach ==
    ASSUME BreachInv, Kept, audit \subseteq audit',
           \A c \in Calls : wire[c] = "landed" => wire'[c] = "landed",
           reread' = reread
    PROVE  BreachInv'
<1>1. \A c \in Calls : Logged(c, {"PRICE_BREACH"}) => Logged(c, {"PRICE_BREACH"})'
  BY DEF Logged
<1>2. \A c \in Calls : reread'[c] => wire'[c] = "landed"
  BY DEF BreachInv
<1>3. \A i \in inst' : i.by \in Calls => wire'[i.by] = "landed"
  BY DEF BreachInv, Kept
<1>4. ASSUME NEW i \in inst', NEW j \in inst', i.by \in Calls, i.by = j.by
      PROVE  i.dph = j.dph
  <2>1. PICK k \in inst : k.by = i.by /\ k.dph = i.dph
    BY DEF Kept
  <2>2. PICK l \in inst : l.by = j.by /\ l.dph = j.dph
    BY DEF Kept
  <2> QED
    BY <1>4, <2>1, <2>2 DEF BreachInv
<1>5. ASSUME NEW j \in inst', j.by \in Calls, reread'[j.by], MaxDPH > 0, j.dph > MaxDPH
      PROVE  Logged(j.by, {"PRICE_BREACH"})'
  <2>1. PICK i \in inst : i.by = j.by /\ i.dph = j.dph
    BY DEF Kept
  <2>2. Logged(i.by, {"PRICE_BREACH"})
    BY <1>5, <2>1 DEF BreachInv
  <2> QED
    BY <1>1, <1>5, <2>1, <2>2
<1> QED
  BY <1>2, <1>3, <1>4, <1>5 DEF BreachInv

LEMMA BreachStep == TypeOK /\ WireInv /\ BreachInv /\ [Next]_vars => BreachInv'
<1> SUFFICES ASSUME TypeOK, WireInv, BreachInv, [Next]_vars PROVE BreachInv'
    OBVIOUS
<1>1. ASSUME inst' \subseteq inst PROVE Kept
  BY <1>1 DEF Kept
<1>2. ASSUME NEW c \in Calls, Begin(c) \/ LookOffer(c) \/ LookInstance(c) \/ Count(c)
                              \/ ConfirmStep(c) \/ Recount(c)
      PROVE  BreachInv'
  <2>1. audit \subseteq audit' /\ UNCHANGED <<wire, inst, reread>>
    BY <1>2 DEF Begin, LookOffer, Missing, LookInstance, Count, ConfirmStep, Recount, FailSilently,
                Reject, Proceed, NotConfirmed, Log, account
  <2> QED
    BY <1>1, <2>1, KeptBreach
<1>3. ASSUME NEW c \in Calls, Send(c) \/ Reply(c) \/ GiveUp(c) \/ Bounce(c)
      PROVE  BreachInv'
  <2>1. audit \subseteq audit' /\ UNCHANGED <<inst, reread>>
    BY <1>3 DEF Send, Q!Issue, Reply, GiveUp, Bounce, Q!Refuse, Proceed, Log, account
  <2>2. wire' = wire \/ (wire[c] # "landed" /\ \E w : wire' = [wire EXCEPT ![c] = w])
    BY <1>3 DEF Send, Q!Issue, Reply, GiveUp, Bounce, Q!Refuse, WireInv, Before
  <2>3. \A d \in Calls : wire[d] = "landed" => wire'[d] = "landed"
    BY <2>2 DEF TypeOK
  <2> QED
    BY <1>1, <2>1, <2>3, KeptBreach
<1>4. ASSUME NEW c \in Calls, PostCheck(c) PROVE BreachInv'
  <2>1. wire[c] = "landed" /\ UNCHANGED <<wire, inst>>
    BY <1>4 DEF PostCheck, Breach, account, WireInv
  <2>2. CASE UNCHANGED <<audit, reread>>
    BY <1>1, <2>1, <2>2, KeptBreach
  <2>3. CASE \E i \in inst :
               /\ i.by = c
               /\ reread' = [reread EXCEPT ![c] = TRUE]
               /\ IF i.dph > MaxDPH THEN Log(c, "PRICE_BREACH") ELSE UNCHANGED audit
    <3>1. PICK i \in inst :
               /\ i.by = c
               /\ reread' = [reread EXCEPT ![c] = TRUE]
               /\ IF i.dph > MaxDPH THEN Log(c, "PRICE_BREACH") ELSE UNCHANGED audit
      BY <2>3
    <3>2. audit \subseteq audit' /\ (i.dph > MaxDPH => Logged(c, {"PRICE_BREACH"})')
      <4>1. CASE i.dph > MaxDPH
        <5>1. Log(c, "PRICE_BREACH")
          BY <3>1, <4>1
        <5>2. audit \subseteq audit'
          BY <5>1 DEF Log
        <5>3. "PRICE_BREACH" \in Status
          BY DEF Status
        <5>4. Logged(c, {"PRICE_BREACH"})'
          BY <5>1, <5>3, LogAdds
        <5> QED
          BY <5>2, <5>4
      <4>2. CASE ~(i.dph > MaxDPH)
        BY <3>1, <4>2
      <4> QED
        BY <4>1, <4>2
    <3>3. \A d \in Calls \ {c} : reread'[d] = reread[d]
      BY <3>1 DEF TypeOK
    <3>4. \A d \in Calls : Logged(d, {"PRICE_BREACH"}) => Logged(d, {"PRICE_BREACH"})'
      BY <3>2 DEF Logged
    <3>5. \A d \in Calls : reread'[d] => wire'[d] = "landed"
      BY <2>1, <3>3 DEF BreachInv
    <3>6. ASSUME NEW j \in inst', j.by \in Calls, reread'[j.by], MaxDPH > 0,
                 j.dph > MaxDPH
          PROVE  Logged(j.by, {"PRICE_BREACH"})'
      <4>1. CASE j.by = c
        <5>1. j.dph = i.dph
          BY <2>1, <3>1, <3>6, <4>1 DEF BreachInv
        <5> QED
          BY <3>2, <3>6, <4>1, <5>1
      <4>2. CASE j.by # c
        BY <2>1, <3>3, <3>4, <3>6, <4>2 DEF BreachInv
      <4> QED
        BY <4>1, <4>2
    <3> QED
      BY <2>1, <3>5, <3>6 DEF BreachInv
  <2> QED
    BY <1>4, <2>2, <2>3 DEF PostCheck, Breach
<1>5. ASSUME NEW c \in Calls, Land(c) PROVE BreachInv'
  <2> DEFINE o == call[c].op
  <2>1. /\ wire[c] = "sent" /\ UNCHANGED <<audit, reread>>
        /\ wire' = [wire EXCEPT ![c] = "landed"]
    BY <1>5 DEF Land, Q!TakeEffect
  <2>2. /\ \A d \in Calls : wire[d] = "landed" => wire'[d] = "landed"
        /\ wire'[c] = "landed"
    BY <2>1 DEF TypeOK
  <2>3. CASE o.tool = "create"
    <3> DEFINE new == [id |-> nextId, dph |-> OfferPrice(o, market[o.target]),
                       running |-> TRUE, by |-> c, stray |-> pc[c] # "wait"]
    <3>1. inst' = inst \cup {new}
      BY <1>5, <2>3, Zenon DEF Land, Q!TakeEffect, Effect
    <3>2. new.by = c
      OBVIOUS
    <3> HIDE DEF new, o
    <3>3. \A i \in inst : i.by # c
      BY <2>1 DEF BreachInv
    <3>4. ~reread'[c]
      BY <2>1 DEF BreachInv
    <3>5. \A d \in Calls : Logged(d, {"PRICE_BREACH"})' <=> Logged(d, {"PRICE_BREACH"})
      BY <2>1 DEF Logged
    <3>6. \A d \in Calls : reread'[d] => wire'[d] = "landed"
      BY <2>1, <2>2 DEF BreachInv
    <3>7. \A i \in inst' : i.by \in Calls => wire'[i.by] = "landed"
      BY <2>2, <3>1, <3>2 DEF BreachInv
    <3>8. \A i, j \in inst' : i.by \in Calls /\ i.by = j.by => i.dph = j.dph
      BY <3>1, <3>2, <3>3 DEF BreachInv
    <3>9. \A i \in inst' :
            i.by \in Calls /\ reread'[i.by] /\ MaxDPH > 0 /\ i.dph > MaxDPH
                => Logged(i.by, {"PRICE_BREACH"})'
      BY <2>1, <3>1, <3>2, <3>4, <3>5 DEF BreachInv
    <3> QED
      BY <3>6, <3>7, <3>8, <3>9 DEF BreachInv
  <2>4. CASE o.tool \in {"start", "stop"}
    <3> DEFINE on == o.tool = "start"
    <3>1. inst' = {IF i.id = o.target THEN [i EXCEPT !.running = on] ELSE i : i \in inst}
      BY <1>5, <2>4 DEF Land, Q!TakeEffect, Effect
    <3> HIDE DEF o, on
    <3>2. ASSUME NEW i \in Instance
          PROVE  [i EXCEPT !.running = on].by = i.by /\ [i EXCEPT !.running = on].dph = i.dph
      <4>1. [i EXCEPT !.running = on].by = i.by
        BY Zenon DEF Instance
      <4>2. [i EXCEPT !.running = on].dph = i.dph
        BY Zenon DEF Instance
      <4> QED
        BY <4>1, <4>2
    <3>3. ASSUME NEW j \in inst' PROVE \E i \in inst : i.by = j.by /\ i.dph = j.dph
      <4>1. PICK i \in inst :
              j = IF i.id = o.target THEN [i EXCEPT !.running = on] ELSE i
        BY <3>1, Zenon
      <4>2. i \in Instance
        BY DEF TypeOK
      <4>3. CASE i.id = o.target
        <5>1. j = [i EXCEPT !.running = on]
          BY <4>1, <4>3, Zenon
        <5> QED
          BY <3>2, <4>2, <5>1, Zenon
      <4>4. CASE i.id # o.target
        BY <4>1, <4>4, Zenon
      <4> QED
        BY <4>3, <4>4
    <3> QED
      BY <2>1, <2>2, <3>3, KeptBreach DEF Kept
  <2>5. CASE o.tool \notin {"create", "start", "stop"}
    <3>1. inst' \subseteq inst
      BY <1>5, <2>5 DEF Land, Q!TakeEffect, Effect
    <3> QED
      BY <1>1, <2>1, <2>2, <3>1, KeptBreach
  <2> QED
    BY <2>3, <2>4, <2>5
<1>6. CASE OtherCreates
  <2>1. UNCHANGED <<wire, audit, reread>>
        /\ \E new : new.by = Other /\ inst' = inst \cup {new}
    BY <1>6 DEF OtherCreates
  <2>2. \A d \in Calls : Logged(d, {"PRICE_BREACH"})' <=> Logged(d, {"PRICE_BREACH"})
    BY <2>1 DEF Logged
  <2> QED
    BY <2>1, <2>2, AccountAssumption DEF BreachInv
<1>7. CASE OtherDestroys
  <2>1. inst' \subseteq inst /\ UNCHANGED <<wire, audit, reread>>
    BY <1>7 DEF OtherDestroys
  <2> QED
    BY <1>1, <2>1, KeptBreach
<1>8. CASE UNCHANGED <<wire, inst, audit, reread>>
  BY <1>1, <1>8, KeptBreach
<1> QED
  BY <1>2, <1>3, <1>4, <1>5, <1>6, <1>7, <1>8
  DEF Next, Handler, Relist, Expire, Crash, account, vars
-----------------------------------------------------------------------------
(* The spend cap on a start. *)

\* Which handlers reach the stages before the request.
ToolInv ==
    \A c \in Calls :
        /\ pc[c] \in {"count", "recount"} => call[c].op.tool = "create"
        /\ pc[c] = "confirm" => call[c].op.tool \in Confirmable

\* Ids name instances.
IdInv ==
    /\ \A i \in inst : i.id < nextId
    /\ \A i, j \in inst : i.id = j.id => i = j

\* The start of an instance, asked for or under way.
Starting(c) ==
    /\ pc[c] = "send" \/ wire[c] = "sent"
    /\ call[c].op.tool = "start"

\* Whatever is started was within the cap when it was looked at, and is now:
\* its price stays and its id is not given again.
StartInv ==
    \A c \in Calls : Starting(c) /\ MaxDPH > 0 =>
        /\ call[c].op.target < nextId
        /\ \A i \in inst : i.id = call[c].op.target => ~OverCap(i.dph)

\* What is done to the instances gives no id twice and changes no price.
KeepsInst ==
    /\ nextId' \in Nat /\ nextId <= nextId'
    /\ \A j \in inst' :
         \/ \E i \in inst : i.id = j.id /\ i.dph = j.dph
         \/ j.id = nextId /\ j.id < nextId'
    /\ \A j, k \in inst' : j.id = k.id => j = k

LEMMA ToolStep == TypeOK /\ ToolInv /\ [Next]_vars => ToolInv'
<1> SUFFICES ASSUME TypeOK, ToolInv, [Next]_vars, NEW d \in Calls
             PROVE  /\ pc'[d] \in {"count", "recount"} => call'[d].op.tool = "create"
                    /\ pc'[d] = "confirm" => call'[d].op.tool \in Confirmable
    BY DEF ToolInv
<1> USE DEF ToolInv
<1>1. ASSUME UNCHANGED <<pc, call>>
      PROVE  /\ pc'[d] \in {"count", "recount"} => call'[d].op.tool = "create"
             /\ pc'[d] = "confirm" => call'[d].op.tool \in Confirmable
  BY <1>1
<1>2. ASSUME NEW c \in Calls, c # d, Handler(c)
      PROVE  pc'[d] = pc[d] /\ call'[d] = call[d]
  BY <1>2 DEF TypeOK, Handler, Begin, LookOffer, LookInstance, Count, ConfirmStep, Recount, Send, Q!Issue,
     Reply, GiveUp, PostCheck, Goto, FailSilently, Reject, Proceed, NotConfirmed
<1>3. ASSUME Begin(d) PROVE pc'[d] \in {"count", "recount"} => call'[d].op.tool = "create"
  BY <1>3 DEF Begin, First, Goto, TypeOK
<1>4. ASSUME Begin(d) PROVE pc'[d] = "confirm" => call'[d].op.tool \in Confirmable
  BY <1>4 DEF Begin, First, Goto, TypeOK, Confirmable
<1>5. ASSUME LookOffer(d)
      PROVE  call'[d].op.tool = "create"
  BY <1>5, DataAssumption DEF LookOffer, TypeOK, Call, NoCall
<1>6. ASSUME LookInstance(d)
      PROVE  /\ pc'[d] \notin {"count", "recount"}
             /\ pc'[d] = "confirm" => call'[d].op.tool = "destroy"
  BY <1>6 DEF LookInstance, TypeOK, Call, NoCall, Goto, FailSilently, Reject, Proceed
<1>7. ASSUME Count(d) \/ ConfirmStep(d) \/ Recount(d) \/ Send(d) \/ Reply(d) \/ GiveUp(d)
             \/ PostCheck(d)
      PROVE  /\ pc'[d] \in {"count", "recount"} => call'[d].op.tool = "create"
             /\ pc'[d] = "confirm" => call'[d].op.tool = "create"
  BY <1>7 DEF Count, ConfirmStep, Recount, Send, Q!Issue, Reply, GiveUp, PostCheck, TypeOK, Goto,
     FailSilently, Reject, Proceed, NotConfirmed, AfterConfirm
<1>8. "create" \in Confirmable /\ "destroy" \in Confirmable
  BY DEF Confirmable
<1>9. ASSUME Crash
      PROVE  /\ pc'[d] \in {"count", "recount"} => call'[d].op.tool = "create"
             /\ pc'[d] = "confirm" => call'[d].op.tool \in Confirmable
  BY <1>9 DEF Crash, Active
<1> QED
  BY <1>1, <1>2, <1>3, <1>4, <1>5, <1>6, <1>7, <1>8, <1>9
     DEF Next, Handler, vars, Land, Q!TakeEffect, Bounce, Q!Refuse, Relist, OtherCreates, OtherDestroys, Expire

LEMMA AccountStep ==
    ASSUME TypeOK, IdInv, [Next]_vars
    PROVE  KeepsInst
<1> USE DEF TypeOK, IdInv, KeepsInst
<1>1. CASE UNCHANGED <<inst, nextId>>
  BY <1>1
<1>2. CASE inst' \subseteq inst /\ UNCHANGED nextId
  BY <1>2
<1>3. ASSUME NEW n, n.id = nextId, nextId' = nextId + 1, inst' = inst \cup {n}
      PROVE  KeepsInst
  <2>1. nextId \in Nat /\ \A i \in inst : i.id \in Nat /\ i.id # nextId
    BY CapsAssumption DEF Instance
  <2> QED
    BY <1>3, <2>1
<1>4. ASSUME NEW c \in Calls, Land(c) PROVE KeepsInst
  <2> DEFINE o == call[c].op
  <2>1. CASE o.tool = "create"
    <3> DEFINE n == [id |-> nextId, dph |-> OfferPrice(o, market[o.target]),
                     running |-> TRUE, by |-> c, stray |-> pc[c] # "wait"]
    <3>1. n.id = nextId /\ nextId' = nextId + 1 /\ inst' = inst \cup {n}
      BY <1>4, <2>1 DEF Land, Q!TakeEffect, Effect
    <3> HIDE DEF n
    <3> QED
      BY <3>1, <1>3
  <2>2. CASE o.tool = "destroy"
    BY <1>4, <2>2, <1>2 DEF Land, Q!TakeEffect, Effect
  <2>3. CASE o.tool \in {"start", "stop"}
    <3> DEFINE f(i) == IF i.id = o.target THEN [i EXCEPT !.running = (o.tool = "start")] ELSE i
    <3>1. nextId' = nextId /\ inst' = {f(i) : i \in inst}
      BY <1>4, <2>3 DEF Land, Q!TakeEffect, Effect
    <3>2. \A i \in inst : f(i).id = i.id /\ f(i).dph = i.dph
      BY DEF Instance
    <3> HIDE DEF f
    <3> QED
      BY <3>1, <3>2
  <2>4. CASE o.tool \notin {"create", "destroy", "start", "stop"}
    BY <1>4, <2>4, <1>1 DEF Land, Q!TakeEffect, Effect
  <2> QED
    BY <2>1, <2>2, <2>3, <2>4
<1>5. ASSUME OtherCreates PROVE KeepsInst
  <2>1. PICK l \in Listings :
          inst' = inst \cup {[id |-> nextId, dph |-> l.total, running |-> TRUE,
                              by |-> Other, stray |-> FALSE]}
    BY <1>5 DEF OtherCreates
  <2> DEFINE n == [id |-> nextId, dph |-> l.total, running |-> TRUE, by |-> Other,
                   stray |-> FALSE]
  <2>2. n.id = nextId /\ nextId' = nextId + 1 /\ inst' = inst \cup {n}
    BY <1>5, <2>1 DEF OtherCreates
  <2> HIDE DEF n
  <2> QED
    BY <2>2, <1>3
<1>6. ASSUME NEW c \in Calls, Handler(c) PROVE KeepsInst
  BY <1>6, <1>1 DEF Handler, Begin, LookOffer, LookInstance, Count, ConfirmStep, Recount, Send, Q!Issue,
     Reply, GiveUp, PostCheck, account
<1> QED
  BY <1>1, <1>2, <1>4, <1>5, <1>6
     DEF Next, vars, Bounce, Q!Refuse, Relist, OtherDestroys, Expire, Crash, account

LEMMA IdStep ==
    ASSUME TypeOK, TypeOK', IdInv, [Next]_vars
    PROVE  IdInv'
<1>1. KeepsInst
  BY AccountStep
<1> QED
  BY <1>1 DEF KeepsInst, IdInv, TypeOK, Instance

\* A start comes to its request only from the look at the instance.
LEMMA StartsFromLook ==
    ASSUME TypeOK, WireInv, ToolInv, IdInv, MaxDPH > 0, [Next]_vars, NEW d \in Calls,
           Starting(d)', ~Starting(d)
    PROVE  /\ call'[d].op.target < nextId
           /\ \A i \in inst : i.id = call'[d].op.target => ~OverCap(i.dph)
<1> USE DEF Starting
<1>0. ~UNCHANGED <<pc, call, wire>>
  OBVIOUS
<1>1. ASSUME NEW c \in Calls, c # d, Handler(c) PROVE FALSE
  <2>1. pc'[d] = pc[d] /\ call'[d] = call[d] /\ wire'[d] = wire[d]
    BY <1>1 DEF TypeOK, Handler, Begin, LookOffer, LookInstance, Count, ConfirmStep, Recount,
       Send, Q!Issue, Reply, GiveUp, PostCheck, Goto, FailSilently, Reject, Proceed, NotConfirmed
  <2> QED
    BY <2>1
<1>2. ASSUME Begin(d) PROVE FALSE
  BY <1>2 DEF Begin, First, Goto, TypeOK, WireInv, Before
<1>3. ASSUME LookOffer(d) PROVE FALSE
  <2>1. call'[d].op.tool = "create"
    BY <1>3 DEF LookOffer, TypeOK, Call, NoCall
  <2> QED
    BY <2>1
<1>4. ASSUME LookInstance(d)
      PROVE  /\ call'[d].op.target < nextId
             /\ \A i \in inst : i.id = call'[d].op.target => ~OverCap(i.dph)
  <2>1. call'[d].op = call[d].op /\ pc[d] = "look" /\ wire'[d] = "none"
    BY <1>4 DEF LookInstance, TypeOK, Call, NoCall, WireInv, Before
  <2>2. pc'[d] = "send"
    BY <2>1
  <2>3. PICK i \in inst : i.id = call[d].op.target /\ ~OverCap(i.dph)
    BY <1>4, <2>1, <2>2 DEF LookInstance, TypeOK, Goto, FailSilently, Reject, Proceed
  <2> QED
    BY <2>1, <2>3 DEF IdInv
<1>5. ASSUME Count(d) \/ ConfirmStep(d) \/ Recount(d) PROVE FALSE
  <2>1. call'[d] = call[d] /\ wire'[d] = wire[d] /\ call[d].op.tool # "start"
    BY <1>5 DEF Count, ConfirmStep, Recount, ToolInv, Confirmable
  <2> QED
    BY <2>1
<1>6. ASSUME Send(d) PROVE FALSE
  BY <1>6 DEF Send, Q!Issue
<1>7. ASSUME Reply(d) \/ GiveUp(d) \/ PostCheck(d) PROVE FALSE
  BY <1>7 DEF Reply, GiveUp, PostCheck, Goto, FailSilently, Reject, Proceed, TypeOK
<1>8. ASSUME NEW c \in Calls, Land(c) \/ Bounce(c) PROVE FALSE
  BY <1>8 DEF Land, Q!TakeEffect, Bounce, Q!Refuse, TypeOK
<1>9. ASSUME Crash PROVE FALSE
  BY <1>9 DEF Crash, TypeOK, Active
<1> QED
  BY <1>0, <1>1, <1>2, <1>3, <1>4, <1>5, <1>6, <1>7, <1>8, <1>9
     DEF Next, Handler, vars, Relist, OtherCreates, OtherDestroys, Expire

\* What a call asks for stays, once it has begun.
LEMMA OpKept ==
    ASSUME TypeOK, WireInv, [Next]_vars, NEW d \in Calls, pc[d] # "new"
    PROVE  call'[d].op = call[d].op
<1>1. ASSUME NEW c \in Calls, Handler(c) PROVE call'[d].op = call[d].op
  BY <1>1 DEF TypeOK, Handler, Begin, LookOffer, LookInstance, Count, ConfirmStep, Recount, Send, Q!Issue,
     Reply, GiveUp, PostCheck, Call
<1> QED
  BY <1>1 DEF Next, vars, Land, Q!TakeEffect, Bounce, Q!Refuse, Relist, OtherCreates, OtherDestroys, Expire, Crash

LEMMA StartStep ==
    ASSUME TypeOK, TypeOK', WireInv, ToolInv, IdInv, StartInv, [Next]_vars
    PROVE  StartInv'
<1> SUFFICES ASSUME NEW d \in Calls, Starting(d)', MaxDPH > 0
             PROVE  /\ call'[d].op.target < nextId'
                    /\ \A j \in inst' : j.id = call'[d].op.target => ~OverCap(j.dph)
    BY DEF StartInv, OverCap
<1>1. KeepsInst
  BY AccountStep
<1>2. /\ call'[d].op.target < nextId
      /\ \A i \in inst : i.id = call'[d].op.target => ~OverCap(i.dph)
  <2>1. CASE Starting(d)
    <3>1. pc[d] # "new"
      BY <2>1 DEF Starting, WireInv, Before
    <3> QED
      BY <2>1, <3>1, OpKept DEF StartInv
  <2>2. CASE ~Starting(d)
    BY <2>2, StartsFromLook
  <2> QED
    BY <2>1, <2>2
<1>3. call'[d].op.target \in Nat /\ nextId \in Nat /\ nextId' \in Nat
  <2>1. WireInv'
    BY WireStep
  <2>2. pc'[d] # "new"
    BY <2>1 DEF Starting, WireInv, Before
  <2>3. call'[d].op \in Op
    BY <2>2, DataAssumption DEF TypeOK, Call
  <2> QED
    BY <2>3, CapsAssumption DEF TypeOK, Op
<1> QED
  BY <1>1, <1>2, <1>3 DEF KeepsInst
-----------------------------------------------------------------------------
(* The spend cap on a create. *)

\* The call is past the look at its offer, or its request is out.
Committed(c) == pc[c] \in {"count", "confirm", "recount", "send"} \/ wire[c] # "none"

\* Whatever is going to be created was quoted within the cap.
QuoteInv ==
    MaxDPH > 0 =>
        \A c \in Calls : Committed(c) /\ call[c].op.tool = "create" => call[c].quote \in 0..MaxDPH

\* Instances of a call come from its create.
MakerInv ==
    \A i \in inst : i.by \in Calls => wire[i.by] = "landed" /\ call[i.by].op.tool = "create"

\* A create commits itself only by the look at its offer, and its quote stays.
LEMMA CommitsAtLook ==
    ASSUME TypeOK, WireInv, [Next]_vars, NEW d \in Calls, Committed(d)',
           call'[d].op.tool = "create"
    PROVE  \/ Committed(d) /\ call'[d] = call[d]
           \/ LookOffer(d) /\ pc'[d] \in {"count", "confirm"}
<1> DEFINE Goal == \/ Committed(d) /\ call'[d] = call[d]
                   \/ LookOffer(d) /\ pc'[d] \in {"count", "confirm"}
<1> USE DEF Committed
<1>1. CASE UNCHANGED <<pc, call, wire>>
  BY <1>1
<1>2. ASSUME NEW c \in Calls, c # d, Handler(c) PROVE Goal
  <2>1. pc'[d] = pc[d] /\ call'[d] = call[d] /\ wire'[d] = wire[d]
    BY <1>2 DEF TypeOK, Handler, Begin, LookOffer, LookInstance, Count, ConfirmStep, Recount,
       Send, Q!Issue, Reply, GiveUp, PostCheck, Goto, FailSilently, Reject, Proceed, NotConfirmed
  <2> QED
    BY <2>1
<1>3. ASSUME Begin(d) PROVE FALSE
  BY <1>3 DEF Begin, First, Goto, TypeOK, WireInv, Before
<1>4. ASSUME LookOffer(d) PROVE Goal
  <2>1. wire'[d] = "none"
    BY <1>4 DEF LookOffer, WireInv, Before
  <2>2. pc'[d] \in {"failed", "count", "confirm"}
    BY <1>4 DEF LookOffer, Missing, FailSilently, Reject, Proceed, Goto, TypeOK
  <2> QED
    BY <1>4, <2>1, <2>2
<1>5. ASSUME LookInstance(d) PROVE FALSE
  BY <1>5 DEF LookInstance, TypeOK, Call, NoCall
<1>6. ASSUME Count(d) \/ ConfirmStep(d) \/ Recount(d) \/ Send(d) PROVE Goal
  BY <1>6 DEF Count, ConfirmStep, Recount, Send, Q!Issue
<1>7. ASSUME Reply(d) \/ GiveUp(d) \/ PostCheck(d) PROVE Goal
  BY <1>7 DEF Reply, GiveUp, PostCheck, WireInv
<1>8. ASSUME NEW c \in Calls, Land(c) \/ Bounce(c) PROVE Goal
  <2>1. pc' = pc /\ call' = call
    BY <1>8 DEF Land, Bounce
  <2>2. \/ wire'[d] = wire[d]
        \/ wire[d] = "sent"
    BY <1>8 DEF Land, Q!TakeEffect, Bounce, Q!Refuse, TypeOK
  <2> QED
    BY <2>1, <2>2
<1>9. CASE Crash
  BY <1>9 DEF Crash, TypeOK, Active
<1> QED
  BY <1>1, <1>2, <1>3, <1>4, <1>5, <1>6, <1>7, <1>8, <1>9
     DEF Next, Handler, vars, Relist, OtherCreates, OtherDestroys, Expire

LEMMA QuoteStep == TypeOK /\ WireInv /\ QuoteInv /\ [Next]_vars => QuoteInv'
<1> SUFFICES ASSUME TypeOK, WireInv, QuoteInv, [Next]_vars, NEW d \in Calls, MaxDPH > 0,
                    Committed(d)', call'[d].op.tool = "create"
             PROVE  call'[d].quote \in 0..MaxDPH
    BY DEF QuoteInv
<1>1. CASE Committed(d) /\ call'[d] = call[d]
  BY <1>1 DEF QuoteInv
<1>2. CASE LookOffer(d) /\ pc'[d] \in {"count", "confirm"}
  <2> DEFINE price == OfferPrice(call[d].op, market[call[d].op.target])
  <2>1. market[call[d].op.target] # Gone /\ ~OverCap(price)
        /\ call' = [call EXCEPT ![d].quote = price]
    BY <1>2 DEF LookOffer, Missing, FailSilently, Reject, Proceed, Goto, TypeOK
  <2>2. call[d] \in Call /\ call[d].op \in Ops /\ call[d].op.target \in OfferIds
    BY <1>2, DataAssumption DEF LookOffer, TypeOK, Call
  <2>3. price \in Price
    BY <2>1, <2>2, OfferPriceType DEF TypeOK
  <2>4. price \in 0..MaxDPH
    BY <2>1, <2>3, CapsAssumption DEF OverCap, Price
  <2>5. call'[d].quote = price
    BY <2>1, <2>2 DEF TypeOK, Call
  <2> QED
    BY <2>4, <2>5
<1> QED
  BY <1>1, <1>2, CommitsAtLook

\* The maker of an instance and what it asked for stay.
LEMMA MakerStep == TypeOK /\ WireInv /\ MakerInv /\ [Next]_vars => MakerInv'
<1> SUFFICES ASSUME TypeOK, WireInv, MakerInv, [Next]_vars PROVE MakerInv'
    OBVIOUS
<1>1. \A d \in Calls : wire[d] = "landed" => wire'[d] = "landed" /\ call'[d].op = call[d].op
  <2> SUFFICES ASSUME NEW d \in Calls, wire[d] = "landed"
               PROVE  wire'[d] = "landed" /\ call'[d].op = call[d].op
    OBVIOUS
  <2>1. pc[d] # "new" /\ pc[d] # "send"
    BY DEF WireInv, Before
  <2>2. call'[d].op = call[d].op
    BY <2>1, OpKept
  <2>3. wire'[d] = "landed"
    BY <2>1 DEF Next, Handler, Begin, LookOffer, LookInstance, Count, ConfirmStep, Recount,
       Send, Q!Issue, Reply, GiveUp, PostCheck, vars, Land, Q!TakeEffect, Bounce, Q!Refuse,
       Relist, OtherCreates, OtherDestroys, Expire, Crash, TypeOK
  <2> QED
    BY <2>2, <2>3
<1>2. ASSUME \A j \in inst' : j.by \in Calls => \E i \in inst : i.by = j.by
      PROVE  MakerInv'
  BY <1>1, <1>2 DEF MakerInv
<1>3. ASSUME NEW c \in Calls, Land(c) PROVE MakerInv'
  <2> DEFINE o == call[c].op
  <2>1. CASE o.tool = "create"
    <3> DEFINE n == [id |-> nextId, dph |-> OfferPrice(o, market[o.target]),
                     running |-> TRUE, by |-> c, stray |-> pc[c] # "wait"]
    <3>1. n.by = c /\ inst' = inst \cup {n} /\ wire'[c] = "landed" /\ call' = call
      BY <1>3, <2>1 DEF Land, Q!TakeEffect, Effect, TypeOK
    <3> HIDE DEF n
    <3> QED
      BY <1>1, <2>1, <3>1 DEF MakerInv
  <2>2. CASE o.tool \in {"start", "stop"}
    <3> DEFINE f(i) == IF i.id = o.target THEN [i EXCEPT !.running = (o.tool = "start")] ELSE i
    <3>1. inst' = {f(i) : i \in inst}
      BY <1>3, <2>2 DEF Land, Q!TakeEffect, Effect
    <3>2. \A i \in inst : f(i).by = i.by
      BY DEF TypeOK, Instance
    <3> HIDE DEF f
    <3> QED
      BY <1>2, <3>1, <3>2
  <2>3. CASE o.tool \notin {"create", "start", "stop"}
    BY <1>2, <1>3, <2>3 DEF Land, Q!TakeEffect, Effect
  <2> QED
    BY <2>1, <2>2, <2>3
<1>4. CASE OtherCreates
  BY <1>1, <1>4, AccountAssumption DEF OtherCreates, MakerInv
<1>5. CASE OtherDestroys
  BY <1>2, <1>5 DEF OtherDestroys
<1>6. CASE UNCHANGED inst
  BY <1>2, <1>6
<1>7. ASSUME NEW c \in Calls, Handler(c) PROVE UNCHANGED inst
  BY <1>7 DEF Handler, Begin, LookOffer, LookInstance, Count, ConfirmStep, Recount, Send, Q!Issue,
     Reply, GiveUp, PostCheck, account
<1> QED
  BY <1>3, <1>4, <1>5, <1>6, <1>7
     DEF Next, vars, Bounce, Q!Refuse, Relist, Expire, Crash, account
-----------------------------------------------------------------------------
Inv ==
    /\ TypeOK /\ WireInv /\ AuditInv /\ VerdictInv /\ ConsentInv
    /\ FiniteInst /\ RaceInv /\ BreachInv
    /\ ToolInv /\ IdInv /\ StartInv
    /\ QuoteInv /\ MakerInv

LEMMA InitInv == Init => Inv
<1> SUFFICES ASSUME Init PROVE Inv
    OBVIOUS
<1>1. TypeOK
  BY TypeInit
<1>2. WireInv
  BY DEF Init, Q!QInit, WireInv, Before
<1>3. AuditInv
  BY DEF Init, Q!QInit, AuditInv, Logged
<1>4. VerdictInv /\ ConsentInv
  BY DEF Init, Q!QInit, VerdictInv, ConsentInv, A!AInit
<1>5. FiniteInst
  BY AccountAssumption DEF Init, Q!QInit, FiniteInst
<1>6. RaceInv
  <2>1. Ours = {} /\ Creating = {} /\ peak = 0
    BY AccountAssumption DEF Init, Q!QInit, Ours, Creating
  <2> QED
    BY <2>1, FS_EmptySet, CapsAssumption DEF RaceInv
<1>7. BreachInv
  BY AccountAssumption DEF Init, Q!QInit, BreachInv
<1>8. ToolInv /\ StartInv
  BY DEF Init, Q!QInit, ToolInv, StartInv, Starting
<1>10. QuoteInv /\ MakerInv
  BY AccountAssumption DEF Init, Q!QInit, QuoteInv, MakerInv, Committed
<1>9. IdInv
  <2>1. Cardinality(InitInst) \in Nat
    BY AccountAssumption, FS_CardinalityType
  <2>2. \A i \in InitInst : i.id \in Nat
    BY AccountAssumption, CapsAssumption DEF Instance
  <2> QED
    BY <2>1, <2>2, IdsAssumption DEF Init, Q!QInit, IdInv
<1> QED
  BY <1>1, <1>2, <1>3, <1>4, <1>5, <1>6, <1>7, <1>8, <1>9, <1>10 DEF Inv

LEMMA StepInv == Inv /\ [Next]_vars => Inv'
<1> SUFFICES ASSUME Inv, [Next]_vars PROVE Inv'
    OBVIOUS
<1>1. TypeOK'
  BY TypeStep DEF Inv
<1>2. (ToolInv /\ IdInv /\ StartInv)'
  BY <1>1, ToolStep, IdStep, StartStep DEF Inv
<1> QED
  BY <1>1, <1>2, WireStep, AuditStep, VerdictStep, ConsentStep, RaceStep, BreachStep,
     QuoteStep, MakerStep
  DEF Inv

LEMMA Invariance == Spec => []Inv
BY InitInv, StepInv, PTL DEF Spec

\* The variables of the handlers keep their types.
THEOREM TypeCorrect == Spec => []TypeOK
BY Invariance, PTL DEF Inv

\* For any number of concurrent creates: the server goes over the instance
\* cap (tools.go:442-486) only by as many as were past their own re-check at
\* one time, less one.
THEOREM BoundedOvershoot == Spec => []OvershootOnlyByRace
<1>1. Inv => OvershootOnlyByRace
  BY FiniteSets, CapsAssumption DEF Inv, RaceInv, OvershootOnlyByRace, TypeOK
<1> QED
  BY <1>1, Invariance, PTL

\* Every effect is in the audit log when its call ends, and every success in
\* the log had its effect (config.go:146-177 and its callers in tools.go).
THEOREM AuditFaithful == Spec => []AuditMatchesAccount
<1>1. Inv => AuditMatchesAccount
  <2> SUFFICES ASSUME Inv, NEW c \in Calls
               PROVE  /\ landed[c] > 0 /\ pc[c] \in {"done", "failed"} =>
                            Logged(c, {"created", "destroyed", "ok", "error"})
                      /\ Logged(c, {"created", "destroyed", "ok", "PRICE_BREACH"})
                            => landed[c] > 0
    BY DEF AuditMatchesAccount
  <2>1. landed[c] = (IF wire[c] = "landed" THEN 1 ELSE 0)
    BY DEF Inv, WireInv
  <2>2. ASSUME landed[c] > 0, pc[c] \in {"done", "failed"}
        PROVE  Logged(c, {"created", "destroyed", "ok", "error"})
    <3>1. Logged(c, {"created", "destroyed", "ok"}) \/ Logged(c, {"error"})
      BY <2>1, <2>2 DEF Inv, AuditInv
    <3> QED
      BY <3>1 DEF Logged
  <2>3. ASSUME Logged(c, {"created", "destroyed", "ok", "PRICE_BREACH"})
        PROVE  landed[c] > 0
    BY <2>1, <2>3 DEF Inv, AuditInv
  <2> QED
    BY <2>2, <2>3
<1> QED
  BY <1>1, Invariance, PTL

\* Of the calls to tools that confirm, each has at most one effect, which the
\* user agreed to, and no two have it on the same approval (guard.go:39-92).
THEOREM OneEffect == Spec => []OneEffectPerApproval
<1>1. Inv => OneEffectPerApproval
  <2> SUFFICES ASSUME Inv, NEW c \in Calls, landed[c] > 0,
                      call[c].op.tool \in Guarded
               PROVE  /\ landed[c] = 1
                      /\ \/ call[c].way = "arg"
                         \/ /\ Pays(c) \in verdicts
                            /\ Shows(call[c].answers, c)
                            /\ \A d \in Calls \ {c} :
                                 landed[d] > 0 /\ call[d].op.tool \in Guarded
                                     => call[d].answers # call[c].answers
    BY DEF OneEffectPerApproval
  <2>1. \A d \in Calls : landed[d] > 0 => landed[d] = 1 /\ wire[d] = "landed"
    BY DEF Inv, WireInv
  <2>2. \A d \in Calls : landed[d] > 0 /\ call[d].op.tool \in Guarded => ConsentTo(d)
    BY <2>1 DEF Inv, ConsentInv
  <2>3. \A d \in Calls : landed[d] > 0 /\ call[d].way = "arg"
                             => call[d].answers = NoApproval
    BY <2>1 DEF Inv, ConsentInv, WireInv, Before
  <2>4. ASSUME Pays(c) \in verdicts, NEW d \in Calls \ {c}, landed[d] > 0,
               call[d].op.tool \in Guarded, call[d].answers = call[c].answers
        PROVE  FALSE
    <3>1. call[c].answers \in asked
      BY <2>4 DEF Inv, VerdictInv, Pays
    <3>2. call[c].answers.by \in Calls
      BY <3>1 DEF Inv, TypeOK, AnApproval
    <3>3. call[d].way # "arg"
      BY <2>3, <2>4, <3>2, AccountAssumption DEF NoApproval
    <3>4. Pays(d) \in verdicts
      BY <2>2, <2>4, <3>3 DEF ConsentTo
    <3>5. Pays(c) = Pays(d)
      BY <2>4, <3>4 DEF Inv, VerdictInv, Pays
    <3> QED
      BY <3>5 DEF Pays
  <2> QED
    BY <2>1, <2>2, <2>4 DEF ConsentTo
<1> QED
  BY <1>1, Invariance, PTL

\* Nothing is created on a quote over the spend cap, or on none: whatever the
\* server pays above it, the offer was repriced after the look
\* (tools.go:420-441).
THEOREM NoOverspendButByReprice == Spec => []OverspendOnlyByReprice
<1>1. Inv => OverspendOnlyByReprice
  BY DEF Inv, QuoteInv, MakerInv, Committed, OverspendOnlyByReprice
<1> QED
  BY <1>1, Invariance, PTL

\* An instance the server created above the spend cap is in the log as a
\* breach once its price was read again (tools.go:502-512).
THEOREM BreachKept == Spec => []BreachRecorded
<1>1. Inv => BreachRecorded
  <2> SUFFICES ASSUME Inv, NEW i \in Ours, i.dph > MaxDPH, MaxDPH > 0, reread[i.by]
               PROVE  Logged(i.by, {"PRICE_BREACH"})
    BY DEF BreachRecorded
  <2>1. i \in inst /\ i.by \in Calls
    BY DEF Ours
  <2> QED
    BY <2>1 DEF Inv, BreachInv
<1> QED
  BY <1>1, Invariance, PTL

\* Starting an instance resumes billing, and is refused above the spend cap
\* (tools.go:563-585): whatever happens to the account between the look and
\* the request, the instance that is turned on is not over the cap.
THEOREM NoStartOverCap == Spec => NeverStartsOverCap
<1>1. ASSUME TypeOK, IdInv, StartInv, [Next]_vars, NEW i \in inst, NEW j \in inst',
             i.id = j.id, ~i.running, j.running, MaxDPH > 0
      PROVE  ~OverCap(j.dph)
  <2>1. CASE UNCHANGED inst
    BY <1>1, <2>1 DEF IdInv
  <2>2. CASE inst' \subseteq inst
    BY <1>1, <2>2 DEF IdInv
  <2>3. ASSUME NEW c \in Calls, Land(c) PROVE ~OverCap(j.dph)
    <3> DEFINE o == call[c].op
    <3>1. CASE o.tool = "create"
      <4>1. j \in inst \/ j.id = nextId
        BY <2>3, <3>1 DEF Land, Q!TakeEffect, Effect
      <4> QED
        BY <1>1, <4>1 DEF IdInv, TypeOK, Instance
    <3>2. CASE o.tool = "destroy"
      BY <1>1, <2>2, <2>3, <3>2 DEF Land, Q!TakeEffect, Effect
    <3>3. CASE o.tool \in {"start", "stop"}
      <4>1. PICK k \in inst :
              j = IF k.id = o.target THEN [k EXCEPT !.running = (o.tool = "start")] ELSE k
        BY <2>3, <3>3 DEF Land, Q!TakeEffect, Effect
      <4>2. k.id = j.id /\ k.dph = j.dph
        BY <4>1 DEF TypeOK, Instance
      <4>3. k = i
        BY <1>1, <4>2 DEF IdInv
      <4>4. k.id = o.target /\ o.tool = "start"
        BY <1>1, <4>1, <4>3, <3>3 DEF TypeOK, Instance
      <4>5. Starting(c)
        BY <2>3, <4>4 DEF Starting, Land, Q!TakeEffect
      <4> QED
        BY <1>1, <4>2, <4>4, <4>5 DEF StartInv
    <3>4. CASE o.tool \notin {"create", "destroy", "start", "stop"}
      BY <2>1, <2>3, <3>4 DEF Land, Q!TakeEffect, Effect
    <3> QED
      BY <3>1, <3>2, <3>3, <3>4
  <2>4. ASSUME OtherCreates PROVE ~OverCap(j.dph)
    <3>1. j \in inst \/ j.id = nextId
      BY <2>4 DEF OtherCreates
    <3> QED
      BY <1>1, <3>1 DEF IdInv, TypeOK, Instance
  <2>5. ASSUME NEW c \in Calls, Handler(c) PROVE UNCHANGED inst
    BY <2>5 DEF Handler, Begin, LookOffer, LookInstance, Count, ConfirmStep, Recount, Send, Q!Issue,
       Reply, GiveUp, PostCheck, account
  <2> QED
    BY <1>1, <2>1, <2>2, <2>3, <2>4, <2>5
       DEF Next, vars, Bounce, Q!Refuse, Relist, OtherDestroys, Expire, Crash, account
<1>2. TypeOK /\ IdInv /\ StartInv /\ [Next]_vars
        => [\A i \in inst, j \in inst' :
              i.id = j.id /\ ~i.running /\ j.running => ~OverCap(j.dph)]_vars
  BY <1>1 DEF OverCap
<1> QED
  BY <1>2, Invariance, PTL DEF Inv, NeverStartsOverCap, Spec
-----------------------------------------------------------------------------
(* The handlers use confirmation and the client as these promise to be used.  *)

\* Seen through asked, open and verdicts, the concurrent handlers, expiry and
\* crashes are one run of the abstract approval: what Confirmation implements
\* is what Guardrails builds on.
THEOREM ApprovalRefinement == Spec => A!ASpec
<1>1. Init => A!AInit
  BY DEF Init
<1>2. TypeOK /\ [Next]_vars => [A!ANext]_A!avars
  <2> SUFFICES ASSUME TypeOK, [Next]_vars PROVE [A!ANext]_A!avars
    OBVIOUS
  <2>1. CASE UNCHANGED approval
    BY <2>1 DEF approval, A!avars
  <2>2. ASSUME NEW a \in AnApproval, A!AskFor(a) PROVE A!ANext
    BY <2>2 DEF A!ANext
  <2>3. ASSUME NEW c \in Calls, NEW a \in open, NEW yes \in BOOLEAN, A!DecideOn(c, a, yes)
        PROVE  A!ANext
    <3>1. a \in AnApproval
      BY DEF TypeOK
    <3> QED
      BY <2>3, <3>1 DEF A!ANext
  <2>4. ASSUME NEW S \in SUBSET open, A!Withdraw(S) PROVE A!ANext
    BY <2>4 DEF A!ANext
  <2> QED
    BY <2>1, <2>2, <2>3, <2>4, ApprovalSteps
<1> QED
  BY <1>1, <1>2, Invariance, PTL DEF Inv, Spec, A!ASpec

\* And the requests the handlers make are those of Request, each made once:
\* what the calls of VastClient that are not retried implement.
THEOREM RequestRefinement == Spec => Q!QSpec
<1>1. Init => Q!QInit
  BY DEF Init
<1>2. TypeOK /\ [Next]_vars => [Q!QNext]_Q!qvars
  <2> SUFFICES ASSUME TypeOK, [Next]_vars PROVE [Q!QNext]_Q!qvars
    OBVIOUS
  <2>1. CASE UNCHANGED <<wire, landed>>
    BY <2>1 DEF Q!qvars
  <2>2. ASSUME NEW c \in Calls, Handler(c) PROVE Q!Issue(c) \/ UNCHANGED <<wire, landed>>
    BY <2>2, EarlySteps DEF Handler, Send, Reply, GiveUp, PostCheck
  <2>3. ASSUME NEW c \in Calls, Land(c) \/ Bounce(c) PROVE Q!TakeEffect(c) \/ Q!Refuse(c)
    BY <2>3 DEF Land, Bounce
  <2>4. ASSUME NEW c \in Calls, Q!Issue(c) \/ Q!TakeEffect(c) \/ Q!Refuse(c) PROVE Q!QNext
    BY <2>4 DEF Q!QNext
  <2> QED
    BY <2>1, <2>2, <2>3, <2>4
    DEF Next, Relist, OtherCreates, OtherDestroys, Expire, Crash, vars
<1> QED
  BY <1>1, <1>2, Invariance, PTL DEF Inv, Spec, Q!QSpec
=============================================================================
