----------------------------- MODULE Guardrails -----------------------------
(***************************************************************************)
(* The mutating tool handlers of internal/tools/tools.go, running at the   *)
(* same time against one account: spend cap (-max-dph), instance cap       *)
(* (-max-instances), confirmation and audit log.  Each stage of a handler  *)
(* ends where the code waits for the API, so every other call, the other   *)
(* clients of the account and a crash can come in between.                 *)
(*                                                                         *)
(* Confirmation is used through what it promises: the variables and the    *)
(* steps of Approval, which Confirmation implements.  So is the client:    *)
(* each mutating request is one of Request, which VastClient implements.   *)
(* The account and the offers are external.                                *)
(***************************************************************************)
EXTENDS Integers, FiniteSets

CONSTANTS
    Calls,          \* tool calls, each made once
    Ops,            \* what a call can ask for
    OfferIds,       \* offers on the market
    Listings,       \* what an offer can list: [total, storage, minBid]
    MaxDPH,         \* -max-dph, 0 for no cap
    MaxInstances,   \* -max-instances, 0 for no cap
    Guarded,        \* tools that confirm: cfg.Confirm and not in cfg.NoConfirm
    Ways,           \* how the clients confirm, see Way
    InitInst,       \* instances the account starts with
    MaxId,          \* bound on instance ids
    MaxCrashes,     \* bound on the crashes of the server
    Other           \* stands for the other clients of the account

\* "execute" is vast_execute of an rm, "ssh" creates or attaches a key; "label"
\* stands for every tool that only makes its request: a reboot, a label, and
\* vast_execute of an ls or a du.
Tools == {"create", "destroy", "start", "stop", "label", "execute", "ssh"}

\* confirmableTools: the tools that call confirm at all.
Confirmable == {"create", "destroy", "execute", "ssh"}

\* A price is in any unit; NoPrice is a field num() cannot read.
NoPrice == -1
Price   == Nat \cup {NoPrice}
Listing == [total : Price, storage : Price, minBid : Nat]
Gone    == [total |-> -2, storage |-> -2, minBid |-> 0]

\* valid is what the argument checks at the top of the handler say.
Op == [tool : Tools, target : Nat, bid : Nat, valid : BOOLEAN]

\* "ask": the client elicits and carries no answer yet; "accept", "refuse":
\* it carries one; "arg", "noarg": it cannot elicit, and the confirm argument
\* is enough or is not (wrong transport, or not given).
Way == {"ask", "accept", "refuse", "arg", "noarg"}

Instance == [id : 1..MaxId, dph : Price, running : BOOLEAN, by : Calls \cup {Other},
             stray : BOOLEAN]

ASSUME CapsAssumption ==
    MaxDPH \in Nat /\ MaxInstances \in Nat /\ MaxId \in Nat /\ MaxCrashes \in Nat
ASSUME DataAssumption ==
    /\ Ops \subseteq {o \in Op : o.tool = "create" => o.target \in OfferIds}
    /\ Listings \subseteq Listing
    /\ Guarded \subseteq Confirmable
    /\ Ways \subseteq Way
ASSUME AccountAssumption ==
    /\ Other \notin Calls
    /\ IsFiniteSet(InitInst)
    /\ InitInst \subseteq {i \in Instance : i.by = Other}
    /\ Cardinality(InitInst) <= MaxId
\* Ids are given in order, and name one instance each.
ASSUME IdsAssumption ==
    \A i \in InitInst :
        /\ i.id <= Cardinality(InitInst)
        /\ \A j \in InitInst : i.id = j.id => i = j
ASSUME FiniteCalls == IsFiniteSet(Calls)

VARIABLES
    pc,         \* the stage of each call
    call,       \* what each call carries, and the price it read
    wire,       \* the call's mutating API request
    landed,     \* how often that request took effect
    reread,     \* whether the price was read again after a create
    audit,      \* the audit log
    inst,       \* the account's instances
    market,     \* the offers
    nextId,     \* id of the next instance
    crashes,    \* how often the server died
    peak,       \* most creates ever past their own re-check at one time
    asked, open, verdicts   \* the approvals, see Approval

account  == <<inst, market, nextId>>
approval == <<asked, open, verdicts>>
vars == <<pc, call, wire, landed, reread, audit, inst, market, nextId, crashes,
          peak, asked, open, verdicts>>

\* An approval names the call that asked, and what its preview showed.
AnApproval == [by : Calls, op : Ops, quote : Price]
NoApproval == [by |-> Other]

A == INSTANCE Approval WITH Approvals <- AnApproval, Callers <- Calls

Q == INSTANCE Request WITH Callers <- Calls

Call   == [op : Ops, way : Ways, answers : AnApproval \cup {NoApproval}, quote : Price]
NoCall == [way |-> "none"]

Status == {"rejected", "not_confirmed", "error", "ok", "created", "destroyed",
           "PRICE_BREACH"}
Record == [call : Calls, status : Status]

Active == {"look", "count", "confirm", "recount", "send", "wait", "post"}
Ended  == {"asked", "done", "failed", "lost"}

Init ==
    /\ pc = [c \in Calls |-> "new"]
    /\ call = [c \in Calls |-> NoCall]
    /\ Q!QInit
    /\ reread = [c \in Calls |-> FALSE]
    /\ audit = {}
    /\ inst = InitInst
    /\ market \in [OfferIds -> Listings]
    /\ nextId = Cardinality(InitInst) + 1
    /\ crashes = 0
    /\ peak = 0
    /\ A!AInit
-----------------------------------------------------------------------------
(* The handlers, stage by stage. *)

Goto(c, stage) == pc' = [pc EXCEPT ![c] = stage]
Log(c, status) == audit' = audit \cup {[call |-> c, status |-> status]}

\* A mistake: the spend cap is forgotten when an instance is started.
FirstUncapped(o) ==
    CASE o.tool \in {"create", "destroy"} -> "look"
      [] o.tool \in {"execute", "ssh"} -> "confirm"
      [] OTHER -> "send"

\* The first stage that waits for something.
First(o) ==
    CASE o.tool \in {"create", "destroy"} -> "look"
      [] o.tool = "start" -> IF MaxDPH > 0 THEN "look" ELSE "send"
      [] o.tool \in {"execute", "ssh"} -> "confirm"
      [] OTHER -> "send"

\* The client calls a tool.  Arguments that do not pass the checks at the top
\* of the handler end it; only vast_execute logs that.  (Only tools that
\* confirm are answered: an answer to another tool is never looked at.)
Begin(c) ==
    /\ pc[c] = "new"
    /\ \E o \in Ops, w \in Ways, a \in asked \cup {NoApproval} :
         /\ w \notin {"accept", "refuse"} => a = NoApproval
         /\ w \in {"accept", "refuse"} => o.tool \in Guarded
         /\ call' = [call EXCEPT ![c] = [op |-> o, way |-> w, answers |-> a, quote |-> 0]]
         /\ Goto(c, IF o.valid THEN First(o) ELSE "failed")
         /\ IF ~o.valid /\ o.tool = "execute" THEN Log(c, "rejected") ELSE UNCHANGED audit
    /\ UNCHANGED <<wire, landed, reread, account, crashes, peak, approval>>

\* A failure the handler returns without a record in the audit log.
FailSilently(c) == Goto(c, "failed") /\ UNCHANGED audit
Reject(c)       == Goto(c, "failed") /\ Log(c, "rejected")
Proceed(c, stage) == Goto(c, stage) /\ UNCHANGED audit

\* What an offer costs per hour: dph_total, or the bid plus the storage.
OfferPrice(o, listing) ==
    IF o.bid = 0 THEN listing.total
    ELSE IF listing.storage = NoPrice THEN NoPrice ELSE o.bid + listing.storage

\* A mistake: a price that cannot be read passes the cap.
OverKnownCap(price) == MaxDPH > 0 /\ price > MaxDPH

OverCap(price) == MaxDPH > 0 /\ (price = NoPrice \/ price > MaxDPH)

\* A mistake: an offer that is gone is not noticed.
NeverMissing(listing) == FALSE

\* The lookup found no offer.
Missing(listing) == listing = Gone

\* createInstance up to the first count: resolve the offer and price it.
LookOffer(c) ==
    LET o == call[c].op
        listing == market[o.target]
        price == OfferPrice(o, listing)
    IN
    /\ pc[c] = "look"
    /\ o.tool = "create"
    /\ \/ FailSilently(c) /\ UNCHANGED call             \* the read failed
       \/ Missing(listing) /\ Reject(c) /\ UNCHANGED call
       \/ /\ ~Missing(listing)
          /\ call' = [call EXCEPT ![c].quote = price]
          /\ IF o.bid > 0 /\ o.bid < listing.minBid THEN FailSilently(c)
             ELSE IF OverCap(price) THEN Reject(c)
             ELSE Proceed(c, IF MaxInstances > 0 THEN "count" ELSE "confirm")
    /\ UNCHANGED <<wire, landed, reread, account, crashes, peak, approval>>

\* destroyInstance and startInstance read the instance they act on; start
\* resumes billing, so the spend cap applies.
LookInstance(c) ==
    LET o == call[c].op IN
    /\ pc[c] = "look"
    /\ o.tool \in {"destroy", "start"}
    /\ \/ FailSilently(c) /\ UNCHANGED call             \* failed, or not found
       \/ \E i \in inst :
            /\ i.id = o.target
            /\ call' = [call EXCEPT ![c].quote = i.dph]
            /\ IF o.tool = "destroy" THEN Proceed(c, "confirm")
               ELSE IF OverCap(i.dph) THEN Reject(c)
               ELSE Proceed(c, "send")
    /\ UNCHANGED <<wire, landed, reread, account, crashes, peak, approval>>

Full == Cardinality(inst) >= MaxInstances

\* The instance cap before the user is asked.
Count(c) ==
    /\ pc[c] = "count"
    /\ \/ FailSilently(c)
       \/ ~Full /\ Proceed(c, "confirm")
       \/ Full /\ Reject(c)
    /\ UNCHANGED <<call, wire, landed, reread, account, crashes, peak, approval>>

Preview(c) == [by |-> c, op |-> call[c].op, quote |-> call[c].quote]

Shows(a, c) == a.op = call[c].op /\ a.quote = call[c].quote

\* A mistake: the instance cap is not looked at again after the approval.
AfterConfirmAtOnce(c) == "send"

AfterConfirm(c) ==
    IF call[c].op.tool = "create" /\ MaxInstances > 0 THEN "recount" ELSE "send"

\* A mistake: the handler goes on after a refusal.
NotConfirmedGoesOn(c) == Goto(c, AfterConfirm(c)) /\ Log(c, "not_confirmed")

NotConfirmed(c) == Goto(c, "failed") /\ Log(c, "not_confirmed")

\* d.confirm: ask, or take the answer to an earlier question, or look at the
\* confirm argument.  An approval that is no longer open, or that showed
\* something else, is refused.
ConfirmStep(c) ==
    LET k == call[c]
        a == k.answers
        needed == k.op.tool \in Guarded
        usable == a \in open /\ Shows(a, c)
    IN
    /\ pc[c] = "confirm"
    /\ \/ /\ ~needed \/ k.way = "arg"
          /\ Proceed(c, AfterConfirm(c))
          /\ UNCHANGED approval
       \/ /\ needed /\ k.way = "ask"
          /\ A!AskFor(Preview(c))
          /\ Proceed(c, "asked")
       \/ /\ needed /\ k.way \in {"accept", "refuse"} /\ usable
          /\ A!DecideOn(c, a, k.way = "accept")
          /\ IF k.way = "accept" THEN Proceed(c, AfterConfirm(c)) ELSE NotConfirmed(c)
       \/ /\ needed
          /\ k.way = "noarg" \/ (k.way \in {"accept", "refuse"} /\ ~usable)
          /\ NotConfirmed(c)
          /\ UNCHANGED approval
    /\ UNCHANGED <<call, wire, landed, reread, account, crashes, peak>>

\* The creates that passed their re-check and have not landed yet.
Creating ==
    {c \in Calls : /\ pc[c] = "send" \/ (pc[c] = "wait" /\ wire[c] = "sent")
                   /\ call[c].op.tool = "create"}

\* The instance cap again, after the user approved.
Recount(c) ==
    /\ pc[c] = "recount"
    /\ \/ FailSilently(c) /\ UNCHANGED peak
       \/ /\ ~Full
          /\ Proceed(c, "send")
          /\ LET n == Cardinality(Creating \cup {c})
             IN  peak' = IF n > peak THEN n ELSE peak
       \/ Full /\ Reject(c) /\ UNCHANGED peak
    /\ UNCHANGED <<call, wire, landed, reread, account, crashes, approval>>

\* The one mutating request; the client never retries it.
Send(c) ==
    /\ pc[c] = "send"
    /\ Q!Issue(c)
    /\ Proceed(c, "wait")
    /\ UNCHANGED <<call, reread, account, crashes, peak, approval>>

Success(o) ==
    CASE o.tool = "create" -> "created"
      [] o.tool = "destroy" -> "destroyed"
      [] OTHER -> "ok"

\* The API answers: log what it said; a create under a spend cap goes on to
\* read the real price.
Reply(c) ==
    /\ pc[c] = "wait"
    /\ \/ /\ wire[c] = "landed"
          /\ Log(c, Success(call[c].op))
          /\ Goto(c, IF call[c].op.tool = "create" /\ MaxDPH > 0 THEN "post" ELSE "done")
       \/ /\ wire[c] = "refused"
          /\ Log(c, "error")
          /\ Goto(c, "failed")
    /\ UNCHANGED <<call, wire, landed, reread, account, crashes, peak, approval>>

\* A mistake: an unanswered request leaves no record.
GiveUpSilently(c) ==
    /\ pc[c] = "wait"
    /\ FailSilently(c)
    /\ UNCHANGED <<call, wire, landed, reread, account, crashes, peak, approval>>

\* No answer the client can use: a timeout, a broken connection, a body that
\* does not decode.  The request itself may have landed, or still land.
GiveUp(c) ==
    /\ pc[c] = "wait"
    /\ Log(c, "error")
    /\ Goto(c, "failed")
    /\ UNCHANGED <<call, wire, landed, reread, account, crashes, peak, approval>>

\* A mistake: the price that was quoted is checked, not the one that is paid.
BreachOfQuote(c, i) == call[c].quote > MaxDPH

Breach(c, i) == i.dph > MaxDPH

\* The price check after a create: skipped without a word when the instance
\* cannot be read.
PostCheck(c) ==
    /\ pc[c] = "post"
    /\ Goto(c, "done")
    /\ \/ UNCHANGED <<audit, reread>>
       \/ \E i \in inst :
            /\ i.by = c
            /\ reread' = [reread EXCEPT ![c] = TRUE]
            /\ IF Breach(c, i) THEN Log(c, "PRICE_BREACH") ELSE UNCHANGED audit
    /\ UNCHANGED <<call, wire, landed, account, crashes, peak, approval>>

Handler(c) ==
    \/ Begin(c) \/ LookOffer(c) \/ LookInstance(c) \/ Count(c) \/ ConfirmStep(c)
    \/ Recount(c) \/ Send(c) \/ Reply(c) \/ GiveUp(c) \/ PostCheck(c)
-----------------------------------------------------------------------------
(* The account and its other clients: external. *)

\* What a request does to the instances when it takes effect.
Effect(c, o) ==
    CASE o.tool = "create" ->
           /\ market[o.target] # Gone
           /\ nextId <= MaxId
           /\ nextId' = nextId + 1
           /\ inst' = inst \cup
                {[id |-> nextId, dph |-> OfferPrice(o, market[o.target]),
                  running |-> TRUE, by |-> c, stray |-> pc[c] # "wait"]}
      [] o.tool = "destroy" ->
           /\ \E i \in inst : i.id = o.target
           /\ inst' = {i \in inst : i.id # o.target}
           /\ UNCHANGED nextId
      [] o.tool \in {"start", "stop"} ->
           /\ \E i \in inst : i.id = o.target
           /\ inst' = {IF i.id = o.target
                       THEN [i EXCEPT !.running = (o.tool = "start")] ELSE i : i \in inst}
           /\ UNCHANGED nextId
      [] OTHER -> UNCHANGED <<inst, nextId>>

Land(c) ==
    /\ Q!TakeEffect(c)
    /\ Effect(c, call[c].op)
    /\ UNCHANGED <<pc, call, reread, audit, market, crashes, peak, approval>>

\* The API refuses the request, or it never gets there.
Bounce(c) ==
    /\ wire[c] = "sent"
    /\ Q!Refuse(c)
    /\ UNCHANGED <<pc, call, reread, audit, account, crashes, peak, approval>>

Relist(f) ==
    /\ \E l \in (Listings \cup {Gone}) \ {market[f]} : market' = [market EXCEPT ![f] = l]
    /\ UNCHANGED <<pc, call, wire, landed, reread, audit, inst, nextId, crashes, peak,
                   approval>>

\* Another client of the account rents or destroys.
OtherCreates ==
    /\ nextId <= MaxId
    /\ nextId' = nextId + 1
    /\ \E l \in Listings :
         inst' = inst \cup {[id |-> nextId, dph |-> l.total, running |-> TRUE,
                             by |-> Other, stray |-> FALSE]}
    /\ UNCHANGED <<pc, call, wire, landed, reread, audit, market, crashes, peak, approval>>

OtherDestroys ==
    /\ \E i \in inst : inst' = inst \ {i}
    /\ UNCHANGED <<pc, call, wire, landed, reread, audit, market, nextId, crashes, peak,
                   approval>>

\* Questions expire.
Expire ==
    /\ \E a \in open : A!Withdraw({a})
    /\ UNCHANGED <<pc, call, wire, landed, reread, audit, account, crashes, peak>>

\* The server dies: calls in flight are gone, its questions with it; requests
\* on the wire and the audit file stay.
Crash ==
    /\ crashes < MaxCrashes
    /\ crashes' = crashes + 1
    /\ pc' = [c \in Calls |-> IF pc[c] \in Active THEN "lost" ELSE pc[c]]
    /\ A!Withdraw(open)
    /\ UNCHANGED <<call, wire, landed, reread, audit, account, peak>>

Next ==
    \/ \E c \in Calls : Handler(c) \/ Land(c) \/ Bounce(c)
    \/ \E f \in OfferIds : Relist(f)
    \/ OtherCreates
    \/ OtherDestroys
    \/ Expire
    \/ Crash

Spec == Init /\ [][Next]_vars
-----------------------------------------------------------------------------
(* Properties. *)

TypeOK ==
    /\ pc \in [Calls -> {"new"} \cup Active \cup Ended]
    /\ call \in [Calls -> Call \cup {NoCall}]
    /\ wire \in [Calls -> {"none", "sent", "landed", "refused"}]
    /\ landed \in [Calls -> Nat]
    /\ reread \in [Calls -> BOOLEAN]
    /\ audit \subseteq Record
    /\ inst \subseteq Instance
    /\ market \in [OfferIds -> Listings \cup {Gone}]
    /\ nextId \in 1..(MaxId + 1)
    /\ crashes \in 0..MaxCrashes
    /\ peak \in Nat
    /\ asked \subseteq AnApproval
    /\ open \subseteq asked
    /\ verdicts \subseteq A!VerdictRecord
    /\ \A c \in Calls : pc[c] # "new" => call[c] \in Call

\* Instances the server created and whose handler was still there to see it.
Ours == {i \in inst : i.by \in Calls /\ ~i.stray}

\* With the instance cap set, the server goes over it only by creates that
\* were between their own re-check and their landing at the same time: with
\* one at a time never, with two by at most one (README.md:87, tools.go:477).
\* Creates the handler gave up on and that land later are not counted.
OvershootOnlyByRace ==
    MaxInstances > 0 => Cardinality(Ours) <= MaxInstances - 1 + peak

\* An approval pays for at most one effect on the account, of exactly what
\* it showed; a tool that confirms has no effect without the user, or the
\* confirm argument of a client that cannot elicit.
Pays(c) == [call |-> c, approval |-> call[c].answers, yes |-> TRUE]

OneEffectPerApproval ==
    \A c \in Calls : landed[c] > 0 /\ call[c].op.tool \in Guarded =>
        /\ landed[c] = 1
        /\ \/ call[c].way = "arg"
           \/ /\ Pays(c) \in verdicts
              /\ Shows(call[c].answers, c)
              /\ \A d \in Calls \ {c} :
                   landed[d] > 0 /\ call[d].op.tool \in Guarded
                       => call[d].answers # call[c].answers

\* Unless the server died during the call, an effect leaves a record by the
\* time the call ends; and a record of success is never of a request that
\* had no effect.
Logged(c, S) == \E r \in audit : r.call = c /\ r.status \in S

AuditMatchesAccount ==
    \A c \in Calls :
        /\ landed[c] > 0 /\ pc[c] \in {"done", "failed"} =>
              Logged(c, {"created", "destroyed", "ok", "error"})
        /\ Logged(c, {"created", "destroyed", "ok", "PRICE_BREACH"}) => landed[c] > 0

\* Nothing is created on a price over the spend cap or unknown
\* (tools.go:432-441): an instance that costs more, even one that comes to be
\* after the handler gave up, was repriced after the server looked.
OverspendOnlyByReprice ==
    MaxDPH > 0 => \A i \in inst : i.by \in Calls => call[i.by].quote \in 0..MaxDPH

\* An instance the server created above the spend cap, because the offer
\* repriced between the lookup and the request, is in the audit log as a
\* breach when the call ends -- if the price could be read again.
BreachRecorded ==
    \A i \in Ours :
        i.dph > MaxDPH /\ MaxDPH > 0 /\ pc[i.by] = "done" /\ reread[i.by]
            => Logged(i.by, {"PRICE_BREACH"})

\* The same without the proviso: the real price is checked after creation
\* (SECURITY.md:24).
BreachAlwaysRecorded ==
    \A i \in Ours :
        i.dph > MaxDPH /\ MaxDPH > 0 /\ pc[i.by] = "done"
            => Logged(i.by, {"PRICE_BREACH"})

\* Starting resumes billing: the server never turns on an instance whose
\* price is over the spend cap or unknown.
NeverStartsOverCap ==
    [][\A i \in inst, j \in inst' :
         i.id = j.id /\ ~i.running /\ j.running => ~OverCap(j.dph)]_vars
=============================================================================
