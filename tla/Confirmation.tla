---------------------------- MODULE Confirmation ----------------------------
(***************************************************************************)
(* The confirmation flow of a mutating tool call: deps.confirm             *)
(* (internal/tools/guard.go) over stateSigner (internal/tools/state.go).   *)
(*                                                                         *)
(* Every tool call runs in a goroutine of its own.  A call reads the view  *)
(* it is about to act on (the offer, the instance), and then confirm       *)
(* either asks (signs a token and returns it with the question), proceeds, *)
(* or refuses.  A call that answers a question carries the token and the   *)
(* user's answer.  verify reads the clock BEFORE it takes the mutex that   *)
(* guards the used nonces, so it is two steps: Stamp and Consume.          *)
(***************************************************************************)
EXTENDS ConfirmState

CONSTANTS
    Calls,              \* tool calls, each made once
    Views,              \* the views the account can show
    Clients,            \* what a call's client is and says: can it elicit,
                        \* does it pass confirm = true
    Confirm,            \* cfg.Confirm
    NoConfirm,          \* cfg.NoConfirm: tools exempt from confirmation
    ConfirmArgAllowed,  \* cfg.ConfirmArgAllowed: stdio or loopback
    TTL,                \* confirmTTL, in clock ticks
    MaxStall,           \* most ticks that pass between Stamp and Consume
    MaxTime,            \* bound on the clock
    MaxTokens,          \* bound on the tokens signed
    MaxGen              \* bound on the restarts

ASSUME ViewsAssumption == Views \subseteq View
ASSUME ClientsAssumption == Clients \subseteq [elicits : BOOLEAN, confirm : BOOLEAN]
ASSUME ConfigAssumption ==
    Confirm \in BOOLEAN /\ ConfirmArgAllowed \in BOOLEAN /\ NoConfirm \subseteq Tools
ASSUME TimeAssumption == TTL \in Nat /\ MaxStall \in Nat
ASSUME BoundsAssumption == MaxTime \in Nat /\ MaxTokens \in Nat /\ MaxGen \in Nat

VARIABLES
    clock,      \* seconds of the wall clock
    gen,        \* number of the running process
    world,      \* the view each request would see now
    issued,     \* every token ever signed, by any process
    nonces,     \* number of nonces drawn: 12 random bytes never repeat
    used,       \* stateSigner.used: the consumed tokens not yet swept
    pc,         \* where each call is, or how it ended
    input,      \* what each call carries, and the view it read
    stamp,      \* `now` of verify, read before the mutex
    at          \* the clock when the call held the mutex

vars == <<clock, gen, world, issued, nonces, used, pc, input, stamp, at>>

\* "refuse" stands for every answer that is not a plain accept: decline,
\* cancel, accept with confirm=false, a response of another type.
Answers == {"none", "accept", "refuse"}

\* confirmState and the key it is signed with: `gen` is the process that
\* signed it, each process draws its own key; `nonce` is drawn per token.
Token == [gen : 0..MaxGen, nonce : 0..(MaxTokens - 1), req : Request,
          view : Views, exp : 0..(MaxTime + TTL)]

Input == [req : Request, view : Views, client : Clients, answer : Answers,
          token : Token \cup {NoState}]
NoInput == [answer |-> "none"]

Running  == {"quoted", "stamped"}
Decided  == {"authorised", "declined", "repriced"}  \* past the nonce check
Ended    == {"asked", "proceeded", "replayed", "rejected", "lost"} \cup Decided
-----------------------------------------------------------------------------
Init ==
    /\ clock = 0
    /\ gen = 0
    /\ world \in [Request -> Views]
    /\ issued = {}
    /\ nonces = 0
    /\ used = {}
    /\ pc = [c \in Calls |-> "new"]
    /\ input = [c \in Calls |-> NoInput]
    /\ stamp = [c \in Calls |-> 0]
    /\ at = [c \in Calls |-> 0]

\* The handler starts with the client's arguments and reads the view.
Quote(c) ==
    /\ pc[c] = "new"
    /\ \E r \in Request, k \in Clients, a \in Answers,
          t \in issued \cup {NoState} :
         /\ a = "none" => t = NoState
         /\ ~k.elicits => a = "none"
         /\ input' = [input EXCEPT ![c] =
              [req |-> r, view |-> world[r], client |-> k, answer |-> a, token |-> t]]
    /\ pc' = [pc EXCEPT ![c] = "quoted"]
    /\ UNCHANGED <<clock, gen, world, issued, nonces, used, stamp, at>>

Guarded(i) == Confirm /\ i.req.tool \notin NoConfirm
Asks(i)    == Guarded(i) /\ i.client.elicits /\ i.answer = "none"
Answered(i) == Guarded(i) /\ i.client.elicits /\ i.answer # "none"
ArgConfirms(i) == ~i.client.elicits /\ ConfirmArgAllowed /\ i.client.confirm

End(c, how) == pc' = [pc EXCEPT ![c] = how]

\* No token is involved: confirmation is off for the tool, or the client
\* cannot elicit and the `confirm` argument decides.
Decide(c) ==
    /\ pc[c] = "quoted"
    /\ ~Asks(input[c])
    /\ ~Answered(input[c])
    /\ End(c, IF ~Guarded(input[c]) \/ ArgConfirms(input[c])
              THEN "proceeded" ELSE "rejected")
    /\ UNCHANGED <<clock, gen, world, issued, nonces, used, input, stamp, at>>

\* sign: a fresh nonce, and an expiry TTL from now.
Signed(i) == [gen |-> gen, nonce |-> nonces, req |-> i.req, view |-> i.view,
              exp |-> clock + TTL]

\* The client can elicit and has not answered yet: sign the preview, return
\* the question with the token.
Ask(c) ==
    /\ pc[c] = "quoted"
    /\ Asks(input[c])
    /\ nonces < MaxTokens
    /\ issued' = issued \cup {Signed(input[c])}
    /\ nonces' = nonces + 1
    /\ End(c, "asked")
    /\ UNCHANGED <<clock, gen, world, used, input, stamp, at>>

\* Mistakes the properties must notice: a token good for any request, or
\* under any key.
AcceptableForAnyRequest(i) ==
    /\ i.token \in issued
    /\ i.token.gen = gen
    /\ clock <= i.token.exp
    /\ i.token.view.preview = i.view.preview

AcceptableUnderAnyKey(i) ==
    /\ i.token \in issued
    /\ i.token.req = i.req
    /\ clock <= i.token.exp
    /\ i.token.view.preview = i.view.preview

\* The checks of verify that need no lock: the token is one this process
\* signed, for this tool and these arguments, not expired, and its preview
\* is the one the handler would show now.
Acceptable(i) ==
    /\ i.token \in issued
    /\ i.token.gen = gen
    /\ i.token.req = i.req
    /\ clock <= i.token.exp
    /\ i.token.view.preview = i.view.preview

\* verify up to the mutex; `now` is read here.
Stamp(c) ==
    /\ pc[c] = "quoted"
    /\ Answered(input[c])
    /\ IF Acceptable(input[c])
       THEN /\ End(c, "stamped")
            /\ stamp' = [stamp EXCEPT ![c] = clock]
       ELSE /\ End(c, "rejected")
            /\ UNCHANGED stamp
    /\ UNCHANGED <<clock, gen, world, issued, nonces, used, input, at>>

\* Mistakes: sweeping a token that can still be presented; never sweeping.
SweptEarly(now) == {t \in used : t.exp > now}
SweptNever(now) == used

\* What the sweep leaves of the used tokens.
Swept(now) == {t \in used : t.exp >= now}

\* The verdict of a token whose nonce is not in the map.
Verdict(i) ==
    IF ~PriceMatches(i.token.view.price, i.view.price) THEN "repriced"
    ELSE IF i.answer = "accept" THEN "authorised" ELSE "declined"

\* Mistakes: a decline leaves the approval usable; the map keeps an expiry of
\* its own.
EntryIfAccepted(i) == {t \in {i.token} : i.answer = "accept"}
EntryRenewed(i)    == {[i.token EXCEPT !.exp = clock + TTL + 1]}

\* What verify enters in the map.
Entry(i) == {i.token}

\* The critical section of verify (sweep with the `now` read before, look
\* the nonce up, insert it) and the rest of confirm, which shares nothing.
Consume(c) ==
    /\ pc[c] = "stamped"
    /\ used' = Swept(stamp[c]) \cup Entry(input[c])
    /\ at' = [at EXCEPT ![c] = clock]
    /\ End(c, IF input[c].token \in Swept(stamp[c])
              THEN "replayed" ELSE Verdict(input[c]))
    /\ UNCHANGED <<clock, gen, world, issued, nonces, input, stamp>>
-----------------------------------------------------------------------------
(* The environment. *)

\* The account changes under the calls: an offer reprices, an instance is
\* relabelled or stopped.
Reprice(r) ==
    /\ \E v \in Views \ {world[r]} : world' = [world EXCEPT ![r] = v]
    /\ UNCHANGED <<clock, gen, issued, nonces, used, pc, input, stamp, at>>

\* Time passes, at most MaxStall ticks while a call waits for the mutex.
Tick ==
    /\ clock < MaxTime
    /\ \A c \in Calls : pc[c] = "stamped" => clock < stamp[c] + MaxStall
    /\ clock' = clock + 1
    /\ UNCHANGED <<gen, world, issued, nonces, used, pc, input, stamp, at>>

\* The process ends and another starts: a new key, an empty map, and the
\* calls in flight are gone.  Clients keep their tokens.
Restart ==
    /\ gen < MaxGen
    /\ gen' = gen + 1
    /\ used' = {}
    /\ pc' = [c \in Calls |-> IF pc[c] \in Running THEN "lost" ELSE pc[c]]
    /\ UNCHANGED <<clock, world, issued, nonces, input, stamp, at>>

Step(c) == Quote(c) \/ Decide(c) \/ Ask(c) \/ Stamp(c) \/ Consume(c)

Next ==
    \/ \E c \in Calls : Step(c)
    \/ \E r \in Request : Reprice(r)
    \/ Tick
    \/ Restart

Spec == Init /\ [][Next]_vars
-----------------------------------------------------------------------------
(* Properties. *)

\* Every variable stays in its type, and a call that has read its view
\* carries a whole input.
TypeOK ==
    /\ clock \in 0..MaxTime
    /\ gen \in 0..MaxGen
    /\ world \in [Request -> Views]
    /\ issued \subseteq Token
    /\ nonces \in 0..MaxTokens
    /\ used \subseteq issued
    /\ pc \in [Calls -> {"new"} \cup Running \cup Ended]
    /\ input \in [Calls -> Input \cup {NoInput}]
    /\ stamp \in [Calls -> 0..MaxTime]
    /\ at \in [Calls -> 0..MaxTime]
    /\ \A c \in Calls : pc[c] # "new" => input[c] \in Input

\* One approval authorises exactly one action (state.go:30-31, errStateUsed):
\* of all the calls that present the same token, however they interleave and
\* whatever they answer, at most one is decided on it.  In particular a
\* decline is final, and so is a refusal because the price drifted.
OneVerdict ==
    \A c, d \in Calls :
        c # d /\ pc[c] \in Decided /\ pc[d] \in Decided
            => input[c].token # input[d].token

\* The same, whatever the delay between the clock read and the mutex: what it
\* takes to be decided on a token that decided another call (state.go:143-157).
\* One of the two held the mutex after the token expired, and a third call, on
\* a token that lived longer, had swept it by then.  So two calls that hold the
\* mutex before their token expires are never both decided on it.
SecondVerdictTakesSweep ==
    \A c, d \in Calls :
        /\ c # d /\ pc[c] \in Decided /\ pc[d] \in Decided
        /\ input[c].token = input[d].token
        => /\ at[c] > input[c].token.exp \/ at[d] > input[c].token.exp
           /\ \E e \in Calls :
                /\ pc[e] \in Decided \cup {"replayed"}
                /\ stamp[e] > input[c].token.exp
                /\ input[e].token.exp > input[c].token.exp

\* A guarded call goes ahead only with consent to what it does
\* (guard.go:28-34).  On a token: some call asked about the same tool and
\* arguments, with the preview the acting call would show, at a price within
\* the tolerance, and the user accepted.  On the confirm argument: only for a
\* client that cannot elicit, on a transport that allows it.
ActsOnConsent ==
    \A c \in Calls :
        /\ pc[c] = "authorised" =>
             /\ input[c].answer = "accept"
             /\ \E a \in Calls :
                  /\ pc[a] = "asked"
                  /\ input[a].req = input[c].req
                  /\ input[a].view.preview = input[c].view.preview
                  /\ PriceMatches(input[a].view.price, input[c].view.price)
        /\ pc[c] = "proceeded" /\ Guarded(input[c]) =>
             /\ ~input[c].client.elicits
             /\ ConfirmArgAllowed
             /\ input[c].client.confirm

\* A restart revokes every question still open: a call is decided on a token
\* only by the process that signed it.
RestartRevokes ==
    [][\A c \in Calls :
         pc[c] # pc'[c] /\ pc'[c] \in Decided => input[c].token.gen = gen']_vars

\* The map is bounded by the TTL (state.go:153): whenever the map changes,
\* what is left in it had not expired MaxStall ticks ago.
MapBoundedByTTL ==
    [][used' # used => \A t \in used' : clock <= t.exp + MaxStall]_vars

\* "An approval whose price drifted out and back must not become usable
\* again" (state.go:150-151): once a call showed that the price left the
\* tolerance of the one approved, no later call is authorised by the token.
ShowedDrift(c, t) ==
    /\ pc[c] \in {"rejected", "repriced"}
    /\ input[c].token = t
    /\ input[c].req = t.req
    /\ ~PriceMatches(t.view.price, input[c].view.price)

DriftedApprovalSpent ==
    [][\A c, d \in Calls :
         pc[d] # pc'[d] /\ pc'[d] = "authorised"
             => ~ShowedDrift(c, input[d].token)]_vars

\* A call is refused on the price alone only for a drift the user could have
\* seen: one that shows in the four digits a preview carries.  The tolerance
\* (state.go:170-175) and the rounding (tools.go:516) are written apart.
RefusedDriftShows ==
    \A c \in Calls :
        pc[c] = "repriced" =>
            Round4(input[c].token.view.price) # Round4(input[c].view.price)
-----------------------------------------------------------------------------
(* The abstract approval this flow implements. *)

Live == {t \in issued : t.gen = gen /\ clock <= t.exp /\ t \notin used}

\* The verdicts of the calls that held the mutex before their token expired.
\* A later one is none of the abstract approval's: see SecondVerdictTakesSweep.
InTime(c) == pc[c] \in Decided /\ at[c] <= input[c].token.exp

Verdicts == {[call |-> c, approval |-> input[c].token, yes |-> pc[c] = "authorised"] :
               c \in {d \in Calls : InTime(d)}}

Promise == INSTANCE Approval WITH
    Approvals <- Token, Callers <- Calls,
    asked <- issued, open <- Live, verdicts <- Verdicts

\* Seen through that mapping, every step is a step of the abstract approval
\* or none, however long calls wait for the mutex: what restarts, expiry, stale
\* sweeps and concurrent calls do to the map never reopens a decided approval
\* before it expires.
ImplementsApproval == Promise!AInit /\ [][Promise!ANext]_Promise!avars
=============================================================================
