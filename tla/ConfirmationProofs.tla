------------------------- MODULE ConfirmationProofs -------------------------
(***************************************************************************)
(* Theorems about the confirmation flow, for every value of the constants. *)
(* The inductive invariant Inv says, of every call that got past the       *)
(* stateless checks of verify, what it knows of its token, and, of every   *)
(* decided token of this process, that it is still in the map or expired   *)
(* and swept by a call on a token that lives longer.                       *)
(***************************************************************************)
EXTENDS Confirmation, TLAPS

Positive(c) == pc[c] \in {"stamped"} \cup Decided

\* A token is known to a call only if it was signed.
Presented ==
    \A c \in Calls : pc[c] # "new" /\ input[c].token # NoState
                         => input[c].token \in issued

\* Nonces and generations of signed tokens lie in the past.
Signatures ==
    \A t \in issued : t.nonce < nonces /\ t.gen <= gen

\* Every token was put to the user by a call that showed its view.
AskedFor ==
    \A t \in issued : \E a \in Calls :
        pc[a] = "asked" /\ input[a].req = t.req /\ input[a].view = t.view

\* What a call that passed the stateless checks knows.
Checked(c) ==
    /\ input[c].token \in issued
    /\ input[c].token.req = input[c].req
    /\ input[c].token.view.preview = input[c].view.preview

StampedCall(c) ==
    /\ Checked(c)
    /\ input[c].token.gen = gen
    /\ stamp[c] <= input[c].token.exp
    /\ stamp[c] <= clock
    /\ clock <= stamp[c] + MaxStall

DecidedCall(c) ==
    /\ Checked(c)
    /\ at[c] <= clock
    /\ at[c] <= input[c].token.exp + MaxStall
    /\ input[c].token.gen = gen =>
         input[c].token \in used \/ input[c].token.exp < clock

AuthorisedCall(c) ==
    /\ input[c].answer = "accept"
    /\ PriceMatches(input[c].token.view.price, input[c].view.price)

ProceededCall(c) == Guarded(input[c]) => ArgConfirms(input[c])

\* The clock read by the sweep that dropped t, and who swept.
SweptBy(e, t) ==
    /\ pc[e] \in Decided \cup {"replayed"}
    /\ stamp[e] > t.exp
    /\ input[e].token.exp > t.exp

SpentOrSwept(c) ==
    input[c].token.gen = gen =>
        input[c].token \in used \/ \E e \in Calls : SweptBy(e, input[c].token)

Inv ==
    /\ TypeOK
    /\ Presented
    /\ Signatures
    /\ AskedFor
    /\ \A c \in Calls :
         /\ pc[c] = "stamped" => StampedCall(c)
         /\ pc[c] \in Decided => DecidedCall(c) /\ SpentOrSwept(c)
         /\ pc[c] = "authorised" => AuthorisedCall(c)
         /\ pc[c] = "proceeded" => ProceededCall(c)
    /\ SecondVerdictTakesSweep
-----------------------------------------------------------------------------
LEMMA SignedIsToken ==
    ASSUME TypeOK, NEW c \in Calls, input[c] \in Input, nonces < MaxTokens
    PROVE  Signed(input[c]) \in Token
BY TimeAssumption, BoundsAssumption DEF TypeOK, Signed, Token, Input

LEMMA TypeInit == Init => TypeOK
BY BoundsAssumption DEF Init, TypeOK, NoInput

\* Only the map depends on more than types: what Consume puts into it is a
\* token the call was checked against.
LEMMA TypeStep == Inv /\ [Next]_vars => TypeOK'
<1> SUFFICES ASSUME Inv, [Next]_vars PROVE TypeOK'
    OBVIOUS
<1> TypeOK
    BY DEF Inv
<1> USE TimeAssumption, BoundsAssumption
<1>1. ASSUME NEW c \in Calls, Quote(c) PROVE TypeOK'
  <2>1. PICK r \in Request, k \in Clients, a \in Answers, t \in issued \cup {NoState} :
          input' = [input EXCEPT ![c] =
              [req |-> r, view |-> world[r], client |-> k, answer |-> a, token |-> t]]
    BY <1>1 DEF Quote
  <2>2. [req |-> r, view |-> world[r], client |-> k, answer |-> a, token |-> t] \in Input
    BY DEF TypeOK, Input
  <2>3. pc' = [pc EXCEPT ![c] = "quoted"]
        /\ UNCHANGED <<clock, gen, world, issued, nonces, used, stamp, at>>
    BY <1>1 DEF Quote
  <2> QED
    BY <2>1, <2>2, <2>3 DEF TypeOK, Running, Ended
<1>2. ASSUME NEW c \in Calls, Decide(c) PROVE TypeOK'
  BY <1>2 DEF Decide, End, TypeOK, Running, Ended
<1>3. ASSUME NEW c \in Calls, Ask(c) PROVE TypeOK'
  <2>1. Signed(input[c]) \in Token
    BY <1>3, SignedIsToken DEF Ask, TypeOK
  <2> QED
    BY <1>3, <2>1 DEF Ask, End, TypeOK, Running, Ended
<1>4. ASSUME NEW c \in Calls, Stamp(c) PROVE TypeOK'
  BY <1>4 DEF Stamp, End, TypeOK, Running, Ended
<1>5. ASSUME NEW c \in Calls, Consume(c) PROVE TypeOK'
  <2>1. input[c].token \in issued
    BY <1>5 DEF Consume, Entry, Inv, StampedCall, Checked
  <2>2. Verdict(input[c]) \in Decided
    BY DEF Verdict, Decided
  <2> QED
    BY <1>5, <2>1, <2>2 DEF Consume, Entry, Swept, End, TypeOK, Running, Ended
<1>6. ASSUME NEW r \in Request, Reprice(r) PROVE TypeOK'
  BY <1>6 DEF Reprice, TypeOK
<1>7. CASE Tick
  BY <1>7 DEF Tick, TypeOK
<1>8. CASE Restart
  BY <1>8 DEF Restart, TypeOK, Running, Ended
<1>9. CASE UNCHANGED vars
  BY <1>9 DEF vars, TypeOK
<1> QED
  BY <1>1, <1>2, <1>3, <1>4, <1>5, <1>6, <1>7, <1>8, <1>9 DEF Next, Step
-----------------------------------------------------------------------------
(* One lemma per conjunct of the invariant that more than one action moves. *)

LEMMA InvInit == Init => Inv
<1> SUFFICES ASSUME Init PROVE Inv
    OBVIOUS
<1> QED
  BY TypeInit DEF Init, Inv, Presented, Signatures, AskedFor,
     SecondVerdictTakesSweep, Decided

LEMMA PresentedStep == Inv /\ [Next]_vars => Presented'
<1> SUFFICES ASSUME Inv, [Next]_vars PROVE Presented'
    OBVIOUS
<1> TypeOK /\ Presented
    BY DEF Inv
<1>1. issued \subseteq issued'
  BY DEF Next, Step, Quote, Decide, Ask, Stamp, Consume, Entry, Reprice, Tick, Restart, vars
<1>2. ASSUME NEW c \in Calls, Quote(c) PROVE Presented'
  BY <1>2 DEF Quote, Presented, TypeOK
<1>3. ASSUME input' = input,
             \A c \in Calls : pc'[c] # "new" => pc[c] # "new"
      PROVE  Presented'
  BY <1>1, <1>3 DEF Presented
<1>4. ASSUME NEW c \in Calls, Decide(c) \/ Ask(c) \/ Stamp(c) \/ Consume(c)
      PROVE  Presented'
  BY <1>3, <1>4 DEF Decide, Ask, Stamp, Consume, Entry, End, TypeOK
<1>5. ASSUME NEW r \in Request, Reprice(r) PROVE Presented'
  BY <1>3, <1>5 DEF Reprice
<1>6. CASE Tick
  BY <1>3, <1>6 DEF Tick
<1>7. CASE Restart
  BY <1>3, <1>7 DEF Restart, TypeOK, Running
<1>8. CASE UNCHANGED vars
  BY <1>3, <1>8 DEF vars
<1> QED
  BY <1>2, <1>4, <1>5, <1>6, <1>7, <1>8 DEF Next, Step

LEMMA SignaturesStep == Inv /\ [Next]_vars => Signatures'
<1> SUFFICES ASSUME Inv, [Next]_vars PROVE Signatures'
    OBVIOUS
<1> TypeOK /\ Signatures
    BY DEF Inv
<1> USE BoundsAssumption
<1>1. ASSUME NEW c \in Calls, Ask(c) PROVE Signatures'
  <2>1. /\ issued' = issued \cup {Signed(input[c])}
        /\ nonces' = nonces + 1
        /\ gen' = gen
    BY <1>1 DEF Ask
  <2>2. Signed(input[c]).nonce = nonces /\ Signed(input[c]).gen = gen
    BY DEF Signed
  <2> QED
    BY <2>1, <2>2 DEF Signatures, TypeOK, Token
<1>2. CASE Restart
  BY <1>2 DEF Restart, Signatures, TypeOK, Token
<1>3. CASE UNCHANGED <<issued, nonces, gen>>
  BY <1>3 DEF Signatures
<1> QED
  BY <1>1, <1>2, <1>3
  DEF Next, Step, Quote, Decide, Stamp, Consume, Entry, Reprice, Tick, vars

LEMMA AskedForStep == Inv /\ [Next]_vars => AskedFor'
<1> SUFFICES ASSUME Inv, [Next]_vars PROVE AskedFor'
    OBVIOUS
<1> TypeOK /\ AskedFor
    BY DEF Inv
<1>1. ASSUME NEW c \in Calls, Ask(c) PROVE AskedFor'
  <2>1. Signed(input[c]).req = input[c].req /\ Signed(input[c]).view = input[c].view
    BY DEF Signed
  <2> QED
    BY <1>1, <2>1 DEF Ask, End, AskedFor, TypeOK
<1>2. ASSUME issued' = issued,
             \A a \in Calls : pc[a] = "asked" =>
                 pc'[a] = "asked" /\ input'[a] = input[a]
      PROVE  AskedFor'
  BY <1>2 DEF AskedFor
<1>3. ASSUME NEW c \in Calls, Quote(c) \/ Decide(c) \/ Stamp(c) \/ Consume(c)
      PROVE  AskedFor'
  BY <1>2, <1>3 DEF Quote, Decide, Stamp, Consume, Entry, End, TypeOK
<1>4. ASSUME NEW r \in Request, Reprice(r) PROVE AskedFor'
  BY <1>2, <1>4 DEF Reprice
<1>5. CASE Tick
  BY <1>2, <1>5 DEF Tick
<1>6. CASE Restart
  BY <1>2, <1>6 DEF Restart, TypeOK, Running
<1>7. CASE UNCHANGED vars
  BY <1>2, <1>7 DEF vars
<1> QED
  BY <1>1, <1>3, <1>4, <1>5, <1>6, <1>7 DEF Next, Step

\* A stamped call keeps the facts it was checked for until it holds the
\* mutex: the clock waits for it at most MaxStall, and a restart ends it.
LEMMA StampedStep ==
    Inv /\ [Next]_vars => \A d \in Calls : (pc[d] = "stamped" => StampedCall(d))'
<1> SUFFICES ASSUME Inv, [Next]_vars, NEW d \in Calls, pc'[d] = "stamped"
             PROVE  StampedCall(d)'
    BY DEF StampedCall
<1> TypeOK /\ (pc[d] = "stamped" => StampedCall(d))
    BY DEF Inv
<1> USE TimeAssumption, BoundsAssumption
<1>1. ASSUME pc[d] = "stamped", issued \subseteq issued',
             input'[d] = input[d], stamp'[d] = stamp[d], gen' = gen, clock' = clock
      PROVE  StampedCall(d)'
  BY <1>1 DEF StampedCall, Checked
<1>2. ASSUME NEW c \in Calls, Quote(c) \/ Decide(c) \/ Ask(c) \/ Consume(c)
      PROVE  StampedCall(d)'
  BY <1>1, <1>2 DEF Quote, Decide, Ask, Consume, Entry, End, Verdict, TypeOK
<1>3. ASSUME NEW c \in Calls, Stamp(c) PROVE StampedCall(d)'
  <2>1. CASE c = d
    BY <1>3, <2>1 DEF Stamp, Acceptable, End, StampedCall, Checked, TypeOK, Token
  <2>2. CASE c # d
    BY <1>1, <1>3, <2>2 DEF Stamp, End, TypeOK
  <2> QED
    BY <2>1, <2>2
<1>4. ASSUME NEW r \in Request, Reprice(r) PROVE StampedCall(d)'
  BY <1>1, <1>4 DEF Reprice
<1>5. CASE Tick
  BY <1>5 DEF Tick, StampedCall, Checked, TypeOK
<1>6. CASE Restart
  BY <1>6 DEF Restart, Running
<1>7. CASE UNCHANGED vars
  BY <1>1, <1>7 DEF vars
<1> QED
  BY <1>2, <1>3, <1>4, <1>5, <1>6, <1>7 DEF Next, Step

\* The heart of it.  A decided token of the running process is in the map or
\* has expired: Consume puts it there, and the sweep of another call removes
\* it only when the clock that call read is past the expiry.
LEMMA DecidedStep ==
    Inv /\ [Next]_vars => \A d \in Calls : (pc[d] \in Decided => DecidedCall(d))'
<1> SUFFICES ASSUME Inv, [Next]_vars, NEW d \in Calls, pc'[d] \in Decided
             PROVE  DecidedCall(d)'
    BY DEF DecidedCall, Decided
<1> TypeOK /\ Signatures /\ (pc[d] \in Decided => DecidedCall(d))
    BY DEF Inv
<1> USE TimeAssumption, BoundsAssumption
<1>1. ASSUME pc[d] \in Decided, issued \subseteq issued', used \subseteq used',
             input'[d] = input[d], at'[d] = at[d], gen' = gen, clock' = clock
      PROVE  DecidedCall(d)'
  BY <1>1 DEF DecidedCall, Checked
<1>2. ASSUME NEW c \in Calls, Quote(c) \/ Decide(c) \/ Ask(c) \/ Stamp(c)
      PROVE  DecidedCall(d)'
  BY <1>1, <1>2 DEF Quote, Decide, Ask, Stamp, End, Decided, TypeOK
<1>3. ASSUME NEW c \in Calls, Consume(c) PROVE DecidedCall(d)'
  <2>1. pc[c] = "stamped" /\ StampedCall(c)
    BY <1>3 DEF Consume, Entry, Inv
  <2>2. used' = Swept(stamp[c]) \cup {input[c].token} /\ at' = [at EXCEPT ![c] = clock]
        /\ UNCHANGED <<clock, gen, issued, input>>
    BY <1>3 DEF Consume, Entry
  <2>3. CASE c = d
    BY <2>1, <2>2, <2>3 DEF StampedCall, DecidedCall, Checked, TypeOK, Token
  <2>4. CASE c # d
    <3>1. pc[d] \in Decided
      BY <1>3, <2>4 DEF Consume, Entry, End, TypeOK
    <3>2. DecidedCall(d) /\ input[d].token \in Token
      BY <3>1 DEF DecidedCall, Checked, TypeOK
    <3>3. input[d].token \in used =>
            input[d].token \in used' \/ input[d].token.exp < clock
      BY <2>1, <2>2, <3>2 DEF Swept, StampedCall, Token, TypeOK
    <3> QED
      BY <2>2, <2>4, <3>2, <3>3 DEF DecidedCall, Checked, TypeOK
  <2> QED
    BY <2>3, <2>4
<1>4. ASSUME NEW r \in Request, Reprice(r) PROVE DecidedCall(d)'
  BY <1>1, <1>4 DEF Reprice
<1>5. CASE Tick
  BY <1>5 DEF Tick, DecidedCall, Checked, TypeOK, Token
<1>6. CASE Restart
  <2>1. pc[d] \in Decided
    BY <1>6 DEF Restart, Decided, Running, TypeOK
  <2> QED
    BY <1>6, <2>1 DEF Restart, DecidedCall, Checked, Signatures, TypeOK, Token
<1>7. CASE UNCHANGED vars
  BY <1>1, <1>7 DEF vars
<1> QED
  BY <1>2, <1>3, <1>4, <1>5, <1>6, <1>7 DEF Next, Step

\* The call that Consume decides.
LEMMA ConsumeDecides ==
    ASSUME Inv, NEW c \in Calls, Consume(c), pc'[c] \in Decided
    PROVE  input[c].token \notin Swept(stamp[c]) /\ pc'[c] = Verdict(input[c])
BY DEF Consume, Entry, End, Decided, Inv, TypeOK

\* A sweep that happened has happened: calls that ended change no more.
LEMMA SweptKept ==
    ASSUME Inv, [Next]_vars, NEW e \in Calls, NEW t, SweptBy(e, t)
    PROVE  SweptBy(e, t)'
<1> TypeOK
    BY DEF Inv
<1> SUFFICES pc'[e] = pc[e] /\ stamp'[e] = stamp[e] /\ input'[e] = input[e]
    BY DEF SweptBy
<1>1. pc[e] \notin {"new"} \cup Running
  BY DEF SweptBy, Decided, Running
<1>2. ASSUME NEW c \in Calls, Step(c)
      PROVE  pc'[e] = pc[e] /\ stamp'[e] = stamp[e] /\ input'[e] = input[e]
  BY <1>1, <1>2 DEF Step, Quote, Decide, Ask, Stamp, Consume, End, Running, TypeOK
<1>3. CASE Restart
  BY <1>1, <1>3 DEF Restart, TypeOK
<1>4. CASE Tick \/ (\E r \in Request : Reprice(r)) \/ UNCHANGED vars
  BY <1>4 DEF Tick, Reprice, vars
<1> QED
  BY <1>2, <1>3, <1>4 DEF Next

\* A decided token of the running process is in the map, or was swept by a
\* call that was stamped after it had expired.
LEMMA SpentStep ==
    Inv /\ [Next]_vars => \A d \in Calls : (pc[d] \in Decided => SpentOrSwept(d))'
<1> SUFFICES ASSUME Inv, [Next]_vars, NEW d \in Calls, pc'[d] \in Decided
             PROVE  SpentOrSwept(d)'
    BY DEF Decided
<1> TypeOK /\ Signatures /\ (pc[d] \in Decided => DecidedCall(d) /\ SpentOrSwept(d))
    BY DEF Inv
<1> USE TimeAssumption, BoundsAssumption
<1>1. ASSUME pc[d] \in Decided, used \subseteq used', input'[d] = input[d], gen' = gen
      PROVE  SpentOrSwept(d)'
  BY <1>1, SweptKept DEF SpentOrSwept
<1>2. ASSUME NEW c \in Calls, Quote(c) \/ Decide(c) \/ Ask(c) \/ Stamp(c)
      PROVE  SpentOrSwept(d)'
  BY <1>1, <1>2 DEF Quote, Decide, Ask, Stamp, End, Decided, TypeOK
<1>3. ASSUME NEW c \in Calls, Consume(c) PROVE SpentOrSwept(d)'
  <2>1. pc[c] = "stamped" /\ StampedCall(c)
    BY <1>3 DEF Consume, Inv
  <2>2. used' = Swept(stamp[c]) \cup {input[c].token}
        /\ UNCHANGED <<gen, input, stamp>>
    BY <1>3 DEF Consume, Entry
  <2>3. CASE c = d
    BY <2>2, <2>3 DEF SpentOrSwept
  <2>4. CASE c # d
    <3>1. pc[d] \in Decided
      BY <1>3, <2>4 DEF Consume, End, TypeOK
    <3>2. DecidedCall(d) /\ SpentOrSwept(d) /\ input[d].token \in Token
      BY <3>1 DEF DecidedCall, Checked, TypeOK
    <3>3. CASE input[d].token \in used /\ input[d].token \notin used'
      <4>1. stamp[c] > input[d].token.exp
        BY <2>1, <2>2, <3>2, <3>3 DEF Swept, Token, TypeOK
      <4>2. input[c].token.exp > input[d].token.exp
        BY <2>1, <3>2, <4>1 DEF StampedCall, Checked, Token, TypeOK
      <4>3. pc'[c] \in Decided \cup {"replayed"}
        BY <1>3 DEF Consume, End, Verdict, Decided, TypeOK
      <4>4. SweptBy(c, input[d].token)'
        BY <2>2, <4>1, <4>2, <4>3 DEF SweptBy
      <4> QED
        BY <4>4 DEF SpentOrSwept
    <3>4. CASE input[d].token \in used'
      BY <2>2, <3>4 DEF SpentOrSwept
    <3>5. CASE input[d].token \notin used
      BY <2>2, <3>2, <3>5, SweptKept DEF SpentOrSwept
    <3> QED
      BY <3>3, <3>4, <3>5
  <2> QED
    BY <2>3, <2>4
<1>4. ASSUME NEW r \in Request, Reprice(r) PROVE SpentOrSwept(d)'
  BY <1>1, <1>4 DEF Reprice
<1>5. CASE Tick
  BY <1>1, <1>5 DEF Tick
<1>6. CASE Restart
  <2>1. pc[d] \in Decided
    BY <1>6 DEF Restart, Decided, Running, TypeOK
  <2> QED
    BY <1>6, <2>1 DEF Restart, SpentOrSwept, DecidedCall, Checked, Signatures, TypeOK, Token
<1>7. CASE UNCHANGED vars
  BY <1>1, <1>7 DEF vars
<1> QED
  BY <1>2, <1>3, <1>4, <1>5, <1>6, <1>7 DEF Next, Step

LEMMA SecondVerdictStep == Inv /\ [Next]_vars => SecondVerdictTakesSweep'
<1> SUFFICES ASSUME Inv, [Next]_vars PROVE SecondVerdictTakesSweep'
    OBVIOUS
<1> TypeOK /\ SecondVerdictTakesSweep
    BY DEF Inv
\* What the property says of two calls decided on one token.
<1> DEFINE Late(c, d) == at[c] > input[c].token.exp \/ at[d] > input[c].token.exp
<1>1. SecondVerdictTakesSweep <=>
        \A c, d \in Calls :
          c # d /\ pc[c] \in Decided /\ pc[d] \in Decided /\ input[c].token = input[d].token
            => Late(c, d) /\ \E e \in Calls : SweptBy(e, input[c].token)
  BY DEF SecondVerdictTakesSweep, SweptBy
<1>2. SecondVerdictTakesSweep' <=>
        (\A c, d \in Calls :
          c # d /\ pc[c] \in Decided /\ pc[d] \in Decided /\ input[c].token = input[d].token
            => Late(c, d) /\ \E e \in Calls : SweptBy(e, input[c].token))'
  BY DEF SecondVerdictTakesSweep, SweptBy
<1>3. ASSUME \A c \in Calls : pc'[c] \in Decided =>
                 pc[c] \in Decided /\ input'[c] = input[c] /\ at'[c] = at[c]
      PROVE  SecondVerdictTakesSweep'
  BY <1>1, <1>2, <1>3, SweptKept
<1>4. ASSUME NEW c \in Calls, Quote(c) \/ Decide(c) \/ Ask(c) \/ Stamp(c)
      PROVE  SecondVerdictTakesSweep'
  BY <1>3, <1>4 DEF Quote, Decide, Ask, Stamp, End, Decided, TypeOK
<1>5. ASSUME NEW c \in Calls, Consume(c) PROVE SecondVerdictTakesSweep'
  <2>1. /\ pc' = [pc EXCEPT ![c] = pc'[c]]
        /\ at' = [at EXCEPT ![c] = clock]
        /\ input' = input
    BY <1>5 DEF Consume, End, TypeOK
  <2>2. pc[c] = "stamped" /\ StampedCall(c)
    BY <1>5 DEF Consume, Inv
  \* Any call decided on the token of c before is of this process, so its
  \* token expired before the clock that c holds the mutex at, and was swept.
  <2>3. ASSUME NEW f \in Calls, f # c, pc[f] \in Decided, pc'[c] \in Decided,
               input[f].token = input[c].token
        PROVE  input[c].token.exp < clock /\ \E e \in Calls : SweptBy(e, input[c].token)
    <3>1. DecidedCall(f) /\ SpentOrSwept(f) /\ input[f].token.gen = gen
      BY <2>2, <2>3 DEF Inv, StampedCall
    <3>2. input[c].token \notin Swept(stamp[c])
      BY <1>5, <2>3, ConsumeDecides
    <3>3. input[c].token \notin used
      BY <2>2, <3>2 DEF Swept, StampedCall, Checked, TypeOK, Token
    <3> QED
      BY <2>3, <3>1, <3>3 DEF DecidedCall, SpentOrSwept
  <2>4. input[c].token.exp \in Int /\ clock \in Int
    BY <2>2, TimeAssumption, BoundsAssumption DEF StampedCall, Checked, TypeOK, Token
  <2>5. ASSUME NEW e \in Calls, NEW d \in Calls, e # d,
               pc'[e] \in Decided, pc'[d] \in Decided,
               input[e].token = input[d].token
        PROVE  /\ at'[e] > input[e].token.exp \/ at'[d] > input[e].token.exp
               /\ \E g \in Calls : SweptBy(g, input[e].token)'
    <3> SUFFICES /\ at'[e] > input[e].token.exp \/ at'[d] > input[e].token.exp
                 /\ \E g \in Calls : SweptBy(g, input[e].token)
      <4>1. ASSUME NEW g \in Calls, SweptBy(g, input[e].token)
            PROVE  SweptBy(g, input[e].token)'
        <5>1. PICK t : t = input[e].token
          OBVIOUS
        <5>2. SweptBy(g, t)'
          BY <4>1, <5>1, SweptKept
        <5> QED
          BY <2>1, <5>1, <5>2
      <4> QED
        BY <4>1
    <3>1. CASE e = c
      <4>1. pc[d] \in Decided
        BY <2>1, <2>5, <3>1 DEF TypeOK
      <4>2. input[c].token.exp < clock /\ \E g \in Calls : SweptBy(g, input[c].token)
        BY <2>3, <2>5, <3>1, <4>1
      <4>3. at'[c] = clock
        BY <2>1 DEF TypeOK
      <4> QED
        BY <2>4, <3>1, <4>2, <4>3
    <3>2. CASE d = c
      <4>1. pc[e] \in Decided
        BY <2>1, <2>5, <3>2 DEF TypeOK
      <4>2. input[c].token.exp < clock /\ \E g \in Calls : SweptBy(g, input[c].token)
        BY <2>3, <2>5, <3>2, <4>1
      <4>3. at'[c] = clock
        BY <2>1 DEF TypeOK
      <4> QED
        BY <2>4, <2>5, <3>2, <4>2, <4>3
    <3>3. CASE e # c /\ d # c
      <4>1. /\ pc[e] \in Decided /\ pc[d] \in Decided
            /\ at'[e] = at[e] /\ at'[d] = at[d]
        BY <2>1, <2>5, <3>3 DEF TypeOK
      <4>2. Late(e, d) /\ \E g \in Calls : SweptBy(g, input[e].token)
        BY <1>1, <2>5, <4>1
      <4> QED
        BY <4>1, <4>2
    <3> QED
      BY <3>1, <3>2, <3>3
  <2> QED
    BY <1>2, <2>1, <2>5
<1>6. ASSUME NEW r \in Request, Reprice(r) PROVE SecondVerdictTakesSweep'
  BY <1>3, <1>6 DEF Reprice
<1>7. CASE Tick
  BY <1>3, <1>7 DEF Tick
<1>8. CASE Restart
  BY <1>3, <1>8 DEF Restart, Decided, TypeOK
<1>9. CASE UNCHANGED vars
  BY <1>3, <1>9 DEF vars
<1> QED
  BY <1>4, <1>5, <1>6, <1>7, <1>8, <1>9 DEF Next, Step

\* How a call came to go ahead.
LEMMA ConsentStep ==
    Inv /\ [Next]_vars =>
        \A d \in Calls : /\ (pc[d] = "authorised" => AuthorisedCall(d))'
                         /\ (pc[d] = "proceeded" => ProceededCall(d))'
<1> SUFFICES ASSUME Inv, [Next]_vars, NEW d \in Calls
             PROVE  /\ pc'[d] = "authorised" => AuthorisedCall(d)'
                    /\ pc'[d] = "proceeded" => ProceededCall(d)'
    OBVIOUS
<1> DEFINE Goal == /\ pc'[d] = "authorised" => AuthorisedCall(d)'
                   /\ pc'[d] = "proceeded" => ProceededCall(d)'
<1> TypeOK /\ (pc[d] = "authorised" => AuthorisedCall(d))
           /\ (pc[d] = "proceeded" => ProceededCall(d))
    BY DEF Inv
<1>1. ASSUME input'[d] = input[d],
             pc'[d] = pc[d] \/ pc'[d] \notin {"authorised", "proceeded"}
      PROVE  Goal
  BY <1>1 DEF AuthorisedCall, ProceededCall, Guarded, ArgConfirms
<1>2. ASSUME NEW c \in Calls, Ask(c) \/ Stamp(c) PROVE Goal
  BY <1>1, <1>2 DEF Ask, Stamp, End, TypeOK
<1>3. ASSUME NEW c \in Calls, Quote(c) PROVE Goal
  BY <1>3 DEF Quote, TypeOK, AuthorisedCall, ProceededCall, Guarded, ArgConfirms
<1>4. ASSUME NEW c \in Calls, Decide(c) PROVE Goal
  BY <1>4 DEF Decide, End, TypeOK, AuthorisedCall, ProceededCall, Guarded, ArgConfirms
<1>5. ASSUME NEW c \in Calls, Consume(c) PROVE Goal
  BY <1>5 DEF Consume, Entry, End, Verdict, TypeOK, AuthorisedCall, ProceededCall, Guarded,
     ArgConfirms
<1>6. ASSUME NEW r \in Request, Reprice(r) PROVE Goal
  BY <1>1, <1>6 DEF Reprice
<1>7. CASE Tick
  BY <1>1, <1>7 DEF Tick
<1>8. CASE Restart
  BY <1>1, <1>8 DEF Restart, TypeOK
<1>9. CASE UNCHANGED vars
  BY <1>1, <1>9 DEF vars
<1> QED
  BY <1>2, <1>3, <1>4, <1>5, <1>6, <1>7, <1>8, <1>9 DEF Next, Step

LEMMA InvStep == Inv /\ [Next]_vars => Inv'
BY TypeStep, PresentedStep, SignaturesStep, AskedForStep, StampedStep, DecidedStep,
   SpentStep, SecondVerdictStep, ConsentStep DEF Inv

THEOREM Invariance == Spec => []Inv
<1>1. Init => Inv
  BY InvInit
<1>2. Inv /\ [Next]_vars => Inv'
  BY InvStep
<1> QED
  BY <1>1, <1>2, PTL DEF Spec
-----------------------------------------------------------------------------
(* What follows from the invariant. *)

\* Type correctness of every reachable state.
THEOREM TypeCorrect == Spec => []TypeOK
BY Invariance, PTL DEF Inv

\* Whatever the delay at the mutex, a token decides a second call only if one
\* of the two held the mutex after it expired and a third call, on a token that
\* lived longer, had swept it (state.go:30-31, 143-157).
THEOREM SecondVerdictSwept == Spec => []SecondVerdictTakesSweep
BY Invariance, PTL DEF Inv

\* A guarded call goes ahead only with consent to what it does.
THEOREM Consent == Spec => []ActsOnConsent
<1>1. Inv => ActsOnConsent
  <2> SUFFICES ASSUME Inv, NEW c \in Calls
               PROVE  /\ pc[c] = "authorised" =>
                           /\ input[c].answer = "accept"
                           /\ \E a \in Calls :
                                /\ pc[a] = "asked"
                                /\ input[a].req = input[c].req
                                /\ input[a].view.preview = input[c].view.preview
                                /\ PriceMatches(input[a].view.price, input[c].view.price)
                      /\ pc[c] = "proceeded" /\ Guarded(input[c]) =>
                           /\ ~input[c].client.elicits
                           /\ ConfirmArgAllowed
                           /\ input[c].client.confirm
    BY DEF ActsOnConsent
  <2>1. ASSUME pc[c] = "authorised"
        PROVE  /\ input[c].answer = "accept"
               /\ \E a \in Calls :
                    /\ pc[a] = "asked"
                    /\ input[a].req = input[c].req
                    /\ input[a].view.preview = input[c].view.preview
                    /\ PriceMatches(input[a].view.price, input[c].view.price)
    <3>1. Checked(c) /\ AuthorisedCall(c)
      BY <2>1 DEF Inv, DecidedCall, Decided
    <3>2. PICK a \in Calls : /\ pc[a] = "asked"
                             /\ input[a].req = input[c].token.req
                             /\ input[a].view = input[c].token.view
      BY <3>1 DEF Inv, AskedFor, Checked
    <3> QED
      BY <3>1, <3>2 DEF Checked, AuthorisedCall
  <2>2. ASSUME pc[c] = "proceeded", Guarded(input[c])
        PROVE  ArgConfirms(input[c])
    BY <2>2 DEF Inv, ProceededCall
  <2> QED
    BY <2>1, <2>2 DEF ArgConfirms
<1> QED
  BY <1>1, Invariance, PTL

\* Only the process that signed a token decides a call on it.
THEOREM Revocation == Spec => RestartRevokes
<1>1. Inv /\ [Next]_vars =>
        [\A c \in Calls : pc[c] # pc'[c] /\ pc'[c] \in Decided
                              => input[c].token.gen = gen']_vars
  <2> SUFFICES ASSUME Inv, [Next]_vars, NEW c \in Calls,
                      pc[c] # pc'[c], pc'[c] \in Decided
               PROVE  input[c].token.gen = gen'
    OBVIOUS
  <2>1. Consume(c)
    BY DEF Next, Step, Quote, Decide, Ask, Stamp, Consume, Entry, Reprice, Tick, Restart,
       vars, End, Decided, Inv, TypeOK
  <2> QED
    BY <2>1 DEF Consume, Entry, Inv, StampedCall
<1> QED
  BY <1>1, Invariance, PTL DEF Spec, RestartRevokes

\* What a change of the map leaves in it had not expired MaxStall ago.
THEOREM BoundedMap == Spec => MapBoundedByTTL
<1>1. Inv /\ [Next]_vars =>
        [used' # used => \A t \in used' : clock <= t.exp + MaxStall]_vars
  <2> SUFFICES ASSUME Inv, [Next]_vars, used' # used, NEW t \in used'
               PROVE  clock <= t.exp + MaxStall
    OBVIOUS
  <2>1. CASE Restart
    BY <2>1 DEF Restart
  <2>2. ASSUME NEW c \in Calls, Consume(c) PROVE clock <= t.exp + MaxStall
    <3>1. pc[c] = "stamped" /\ StampedCall(c) /\ TypeOK
      BY <2>2 DEF Consume, Entry, Inv
    <3>2. t \in Swept(stamp[c]) \/ t = input[c].token
      BY <2>2 DEF Consume, Entry
    <3>3. t \in Token /\ t.exp >= stamp[c]
      BY <3>1, <3>2, TimeAssumption, BoundsAssumption
      DEF Swept, StampedCall, Checked, TypeOK, Token
    <3> QED
      BY <3>1, <3>3, TimeAssumption, BoundsAssumption DEF StampedCall, TypeOK, Token
  <2> QED
    BY <2>1, <2>2 DEF Next, Step, Quote, Decide, Ask, Stamp, Reprice, Tick, vars
<1> QED
  BY <1>1, Invariance, PTL DEF Spec, MapBoundedByTTL
-----------------------------------------------------------------------------
(* The price check is unreachable where the preview shows the price. *)

\* Prices equal to 4 digits are within the tolerance: its floor is ten times
\* the rounding.
LEMMA RoundedPricesMatch ==
    ASSUME NEW a \in Nat, NEW b \in Nat, Round4(a) = Round4(b)
    PROVE  PriceMatches(a, b)
<1> DEFINE q == (a + 50) \div 100
<1>1. 100 * q <= a + 50 /\ a + 50 < 100 * q + 100
  OBVIOUS
<1>2. 100 * q <= b + 50 /\ b + 50 < 100 * q + 100
  BY DEF Round4
<1>3. a - b <= 99 /\ b - a <= 99 /\ q \in Int
  BY <1>1, <1>2
<1>4. Tolerance100(a, b) >= 100000
  BY DEF Tolerance100, PriceMin, PriceMax, Dollar
<1>5. Tolerance100(a, b) \in Int
  BY DEF Tolerance100, PriceMin, PriceMax, Dollar
<1> HIDE DEF q
<1> QED
  BY <1>3, <1>4, <1>5 DEF PriceMatches

\* A refusal on the price is never of a drift that the four digits of the
\* preview hide (state.go:164-166).
THEOREM VisibleDrift == Spec => []RefusedDriftShows
<1>1. Init => RefusedDriftShows
  BY DEF Init, RefusedDriftShows
<1>2. Inv /\ RefusedDriftShows /\ [Next]_vars => RefusedDriftShows'
  <2> SUFFICES ASSUME Inv, RefusedDriftShows, [Next]_vars,
                      NEW d \in Calls, pc'[d] = "repriced"
               PROVE  Round4(input'[d].token.view.price) # Round4(input'[d].view.price)
    BY DEF RefusedDriftShows
  <2>1. CASE Consume(d)
    <3>1. Checked(d) /\ TypeOK /\ input[d] \in Input /\ input' = input
      BY <2>1 DEF Consume, Inv, StampedCall, TypeOK
    <3>2. input[d].token.view \in Views /\ input[d].view \in Views
      BY <3>1 DEF Checked, TypeOK, Token, Input
    <3>3. input[d].token.view.price \in Nat /\ input[d].view.price \in Nat
      BY <3>2, ViewsAssumption DEF View
    <3>4. ~PriceMatches(input[d].token.view.price, input[d].view.price)
      BY <2>1 DEF Consume, End, Verdict, Inv, TypeOK
    <3> QED
      BY <3>1, <3>3, <3>4, RoundedPricesMatch
  <2>2. CASE ~Consume(d)
    <3>1. pc[d] = "repriced"
      BY <2>2 DEF Next, Step, Quote, Decide, Ask, Stamp, Consume, Entry, Reprice, Tick,
         Restart, vars, End, Inv, TypeOK
    <3>2. input'[d] = input[d]
      BY <3>1 DEF Next, Step, Quote, Decide, Ask, Stamp, Consume, Reprice, Tick, Restart,
         vars, Inv, TypeOK
    <3> QED
      BY <3>1, <3>2 DEF RefusedDriftShows
  <2> QED
    BY <2>1, <2>2
<1> QED
  BY <1>1, <1>2, Invariance, PTL DEF Spec

\* So where equal previews mean equal prices to four digits -- every caller of
\* confirm -- the price check never decides: verify has refused the preview.
THEOREM PriceCheckUnreachable ==
    ASSUME SamePreviewSamePrice(Views)
    PROVE  Spec => [](\A c \in Calls : pc[c] # "repriced")
<1>1. ASSUME Inv, RefusedDriftShows
      PROVE  \A c \in Calls : pc[c] # "repriced"
  <2> SUFFICES ASSUME NEW c \in Calls, pc[c] = "repriced"
               PROVE  FALSE
    OBVIOUS
  <2>1. Checked(c) /\ TypeOK /\ input[c] \in Input
    BY <1>1 DEF Inv, DecidedCall, Decided, TypeOK
  <2>2. input[c].token.view \in Views /\ input[c].view \in Views
    BY <2>1 DEF Checked, TypeOK, Token, Input
  <2> QED
    BY <1>1, <2>1, <2>2 DEF SamePreviewSamePrice, Checked, RefusedDriftShows
<1>2. Inv /\ RefusedDriftShows => \A c \in Calls : pc[c] # "repriced"
  BY <1>1
<1> QED
  BY <1>2, Invariance, VisibleDrift, PTL
-----------------------------------------------------------------------------
(* The confirmation flow implements the abstract approval. *)

\* Whatever the delay at the mutex, every step maps to asking for one approval,
\* deciding one, withdrawing some, or a stutter: deciding, if the call holds the
\* mutex before its token expires, and a stutter, if it comes later.
THEOREM Refinement == Spec => ImplementsApproval
<1> USE TimeAssumption, BoundsAssumption
<1>1. Init => Promise!AInit
  BY DEF Init, Promise!AInit, Live, Verdicts, InTime, Decided
<1>2. Inv /\ [Next]_vars => [Promise!ANext]_Promise!avars
  <2> SUFFICES ASSUME Inv, [Next]_vars PROVE [Promise!ANext]_Promise!avars
    OBVIOUS
  <2> TypeOK
    BY DEF Inv
  \* Steps that decide no call, and keep the calls decided before.
  <2>1. ASSUME \A d \in Calls : pc[d] \in Decided \/ pc'[d] \in Decided =>
                   pc'[d] = pc[d] /\ input'[d] = input[d] /\ at'[d] = at[d]
        PROVE  Verdicts' = Verdicts
    BY <2>1 DEF Verdicts, InTime
  <2>2. ASSUME issued' = issued, Verdicts' = Verdicts, Live' \subseteq Live
        PROVE  Promise!ANext
    <3>1. Live' = Live \ (Live \ Live')
      BY <2>2
    <3>2. Promise!Withdraw(Live \ Live')
      BY <2>2, <3>1 DEF Promise!Withdraw
    <3> QED
      BY <3>2 DEF Promise!ANext
  <2>3. ASSUME NEW c \in Calls, Quote(c) \/ Decide(c) \/ Stamp(c)
        PROVE  Promise!ANext
    <3>1. Verdicts' = Verdicts
      BY <2>1, <2>3 DEF Quote, Decide, Stamp, End, Decided, TypeOK
    <3>2. issued' = issued /\ Live' = Live
      BY <2>3 DEF Quote, Decide, Stamp, Live
    <3> QED
      BY <2>2, <3>1, <3>2
  <2>4. ASSUME NEW c \in Calls, Ask(c) PROVE Promise!ANext
    <3> DEFINE t == Signed(input[c])
    <3>1. t \in Token /\ t.nonce = nonces /\ t.gen = gen /\ t.exp = clock + TTL
      BY <2>4, SignedIsToken DEF Ask, TypeOK, Signed
    <3>2. t \notin issued
      BY <3>1 DEF Inv, Signatures, TypeOK
    <3>3. Verdicts' = Verdicts
      BY <2>1, <2>4 DEF Ask, End, Decided, TypeOK
    <3>4. issued' = issued \cup {t} /\ UNCHANGED <<gen, clock, used>>
      BY <2>4 DEF Ask
    <3>5. Live' = Live \cup {t}
      <4>1. t \notin used /\ clock <= t.exp
        BY <3>1, <3>2 DEF TypeOK
      <4> HIDE DEF t
      <4> QED
        BY <3>1, <3>4, <4>1 DEF Live
    <3> HIDE DEF t
    <3>6. Promise!AskFor(t)
      BY <3>2, <3>3, <3>4, <3>5 DEF Promise!AskFor
    <3> QED
      BY <3>1, <3>6 DEF Promise!ANext
  <2>5. ASSUME NEW c \in Calls, Consume(c) PROVE Promise!ANext
    <3>1. pc[c] = "stamped" /\ StampedCall(c)
      BY <2>5 DEF Consume, Inv
    <3>2. /\ stamp[c] \in Int /\ clock \in Int /\ input[c].token \in Token
          /\ input[c].token.exp \in Int
          /\ stamp[c] <= clock /\ stamp[c] <= input[c].token.exp
      BY <3>1 DEF StampedCall, Checked, TypeOK, Token
    <3>3. used' = Swept(stamp[c]) \cup {input[c].token}
          /\ UNCHANGED <<clock, gen, issued, input>>
      BY <2>5 DEF Consume, Entry
    \* The sweep only drops what has expired.
    <3>4. Live' = Live \ {input[c].token}
      BY <3>2, <3>3 DEF Live, Swept, TypeOK, Token
    <3>5. at' = [at EXCEPT ![c] = clock]
      BY <2>5 DEF Consume
    \* A call that decides nothing, or too late, changes no verdict.
    <3>6. ASSUME pc'[c] \notin Decided \/ clock > input[c].token.exp
          PROVE  Promise!ANext
      <4>1. ASSUME NEW d \in Calls
            PROVE  InTime(d)' <=> InTime(d)
        <5>1. CASE d = c
          BY <3>1, <3>2, <3>3, <3>5, <3>6, <5>1 DEF InTime, Decided, TypeOK
        <5>2. CASE d # c
          BY <2>5, <3>3, <3>5, <5>2 DEF Consume, End, InTime, TypeOK
        <5> QED
          BY <5>1, <5>2
      <4>2. ASSUME NEW d \in Calls, InTime(d)
            PROVE  pc'[d] = pc[d]
        BY <2>5, <3>1, <4>2 DEF Consume, End, InTime, Decided, TypeOK
      <4>3. Verdicts' = Verdicts
        BY <3>3, <4>1, <4>2 DEF Verdicts
      <4> QED
        BY <2>2, <3>3, <3>4, <4>3
    <3>7. CASE pc'[c] \in Decided /\ clock <= input[c].token.exp
      <4>1. input[c].token \notin Swept(stamp[c])
        BY <2>5, <3>7, ConsumeDecides
      <4> DEFINE v == [call |-> c, approval |-> input[c].token,
                       yes |-> pc'[c] = "authorised"]
      <4>2. InTime(c)' /\ ~InTime(c)
        BY <3>1, <3>3, <3>5, <3>7 DEF InTime, Decided, TypeOK
      <4>3. ASSUME NEW d \in Calls, d # c
            PROVE  (InTime(d)' <=> InTime(d)) /\ pc'[d] = pc[d]
        BY <2>5, <3>3, <3>5, <4>3 DEF Consume, End, InTime, TypeOK
      <4>4. Verdicts' = Verdicts \cup {v}
        BY <3>3, <4>2, <4>3 DEF Verdicts
      <4>5. input[c].token \in Live
        BY <3>1, <3>2, <3>7, <4>1 DEF StampedCall, Checked, Live, Swept, TypeOK, Token
      <4>6. Promise!DecideOn(c, input[c].token, pc'[c] = "authorised")
        BY <3>3, <3>4, <4>4, <4>5 DEF Promise!DecideOn
      <4>7. input[c].token \in Token /\ (pc'[c] = "authorised") \in BOOLEAN
        BY <3>1 DEF StampedCall, Checked, TypeOK
      <4> QED
        BY <4>6, <4>7 DEF Promise!ANext
    <3> QED
      BY <3>2, <3>6, <3>7
  <2>6. ASSUME NEW r \in Request, Reprice(r) PROVE Promise!ANext
    <3>1. Verdicts' = Verdicts /\ issued' = issued /\ Live' = Live
      BY <2>1, <2>6 DEF Reprice, Live
    <3> QED
      BY <2>2, <3>1
  <2>7. CASE Tick
    <3>1. Verdicts' = Verdicts
      BY <2>1, <2>7 DEF Tick
    <3>2. issued' = issued /\ Live' \subseteq Live
      BY <2>7 DEF Tick, Live, TypeOK, Token
    <3> QED
      BY <2>2, <3>1, <3>2
  <2>8. CASE Restart
    <3>1. Verdicts' = Verdicts
      BY <2>1, <2>8 DEF Restart, Running, Decided, TypeOK
    <3>2. issued' = issued /\ Live' = {}
      BY <2>8 DEF Restart, Live, Inv, Signatures, TypeOK, Token
    <3> QED
      BY <2>2, <3>1, <3>2
  <2>9. CASE UNCHANGED vars
    <3>1. Verdicts' = Verdicts /\ issued' = issued /\ Live' = Live
      BY <2>1, <2>9 DEF vars, Live
    <3> QED
      BY <3>1 DEF Promise!avars
  <2> QED
    BY <2>3, <2>4, <2>5, <2>6, <2>7, <2>8, <2>9 DEF Next, Step
<1> QED
  BY <1>1, <1>2, Invariance, PTL DEF Spec, ImplementsApproval
=============================================================================
