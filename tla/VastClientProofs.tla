-------------------------- MODULE VastClientProofs --------------------------
(***************************************************************************)
(* Theorems about one call of the client, for any number of retries, any   *)
(* times and any hints of the server.  The bound on the effects counts     *)
(* each attempt's request where it is: acted on, abandoned, or on the wire. *)
(* The bound on the time adds up what the attempts so far may have taken.  *)
(***************************************************************************)
EXTENDS VastClient, TLAPS

Polling == {"fetch", "fetching", "pause"}

WireInv ==
    /\ pc = "flight" => wire \in {"sent", "acted"}
    /\ pc = "fetching" => wire \in {"sent", "missing", "ready"}
    /\ pc \notin {"flight", "fetching"} => wire = "none"

AttemptInv ==
    /\ attempt <= Attempts(kind) - 1
    /\ pc = "backoff" => attempt < Attempts(kind) - 1
    /\ pc \in Polling => kind \in Polled

OnTheWire == IF pc = "flight" /\ wire = "sent" THEN 1 ELSE 0
Begun     == IF pc = "send" THEN attempt ELSE attempt + 1

EffectInv == effects + strays + OnTheWire <= Begun

OkInv ==
    (pc = "flight" /\ wire = "acted") \/ pc \in Polling \/ result = "ok" => effects > 0

\* What i attempts and the waits after them take at most.
Spent(i) == i * (Timeout + Longest)

TimeInv ==
    /\ pc = "send" => now <= Spent(attempt)
    /\ pc = "flight" => now <= timer /\ timer <= Spent(attempt) + Timeout
    /\ pc = "backoff" => now <= timer /\ timer <= Spent(attempt) + Timeout + Longest
    /\ pc \in Polling => deadline <= Spent(Attempts(kind)) - Longest + MaxWait
    /\ pc = "fetch" => now <= deadline + Interval
    /\ pc = "fetching" => now <= timer /\ timer <= deadline + Interval + Timeout
    /\ pc = "pause" => now <= timer /\ timer <= deadline + Interval
    /\ pc = "ended" => now <= CallBound

LateInv ==
    /\ published # Never => published <= now
    /\ pc = "fetching" => timer <= now + Timeout
    /\ pc = "fetching" /\ wire = "missing" =>
          published = Never \/ published >= timer - Timeout
    /\ result # "none" => pc = "ended"
    /\ result = "timed_out" =>
          /\ timer <= now + Timeout
          /\ now > deadline
          /\ published = Never \/ published >= timer - Timeout
-----------------------------------------------------------------------------
LEMMA AttemptsType ==
    ASSUME NEW k \in Kinds PROVE Attempts(k) \in Nat \ {0} /\ Attempts(k) <= MaxRetries
BY TimesAssumption DEF Attempts

LEMMA BackoffType ==
    ASSUME NEW i \in 0..(MaxRetries - 2), NEW h \in Hints \cup {0}, NEW d \in Backoff(i, h)
    PROVE  d \in Nat /\ d <= Longest
<1>1. d \in 0..Longest
  BY LongestAssumption
<1> QED
  BY <1>1, TimesAssumption

LEMMA SpentGrows ==
    ASSUME NEW i \in Nat
    PROVE  /\ Spent(i) \in Nat
           /\ Spent(i + 1) = Spent(i) + Timeout + Longest
<1> DEFINE K == Timeout + Longest
<1>1. K \in Nat
  BY TimesAssumption
<1>2. \A k \in Nat : i * k \in Nat /\ (i + 1) * k = i * k + k
  OBVIOUS
<1> QED
  BY <1>1, <1>2, TimesAssumption DEF Spent

LEMMA SpentMonotone ==
    ASSUME NEW i \in Nat, NEW j \in Nat, i <= j
    PROVE  Spent(i) <= Spent(j)
<1>1. Timeout + Longest \in Nat
  BY TimesAssumption
<1>2. \A k \in Nat : i * k <= j * k
  OBVIOUS
<1> QED
  BY <1>1, <1>2 DEF Spent

\* The bound, in terms of Spent.
LEMMA BoundIsSpent ==
    ASSUME NEW k \in Kinds
    PROVE  /\ Attempts(k) * Timeout + (Attempts(k) - 1) * Longest
                = Spent(Attempts(k)) - Longest
           /\ Spent(Attempts(k)) - Longest \in Nat
<1> DEFINE n == Attempts(k)
<1>1. n \in Nat \ {0}
  BY AttemptsType
<1> HIDE DEF n
<1>2. \A t, l \in Nat : n * t + (n - 1) * l = n * (t + l) - l
  BY <1>1
<1>3. Spent(n) = Spent(n - 1) + Timeout + Longest /\ Spent(n - 1) \in Nat
  <2>1. n - 1 \in Nat /\ (n - 1) + 1 = n
    BY <1>1
  <2> QED
    BY <2>1, SpentGrows
<1>4. n * Timeout + (n - 1) * Longest = Spent(n) - Longest
  BY <1>2, TimesAssumption DEF Spent
<1> QED
  BY <1>3, <1>4, TimesAssumption DEF n
-----------------------------------------------------------------------------
LEMMA TypeStep == TypeOK /\ AttemptInv /\ [Next]_vars => TypeOK'
<1> SUFFICES ASSUME TypeOK, AttemptInv, [Next]_vars PROVE TypeOK'
    OBVIOUS
<1> USE TimesAssumption DEF TypeOK
<1>1. CASE Send
  BY <1>1 DEF Send, End, server
<1>2. CASE Accepted
  BY <1>2 DEF Accepted, Abandon, End, server
<1>3. CASE Unsuccessful
  BY <1>3 DEF Unsuccessful, End, server
<1>4. CASE Busy
  <2>1. PICK hint \in Hints \cup {0} :
          IF attempt < Attempts(kind) - 1
          THEN /\ pc' = "backoff"
               /\ \E d \in Backoff(attempt, hint) : timer' = now + d
               /\ UNCHANGED <<deadline, result>>
          ELSE End("error")
    BY <1>4 DEF Busy, RetryLeft
  <2>2. attempt < Attempts(kind) - 1 => attempt \in 0..(MaxRetries - 2)
    BY AttemptsType
  <2>3. timer' \in Nat
    BY <2>1, <2>2, BackoffType DEF End
  <2> QED
    BY <1>4, <2>1, <2>3 DEF Busy, RetryLeft, Abandon, End, server
<1>5. CASE Failed
  BY <1>5 DEF Failed, Abandon, End, server
<1>6. CASE Wake
  <2>1. attempt < Attempts(kind) - 1
    BY <1>6 DEF Wake, AttemptInv
  <2>2. attempt + 1 \in 0..(MaxRetries - 1)
    BY <2>1, AttemptsType
  <2> QED
    BY <1>6, <2>2 DEF Wake, End, server
<1>7. CASE Fetch \/ Fetched \/ Resume
  BY <1>7 DEF Fetch, Fetched, Answered, Ready, TimedOut, Resume, End, server
<1>8. CASE Tick
  BY <1>8 DEF Tick, server
<1>13. CASE Cancel
  <2>1. cancelled' \in BOOLEAN
    BY <1>13, Zenon DEF Cancel
  <2>2. UNCHANGED <<kind, pc, attempt, now, timer, deadline, wire, strays, effects,
                    published, result>>
    BY <1>13 DEF Cancel
  <2> QED
    BY <2>1, <2>2
<1>9. CASE Act
  BY <1>9 DEF Act
<1>10. CASE Serve
  BY <1>10 DEF Serve, server
<1>11. CASE Publish
  BY <1>11 DEF Publish
<1>12. CASE UNCHANGED vars
  BY <1>12 DEF vars
<1> QED
  BY <1>1, <1>2, <1>3, <1>4, <1>5, <1>6, <1>7, <1>8, <1>9, <1>10, <1>11, <1>12, <1>13
  DEF Next, Client

LEMMA WireStep == WireInv /\ [Next]_vars => WireInv'
BY DEF WireInv, Next, Client, Send, Accepted, Unsuccessful, Busy, RetryLeft, Failed, Wake, Fetch, Fetched, Answered, Ready, TimedOut,
       Resume, Tick, Cancel, Act, Serve, Publish, End, Abandon, server, vars

LEMMA AttemptStep == TypeOK /\ AttemptInv /\ [Next]_vars => AttemptInv'
<1> SUFFICES ASSUME TypeOK, AttemptInv, [Next]_vars PROVE AttemptInv'
    OBVIOUS
<1>1. Attempts(kind) \in Nat /\ kind' = kind
  BY AttemptsType DEF TypeOK, Next, Client, Send, Accepted, Unsuccessful, Busy, RetryLeft, Failed, Wake,
     Fetch, Fetched, Answered, Ready, TimedOut, Resume, Tick, Cancel, Act, Serve, Publish, vars
<1>2. Attempts(kind)' = Attempts(kind)
  BY <1>1 DEF Attempts
<1>3. CASE Wake
  BY <1>1, <1>2, <1>3 DEF AttemptInv, Wake, End, TypeOK, Polling
<1>4. CASE UNCHANGED attempt
  BY <1>1, <1>2, <1>4 DEF AttemptInv, Polling, Next, Client, Send, Accepted, Unsuccessful, Busy, RetryLeft,
     Failed, Wake, Fetch, Fetched, Answered, Ready, TimedOut, Resume, Tick, Cancel, Act, Serve, Publish, End, vars
<1> QED
  BY <1>3, <1>4 DEF Next, Client, Send, Accepted, Unsuccessful, Busy, RetryLeft, Failed, Fetch, Fetched, Answered, Ready, TimedOut,
     Resume, Tick, Cancel, Act, Serve, Publish, vars

LEMMA EffectStep == TypeOK /\ WireInv /\ EffectInv /\ [Next]_vars => EffectInv'
<1> SUFFICES ASSUME TypeOK, WireInv, EffectInv, [Next]_vars PROVE EffectInv'
    OBVIOUS
<1> USE DEF TypeOK, EffectInv, OnTheWire, Begun
<1>1. CASE Send \/ Accepted \/ Unsuccessful \/ Failed
  BY <1>1 DEF WireInv, Send, Accepted, Unsuccessful, Failed, Abandon, End, server
<1>2. CASE Busy \/ Wake
  BY <1>2 DEF WireInv, Busy, RetryLeft, Wake, Abandon, End, server
<1>3. CASE Fetch \/ Fetched \/ Resume
  BY <1>3 DEF WireInv, Fetch, Fetched, Answered, Ready, TimedOut, Resume, End, server
<1>4. CASE Act
  BY <1>4 DEF WireInv, Act
<1>5. CASE Tick \/ Cancel \/ Serve \/ Publish \/ UNCHANGED vars
  BY <1>5 DEF Tick, Cancel, Serve, Publish, server, vars
<1> QED
  BY <1>1, <1>2, <1>3, <1>4, <1>5 DEF Next, Client

LEMMA OkStep == TypeOK /\ WireInv /\ OkInv /\ [Next]_vars => OkInv'
BY DEF TypeOK, WireInv, OkInv, Polling, Next, Client, Send, Accepted, Unsuccessful, Busy, RetryLeft, Failed,
       Wake, Fetch, Fetched, Answered, Ready, TimedOut, Resume, Tick, Cancel, Act, Serve, Publish, End, Abandon, server, vars

LEMMA LateStep == TypeOK /\ LateInv /\ [Next]_vars => LateInv'
<1> SUFFICES ASSUME TypeOK, LateInv, [Next]_vars PROVE LateInv'
    OBVIOUS
<1> USE TimesAssumption DEF TypeOK, LateInv, Never
<1>1. CASE Send \/ Accepted \/ Unsuccessful \/ Failed \/ Busy \/ Wake
  BY <1>1 DEF Send, Accepted, Unsuccessful, Failed, Busy, RetryLeft, Wake, Abandon, End, server
<1>2. CASE Fetch \/ Fetched \/ Resume
  BY <1>2 DEF Fetch, Fetched, Answered, Ready, TimedOut, Resume, End, server
<1>3. CASE Tick
  BY <1>3 DEF Tick, server
<1>4. CASE Cancel \/ Act \/ Serve \/ Publish \/ UNCHANGED vars
  BY <1>4 DEF Cancel, Act, Serve, Publish, server, vars
<1> QED
  BY <1>1, <1>2, <1>3, <1>4 DEF Next, Client

\* While a call is under way, the time is within its bound.
LEMMA InTime ==
    ASSUME TypeOK, AttemptInv, TimeInv, pc # "ended"
    PROVE  now <= CallBound
<1> DEFINE n == Attempts(kind)
           all == Spent(n) - Longest
           extra == IF kind \in Polled THEN MaxWait + Interval + Timeout ELSE 0
<1>1. n \in Nat \ {0} /\ attempt \in Nat /\ attempt <= n - 1
  BY AttemptsType DEF TypeOK, AttemptInv
<1>2. CallBound = all + extra /\ all \in Nat /\ extra \in Nat
  BY <1>1, BoundIsSpent, TimesAssumption DEF CallBound, TypeOK
<1>3. Spent(attempt) \in Nat /\ Spent(attempt) + Timeout <= all
  <2>1. Spent(attempt + 1) <= Spent(n)
    BY <1>1, SpentMonotone
  <2> QED
    BY <1>1, <2>1, SpentGrows, TimesAssumption DEF Spent
<1>4. CASE pc \in {"send", "flight"}
  BY <1>2, <1>3, <1>4, TimesAssumption DEF TypeOK, TimeInv
<1>5. CASE pc = "backoff"
  <2>1. attempt + 2 <= n
    BY <1>1, <1>5 DEF AttemptInv
  <2>2. Spent(attempt + 2) <= Spent(n)
    BY <1>1, <2>1, SpentMonotone
  <2>3. Spent(attempt + 2) = Spent(attempt + 1) + Timeout + Longest
    <3>1. attempt + 1 \in Nat /\ (attempt + 1) + 1 = attempt + 2
      BY <1>1
    <3> QED
      BY <3>1, SpentGrows
  <2>4. Spent(attempt + 1) = Spent(attempt) + Timeout + Longest
    BY <1>1, SpentGrows
  <2>5. now <= Spent(attempt) + Timeout + Longest
    BY <1>3, <1>5, TimesAssumption DEF TypeOK, TimeInv
  <2>a. Spent(n) \in Nat
    BY <1>1, SpentGrows
  <2>6. now <= all
    BY <2>a, <1>3, <2>2, <2>3, <2>4, <2>5, TimesAssumption DEF TypeOK
  <2> QED
    BY <1>2, <2>6 DEF TypeOK
<1>6. CASE pc \in Polling
  <2>1. deadline <= all + MaxWait /\ extra = MaxWait + Interval + Timeout
    BY <1>6 DEF TimeInv, AttemptInv
  <2>2. now <= deadline + Interval + Timeout
    BY <1>6, TimesAssumption DEF TypeOK, TimeInv, Polling
  <2> HIDE DEF all, extra
  <2> QED
    BY <1>2, <2>1, <2>2, TimesAssumption DEF TypeOK
<1> QED
  BY <1>4, <1>5, <1>6 DEF TypeOK, Polling

LEMMA TimeStep ==
    TypeOK /\ WireInv /\ AttemptInv /\ TimeInv /\ [Next]_vars => TimeInv'
<1> SUFFICES ASSUME TypeOK, WireInv, AttemptInv, TimeInv, [Next]_vars PROVE TimeInv'
    OBVIOUS
<1> DEFINE n == Attempts(kind)
           all == Spent(n) - Longest
           extra == IF kind \in Polled THEN MaxWait + Interval + Timeout ELSE 0
<1>1. /\ n \in Nat \ {0} /\ attempt \in Nat /\ attempt <= n - 1
      /\ kind' = kind
  BY AttemptsType DEF TypeOK, AttemptInv, Next, Client, Send, Accepted, Unsuccessful, Busy, RetryLeft,
     Failed, Wake, Fetch, Fetched, Answered, Ready, TimedOut, Resume, Tick, Cancel, Act, Serve, Publish, vars
<1>2. /\ CallBound = all + extra /\ CallBound' = CallBound
      /\ all \in Nat /\ extra \in Nat
  BY <1>1, BoundIsSpent, TimesAssumption DEF CallBound, Attempts, TypeOK
<1>3. /\ Spent(attempt) \in Nat
      /\ Spent(attempt) + Timeout <= all
      /\ Spent(attempt + 1) = Spent(attempt) + Timeout + Longest
  <2>1. Spent(attempt + 1) <= Spent(n)
    BY <1>1, SpentMonotone
  <2> QED
    BY <1>1, <2>1, SpentGrows, TimesAssumption DEF Spent
<1>4. Spent(n)' = Spent(n)
  BY <1>1 DEF Spent, Attempts
<1>5. pc # "ended" => now <= CallBound
  BY InTime
<1> HIDE DEF n, all, extra
<1>6. CASE Client /\ pc' = "ended" /\ now' = now
  <2>1. pc # "ended"
    BY <1>6 DEF Client, Send, Accepted, Unsuccessful, Busy, RetryLeft, Failed, Wake, Fetch, Fetched, Answered, Ready, TimedOut, Resume
  <2> QED
    BY <1>2, <1>5, <1>6, <2>1 DEF TimeInv, Polling
<1>7. CASE Send /\ pc' = "flight"
  BY <1>3, <1>7, TimesAssumption DEF Send, TimeInv, TypeOK, Polling, End, server
<1>8. CASE Accepted /\ pc' = "fetch"
  <2>1. deadline' = now + MaxWait /\ now' = now
    BY <1>8 DEF Accepted, End
  <2>2. now <= all
    BY <1>2, <1>3, <1>8, TimesAssumption DEF Accepted, TimeInv, TypeOK
  <2>3. deadline' <= Spent(Attempts(kind))' - Longest + MaxWait
    BY <1>2, <1>4, <2>1, <2>2, TimesAssumption DEF TypeOK, n, all
  <2> QED
    BY <1>8, <2>1, <2>3, TimesAssumption DEF TimeInv, TypeOK, Polling
<1>9. CASE Busy /\ pc' = "backoff"
  <2>a. PICK hint \in Hints \cup {0} :
          attempt < n - 1 /\ \E d \in Backoff(attempt, hint) : timer' = now + d
    BY <1>9 DEF Busy, RetryLeft, End, n
  <2>1. PICK d \in Backoff(attempt, hint) : attempt < n - 1 /\ timer' = now + d
    BY <2>a
  <2>2. attempt \in 0..(MaxRetries - 2)
    BY <1>1, <2>1, AttemptsType, TimesAssumption DEF TypeOK, n
  <2>3. d \in Nat /\ d <= Longest
    BY <2>2, BackoffType
  <2> QED
    BY <1>3, <1>9, <2>1, <2>3, TimesAssumption DEF Busy, RetryLeft, TimeInv, TypeOK, Polling, server
<1>10. CASE Wake /\ pc' = "send"
  BY <1>3, <1>10, TimesAssumption DEF Wake, TimeInv, TypeOK, Polling, End, server
<1>11. CASE (Fetch \/ Fetched \/ Resume) /\ pc' # "ended"
  BY <1>4, <1>11, TimesAssumption
  DEF Fetch, Fetched, Answered, Ready, TimedOut, Resume, TimeInv, TypeOK, Polling, End, server, n
<1>12. CASE Tick
  BY <1>4, <1>12, TimesAssumption DEF Tick, TimeInv, TypeOK, Polling, server, n
<1>13. CASE UNCHANGED <<pc, now, timer, deadline, attempt>>
  BY <1>1, <1>2, <1>4, <1>13 DEF TimeInv, Spent, n
<1> QED
  BY <1>6, <1>7, <1>8, <1>9, <1>10, <1>11, <1>12, <1>13
  DEF Next, Client, Send, Accepted, Unsuccessful, Busy, RetryLeft, Failed, Wake, Fetch, Fetched, Answered, Ready, TimedOut, Resume,
      Cancel, Act, Serve, Publish, End, vars
-----------------------------------------------------------------------------
Inv == TypeOK /\ WireInv /\ AttemptInv /\ EffectInv /\ OkInv /\ TimeInv /\ LateInv

LEMMA InitInv == Init => Inv
<1> SUFFICES ASSUME Init PROVE Inv
    OBVIOUS
<1>1. attempt <= Attempts(kind) - 1
  BY AttemptsType DEF Init
<1>2. Spent(0) = 0
  BY TimesAssumption DEF Spent
<1>3. TypeOK
  <2>1. cancelled \in BOOLEAN
    BY Zenon DEF Init
  <2>2. attempt \in 0..(MaxRetries - 1)
    BY TimesAssumption DEF Init
  <2> QED
    BY <2>1, <2>2 DEF Init, TypeOK
<1>4. WireInv /\ AttemptInv /\ EffectInv
  BY <1>1 DEF Init, WireInv, AttemptInv, EffectInv, OnTheWire, Begun, Polling
<1>5. OkInv /\ LateInv
  BY DEF Init, OkInv, LateInv, Polling
<1>6. TimeInv
  BY <1>2 DEF Init, TimeInv, Polling
<1> QED
  BY <1>3, <1>4, <1>5, <1>6 DEF Inv

LEMMA StepInv == Inv /\ [Next]_vars => Inv'
BY TypeStep, WireStep, AttemptStep, EffectStep, OkStep, TimeStep, LateStep DEF Inv

LEMMA Invariance == Spec => []Inv
BY InitInv, StepInv, PTL DEF Spec

\* The variables of a call keep their types.
THEOREM TypeCorrect == Spec => []TypeOK
BY Invariance, PTL DEF Inv

\* However requests are answered, given up on or delayed: a call that is not
\* retried has at most one effect, one that is at most maxRetries
\* (client.go:143-180).
THEOREM EffectsBoundedAlways == Spec => []EffectsBounded
<1>1. Inv => EffectsBounded
  BY AttemptsType DEF Inv, TypeOK, AttemptInv, EffectInv, OnTheWire, Begun, EffectsBounded
<1> QED
  BY <1>1, Invariance, PTL

\* Success is only reported of a call that had its effect.
THEOREM SuccessIsReal == Spec => []OkMeansDone
<1>1. Inv => OkMeansDone
  BY DEF Inv, OkInv, OkMeansDone
<1> QED
  BY <1>1, Invariance, PTL

\* The time a call takes is bounded by the constants of the client.
THEOREM CallBoundedAlways == Spec => []CallBounded
<1>1. Inv => CallBounded
  BY InTime DEF Inv, TimeInv, CallBounded
<1> QED
  BY <1>1, Invariance, PTL

\* A call times out only past its deadline, and only for a result that was
\* not there when its last fetch began (client.go:536-553).
THEOREM TimeoutIsLate == Spec => []TimedOutOnlyIfLate
<1>1. Inv => TimedOutOnlyIfLate
  BY DEF Inv, LateInv, TimedOutOnlyIfLate
<1> QED
  BY <1>1, Invariance, PTL
-----------------------------------------------------------------------------
\* The one request of a call that is not retried.
LEMMA OneRequest ==
    ASSUME Inv, kind \notin Retried
    PROVE  /\ effects \in Nat /\ strays \in Nat /\ effects + strays + OnTheWire <= 1
           /\ pc = "send" => effects = 0 /\ strays = 0
           /\ pc = "send" => attempt = 0
           /\ pc # "backoff"
<1>1. Attempts(kind) = 1
  BY DEF Attempts
<1>2. attempt = 0 /\ pc # "backoff"
  BY <1>1 DEF Inv, TypeOK, AttemptInv
<1>3. Begun <= 1 /\ (pc = "send" => Begun = 0)
  BY <1>2 DEF Begun
<1>4. effects + strays + OnTheWire <= Begun /\ OnTheWire \in {0, 1} /\ Begun \in Nat
  BY <1>2 DEF Inv, EffectInv, OnTheWire, Begun
<1> QED
  BY <1>2, <1>3, <1>4 DEF Inv, TypeOK

\* Its steps, seen from the account.
WireSteps ==
    \/ TheWire' = TheWire /\ effects' = effects
    \/ TheWire = "none" /\ TheWire' = "sent" /\ effects' = effects
    \/ TheWire = "sent" /\ TheWire' = "landed" /\ effects' = effects + 1
    \/ TheWire \in {"none", "sent"} /\ TheWire' = "refused" /\ effects' = effects

LEMMA WireMoves ==
    ASSUME Inv, [Next]_vars, kind \notin Retried
    PROVE  WireSteps
<1> USE OneRequest DEF TheWire, OnTheWire, WireSteps
<1>0. WireInv /\ OkInv
  BY DEF Inv
<1>1. CASE Send
  BY <1>1 DEF Send, End, server
<1>2. CASE Accepted
  BY <1>0, <1>2 DEF WireInv, OkInv, Accepted, Abandon, End, server
<1>3. CASE Unsuccessful \/ Failed \/ Busy
  <2>1. pc = "flight" /\ pc' \in {"ended", "backoff"} /\ effects' = effects /\ wire' = "none"
    BY <1>3 DEF Unsuccessful, Failed, Busy, Abandon, End, server
  <2>2. \/ strays' = strays
        \/ wire = "sent" /\ strays' = strays + 1
    BY <1>3 DEF Unsuccessful, Failed, Busy, Abandon
  <2> QED
    BY <1>0, <2>1, <2>2 DEF WireInv, OkInv
<1>4. CASE Wake \/ Fetch \/ Fetched \/ Resume
  BY <1>0, <1>4 DEF WireInv, OkInv, Polling, Wake, Fetch, Fetched, Resume, End, server
<1>5. CASE Act
  BY <1>0, <1>5 DEF WireInv, OkInv, Act
<1>6. CASE Tick \/ Cancel \/ Serve \/ Publish \/ UNCHANGED vars
  BY <1>0, <1>6 DEF WireInv, Tick, Cancel, Serve, Publish, server, vars
<1> QED
  BY <1>1, <1>2, <1>3, <1>4, <1>5, <1>6 DEF Next, Client

LEMMA RequestStep ==
    ASSUME Inv, [Next]_vars, kind \notin Retried
    PROVE  TheRequest!QNext \/ UNCHANGED TheRequest!qvars
<1> DEFINE W == [c \in {"it"} |-> TheWire]
           L == [c \in {"it"} |-> effects]
<1>1. WireSteps
  BY WireMoves
<1>2. CASE TheWire' = TheWire /\ effects' = effects
  BY <1>2 DEF TheRequest!qvars
<1>3. CASE TheWire = "none" /\ TheWire' = "sent" /\ effects' = effects
  BY <1>3 DEF TheRequest!QNext, TheRequest!Issue
<1>4. CASE TheWire = "sent" /\ TheWire' = "landed" /\ effects' = effects + 1
  BY <1>4 DEF TheRequest!QNext, TheRequest!TakeEffect
<1>5. CASE TheWire \in {"none", "sent"} /\ TheWire' = "refused" /\ effects' = effects
  BY <1>5 DEF TheRequest!QNext, TheRequest!Refuse
<1> QED
  BY <1>1, <1>2, <1>3, <1>4, <1>5 DEF WireSteps

\* A call that is not retried implements Request, whatever the server, the
\* network and the caller do: this is what the handlers are checked with.
THEOREM RequestRefinement == Spec => ImplementsRequest
<1>1. Init => (kind \notin Retried => TheRequest!QInit)
  <2> SUFFICES ASSUME Init, kind \notin Retried PROVE TheRequest!QInit
    OBVIOUS
  <2>1. TheWire = "none" /\ effects = 0
    BY DEF Init, TheWire
  <2> QED
    BY <2>1 DEF TheRequest!QInit
<1>2. Inv /\ [Next]_vars
        => [kind \notin Retried => TheRequest!QNext \/ UNCHANGED TheRequest!qvars]_vars
  BY RequestStep
<1> QED
  BY <1>1, <1>2, Invariance, PTL DEF Spec, ImplementsRequest
-----------------------------------------------------------------------------
(* That every call returns is a liveness property, which TLC checks: Returns.  *)
(* What it rests on is a fact about states and steps, for any times.          *)

\* What an attempt and the wait after it take at most, in steps of the client
\* and ticks; and the polling, of which a tick counts fourfold to pay for the
\* fetch, its answer and the pause that come with it.
PerAttempt == 3 + Timeout + Longest
PerPolling == 4 * (MaxWait + Interval + Timeout)

Later == (Attempts(kind) - attempt - 1) * PerAttempt

\* How many steps the call has left at most.
StepsLeft ==
    CASE pc = "send"     -> PerPolling + 4 + Later + 3 + Longest + Timeout
      [] pc = "flight"   -> PerPolling + 4 + Later + 2 + Longest + (timer - now)
      [] pc = "backoff"  -> PerPolling + 4 + Later + 1 + (timer - now)
      [] pc = "fetch"    -> 4 * (deadline + Interval + Timeout - now) + 3
      [] pc = "fetching" -> 4 * (deadline + Interval + Timeout - now) + 2
      [] pc = "pause"    -> 4 * (deadline + Interval + Timeout - timer) + 4 + (timer - now)
      [] pc = "ended"    -> 0

Bounded == StepsLeft \in Nat

\* A step of the client, or a tick while it waits, uses one of them up, and
\* nothing gives one back.
Descends ==
    /\ Bounded
    /\ StepsLeft' <= StepsLeft
    /\ Client \/ Tick => StepsLeft' < StepsLeft

\* What lets the call or its clock make a step: the guards of Client and Tick.
MayMove ==
    \/ pc \in {"send", "flight", "fetch", "fetching"}
    \/ pc \in {"backoff", "pause"} /\ now <= timer

\* An attempt less is PerAttempt steps less.
LEMMA LaterType ==
    ASSUME TypeOK, AttemptInv
    PROVE  /\ Later \in Nat
           /\ attempt < Attempts(kind) - 1 =>
                (Attempts(kind) - (attempt + 1) - 1) * PerAttempt = Later - PerAttempt
                /\ Later - PerAttempt \in Nat
<1> DEFINE n == Attempts(kind) - attempt - 1
<1>1. n \in Nat /\ (attempt < Attempts(kind) - 1 => n - 1 \in Nat)
      /\ Attempts(kind) - (attempt + 1) - 1 = n - 1
  BY AttemptsType DEF TypeOK, AttemptInv
<1>2. PerAttempt \in Nat
  BY TimesAssumption DEF PerAttempt
<1> HIDE DEF n
<1>3. \A k \in Nat : n * k \in Nat /\ (n - 1) * k = n * k - k
                   /\ (n - 1 \in Nat => (n - 1) * k \in Nat)
  BY <1>1
<1>4. Later = n * PerAttempt
  BY DEF Later, n
<1> QED
  BY <1>1, <1>2, <1>3, <1>4

LEMMA StepsLeftType ==
    ASSUME Inv
    PROVE  StepsLeft \in Nat
<1>1. /\ now \in Nat /\ timer \in Nat /\ deadline \in Nat /\ Later \in Nat
      /\ pc \in {"send", "flight", "backoff", "fetch", "fetching", "pause", "ended"}
  BY LaterType DEF Inv, TypeOK
<1>2. TimeInv
  BY DEF Inv
<1> QED
  BY <1>1, <1>2, TimesAssumption DEF TimeInv, StepsLeft, PerPolling

LEMMA StepsDescend ==
    ASSUME Interval > 0, Inv, [Next]_vars
    PROVE  /\ Client \/ Tick => StepsLeft' < StepsLeft
           /\ ~Client /\ ~Tick => StepsLeft' = StepsLeft
<1> USE TimesAssumption DEF StepsLeft, PerPolling
<1>1. /\ now \in Nat /\ timer \in Nat /\ deadline \in Nat /\ attempt \in Nat
      /\ Later \in Nat
      /\ pc \in {"send", "flight", "backoff", "fetch", "fetching", "pause", "ended"}
  BY LaterType DEF Inv, TypeOK
<1>2. /\ pc \in {"flight", "backoff", "fetching", "pause"} => now <= timer
      /\ pc = "fetch" => now <= deadline + Interval
      /\ pc = "fetching" => timer <= deadline + Interval + Timeout
      /\ pc = "pause" => timer <= deadline + Interval
  BY DEF Inv, TimeInv
<1>3. StepsLeft \in Nat /\ (pc # "ended" => StepsLeft > 0)
  BY <1>1, <1>2
<1>4. kind' = kind /\ Attempts(kind)' = Attempts(kind)
  BY DEF Next, Client, Send, Accepted, Unsuccessful, Busy, Failed, Wake, Fetch, Fetched, Resume,
     Tick, Cancel, Act, Serve, Publish, vars, Attempts
<1>5. attempt' = attempt => Later' = Later
  BY <1>4 DEF Later
<1>6. ASSUME Client, pc' = "ended" PROVE StepsLeft' < StepsLeft
  <2>1. pc # "ended"
    BY <1>6 DEF Client, Send, Accepted, Unsuccessful, Busy, Failed, Wake, Fetch, Fetched, Resume
  <2> QED
    BY <1>3, <1>6, <2>1
<1>7. ASSUME Send, pc' # "ended" PROVE StepsLeft' < StepsLeft
  <2>1. pc = "send" /\ pc' = "flight" /\ timer' = now + Timeout /\ now' = now /\ attempt' = attempt
    BY <1>7 DEF Send, End
  <2> QED
    BY <1>1, <1>5, <2>1
<1>8. ASSUME Accepted, pc' # "ended" PROVE StepsLeft' < StepsLeft
  <2>1. pc = "flight" /\ pc' = "fetch" /\ deadline' = now + MaxWait /\ now' = now
    BY <1>8 DEF Accepted, End
  <2> QED
    BY <1>1, <1>2, <2>1
<1>9. ASSUME Busy, pc' # "ended" PROVE StepsLeft' < StepsLeft
  <2>1. PICK hint \in Hints \cup {0} :
          attempt < Attempts(kind) - 1 /\ \E d \in Backoff(attempt, hint) : timer' = now + d
    BY <1>9 DEF Busy, RetryLeft, End
  <2>2. PICK d \in Backoff(attempt, hint) : timer' = now + d
    BY <2>1
  <2>3. attempt \in 0..(MaxRetries - 2)
    BY <1>1, <2>1, AttemptsType DEF Inv, TypeOK
  <2>4. d \in Nat /\ d <= Longest
    BY <2>3, BackoffType
  <2>5. pc = "flight" /\ pc' = "backoff" /\ now' = now /\ attempt' = attempt
    BY <1>9 DEF Busy, RetryLeft, End
  <2> QED
    BY <1>1, <1>2, <1>5, <2>2, <2>4, <2>5
<1>10. ASSUME Wake, pc' # "ended" PROVE StepsLeft' < StepsLeft
  <2>1. pc = "backoff" /\ pc' = "send" /\ attempt' = attempt + 1 /\ now = timer
    BY <1>10 DEF Wake, End
  <2>2. Later' = Later - PerAttempt
    BY <1>4, <2>1, LaterType DEF Inv, AttemptInv, Later, PerAttempt
  <2> QED
    BY <1>1, <2>1, <2>2 DEF PerAttempt
<1>11. ASSUME Fetch \/ Fetched \/ Resume, pc' # "ended" PROVE StepsLeft' < StepsLeft
  <2>1. deadline' = deadline /\ now' = now
    BY <1>11 DEF Fetch, Fetched, Resume, End, server
  <2>2. \/ pc = "fetch" /\ pc' = "fetching"
        \/ pc = "fetching" /\ pc' = "pause" /\ timer' = now + Interval
        \/ pc = "pause" /\ pc' = "fetch" /\ now = timer
    BY <1>11 DEF Fetch, Fetched, Resume, End
  <2> QED
    BY <1>1, <1>2, <2>1, <2>2
<1>12. ASSUME Tick PROVE StepsLeft' < StepsLeft
  <2>1. /\ pc \in {"flight", "backoff", "fetching", "pause"} /\ now' = now + 1
        /\ UNCHANGED <<pc, timer, deadline, attempt>>
    BY <1>12 DEF Tick
  <2> QED
    BY <1>1, <1>2, <1>5, <2>1
<1>13. ASSUME ~Client, ~Tick PROVE StepsLeft' = StepsLeft
  <2>1. UNCHANGED <<pc, now, timer, deadline, attempt>>
    BY <1>13 DEF Next, Cancel, Act, Serve, Publish, vars
  <2> QED
    BY <1>5, <2>1
<1>14. Unsuccessful \/ Failed => pc' = "ended"
  BY DEF Unsuccessful, Failed, End
<1> QED
  BY <1>6, <1>7, <1>8, <1>9, <1>10, <1>11, <1>12, <1>13, <1>14 DEF Client

\* The client and its clock make a bounded number of steps in a call, whatever
\* the server, the network and the caller do: the call cannot poll for ever.
\* The pause between two fetches has to take time (client.go:549).
THEOREM StepsRunOut ==
    ASSUME Interval > 0 PROVE Spec => [][Descends]_vars
<1>1. Inv => Bounded
  BY StepsLeftType DEF Bounded
<1>2. Inv' => Bounded'
  BY <1>1, PTL
<1>3. Inv /\ Inv' /\ [Next]_vars => [Descends]_vars
  <2> SUFFICES ASSUME Inv, Inv', [Next]_vars PROVE Descends
    OBVIOUS
  <2>1. StepsLeft \in Nat /\ StepsLeft' \in Nat
    BY <1>1, <1>2 DEF Bounded
  <2>2. CASE Client \/ Tick
    BY <2>1, <2>2, StepsDescend DEF Descends, Bounded
  <2>3. CASE ~Client /\ ~Tick
    BY <2>1, <2>3, StepsDescend DEF Descends, Bounded
  <2> QED
    BY <2>2, <2>3
<1> QED
  BY <1>3, Invariance, PTL DEF Spec

\* And as long as the call has not ended one of the two can make a step:
\* neither waits for the server.
THEOREM NeverStuck == Spec => [](pc # "ended" => MayMove)
<1>1. Inv => (pc # "ended" => MayMove)
  BY DEF Inv, TypeOK, TimeInv, MayMove
<1> QED
  BY <1>1, Invariance, PTL
=============================================================================
