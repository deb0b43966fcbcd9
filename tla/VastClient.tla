----------------------------- MODULE VastClient -----------------------------
(***************************************************************************)
(* One call of the Vast.ai client, internal/vast/client.go: the attempts   *)
(* of DoRaw with their backoff, then, for logs and commands, pollResult.   *)
(* The server and the network are external: an attempt the client gave up  *)
(* on can still take effect later, and an error answer does not say that   *)
(* the request had none.                                                   *)
(*                                                                         *)
(* Time is discrete.  Timers fire when they are due: Tick does not pass    *)
(* one by.                                                                 *)
(***************************************************************************)
EXTENDS Integers

CONSTANTS
    MaxRetries,     \* maxRetries
    Base,           \* first backoff, 500 ms
    MaxRetryAfter,  \* most of a Retry-After that is honoured, 30 s
    Longest,        \* longest backoff there can be
    Timeout,        \* http.Client.Timeout, 60 s
    MaxWait,        \* how long pollResult polls, 45 s
    Interval,       \* and how often, 1.5 s
    Hints           \* Retry-After of the answers as durations; 0 for none,
                    \* or for one so large that it overflowed below it

\* What the methods of Client come down to: a read; a log request, which is
\* a PUT but retried; a rental; a command; any other change.
Kinds == {"read", "logs", "create", "execute", "change"}

Retried == {"read", "logs"}
Polled  == {"logs", "execute"}

\* The methods that look at the success field of the answer.
Checked == {"create", "logs", "execute"}

Attempts(k) == IF k \in Retried THEN MaxRetries ELSE 1

\* How long to wait after attempt i, counted from 0: what the server asked
\* for, or a doubling delay with up to half of it as jitter.
Backoff(i, hint) ==
    IF hint > 0 THEN {IF hint > MaxRetryAfter THEN MaxRetryAfter ELSE hint}
    ELSE LET base == Base * 2^i IN base .. (base + base \div 2 - 1)

ASSUME TimesAssumption ==
    /\ MaxRetries \in Nat \ {0} /\ Base \in Nat \ {0, 1} /\ MaxRetryAfter \in Nat
    /\ Longest \in Nat /\ Timeout \in Nat /\ MaxWait \in Nat /\ Interval \in Nat
    /\ Hints \subseteq Nat
ASSUME LongestAssumption ==
    \A i \in 0..(MaxRetries - 2), h \in Hints \cup {0} :
        Backoff(i, h) \subseteq 0..Longest

VARIABLES
    kind,       \* what is called
    pc,
    attempt,    \* of DoRaw, from 0
    now,
    timer,      \* when what the call waits for is over
    deadline,   \* of pollResult
    cancelled,  \* the context is done
    wire,       \* the request of the attempt, or of the fetch
    strays,     \* requests of attempts given up on that may still take effect
    effects,    \* how often a request of the call took effect
    published,  \* when the result appeared, Never before
    result

vars == <<kind, pc, attempt, now, timer, deadline, cancelled, wire, strays,
          effects, published, result>>

server == <<cancelled, effects, published>>

Never == -1

Init ==
    /\ kind \in Kinds
    /\ pc = "send"
    /\ attempt = 0 /\ now = 0 /\ timer = 0 /\ deadline = 0
    /\ cancelled = FALSE
    /\ wire = "none" /\ strays = 0 /\ effects = 0
    /\ published = Never
    /\ result = "none"
-----------------------------------------------------------------------------
(* DoRaw *)

End(r) == pc' = "ended" /\ result' = r /\ UNCHANGED <<timer, deadline>>

\* The client is done with the attempt; a request not yet acted on may still be.
Abandon ==
    /\ wire' = "none"
    /\ strays' = IF wire = "sent" THEN strays + 1 ELSE strays

\* A request is not sent under a context that is done.
Send ==
    /\ pc = "send"
    /\ IF cancelled
       THEN End("error") /\ UNCHANGED wire
       ELSE /\ wire' = "sent" /\ pc' = "flight" /\ timer' = now + Timeout
            /\ UNCHANGED <<deadline, result>>
    /\ UNCHANGED <<kind, attempt, now, strays, server>>

\* A 2xx that decodes: the call is done, or the result is to be polled for.
Accepted ==
    /\ pc = "flight"
    /\ wire = "acted"
    /\ IF kind \in Polled
       THEN pc' = "fetch" /\ deadline' = now + MaxWait /\ UNCHANGED <<timer, result>>
       ELSE End("ok")
    /\ Abandon
    /\ UNCHANGED <<kind, attempt, now, server>>

\* A mistake: the success field is not looked at.
UnsuccessfulIgnored ==
    /\ pc = "flight"
    /\ wire = "sent" /\ kind \in Checked
    /\ wire' = "none"
    /\ End("ok")
    /\ UNCHANGED <<kind, attempt, now, strays, server>>

\* A 2xx that says success = false.
Unsuccessful ==
    /\ pc = "flight"
    /\ wire = "sent" /\ kind \in Checked
    /\ wire' = "none"
    /\ End("error")
    /\ UNCHANGED <<kind, attempt, now, strays, server>>

\* Mistakes: one attempt too many; everything is retried.
RetryOnceMore == attempt < Attempts(kind)
RetryAll      == attempt < MaxRetries - 1

RetryLeft == attempt < Attempts(kind) - 1

\* 429, 502, 503 or 504, or a body cut short, after which there is no hint.
\* A gateway's 504 says nothing about what the server behind it does.
Busy ==
    /\ pc = "flight"
    /\ \E hint \in Hints \cup {0} :
         IF RetryLeft
         THEN /\ pc' = "backoff"
              /\ \E d \in Backoff(attempt, hint) : timer' = now + d
              /\ UNCHANGED <<deadline, result>>
         ELSE End("error")
    /\ Abandon
    /\ UNCHANGED <<kind, attempt, now, server>>

\* Any other status, a broken connection, a body that does not decode, the
\* timeout, the end of the context.
Failed ==
    /\ pc = "flight"
    /\ End("error")
    /\ Abandon
    /\ UNCHANGED <<kind, attempt, now, server>>

\* c.Sleep between attempts; when both are ready, either can be seen first.
Wake ==
    /\ pc = "backoff"
    /\ \/ now = timer /\ pc' = "send" /\ attempt' = attempt + 1
          /\ UNCHANGED <<timer, deadline, result>>
       \/ cancelled /\ End("error") /\ UNCHANGED attempt
    /\ UNCHANGED <<kind, now, wire, strays, server>>
-----------------------------------------------------------------------------
(* pollResult *)

\* FetchURL refuses a result URL that is not of a known host.
Fetch ==
    /\ pc = "fetch"
    /\ \/ End("error") /\ UNCHANGED wire
       \/ ~cancelled /\ wire' = "sent" /\ pc' = "fetching" /\ timer' = now + Timeout
          /\ UNCHANGED <<deadline, result>>
    /\ UNCHANGED <<kind, attempt, now, strays, server>>

\* Mistakes: a result that comes late is not taken; there is no deadline.
ReadyInTime   == wire = "ready" /\ now <= deadline
NoDeadline    == FALSE

Answered == wire \in {"ready", "missing"}
Ready    == wire = "ready"
TimedOut == now > deadline

\* The deadline is looked at after the fetch.  A fetch that fails, or ends
\* with the context, ends the call.
Fetched ==
    /\ pc = "fetching"
    /\ \/ Ready /\ End("ok")
       \/ Answered /\ ~Ready /\ TimedOut /\ End("timed_out")
       \/ Answered /\ ~Ready /\ ~TimedOut
          /\ pc' = "pause" /\ timer' = now + Interval /\ UNCHANGED <<deadline, result>>
       \/ End("error")
    /\ wire' = "none"
    /\ UNCHANGED <<kind, attempt, now, strays, server>>

\* A mistake: the pause ends only with the context.
ResumeOnlyIfCancelled ==
    /\ pc = "pause"
    /\ cancelled /\ End("error")
    /\ UNCHANGED <<kind, attempt, now, wire, strays, server>>

Resume ==
    /\ pc = "pause"
    /\ \/ now = timer /\ pc' = "fetch" /\ UNCHANGED <<timer, deadline, result>>
       \/ cancelled /\ End("error")
    /\ UNCHANGED <<kind, attempt, now, wire, strays, server>>
-----------------------------------------------------------------------------
(* Time, the caller and the server: external. *)

Tick ==
    /\ pc \in {"flight", "backoff", "fetching", "pause"}
    /\ now < timer
    /\ now' = now + 1
    /\ UNCHANGED <<kind, pc, attempt, timer, deadline, wire, strays, server, result>>

Cancel ==
    /\ pc # "ended" /\ ~cancelled
    /\ cancelled' = TRUE
    /\ UNCHANGED <<kind, pc, attempt, now, timer, deadline, wire, strays, effects,
                   published, result>>

Act ==
    /\ \/ pc = "flight" /\ wire = "sent" /\ wire' = "acted" /\ UNCHANGED strays
       \/ strays > 0 /\ strays' = strays - 1 /\ UNCHANGED wire
    /\ effects' = effects + 1
    /\ UNCHANGED <<kind, pc, attempt, now, timer, deadline, cancelled, published, result>>

\* The answer to a fetch is as old as the moment the server looked.
Serve ==
    /\ pc = "fetching" /\ wire = "sent"
    /\ wire' = IF published = Never THEN "missing" ELSE "ready"
    /\ UNCHANGED <<kind, pc, attempt, now, timer, deadline, strays, server, result>>

Publish ==
    /\ kind \in Polled /\ effects > 0 /\ published = Never
    /\ published' = now
    /\ UNCHANGED <<kind, pc, attempt, now, timer, deadline, cancelled, wire, strays,
                   effects, result>>

Client == Send \/ Accepted \/ Unsuccessful \/ Busy \/ Failed \/ Wake
          \/ Fetch \/ Fetched \/ Resume

Next == Client \/ Tick \/ Cancel \/ Act \/ Serve \/ Publish

\* Timers fire, and what they release runs.
Spec == Init /\ [][Next]_vars /\ WF_vars(Client) /\ WF_vars(Tick)
-----------------------------------------------------------------------------
(* Properties. *)

TypeOK ==
    /\ kind \in Kinds
    /\ pc \in {"send", "flight", "backoff", "fetch", "fetching", "pause", "ended"}
    /\ attempt \in 0..(MaxRetries - 1)
    /\ now \in Nat /\ timer \in Nat /\ deadline \in Nat
    /\ cancelled \in BOOLEAN
    /\ wire \in {"none", "sent", "acted", "ready", "missing"}
    /\ strays \in Nat /\ effects \in Nat
    /\ published \in Nat \cup {Never}
    /\ result \in {"none", "ok", "error", "timed_out"}

\* A rental, a command or a change takes effect at most once, however its
\* request is answered (client.go:453, 493); what is retried at most as often
\* as it is attempted.
EffectsBounded == effects <= Attempts(kind)

\* A call that reports success had its effect.
OkMeansDone == result = "ok" => effects > 0

\* A call is over in time: each attempt within the timeout, the waits between
\* them, and one more fetch after the polling deadline (client.go:536-553).
CallBound ==
    LET n == Attempts(kind)
    IN  n * Timeout + (n - 1) * Longest
        + IF kind \in Polled THEN MaxWait + Interval + Timeout ELSE 0

CallBounded == now <= CallBound

\* A call times out only past its deadline, and only if the result was not
\* there yet when the last fetch began (client.go:540-548): timer is then
\* still that fetch's.
TimedOutOnlyIfLate ==
    result = "timed_out" =>
        now > deadline /\ (published = Never \/ published >= timer - Timeout)

\* A call that is not retried, seen from the account: its one request goes
\* out once and takes effect at most once, whatever the client makes of the
\* answer, and when (client.go:154-158, 453).
TheWire ==
    CASE effects > 0 -> "landed"
      [] effects = 0 /\ (strays > 0 \/ (pc = "flight" /\ wire = "sent")) -> "sent"
      [] effects = 0 /\ pc = "send" -> "none"
      [] OTHER -> "refused"

TheRequest == INSTANCE Request WITH
    Callers <- {"it"}, wire <- [c \in {"it"} |-> TheWire], landed <- [c \in {"it"} |-> effects]

ImplementsRequest ==
    /\ kind \notin Retried => TheRequest!QInit
    /\ [][kind \notin Retried => TheRequest!QNext \/ UNCHANGED TheRequest!qvars]_vars

\* Every call returns.
Returns == <>(pc = "ended")
=============================================================================
