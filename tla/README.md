# A verification development of vastai-mcp

vastai-mcp is an MCP server that rents, runs and destroys GPU instances on
Vast.ai for a language model. Its guardrails (confirmation, spend cap, instance
cap, audit log) are enforced inside one Go process in which every tool call has
a goroutine of its own, against an account other clients use too, over an API
that can lose, delay or repeat what it is told. The modules here state what the
guardrails promise and where they stop, as far as TLC and TLAPS can show it.

Paths below are those of the repository.

## 1. The system

| Component | State | Operations | Interacts with |
| --- | --- | --- | --- |
| Confirmation flow: `internal/tools/guard.go` (`confirm`), `state.go` (`stateSigner`) | a random key per process; a mutex and the map of used nonces with their expiry | ask (sign a token), answer (verify, consume), the `confirm` argument | called by the mutating handlers; tokens and answers come back through the MCP client |
| Mutating handlers: `internal/tools/tools.go` | none of their own | create, destroy, start, stop, reboot, label, execute, create and attach an SSH key | API client, confirmation, audit log |
| Audit log: `internal/tools/config.go` (`auditor`) | two writers behind a mutex, a count of failures | one record per outcome | called by the handlers |
| API client: `internal/vast/client.go` | none between calls | one method per endpoint; attempts, backoff, polling of result URLs | Vast.ai, the hosts of result URLs |
| Start-up: `cmd/vastai-mcp/main.go`, `ParseNoConfirm` | the configuration, fixed from then on | flags, environment, `.env`, the checks and their exit codes | all of the above |
| Key sources: `auth.go`, `keyring.go`, `dotenv.go`, `LoadAPIKey` | OS keyring, files, environment | load; `auth set`, `status`, `delete` | start-up, the API client |
| HTTP server: `main.go` (`runHTTP`), `internal/serve` | the listener | bind policy, bearer check, shutdown | runs the handlers |
| Output handling: `guard.go`, `tools.go` | none | wrapping, capping, redaction | the handlers |
| Read-only tools: `tools.go` | none | searches, listings, logs, account | API client |

What is hard here, and the property that would notice it going wrong:

- **Interleaving.** Two calls bring the same token (`OneVerdict`); creates count
  the instances and then rent, in two API calls (`OvershootOnlyByRace`); the
  clock is read outside the mutex (`SecondVerdictTakesSweep`); the records of
  concurrent calls go to two sinks (`SinksAgree`).
- **Staleness.** A price is read, confirmed and paid in three steps
  (`ActsOnConsent`, `OverspendOnlyByReprice`, `BreachRecorded`,
  `NeverStartsOverCap`).
- **Lost and late answers.** A request takes effect although the client was told
  it failed, or gave up (`EffectsBounded`, `ImplementsRequest`,
  `OneEffectPerApproval`, `AuditMatchesAccount`, `OkMeansDone`).
- **Restarts and the end.** Questions outlive the process that asked them
  (`RestartRevokes`, `ImplementsApproval`); calls outlive the signal, and the
  shutdown the return of `Serve` (`GraceHonoured`, `ExitsAfterSignal`).
- **Time.** Expiry to the second, backoff, polling deadline, cancellation
  (`TimedOutOnlyIfLate`, `CallBounded`, `Returns`).
- **Partial failure.** A write to the audit file fails, or fails halfway
  (`SpoiltByNeighbour`, `FailuresCounted`); a keyring is locked (`LockIsTold`).
- **Decisions made twice.** The flags the bind policy looks at and those the
  server runs with (`RemoteIsGuarded`); the key `auth status` and the server
  find, each for itself (`StatusTells`); the variables that `auth set` warns of
  and those that hide its key from a server (`SetIsUsed`).
- **Bounds.** The map of nonces (`MapBoundedByTTL`); the tolerance on prices and
  their rounding (`RefusedDriftShows`); a result that is capped twice
  (`DelimiterSurvives`).

`PROJECT.json` lists every hazard at its line, with those no property covers yet.

## 2. The modules

```
Approval   an approval is asked for once and decided at most once
  ^ implemented by                ^ used by
ConfirmState <- Confirmation    Guardrails -- uses --> Request   a request takes effect
                (guard.go,      (tools.go)               ^        at most once
                 state.go)                               | implemented by
                                         Results <- VastClient
                                         (tools.go)  (client.go)
                                            ^ Output (capText, wrapUntrusted, Truncate)

KeySources <- Startup                    Server
(LoadAPIKey,  (run, flags,               (runHTTP, the calls in flight,
 auth, .env)   bind policy)               both sinks of the audit log)
```

Each component has a module for its model and properties, a module `...Proofs`
for its theorems, and, unless its constants fit in a configuration file, a
module `MC...` that gives TLC its instances.
Definitions introduced by a comment "a mistake" are variants no action uses;
substituted for the definition they stand next to, they break a property.

### Approval

The abstract specification, three variables (`asked`, `open`, `verdicts`) and
three steps. It has no clock, key, map or mutex: expiry, restarts and sweeps all
are `Withdraw`. It is used twice. `Confirmation` is shown to implement it with the
verdicts of the calls that hold the mutex before their token expires, and
`Guardrails` confirms through its actions, so that the handlers are checked
against what confirmation promises instead of how it keeps the promise. The
verdict of a call that comes later is outside the promise: it is a stutter for
`Approval`, finding 1 in section 5, and left out of `Guardrails`.

### Request

The other abstract specification, of a request that changes the account: made
once (`Issue`), it takes effect at most once (`TakeEffect`), at any time after,
or is refused (`Refuse`). The calls of `VastClient` that are not retried
implement it, and the handlers of `Guardrails` make their requests through its
actions: what the second is checked with is what the first was shown to do.

### ConfirmState, Confirmation

`ConfirmState` holds the data: prices in micro-dollars, `priceMatches` and
`round4` as arithmetic, and what a token binds. HMAC, base64 and JSON are
abstracted to what they buy: a token that verifies is one this process signed.

| Code | Model |
| --- | --- |
| handler up to `d.confirm` | `Quote`: the client's arguments, answer and token, any that was ever signed or none, and the view the account shows now |
| `confirm`, no token involved | `Decide` |
| `confirm`, first call: `sign` | `Ask` |
| `verify` up to line 149: MAC, tool, arguments, expiry, preview; `now` is read | `Stamp` |
| `verify` from `mu.Lock`: sweep with the old `now`, look up, enter; price; answer | `Consume` |
| a new process: `newStateSigner` | `Restart` |
| `stateSigner.used` | `used`, tokens in place of nonces |

The split between `Stamp` and `Consume` is where the code reads the clock before
it takes the mutex. `MaxStall` bounds how long a call can wait there; the code
bounds it by nothing, and no theorem assumes anything of it. `at` (when the mutex
was held) and the recorded inputs of ended calls are there for the properties
only.

### Guardrails

One action per stage of a handler; a stage ends where the code waits for the
API.

| Code | Model |
| --- | --- |
| argument checks, and which read comes first | `Begin` |
| create: `LookupOffer`, price, minimum bid, `-max-dph` | `LookOffer` |
| destroy and start: `ShowInstance`, `-max-dph` for start | `LookInstance` |
| create: `-max-instances` before and after the approval | `Count`, `Recount` |
| `d.confirm` | `ConfirmStep`, through `Approval` |
| the mutating request, its answer, no usable answer | `Send`, `Reply`, `GiveUp` |
| create: the real price afterwards | `PostCheck` |
| process death | `Crash` |
| what requests do, the market, other clients | `Land`, `Bounce`, `Relist`, `OtherCreates`, `OtherDestroys`: external |

Requests live on the wire apart from their calls (`wire`), so that one can take
effect after its handler gave up or the server died; `landed` counts effects.
stop, reboot and label, and `vast_execute` of `ls` or `du`, are one request
each. `peak` is the largest number of creates that were at any time between
their own re-check and their landing; it is there to state how far the cap can
be exceeded.

### VastClient

One call of one of the five kinds the client's methods come down to. `Send`,
`Accepted`, `Unsuccessful`, `Busy`, `Failed`, `Wake` are `DoRaw` with `once`,
`retryable` and `backoff`; `Fetch`, `Fetched`, `Resume` are `pollResult`. Time is
discrete, and `Tick` does not pass by a timer that is due. An attempt that is
given up on may leave a stray request that takes effect later; a 504 is a
gateway's answer and says nothing of the server behind it.

### Output, Results

`Output` has the arithmetic of results: where `Truncate` may cut (a text is its
length and the places where characters begin), what `capText` shows and what its
marker says is missing, what `wrapUntrusted` leaves for the payload, and whether
a wrapped text gets through the second cap, in `textResult`, with its closing
delimiter. `Results` puts this behind a call of `VastClient`: the handlers that
only read, and logs and commands, answer with the client's error or result as
such a text (`Answer`).

### KeySources, Startup

Processes of the program on one machine, whose shell, `.env`, keyring and files
(`store`) outlive them. The user, the shell and the official CLI change these in
between, one at a time (`Edit`).

| Code | Model |
| --- | --- |
| a process starts with the shell's environment | `Exec` |
| `run`: flags, environment, `-no-confirm` | `ParseFlags` |
| `LoadDotEnv` | `ReadDotEnv`; what is wrong with it, or with the base URL, `Refuse` |
| `LoadAPIKey`, source by source | `ReadEnv`, `ReadKeyring`, `ReadFiles` |
| `auth set`, `delete`, `status` | `AskKey`, `Rejected`, `StoreKey`, `Warn`; `DeleteKey`; `Report` |
| `CheckBind`, the audit file, `ConfirmArgAllowed` | `Bind` |
| `runHTTP` up to `Serve` | `Listen` |

A guardrail's number is one of what the code tells apart: off, a limit, negative,
NaN, or no number. `saw` (the store when a process began) and `steady` (processes
in whose time nobody else wrote) are there for the properties only.

### Server

| Code | Model |
| --- | --- |
| `run` and `runHTTP`: listen, `Serve`, `<-done`, the deferred close, `os.Exit` | `Listen`, `ServeFails`, `ServeEnds`, `Join`, `CloseFile`, `End` |
| the goroutine that waits for the context and calls `Shutdown` | `StartShutdown`, `ShutdownEnds`, and time for it, `Tick` |
| a tool call, in a goroutine of the SDK | `Connect`, `Begin`, `Reply`, `Leave`: external |
| what `Shutdown` does to a connection whose request it has not read | `CloseIdle`: external |
| `auditor.log` up to the file | `ToStderr`, which takes the mutex |
| and from there | `ToFile`: the record, or a failed write that may leave a part of it |
| signal, kill, event streams | `Signal`, `Die`, `OpenStream`, `CloseStream`: external |

A call makes one record or none; a create that logs a breach as well
(`tools.go:499`, `508`) is two of these calls to the log. What else a call does is
left to Guardrails.

## 3. What is assumed

- The wall clock does not step back (`Tick` of Confirmation), and 12 random bytes
  never repeat.
- An instance costs the same per hour for the whole of its contract; offers
  reprice freely. So `NeverStartsOverCap` says nothing of an instance whose price
  the host changes between the look and the start.
- A 2xx to destroy, state, label and key requests means the effect. Only create,
  logs and execute look at the `success` field (`Checked`): `OkMeansDone` is about
  those, and assumes it of the others.
- The host of a result URL says truthfully whether the result is there at the
  moment it looks.
- stderr takes every audit record; `audit` is that sink.
- Guardrails uses `Approval`, and so leaves out the calls that are decided after
  their token expired, with the race on the stale clock that `ConfirmStaleClock`
  shows among them.
- In VastClient timers fire when due and what they release runs at once as far as
  `now` is concerned; there is no scheduling delay.
- In Guardrails an answer is only brought to a tool that confirms; to the others
  the code never looks at it. Vast.ai gives instance ids in order, and each once.
- In Startup a variable that is set and blank differs from one that is unset; the
  blanks around a key, quotes and the syntax of `.env` are left out.
- In Server a write to stderr returns, or ends the process. A tool the SDK runs
  goes on when its client leaves, and a connection made before the shutdown may
  still bring its request. The audit file may end in half a line when the server
  starts. Only HTTP is modelled: with stdio the SDK decides when `run` returns.

## 4. The runs

| Run | Asks | Instance |
| --- | --- | --- |
| `ConfirmOnce` | Is a token decided on at most once, through expiry, sweep and restart, and does the flow implement `Approval`, when nothing delays a call before the mutex? | 4 calls, 2 tokens, TTL 1, clock to 3, 1 restart, delay 0 |
| `ConfirmStall` | What is left of that when calls are delayed before the mutex? | 5 calls, 2 tokens, TTL 1, delay 1, clock to 3 |
| `ConfirmBinding` | Does a call that goes ahead do what was consented to, and could the user see why one is refused? | 3 tools, one exempt, 4 views on both sides of the tolerance and of the rounding, clients that elicit, pass `confirm`, or neither, 1 restart |
| `GuardTools` | Does the log agree with the account, how far over the instance cap do concurrent creates get, and what can put one over the spend cap? | 2 calls of any handler, instance cap 1, broken arguments, unreadable prices, 1 crash |
| `GuardConsent` | One effect per approval; no start over the cap? | 3 calls that create, destroy and start, sharing approvals |
| `ClientCall` | How often does a call take effect, how long does it take, what does it report, does it return, what does a tool make of it? | every kind of call, 3 attempts; texts about the two caps, of characters of 3 bytes and of none |
| `Startup` | Do all processes find the same key, and is what was checked of the flags what is served? | one `auth` command and one server, 2 keys, 1 edit, a machine that is empty, one with a key in every place and one with a locked keyring; every flag of the bind policy |
| `Server` | Who is cut off at shutdown, do the sinks agree, is every failed write counted, does the server exit? | 3 calls, grace 1 |
| `ConfirmStaleClock` | finding | as `ConfirmStall`, TTL 0, clock to 2 |
| `ConfirmDrift` | finding | 4 calls on an offer whose price drifts |
| `GuardSilentBreach` | finding | 2 creates, spend cap |
| `StartupMalformed` | finding | one server, every pair of values of a guardrail in the environment and on the command line |

**Bounds.** The clock, the tokens, the restarts and the calls of Confirmation,
and the ids and crashes of Guardrails, are bounded in guards (`MaxTime`,
`MaxTokens`, `MaxGen`, `Calls`; `MaxId`, `MaxCrashes`). A token that is
decided on twice takes three calls, the one that asks and two that answer, and a
fourth to restart or decline in between. To sweep it between the two answers
takes another token, with a call that asks and one that answers: five. With a
TTL of 1, a delay of 1 and a clock of 3, a call can hold the mutex in the second
it was stamped, later but in time, and after its token expired, and a second
token can outlive the first; each of these happens in `ConfirmStall`, with one
verdict and with two. Without a delay (`ConfirmOnce`) a clock of 3 leaves time to
ask, to let the token expire, and to sweep it. A restart, as a second key, is enough to tell keys apart. In `GuardTools`
an overshoot by one takes the two creates. The times
of `ClientCall` keep the order of the code's, first backoff < poll interval <
longest `Retry-After` < polling time < timeout, and not their ratios; three
attempts are the code's number. Its cap of 142 bytes leaves 11 for a wrapped
text; that the marker fits with any number of digits is proved. `StatusTells`,
`LockIsTold` and `SetIsUsed` are about one `auth` command and one server, whatever else runs;
one edit (`MaxEdits`), before, between or during them, suffices to make either
find something else, and two keys to notice. `SpoiltByNeighbour` takes three
calls: one whose write fails halfway, and two that tell its neighbour from
another. A grace of one tick tells a shutdown that ended early from one that ran
out. Calls and keys are symmetric, and the runs of Confirmation, Guardrails and
Startup, which have no liveness property, use that.

**Deadlock** is not checked where all may have ended: Confirmation, ClientCall,
Startup and Server. In Guardrails the market always moves, so the check is on,
and says little.

**Fairness** is assumed in VastClient and Server. VastClient: weak fairness of
the client's own steps and of time. The code justifies it: each wait is on a
channel or a socket with a timer (`http.Client.Timeout`, `time.After`), and a
goroutine that became runnable is run. Server: weak fairness of main and of the
goroutine of the shutdown, with its timer. None is assumed of Vast.ai, which may
stay silent, of clients, who need not cancel, leave or close a stream, or of the
calls. Confirmation and the handlers promise nothing that must happen: no one
has to answer a question.

## 5. What the runs show

All passing runs explore their whole state space.

1. **The signer's clock** (`ConfirmStaleClock`). `verify` reads the clock at
   `state.go:143` and takes the mutex at line 152. A call delayed in between
   until its token expired sweeps with an old `now`, while another call with a
   newer one may have swept the token's nonce after it was used: the delayed call
   does not find it and is decided on a used token. It takes a delay across the
   second in which the token expires, so it is rare; `state.go:30-31` says "one
   approval authorises exactly one action". `SecondVerdictTakesSweep`, checked and
   proved for every delay, is the extent of it: one of the two calls came after
   the expiry, and a call on a token that lived longer swept in between. Reading
   the clock under the mutex would close it: that is `ConfirmOnce`, where
   `OneVerdict` holds.
2. **A price that drifts out and back** (`ConfirmDrift`). The preview check
   refuses, at line 147, before the nonce is entered. The preview of a create
   shows its price, so a drifted price is refused there, and the approval remains
   usable when the price is back, which `state.go:150-151` says must not be. More:
   for every caller of `confirm`, equal previews mean prices equal to four
   digits, and those are within the tolerance, so the price check after the nonce
   is entered never refuses (`PriceCheckUnreachable`, a theorem; `RefusedDriftShows`
   is what of it holds for every use of the signer).
3. **A breach without a record** (`GuardSilentBreach`). `tools.go:504` skips the
   price check after a create when the instance cannot be read, or has no price,
   with neither record nor warning; `SECURITY.md:24` says the real price is
   re-checked.
4. **Malformed guardrails that start** (`StartupMalformed`). `SECURITY.md:24` says
   malformed guardrail values refuse to start. Of the environment that is so,
   but for `VASTAI_MAX_DPH=NaN`, which parses and is not below zero
   (`main.go:269`); of the command line only for what is no number
   (`main.go:73-74`): with `-max-dph -1` there is no cap.

`tools.go:477` says "two concurrently approved creates must not both land"; both
can re-check before either lands, as `README.md:87` concedes ("can still
overshoot by one"). By one is for two: `OvershootOnlyByRace` has the general
figure.

## 6. What is proved

Every theorem is for all values of the constants that satisfy the modules'
assumptions: any number of calls, tokens, tools, prices and listings (finitely
many calls in Guardrails, where they are counted).

**Confirmation.** The inductive invariant is `Inv`: types; every presented token
was signed (`Presented`); the nonces and
keys of signed tokens lie in the past (`Signatures`), so that a new token differs
from them; every token was asked for by a call with that very
request and view (`AskedFor`); what a stamped, decided, authorised and proceeded
call knows; and `SecondVerdictTakesSweep` itself. The heart is `DecidedCall` and
`SpentOrSwept`: the token of a decided call of the running process is still in the
map, unless it has expired and a call on a token that lives longer has swept it,
with a clock past the expiry. A second call that reaches the mutex while the
token lives has a `now` not later than the expiry, cannot have it swept, and is
refused. No theorem assumes anything of the delay before the mutex. From `Inv`:
`TypeCorrect`, `SecondVerdictSwept`, `Consent`, `Revocation`, `BoundedMap`, and
`Refinement`, that the flow implements `Approval` with the verdicts of the calls
that hold the mutex before their token expires: the sweep of a delayed call only
drops tokens that `Approval` has withdrawn, and a later verdict changes none of
its variables. `PriceCheckUnreachable` is for views whose preview shows the price,
by `RoundedPricesMatch`, an arithmetic lemma on `round4` and the tolerance. That
without a delay `OneVerdict` holds is left to `ConfirmOnce`: the code does not
promise it.

**Approval.** `ApprovalsAreOneShot`.

**Guardrails.** `Inv` joins `TypeOK`, `WireInv` (where a call can be for each state
of its request), `AuditInv` (what is logged by then), `VerdictInv` and
`ConsentInv` (from the confirmation on, a guarded call has consent),
`FiniteInst`, `RaceInv` and `BreachInv`. `RaceInv` strengthens the property to
what is inductive: own instances plus creates between re-check and landing are at
most `MaxInstances - 1 + peak`; a create that passes its re-check found fewer
than `MaxInstances` instances and raises the second term and, with it, `peak`;
landing moves one from the second term to the first. For the start, `IdInv` has
that ids are new and name one instance each, `ToolInv` which handlers reach which
stage, and `StartInv` that whatever is being started was within the cap when it
was looked at and, as its price stays and its id is not given again, still is.
The spend cap takes `QuoteInv` (past the look a create holds a price
within the cap; `Committed` is where that is) and `MakerInv` (an instance is
made only by a create that was past it, whose quote no longer changes): so
`NoOverspendButByReprice`, also for an effect that comes after the handler gave
up. From `Inv`: `TypeCorrect`, `BoundedOvershoot`, `AuditFaithful`, `OneEffect`,
`NoOverspendButByReprice`, `BreachKept`, `NoStartOverCap`.

`ApprovalRefinement` and `RequestRefinement` close the composition: seen through
the variables they share, the concurrent handlers with expiry and crashes are one
run of `Approval`, which `Confirmation` is proved to implement with the verdicts
reached before expiry (the later ones are left out of Guardrails, and finding 1),
and one of `Request`, which the calls of `VastClient` that are not retried are proved to
implement. But for those, what Guardrails assumes of the two components is what they promise.

**VastClient.** `Inv` joins `TypeOK`, `WireInv`, `AttemptInv`, `EffectInv` (effects,
strays and the request on the wire together are at most the attempts begun),
`OkInv`, `TimeInv` (the latest time at which each stage can be) and `LateInv`.
From it: `TypeCorrect`, `EffectsBoundedAlways`, `SuccessIsReal`,
`CallBoundedAlways`, `TimeoutIsLate`, and `RequestRefinement` (that a call that is
not retried implements `Request`): where effects, strays and the wire add up to
at most one, every step moves that one request on, or leaves it.

What `Returns` says can be proved but for the fairness it needs. `StepsRunOut`: a
step of the client or its clock lowers `StepsLeft`, a number that nothing raises
and that the constants bound. `NeverStuck`: until the call has ended one of the
two can make a step. With weak fairness of both, that is termination. `StepsRunOut`
assumes a positive poll interval (1500 ms, `client.go:549`): with none, TLC shows,
a call polls without time passing, so the theorem needs the hypothesis.

**Results.** `DelimiterKept`, `MarkerIsTrue`: a capped text is at most 35 bytes
over its budget, which with the 35 of the wrapper stays within the 128 set
aside; this rests on `DigitsType` (ten digits, as texts are shorter than 10^9)
and not on where the cut falls. Where it falls is `CutIsTight`: within the cap,
where a character begins, and in UTF-8 at most three bytes short of it. The loop
of `truncate` that backs up is modelled by the position at which it stops, the
greatest that qualifies; that there is one, and only one, is `CapTextIsOne`, by
`WFMin` (a set of numbers has a least element), which serves where an induction
would; `AlwaysAReply` has that a tool is never left without a result.
`ClientInside`: the call under a tool is a
behaviour of `VastClient`, so its theorems hold here.

**Startup.** `Inv` joins `TypeOK`, `CmdInv` (which command is where), `SteadyInv`
(a steady process still has the store it saw, but for what it wrote itself),
`EnvInv`, `ReadInv` (what it knows of the sources it has read), `LoadInv` (the key
it found is `Preferred`, a function of the store), `SetInv`, `LockInv` (whoever found
the keyring locked, and no key before it, has said so) and `BindInv`. That the
key is a function of the store alone is what makes two processes agree.
`FlagsInv` (a server past its flags runs with ones that were accepted) gives
`MalformedExactly`, the extent of finding 4: what serves has guardrails that are
off or a limit, but for a negative flag and a price cap that is not a number. From
`Inv`: `TypeCorrect`, `StatusTellsHolds`, `LockIsToldHolds`, `SetIsUsedHolds`,
`RemoteIsGuardedHolds`, `MalformedExactly`.

**Server.** `Inv` joins `TypeOK`, `EndInv` (a shutdown that returned early left
nobody waiting), `RecordInv` (what the log has of a call at each stage),
`OrderInv` (places on stderr are distinct, and the file has their order) and
`TornInv` (a torn end is the trace of the latest record on stderr, or older than
the server) and `CountInv` (the sum of `FailuresCounted`). From it: `TypeCorrect`,
`GraceIsHonoured`, `SinksInAgreement`, `SpoiltOnlyByNeighbour`,
`FailuresAreCounted`.

Of `ExitsAfterSignal`, as of `Returns`, all but the fairness is proved.
`StepsRunOut`: main and the shutdown make at most `Grace + 7` steps, however calls,
streams and clients behave. `NobodyIsStuck`: once the signal came, one of the two
can make a step until the process has ended; this takes `WaitInv`, that main only
joins a shutdown that has begun.

**Only model-checked.** `Returns` and `ExitsAfterSignal` as such (the step from a
rank that falls to "eventually" is liveness, and out of the prover's reach; the
rank and the absence of a deadlock are proved), and the violations.

## 7. What is not modelled

- *Output handling*: the stripping of escapes and of look-alikes of the
  delimiter, and the redaction of fields (of answers and of the
  auditor's arguments), are functions on characters without state; a model would spell the
  regular expressions out.
- *API client*: what a search asks for, how bodies are decoded, and the 8 MiB at
  which a body is cut without an error (`client.go:201`; bodies are abstracted to
  whether they decode).
- *HTTP server*: the bearer check compares one header and keeps no state; whether
  it is installed is in Startup. Serving over stdio is the SDK's loop: what `run`
  adds to it is its end, which `Server` has for HTTP.
- *Log lines* other than audit records, and a stderr that nobody reads
  (`config.go:167`), against which the code has no defence.
- *Instructions* (`config.go:179-204`), a text made once of fixed flags. It lists
  `vast_execute` among the tools that ask; the handler asks for `rm` alone
  (`tools.go:634`), and that is what Guardrails has.
- *Pinned transport* (set-up of `net/http`, captured once), *build and release* (no
  behaviour of the program).

What could be added: the end of a stdio session, once the SDK's side of it is
fixed; and `Server` with Guardrails' handlers in place of its calls, which is
`Crash` there at present.
