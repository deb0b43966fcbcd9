------------------------------- MODULE Server -------------------------------
(***************************************************************************)
(* The life of the HTTP server, runHTTP and the end of run in              *)
(* cmd/vastai-mcp/main.go, and of the tool calls it serves, each in a      *)
(* goroutine of its own, with the audit log they share (auditor.log of     *)
(* internal/tools/config.go): a line on stderr and one in the file, under  *)
(* one mutex.                                                              *)
(*                                                                         *)
(* Three goroutines decide when the process ends: main, in Serve; the one  *)
(* that waits for the signal and calls Shutdown; and the calls.  What a    *)
(* call does is left to Guardrails.  Clients, net/http and the disk are    *)
(* external.                                                               *)
(***************************************************************************)
EXTENDS Integers, FiniteSets

CONSTANTS
    Calls,      \* tool calls, each made once, with one record or none; a
                \* create that also logs a breach stands for two of them
    Grace,      \* how long Shutdown waits, in ticks: ten seconds
    NoOne       \* holds the mutex when no call does

ASSUME ServerAssumption == Grace \in Nat \ {0} /\ NoOne \notin Calls

VARIABLES
    main,       \* where main is
    code,       \* the exit code, -1 until there is one
    sig,        \* whether SIGINT or SIGTERM came
    shut,       \* the goroutine that calls Shutdown
    since,      \* ticks since it did
    stream,     \* whether a client keeps an event stream open
    stage,      \* how far each call is
    left,       \* calls whose client went away before the answer
    holder,     \* of auditor.mu
    lines,      \* lines on stderr
    entries,    \* whole lines in the file
    errAt,      \* the place of each call's record on stderr, 0 for none
    fileAt,     \* and in the file
    failed,     \* calls whose write to the file failed
    torn,       \* whether the file ends in part of a line
    ruined      \* records written behind one

process == <<main, code, sig, shut, since, stream>>
clients == <<stage, left>>
log     == <<holder, lines, entries, errAt, fileAt, failed, torn, ruined>>
vars    == <<process, clients, log>>

Alive == main # "exited"

Return(n) == main' = "returned" /\ code' = n

Move(c, s) == stage' = [stage EXCEPT ![c] = s]
-----------------------------------------------------------------------------
(* main *)

\* The socket is bound, or the port is in use.
Listen ==
    /\ main = "start"
    /\ \/ main' = "serving" /\ UNCHANGED code
       \/ Return(1)
    /\ UNCHANGED <<sig, shut, since, stream, clients, log>>

\* A mistake: a failure of Serve is reported as one of the command line.
ServeFailsAsUsage ==
    /\ main = "serving"
    /\ Return(2)
    /\ UNCHANGED <<sig, shut, since, stream, clients, log>>

\* The certificate cannot be loaded, or the listener breaks: nobody waits for
\* the calls.
ServeFails ==
    /\ main = "serving"
    /\ Return(1)
    /\ UNCHANGED <<sig, shut, since, stream, clients, log>>

\* Serve returns ErrServerClosed as soon as Shutdown is called, and main
\* waits for the goroutine that called it.
ServeEnds ==
    /\ main = "serving" /\ shut # "waiting"
    /\ main' = "joining"
    /\ UNCHANGED <<code, sig, shut, since, stream, clients, log>>

\* A mistake: main returns with Serve.
ReturnWithServe ==
    /\ main = "joining"
    /\ Return(0)
    /\ UNCHANGED <<sig, shut, since, stream, clients, log>>

\* <-done
Join ==
    /\ main = "joining" /\ shut = "done"
    /\ Return(0)
    /\ UNCHANGED <<sig, shut, since, stream, clients, log>>

\* The deferred calls of run: the audit file is closed.
CloseFile ==
    /\ main = "returned"
    /\ main' = "closed"
    /\ UNCHANGED <<code, sig, shut, since, stream, clients, log>>

\* os.Exit, whatever still runs.
End ==
    /\ main = "closed"
    /\ main' = "exited"
    /\ UNCHANGED <<code, sig, shut, since, stream, clients, log>>

Main == Listen \/ ServeEnds \/ Join \/ CloseFile \/ End
-----------------------------------------------------------------------------
(* The goroutine that shuts the server down. *)

\* The listener is closed; what is connected stays.
StartShutdown ==
    /\ Alive
    /\ shut = "waiting" /\ sig
    /\ shut' = "shutting"
    /\ UNCHANGED <<main, code, sig, since, stream, clients, log>>

\* No connection is in use.
Quiet == ~stream /\ \A c \in Calls : stage[c] \in {"none", "replied"} \/ c \in left

\* A mistake: Shutdown is given no deadline.
NoDeadline == FALSE

Overdue == since = Grace

\* Shutdown returns.
ShutdownEnds ==
    /\ Alive
    /\ shut = "shutting"
    /\ Quiet \/ Overdue
    /\ shut' = "done"
    /\ UNCHANGED <<main, code, sig, since, stream, clients, log>>

\* Time only matters while Shutdown waits: external.
Tick ==
    /\ Alive
    /\ shut = "shutting" /\ since < Grace
    /\ since' = since + 1
    /\ UNCHANGED <<main, code, sig, shut, stream, clients, log>>

Shutdown == StartShutdown \/ ShutdownEnds \/ Tick
-----------------------------------------------------------------------------
(* The calls. *)

\* The SDK runs the tool.
Begin(c) ==
    /\ Alive
    /\ stage[c] = "connected" /\ c \notin left
    /\ Move(c, "running")
    /\ UNCHANGED <<process, left, log>>

\* A mistake: the mutex is held for stderr only.
ToStderrAlone(c) ==
    /\ Alive
    /\ stage[c] = "running" /\ holder = NoOne
    /\ lines' = lines + 1
    /\ errAt' = [errAt EXCEPT ![c] = lines + 1]
    /\ Move(c, "half")
    /\ UNCHANGED <<process, left, holder, entries, fileAt, failed, torn, ruined>>

\* auditor.log takes the mutex and writes to stderr, for one record.
ToStderr(c) ==
    /\ Alive
    /\ stage[c] = "running" /\ holder = NoOne
    /\ holder' = c
    /\ lines' = lines + 1
    /\ errAt' = [errAt EXCEPT ![c] = lines + 1]
    /\ Move(c, "half")
    /\ UNCHANGED <<process, left, entries, fileAt, failed, torn, ruined>>

\* A mistake: only the failures that are reported are counted.
FirstFailure(c) == IF failed = {} THEN {c} ELSE failed

\* a.failures
Failure(c) == failed \cup {c}

\* The line goes behind whatever the file ends in; or the write fails, as it
\* does once the file is closed, and may leave a part of the line.
ToFile(c) ==
    /\ Alive
    /\ stage[c] = "half"
    /\ \/ /\ main # "closed"
          /\ entries' = entries + 1
          /\ fileAt' = [fileAt EXCEPT ![c] = entries + 1]
          /\ ruined' = IF torn THEN ruined \cup {c} ELSE ruined
          /\ torn' = FALSE
          /\ UNCHANGED failed
       \/ /\ failed' = Failure(c)
          /\ \/ UNCHANGED torn
             \/ main # "closed" /\ torn' = TRUE
          /\ UNCHANGED <<entries, fileAt, ruined>>
    /\ holder' = NoOne
    /\ Move(c, "logged")
    /\ UNCHANGED <<process, left, lines, errAt>>

\* The answer; a call that changes nothing has no record.
Reply(c) ==
    /\ Alive
    /\ stage[c] \in {"running", "logged"}
    /\ Move(c, "replied")
    /\ UNCHANGED <<process, left, log>>
-----------------------------------------------------------------------------
(* Clients, the operator, the system: external. *)

Open == main = "serving" /\ shut = "waiting"

Connect(c) ==
    /\ Open
    /\ stage[c] = "none"
    /\ Move(c, "connected")
    /\ UNCHANGED <<process, left, log>>

\* The connection breaks; a tool that runs goes on.
Leave(c) ==
    /\ Alive
    /\ stage[c] \notin {"none", "replied"} /\ c \notin left
    /\ left' = left \cup {c}
    /\ UNCHANGED <<process, stage, log>>

\* Shutdown closes a connection whose request has not been read: that call
\* never began.
CloseIdle(c) ==
    /\ Alive
    /\ shut = "shutting"
    /\ stage[c] = "connected" /\ c \notin left
    /\ Move(c, "none")
    /\ UNCHANGED <<process, left, log>>

OpenStream ==
    /\ Open
    /\ ~stream
    /\ stream' = TRUE
    /\ UNCHANGED <<main, code, sig, shut, since, clients, log>>

CloseStream ==
    /\ Alive
    /\ stream
    /\ stream' = FALSE
    /\ UNCHANGED <<main, code, sig, shut, since, clients, log>>

\* The signal is caught until run returns.
Signal ==
    /\ main \in {"start", "serving"}
    /\ ~sig
    /\ sig' = TRUE
    /\ UNCHANGED <<main, code, shut, since, stream, clients, log>>

\* A kill, or a line to a stderr nobody holds any more, which ends the
\* process.
Die ==
    /\ Alive
    /\ main' = "exited"
    /\ UNCHANGED <<code, sig, shut, since, stream, clients, log>>

Init ==
    /\ main = "start" /\ code = -1
    /\ sig = FALSE /\ shut = "waiting" /\ since = 0 /\ stream = FALSE
    /\ stage = [c \in Calls |-> "none"]
    /\ left = {}
    /\ holder = NoOne
    /\ lines = 0 /\ entries = 0
    /\ errAt = [c \in Calls |-> 0]
    /\ fileAt = [c \in Calls |-> 0]
    /\ failed = {} /\ ruined = {}
    /\ torn \in BOOLEAN         \* an earlier server may have left it so

Call(c) ==
    \/ Connect(c) \/ Begin(c) \/ ToStderr(c) \/ ToFile(c) \/ Reply(c)
    \/ Leave(c) \/ CloseIdle(c)

Next ==
    \/ Main \/ ServeFails \/ Shutdown
    \/ \E c \in Calls : Call(c)
    \/ OpenStream \/ CloseStream
    \/ Signal \/ Die

\* main and the goroutine of the shutdown wait for each other, for time and
\* for nothing else; no client has to do anything.
Fairness == WF_vars(Main) /\ WF_vars(Shutdown)

Spec == Init /\ [][Next]_vars /\ Fairness
-----------------------------------------------------------------------------
(* Properties. *)

MainStages == {"start", "serving", "joining", "returned", "closed", "exited"}
ShutStages == {"waiting", "shutting", "done"}
CallStages == {"none", "connected", "running", "half", "logged", "replied"}
Codes      == {-1, 0, 1}

TypeOK ==
    /\ main \in MainStages
    /\ code \in Codes
    /\ sig \in BOOLEAN /\ stream \in BOOLEAN /\ torn \in BOOLEAN
    /\ shut \in ShutStages
    /\ since \in 0..Grace
    /\ stage \in [Calls -> CallStages]
    /\ left \subseteq Calls /\ failed \subseteq Calls /\ ruined \subseteq Calls
    /\ holder \in Calls \cup {NoOne}
    /\ lines \in Nat /\ entries \in Nat
    /\ errAt \in [Calls -> Nat]
    /\ fileAt \in [Calls -> Nat]

\* A server that was told to stop and stopped by itself before the grace was
\* over has cut nobody off (main.go:208-214, 231): every call whose request
\* was read and whose client still waits has been answered.  What it cuts off
\* when the grace is over is the code's intent.
GraceHonoured ==
    main = "exited" /\ code = 0 /\ since < Grace =>
        \A c \in Calls : stage[c] \in {"none", "replied"} \/ c \in left

\* The file tells the story stderr tells (config.go:165-177): the records
\* are in the same order, and one is missing only if its write failed or the
\* process ended between the two.
SinksAgree ==
    /\ \A c, d \in Calls :
         fileAt[c] > 0 /\ fileAt[d] > 0 => (fileAt[c] < fileAt[d] <=> errAt[c] < errAt[d])
    /\ \A c \in Calls :
         /\ fileAt[c] > 0 => errAt[c] > 0
         /\ errAt[c] > 0 => fileAt[c] > 0 \/ c \in failed \/ holder = c

\* A write that fails halfway spoils the line written behind it, and no
\* other: but for the first, whose predecessor an earlier server wrote, an
\* unreadable record has one right before it on stderr whose failure the
\* server counted (config.go:171-172).
SpoiltByNeighbour ==
    \A c \in ruined :
        errAt[c] # 1 => \E d \in failed : errAt[d] > 0 /\ errAt[c] = errAt[d] + 1

\* The count of failures tells how many records the file lacks
\* (config.go:170-173): whatever stderr shows is in the file, was counted, or
\* is being written.
FailuresCounted ==
    lines = entries + Cardinality(failed) + (IF holder = NoOne THEN 0 ELSE 1)

\* A signal ends the server, however long its calls and streams last
\* (main.go:209).
ExitsAfterSignal == sig ~> main = "exited"
=============================================================================
