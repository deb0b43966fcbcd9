------------------------------ MODULE Startup -------------------------------
(***************************************************************************)
(* From the command line to a server or an exit code: run, in              *)
(* cmd/vastai-mcp/main.go, with the bind policy of internal/serve/bind.go  *)
(* and ParseNoConfirm of internal/tools/config.go.  The keys come from     *)
(* KeySources, whose processes these are.                                  *)
(*                                                                         *)
(* A number is what the code tells apart: "off" (0), "limit" (positive),   *)
(* "negative", "nan", and "typo" for a text that is no number.             *)
(***************************************************************************)
EXTENDS KeySources

CONSTANT Invocations    \* flags and variables a server is started with

Numbers == {"off", "limit", "negative", "nan", "typo"}
Guards  == {"max-dph", "max-instances"}
Hosts   == {"stdio", "any", "loopback", "remote", "malformed"}

Confirmable == {"vast_create_instance", "vast_destroy_instance", "vast_execute",
                "vast_create_ssh_key", "vast_attach_ssh_key"}
\* Some other tool, or a misspelt name, is one that -no-confirm refuses.
Names == Confirmable \cup {"all", "vast_start_instance"}

Invocation ==
    [env : [Guards -> Numbers \cup {""}], flag : [Guards -> Numbers \cup {""}],
     noConfirm : SUBSET Names, http : Hosts, token : {"none", "given", "unusable"},
     cert : BOOLEAN, tlsKey : BOOLEAN, insecure : BOOLEAN]

ASSUME InvocationsAssumption == Invocations \subseteq Invocation

VARIABLE inv    \* the invocation of each process

vars == <<keyVars, inv>>

NoInvocation == [http |-> "none yet"]
-----------------------------------------------------------------------------
(* Flags and environment. *)

\* A variable that does not parse, or is below zero, is an error.
EnvError(g, v) == v \in {"typo", "negative"} \/ (v = "nan" /\ g = "max-instances")

\* The flag package takes any number of the type.
FlagError(g, v) == v = "typo" \/ (v = "nan" /\ g = "max-instances")

\* Flags win over variables.
Limit(i, g) ==
    CASE i.flag[g] # "" -> i.flag[g]
      [] i.flag[g] = "" /\ i.env[g] # "" -> i.env[g]
      [] OTHER -> "off"

NoConfirmError(i) == ~(i.noConfirm \subseteq Confirmable \cup {"all"})

FlagsAccepted(i) ==
    /\ \A g \in Guards : ~FlagError(g, i.flag[g]) /\ ~EnvError(g, i.env[g])
    /\ ~NoConfirmError(i)

\* -version and -help end the process too, and so does a base URL that is
\* not https.
ParseFlags(p) ==
    /\ pc[p] = "flags"
    /\ \E i \in Invocations :
         /\ inv' = [inv EXCEPT ![p] = i]
         /\ \/ FlagsAccepted(i) /\ GoTo(p, "dotenv") /\ UNCHANGED code
            \/ Exit(p, 2)
            \/ Exit(p, 0)
    /\ UNCHANGED <<store, edits, cmd, env, key, src, warned, saw, steady>>
-----------------------------------------------------------------------------
(* The bind policy. *)

\* A mistake: ":8080", which is all interfaces, passes for loopback.
LoopbackOrEmpty(host) == host \in {"loopback", "any"}

IsLoopbackHost(host) == host = "loopback"

TLSSet(i) == i.cert /\ i.tlsKey

BindAllowed(i) ==
    \/ i.http = "stdio"
    \/ /\ i.token # "unusable" /\ i.http # "malformed"
       /\ \/ IsLoopbackHost(i.http)
          \/ i.token = "given" /\ (TLSSet(i) \/ i.insecure)

ConfirmArgAllowed(i) == i.http = "stdio" \/ IsLoopbackHost(i.http)

\* The audit file may fail to open as well.
Bind(p) ==
    /\ pc[p] = "loaded" /\ cmd[p] = "serve"
    /\ \/ BindAllowed(inv[p]) /\ GoTo(p, "listen") /\ UNCHANGED code
       \/ Exit(p, 2)
    /\ UNCHANGED <<store, edits, cmd, env, key, src, warned, saw, steady, inv>>

\* What runHTTP serves with: TLS if there is a certificate, whatever the
\* policy looked at, and the bearer check if there is a token.
Encrypted(i)    == i.cert
TokenChecked(i) == i.token = "given"

\* A port in use, or a certificate without its key, is a runtime failure.
Listen(p) ==
    /\ pc[p] = "listen"
    /\ \/ /\ inv[p].http # "stdio" /\ Encrypted(inv[p]) => inv[p].tlsKey
          /\ GoTo(p, "serving") /\ UNCHANGED code
       \/ inv[p].http # "stdio" /\ Exit(p, 1)
       \/ inv[p].http = "stdio" /\ GoTo(p, "serving") /\ UNCHANGED code
    /\ UNCHANGED <<store, edits, cmd, env, key, src, warned, saw, steady, inv>>
-----------------------------------------------------------------------------
Init ==
    /\ store \in Machines
    /\ edits = 0
    /\ pc = [p \in Procs |-> "new"]
    /\ cmd = [p \in Procs |-> "none"]
    /\ env = [p \in Procs |-> [v \in Vars |-> Unset]]
    /\ key = [p \in Procs |-> Unset]
    /\ src = [p \in Procs |-> "none"]
    /\ warned = {}
    /\ code = [p \in Procs |-> -1]
    /\ saw = [p \in Procs |-> store]
    /\ steady = {}
    /\ inv = [p \in Procs |-> NoInvocation]

Next ==
    \/ \E p \in Procs : KeyStep(p) /\ UNCHANGED inv
    \/ \E p \in Procs : ParseFlags(p) \/ Bind(p) \/ Listen(p)
    \/ Edit /\ UNCHANGED inv

Spec == Init /\ [][Next]_vars
-----------------------------------------------------------------------------
(* Properties. *)

Stages   == {"new", "flags", "dotenv", "env", "keyring", "files", "loaded", "ask", "store",
             "warn", "delete", "listen", "serving", "ended"}
Commands == {"none", "serve", "status", "set", "delete"}
Sources  == {"none", "user", "environment", "os keyring", "config file"}

\* A server that got past its key has one.
KeyHeld == \A p \in Procs : pc[p] \in {"loaded", "listen", "serving"} => key[p] \in Keys

TypeOK ==
    /\ store \in Store
    /\ edits \in 0..MaxEdits
    /\ pc \in [Procs -> Stages]
    /\ cmd \in [Procs -> Commands]
    /\ env \in [Procs -> [Vars -> Value]]
    /\ key \in [Procs -> Value]
    /\ src \in [Procs -> Sources]
    /\ warned \subseteq Procs /\ steady \subseteq Procs
    /\ code \in [Procs -> {-1, 0, 1, 2}]
    /\ saw \in [Procs -> Store]
    /\ inv \in [Procs -> Invocations \cup {NoInvocation}]
    /\ KeyHeld

\* `auth status` reports what the server will use (main.go:57-58): on a
\* machine on which nothing changed, the key and the source it found are those
\* of a server that starts, whichever of the two came first.
StatusTells ==
    \A a, s \in steady :
        /\ cmd[a] = "status" /\ pc[a] = "ended" /\ code[a] # 2
        /\ pc[s] = "serving"
        /\ saw[a] = saw[s]
        => key[a] = key[s] /\ src[a] = src[s]

\* A process that has resolved its key, or has found none.
Resolved(p) ==
    \/ pc[p] \in {"loaded", "listen", "serving"}
    \/ cmd[p] = "status" /\ pc[p] = "ended" /\ code[p] # 2

\* A locked keyring counts as one without a key, but never quietly
\* (client.go:73-76): when two processes resolve a key differently on machines
\* that differ in the lock of the keyring alone, the one that found it locked
\* has said so.
LockIsTold ==
    \A a, s \in steady :
        /\ Resolved(a) /\ Resolved(s)
        /\ saw[s] = [saw[a] EXCEPT !.lock = saw[s].lock]
        /\ key[a] # key[s] \/ src[a] # src[s]
        => \E p \in {a, s} : saw[p].lock = "locked" /\ p \in warned

\* A key stored by `auth set` without a warning that it is shadowed
\* (auth.go:89-97) is the key of every server that then starts on the machine
\* as `auth set` left it.
SetIsUsed ==
    \A a, s \in steady :
        /\ cmd[a] = "set" /\ pc[a] = "ended" /\ code[a] = 0 /\ a \notin warned
        /\ pc[s] = "serving"
        /\ saw[s] = [saw[a] EXCEPT !.keyring = key[a]]
        => key[s] = key[a]

\* Off loopback a server asks for the token, encrypts unless it was told not
\* to, and takes no confirm argument (README.md:111-117): what CheckBind
\* looked at and what runHTTP serves with are different flags.
RemoteIsGuarded ==
    \A p \in Procs :
        pc[p] = "serving" /\ inv[p].http \notin {"stdio", "loopback"} =>
            /\ TokenChecked(inv[p])
            /\ Encrypted(inv[p]) \/ inv[p].insecure
            /\ ~ConfirmArgAllowed(inv[p])

\* "Malformed guardrail values refuse to start" (SECURITY.md:24): what the
\* parser of the variables calls an error is no limit of a server that runs.
MalformedRefusesToStart ==
    \A p \in Procs, g \in Guards :
        pc[p] = "serving" => Limit(inv[p], g) \in {"off", "limit"}
=============================================================================
