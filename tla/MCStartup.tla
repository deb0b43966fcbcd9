----------------------------- MODULE MCStartup ------------------------------
(* Instances of Startup for TLC. *)
EXTENDS Startup, TLC

CONSTANTS k1, k2

KeySymmetry == Permutations(Keys)

\* A machine with nothing on it, and one with a key in every place, of which
\* the blank variable of the shell hides one and the blank entry another.
Empty   == [shell |-> [v \in Vars |-> Unset], dotenv |-> [v \in Vars |-> Unset],
            keyring |-> Unset, lock |-> "open", files |-> [i \in 1..2 |-> Unset]]
Layered(a, b) ==
    [Empty EXCEPT !.shell["VASTAI_API_KEY"] = Blank,
                  !.dotenv["VASTAI_API_KEY"] = a, !.dotenv["VAST_API_KEY"] = b,
                  !.keyring = Blank, !.files[2] = a]
\* One whose keyring is locked, with a key in it and one in a file.
LockedUp(a, b) ==
    [Empty EXCEPT !.keyring = a, !.lock = "locked", !.files[1] = b]
SomeMachines ==
    {Empty} \cup {Layered(a, b) : a \in Keys, b \in Keys}
            \cup {LockedUp(a, b) : a \in Keys, b \in Keys \cup {Unset}}

Plain == [env |-> [g \in Guards |-> ""], flag |-> [g \in Guards |-> ""],
          noConfirm |-> {}, http |-> "stdio", token |-> "none",
          cert |-> FALSE, tlsKey |-> FALSE, insecure |-> FALSE]

Bound(h, t, c, k, x) ==
    [Plain EXCEPT !.http = h, !.token = t, !.cert = c, !.tlsKey = k, !.insecure = x]

\* Every flag of the bind policy on all interfaces, which is what a host left
\* empty means; and what other hosts and a bad token change.
Binds ==
    {Bound("any", t, c, k, x) :
       t \in {"none", "given"}, c \in BOOLEAN, k \in BOOLEAN, x \in BOOLEAN}
    \cup {Bound(h, "given", TRUE, TRUE, FALSE) : h \in {"remote", "malformed"}}
    \cup {Bound("loopback", t, c, FALSE, FALSE) : t \in {"none", "unusable"}, c \in BOOLEAN}

\* -no-confirm with tools it takes, and with one it refuses.
Exemptions ==
    {[Plain EXCEPT !.noConfirm = n] :
       n \in {{}, {"vast_execute"}, {"all", "vast_execute"}, {"vast_start_instance"}}}

\* One guardrail from the environment and the command line.
Limits ==
    {[Plain EXCEPT !.env[g] = e, !.flag[g] = f] :
       g \in Guards, e \in Numbers \cup {""}, f \in Numbers \cup {""}}

BindsAndExemptions == Binds \cup Exemptions
=============================================================================
