----------------------------- MODULE KeySources -----------------------------
(***************************************************************************)
(* Where the API key comes from: LoadDotEnv (internal/vast/dotenv.go),     *)
(* LoadAPIKey (client.go), the OS keyring (keyring.go), and the `auth`     *)
(* commands that write and report it (cmd/vastai-mcp/auth.go).             *)
(*                                                                         *)
(* What outlives a process is in `store`; the user changes it while        *)
(* processes run.  A key is a value; surrounding blanks, quotes and the    *)
(* syntax of .env are left out, but a variable that is set and blank is    *)
(* not one that is unset.                                                  *)
(***************************************************************************)
EXTENDS Integers

CONSTANTS
    Procs,      \* runs of the program
    Servers,    \* those of them that start the server
    Keys,
    Machines,   \* stores the first process may find
    MaxEdits,   \* bound: how often the user changes something
    Unset,      \* no such variable, entry or file
    Blank       \* one that is empty

ASSUME KeysAssumption ==
    /\ Servers \subseteq Procs /\ MaxEdits \in Nat
    /\ Unset \notin Keys /\ Blank \notin Keys /\ Unset # Blank

Vars == {"VASTAI_API_KEY", "VAST_API_KEY"}

Value == Keys \cup {Unset, Blank}

\* What the user's shell exports, ./.env, the keyring and its lock, and the
\* two files the official CLI writes.
Store == [shell : [Vars -> Value], dotenv : [Vars -> Value], keyring : Value,
          lock : {"open", "locked"}, files : [1..2 -> Value]]

ASSUME MachinesAssumption == Machines \subseteq Store

VARIABLES
    store,
    edits,      \* by the user, so far
    pc,
    cmd,
    env,        \* a process's own environment
    key, src,   \* the key a process holds, and where it found it
    warned,     \* processes that said on stderr that a key is passed over
    code,       \* exit code
    saw,        \* the store when a process began
    steady      \* processes that began, and in whose time nobody else
                \* changed the store

keyVars == <<store, edits, pc, cmd, env, key, src, warned, code, saw, steady>>

Running(p) == pc[p] \notin {"new", "ended", "serving"}

\* A process goes on, ends, or holds a key.
GoTo(p, l) == pc' = [pc EXCEPT ![p] = l]

Exit(p, n) ==
    /\ pc' = [pc EXCEPT ![p] = "ended"]
    /\ code' = [code EXCEPT ![p] = n]

Hold(p, k, s) ==
    /\ key' = [key EXCEPT ![p] = k]
    /\ src' = [src EXCEPT ![p] = s]

\* A change of the store by one of the processes `by`, or by the user.
Write(by, s) ==
    /\ store' = s
    /\ steady' = steady \ {q \in Procs \ by : Running(q)}
-----------------------------------------------------------------------------
(* Reading the sources. *)

\* A variable of .env counts where the environment has none, even a blank one.
WithDotEnv(e, d) == [v \in Vars |-> IF e[v] = Unset THEN d[v] ELSE e[v]]

EnvKey(e) ==
    CASE e["VASTAI_API_KEY"] \in Keys -> e["VASTAI_API_KEY"]
      [] e["VASTAI_API_KEY"] \notin Keys /\ e["VAST_API_KEY"] \in Keys -> e["VAST_API_KEY"]
      [] OTHER -> Unset

\* A mistake: an entry that is there and blank is taken for a key.
KeyringEntry(s) == IF s.lock = "open" THEN s.keyring ELSE Unset

\* A keyring that is locked, or not there, gives nothing.
KeyringKey(s) == IF s.lock = "open" /\ s.keyring \in Keys THEN s.keyring ELSE Unset

\* A mistake: every error of the keyring passes for an entry that is missing.
NeverUnavailable(s) == FALSE

\* The keyring is locked, or there is none: LoadAPIKey says so and goes on.
Unavailable(s) == s.lock = "locked"

FileKey(s) ==
    CASE s.files[1] \in Keys -> s.files[1]
      [] s.files[1] \notin Keys /\ s.files[2] \in Keys -> s.files[2]
      [] OTHER -> Unset

\* A process starts with the shell's environment.
Exec(p, c) ==
    /\ pc[p] = "new"
    /\ c = "serve" <=> p \in Servers
    /\ cmd' = [cmd EXCEPT ![p] = c]
    /\ env' = [env EXCEPT ![p] = store.shell]
    /\ saw' = [saw EXCEPT ![p] = store]
    /\ steady' = steady \cup {p}
    /\ GoTo(p, IF c = "serve" THEN "flags" ELSE "dotenv")
    /\ UNCHANGED <<store, edits, key, src, warned, code>>

AfterDotEnv(c) ==
    CASE c \in {"serve", "status"} -> "env"
      [] c = "set"    -> "ask"
      [] c = "delete" -> "delete"

\* A mistake: the auth commands do not read .env.
ReadDotEnvToServe(p) ==
    /\ pc[p] = "dotenv"
    /\ env' = [env EXCEPT ![p] = IF p \in Servers THEN WithDotEnv(@, store.dotenv) ELSE @]
    /\ GoTo(p, AfterDotEnv(cmd[p]))
    /\ UNCHANGED <<store, edits, cmd, key, src, warned, code, saw, steady>>

ReadDotEnv(p) ==
    /\ pc[p] = "dotenv"
    /\ env' = [env EXCEPT ![p] = WithDotEnv(@, store.dotenv)]
    /\ GoTo(p, AfterDotEnv(cmd[p]))
    /\ UNCHANGED <<store, edits, cmd, key, src, warned, code, saw, steady>>

\* There is no CA pool, the base URL is not https, or .env cannot be read.
Refuse(p) ==
    /\ pc[p] = "dotenv"
    /\ Exit(p, 2)
    /\ UNCHANGED <<store, edits, cmd, env, key, src, warned, saw, steady>>

\* LoadAPIKey, in its order; each source is read when it is its turn.
ReadEnv(p) ==
    /\ pc[p] = "env"
    /\ IF EnvKey(env[p]) # Unset
       THEN Hold(p, EnvKey(env[p]), "environment") /\ GoTo(p, "loaded")
       ELSE GoTo(p, "keyring") /\ UNCHANGED <<key, src>>
    /\ UNCHANGED <<store, edits, cmd, env, warned, code, saw, steady>>

ReadKeyring(p) ==
    /\ pc[p] = "keyring"
    /\ IF KeyringKey(store) # Unset
       THEN Hold(p, KeyringKey(store), "os keyring") /\ GoTo(p, "loaded")
       ELSE GoTo(p, "files") /\ UNCHANGED <<key, src>>
    /\ warned' = IF Unavailable(store) THEN warned \cup {p} ELSE warned
    /\ UNCHANGED <<store, edits, cmd, env, code, saw, steady>>

ReadFiles(p) ==
    /\ pc[p] = "files"
    /\ IF FileKey(store) # Unset
       THEN Hold(p, FileKey(store), "config file") /\ GoTo(p, "loaded") /\ UNCHANGED code
       ELSE Exit(p, IF cmd[p] = "serve" THEN 2 ELSE 1) /\ UNCHANGED <<key, src>>
    /\ UNCHANGED <<store, edits, cmd, env, warned, saw, steady>>

\* `auth status` asks Vast.ai whether the key is good.
Report(p) ==
    /\ pc[p] = "loaded" /\ cmd[p] = "status"
    /\ \E n \in {0, 1} : Exit(p, n)
    /\ UNCHANGED <<store, edits, cmd, env, key, src, warned, saw, steady>>
-----------------------------------------------------------------------------
(* auth set, auth delete *)

\* readKey; at a terminal the user may enter nothing.
AskKey(p) ==
    /\ pc[p] = "ask"
    /\ \/ \E k \in Keys \cup {Blank} : Hold(p, k, "user") /\ GoTo(p, "store")
          /\ UNCHANGED code
       \/ Exit(p, 1) /\ UNCHANGED <<key, src>>
    /\ UNCHANGED <<store, edits, cmd, env, warned, saw, steady>>

\* Vast.ai refuses the key, or cannot be asked; -no-verify does not ask.
Rejected(p) ==
    /\ pc[p] = "store"
    /\ Exit(p, 1)
    /\ UNCHANGED <<store, edits, cmd, env, key, src, warned, saw, steady>>

StoreKey(p) ==
    /\ pc[p] = "store"
    /\ IF key[p] \in Keys /\ store.lock = "open"
       THEN Write({p}, [store EXCEPT !.keyring = key[p]]) /\ GoTo(p, "warn") /\ UNCHANGED code
       ELSE Exit(p, 1) /\ UNCHANGED <<store, steady>>
    /\ UNCHANGED <<edits, cmd, env, key, src, warned, saw>>

\* A mistake: only the first of the variables is looked at.
ShadowedByFirst(e) == e["VASTAI_API_KEY"] \in Keys

Shadowed(e) == \E v \in Vars : e[v] \in Keys

Warn(p) ==
    /\ pc[p] = "warn"
    /\ warned' = IF Shadowed(env[p]) THEN warned \cup {p} ELSE warned
    /\ Exit(p, 0)
    /\ UNCHANGED <<store, edits, cmd, env, key, src, saw, steady>>

DeleteKey(p) ==
    /\ pc[p] = "delete"
    /\ IF store.lock = "open"
       THEN Write({p}, [store EXCEPT !.keyring = Unset]) /\ Exit(p, 0)
       ELSE Exit(p, 1) /\ UNCHANGED <<store, steady>>
    /\ UNCHANGED <<edits, cmd, env, key, src, warned, saw>>
-----------------------------------------------------------------------------
(* The user, and whatever else writes these places: external. *)

Edited ==
    {[store EXCEPT !.shell[v] = x] : v \in Vars, x \in Value}
    \cup {[store EXCEPT !.dotenv[v] = x] : v \in Vars, x \in Value}
    \cup {[store EXCEPT !.files[i] = x] : i \in 1..2, x \in Value}
    \cup {[store EXCEPT !.keyring = x] : x \in Value}
    \cup {[store EXCEPT !.lock = x] : x \in {"open", "locked"}}

Edit ==
    /\ edits < MaxEdits
    /\ edits' = edits + 1
    /\ \E s \in Edited \ {store} : Write({}, s)
    /\ UNCHANGED <<pc, cmd, env, key, src, warned, code, saw>>

KeyStep(p) ==
    \/ \E c \in {"serve", "status", "set", "delete"} : Exec(p, c)
    \/ ReadDotEnv(p) \/ Refuse(p)
    \/ ReadEnv(p) \/ ReadKeyring(p) \/ ReadFiles(p) \/ Report(p)
    \/ AskKey(p) \/ Rejected(p) \/ StoreKey(p) \/ Warn(p) \/ DeleteKey(p)
=============================================================================
