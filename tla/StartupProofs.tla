---------------------------- MODULE StartupProofs ----------------------------
(* The promises of start-up and of the key sources, for any number of      *)
(* processes, keys and edits by the user.                                  *)
EXTENDS Startup, TLAPS

\* What LoadAPIKey finds on a machine that holds still.
FullEnv(s) == WithDotEnv(s.shell, s.dotenv)

Preferred(s) ==
    IF EnvKey(FullEnv(s)) # Unset THEN <<EnvKey(FullEnv(s)), "environment">>
    ELSE IF KeyringKey(s) # Unset THEN <<KeyringKey(s), "os keyring">>
    ELSE IF FileKey(s) # Unset THEN <<FileKey(s), "config file">>
    ELSE <<Unset, "none">>

\* Which command is where.
CmdInv ==
    \A p \in Procs :
        /\ pc[p] # "new" => (cmd[p] = "serve" <=> p \in Servers)
        /\ pc[p] \in {"flags", "listen", "serving"} => cmd[p] = "serve"
        /\ pc[p] \in {"env", "keyring", "files", "loaded"} => cmd[p] \in {"serve", "status"}
        /\ pc[p] \in {"ask", "store", "warn"} => cmd[p] = "set"
        /\ pc[p] = "delete" => cmd[p] = "delete"
        /\ pc[p] = "dotenv" => cmd[p] # "none"

\* The store is what a steady process saw, but for what it wrote itself.
SteadyInv ==
    \A p \in steady :
        /\ pc[p] # "new"
        /\ pc[p] = "warn" =>
             /\ store = [saw[p] EXCEPT !.keyring = key[p]]
             /\ saw[p].lock = "open" /\ key[p] \in Keys
        /\ Running(p) /\ pc[p] # "warn" => store = saw[p]

\* What a process knows of its environment and of the sources it has read.
EnvInv ==
    /\ \A p \in Procs : pc[p] \in {"flags", "dotenv"} => env[p] = saw[p].shell
    /\ \A p \in steady :
         pc[p] \in {"env", "keyring", "files", "ask", "store", "warn"} =>
             env[p] = FullEnv(saw[p])

ReadInv ==
    \A p \in Procs :
        /\ pc[p] \in {"new", "flags", "dotenv", "env", "keyring", "files", "ask"} =>
             key[p] = Unset /\ src[p] = "none"
        /\ pc[p] \in {"keyring", "files"} => EnvKey(env[p]) = Unset
        /\ p \in steady /\ pc[p] = "files" => KeyringKey(saw[p]) = Unset

LoadInv ==
    \A p \in steady :
        \/ pc[p] \in {"loaded", "listen", "serving"}
        \/ pc[p] = "ended" /\ cmd[p] = "status" /\ code[p] # 2
        => key[p] = Preferred(saw[p])[1] /\ src[p] = Preferred(saw[p])[2]

SetInv ==
    \A p \in steady :
        pc[p] = "ended" /\ cmd[p] = "set" /\ code[p] = 0 =>
            /\ saw[p].lock = "open" /\ key[p] \in Keys
            /\ p \in warned \/ ~Shadowed(FullEnv(saw[p]))

\* Whoever found the keyring locked, with no key before it, has said so.
LockInv ==
    \A p \in steady :
        /\ pc[p] = "files" \/ Resolved(p)
        /\ saw[p].lock = "locked" /\ EnvKey(FullEnv(saw[p])) = Unset
        => p \in warned

BindInv ==
    \A p \in Procs :
        /\ pc[p] = "listen" => BindAllowed(inv[p])
        /\ pc[p] = "serving" => BindAllowed(inv[p])

\* A server past its flags runs with ones that were accepted.
FlagsInv ==
    \A p \in Procs :
        /\ cmd[p] = "serve"
        /\ pc[p] \in {"dotenv", "env", "keyring", "files", "loaded", "listen", "serving"}
        => inv[p] \in Invocations /\ FlagsAccepted(inv[p])

Inv == TypeOK /\ CmdInv /\ SteadyInv /\ EnvInv /\ ReadInv /\ LoadInv /\ SetInv /\ LockInv
       /\ BindInv /\ FlagsInv
-----------------------------------------------------------------------------
(* The operators. *)

LEMMA EditedIsStore ==
    ASSUME store \in Store, NEW s \in Edited
    PROVE  s \in Store
  BY DEF Edited, Store

LEMMA EnvType ==
    ASSUME NEW e \in [Vars -> Value], NEW d \in [Vars -> Value]
    PROVE  WithDotEnv(e, d) \in [Vars -> Value]
  BY DEF WithDotEnv

LEMMA KeyTypes ==
    ASSUME NEW s \in Store, NEW e \in [Vars -> Value]
    PROVE  /\ EnvKey(e) \in Keys \cup {Unset}
           /\ KeyringKey(s) \in Keys \cup {Unset}
           /\ FileKey(s) \in Keys \cup {Unset}
<1>1. EnvKey(e) \in Keys \cup {Unset}
  BY DEF EnvKey
<1>2. KeyringKey(s) \in Keys \cup {Unset}
  BY DEF KeyringKey
<1>3. FileKey(s) \in Keys \cup {Unset}
  BY DEF FileKey
<1> QED
  BY <1>1, <1>2, <1>3

\* No variable shadows: the environment has no key.
LEMMA NotShadowed ==
    ASSUME NEW e, ~Shadowed(e)
    PROVE  EnvKey(e) = Unset
  BY DEF Shadowed, EnvKey, Vars

\* The order of the sources.
LEMMA PreferredIs ==
    ASSUME NEW s
    PROVE  /\ EnvKey(FullEnv(s)) # Unset =>
                Preferred(s)[1] = EnvKey(FullEnv(s)) /\ Preferred(s)[2] = "environment"
           /\ EnvKey(FullEnv(s)) = Unset /\ KeyringKey(s) # Unset =>
                Preferred(s)[1] = KeyringKey(s) /\ Preferred(s)[2] = "os keyring"
           /\ EnvKey(FullEnv(s)) = Unset /\ KeyringKey(s) = Unset /\ FileKey(s) # Unset =>
                Preferred(s)[1] = FileKey(s) /\ Preferred(s)[2] = "config file"
           /\ EnvKey(FullEnv(s)) = Unset /\ KeyringKey(s) = Unset /\ FileKey(s) = Unset =>
                Preferred(s)[1] = Unset /\ Preferred(s)[2] = "none"
  BY DEF Preferred

\* A write leaves the writer alone steady.
LEMMA WriteSteady ==
    ASSUME NEW by, NEW s, Write(by, s)
    PROVE  /\ store' = s
           /\ steady' \subseteq steady
           /\ \A q \in steady' : q \notin by /\ q \in Procs => ~Running(q)
  BY DEF Write
-----------------------------------------------------------------------------
LEMMA InitInv == Init => Inv
<1> SUFFICES ASSUME Init PROVE Inv
  OBVIOUS
<1> USE KeysAssumption
<1>0. store \in Store
  BY MachinesAssumption DEF Init
<1>1. TypeOK
  <2>1. pc \in [Procs -> Stages] /\ cmd \in [Procs -> Commands] /\ src \in [Procs -> Sources]
    BY DEF Init, Stages, Commands, Sources
  <2>2. code \in [Procs -> {-1, 0, 1, 2}]
    BY DEF Init
  <2>3. env \in [Procs -> [Vars -> Value]] /\ key \in [Procs -> Value]
    BY DEF Init, Value
  <2>4. saw \in [Procs -> Store]
    BY <1>0 DEF Init
  <2>5. inv \in [Procs -> Invocations \cup {NoInvocation}]
    BY DEF Init
  <2>7. KeyHeld
    BY DEF Init, KeyHeld
  <2>6. edits \in 0..MaxEdits /\ warned \subseteq Procs /\ steady \subseteq Procs
    BY DEF Init
  <2> QED
    BY <1>0, <2>1, <2>2, <2>3, <2>4, <2>5, <2>6, <2>7 DEF TypeOK
<1>2. CmdInv /\ SteadyInv /\ EnvInv /\ ReadInv /\ LoadInv /\ SetInv /\ LockInv
      /\ BindInv /\ FlagsInv
  BY DEF Init, CmdInv, SteadyInv, EnvInv, ReadInv, LoadInv, SetInv, LockInv, BindInv,
     FlagsInv
<1> QED
  BY <1>1, <1>2 DEF Inv
-----------------------------------------------------------------------------
\* The steps.

\* Whoever is loaded holds a key.
LEMMA HeldStep ==
    ASSUME TypeOK, CmdInv, [Next]_vars
    PROVE  KeyHeld'
<1>1. ASSUME NEW p \in Procs, NEW c \in {"serve", "status", "set", "delete"},
             Exec(p, c), UNCHANGED inv
      PROVE  KeyHeld'
  BY <1>1 DEF Exec, GoTo, Exit, Hold, TypeOK, CmdInv, KeyHeld, AfterDotEnv,
     Commands
<1>2. ASSUME NEW p \in Procs, ReadDotEnv(p), UNCHANGED inv
      PROVE  KeyHeld'
  BY <1>2 DEF ReadDotEnv, GoTo, Exit, Hold, TypeOK, CmdInv, KeyHeld,
     AfterDotEnv, Commands
<1>3. ASSUME NEW p \in Procs, Refuse(p), UNCHANGED inv
      PROVE  KeyHeld'
  BY <1>3 DEF Refuse, GoTo, Exit, Hold, TypeOK, CmdInv, KeyHeld, AfterDotEnv,
     Commands
<1>4. ASSUME NEW p \in Procs, ReadEnv(p), UNCHANGED inv
      PROVE  KeyHeld'
  <2>1. pc' = [pc EXCEPT ![p] = "loaded"] => key'[p] \in Keys
    <3>1. EnvKey(env[p]) \in Keys \cup {Unset}
      BY KeyTypes DEF TypeOK
    <3>2. pc' = [pc EXCEPT ![p] = "loaded"] =>
            EnvKey(env[p]) # Unset /\ key'[p] = EnvKey(env[p])
      BY <1>4 DEF ReadEnv, GoTo, Exit, Hold, TypeOK
    <3> QED
      BY <3>1, <3>2
  <2>2. \A q \in Procs \ {p} : pc'[q] = pc[q] /\ key'[q] = key[q]
    BY <1>4 DEF ReadEnv, GoTo, Exit, Hold, TypeOK
  <2>3. \/ pc' = [pc EXCEPT ![p] = "loaded"]
        \/ pc'[p] \in {"keyring", "files", "ended"}
    BY <1>4 DEF ReadEnv, GoTo, Exit, TypeOK
  <2> QED
    BY <2>1, <2>2, <2>3 DEF TypeOK, KeyHeld
<1>5. ASSUME NEW p \in Procs, ReadKeyring(p), UNCHANGED inv
      PROVE  KeyHeld'
  <2>1. pc' = [pc EXCEPT ![p] = "loaded"] => key'[p] \in Keys
    <3>1. KeyringKey(store) \in Keys \cup {Unset}
      BY KeyTypes DEF TypeOK
    <3>2. pc' = [pc EXCEPT ![p] = "loaded"] =>
            KeyringKey(store) # Unset /\ key'[p] = KeyringKey(store)
      BY <1>5 DEF ReadKeyring, GoTo, Exit, Hold, TypeOK
    <3> QED
      BY <3>1, <3>2
  <2>2. \A q \in Procs \ {p} : pc'[q] = pc[q] /\ key'[q] = key[q]
    BY <1>5 DEF ReadKeyring, GoTo, Exit, Hold, TypeOK
  <2>3. \/ pc' = [pc EXCEPT ![p] = "loaded"]
        \/ pc'[p] \in {"keyring", "files", "ended"}
    BY <1>5 DEF ReadKeyring, GoTo, Exit, TypeOK
  <2> QED
    BY <2>1, <2>2, <2>3 DEF TypeOK, KeyHeld
<1>6. ASSUME NEW p \in Procs, ReadFiles(p), UNCHANGED inv
      PROVE  KeyHeld'
  <2>1. pc' = [pc EXCEPT ![p] = "loaded"] => key'[p] \in Keys
    <3>1. FileKey(store) \in Keys \cup {Unset}
      BY KeyTypes DEF TypeOK
    <3>2. pc' = [pc EXCEPT ![p] = "loaded"] =>
            FileKey(store) # Unset /\ key'[p] = FileKey(store)
      BY <1>6 DEF ReadFiles, GoTo, Exit, Hold, TypeOK
    <3> QED
      BY <3>1, <3>2
  <2>2. \A q \in Procs \ {p} : pc'[q] = pc[q] /\ key'[q] = key[q]
    BY <1>6 DEF ReadFiles, GoTo, Exit, Hold, TypeOK
  <2>3. \/ pc' = [pc EXCEPT ![p] = "loaded"]
        \/ pc'[p] \in {"keyring", "files", "ended"}
    BY <1>6 DEF ReadFiles, GoTo, Exit, TypeOK
  <2> QED
    BY <2>1, <2>2, <2>3 DEF TypeOK, KeyHeld
<1>7. ASSUME NEW p \in Procs, Report(p), UNCHANGED inv
      PROVE  KeyHeld'
  BY <1>7 DEF Report, GoTo, Exit, Hold, TypeOK, CmdInv, KeyHeld, AfterDotEnv,
     Commands
<1>8. ASSUME NEW p \in Procs, AskKey(p), UNCHANGED inv
      PROVE  KeyHeld'
  BY <1>8 DEF AskKey, GoTo, Exit, Hold, TypeOK, CmdInv, KeyHeld, AfterDotEnv,
     Commands
<1>9. ASSUME NEW p \in Procs, Rejected(p), UNCHANGED inv
      PROVE  KeyHeld'
  BY <1>9 DEF Rejected, GoTo, Exit, Hold, TypeOK, CmdInv, KeyHeld,
     AfterDotEnv, Commands
<1>10. ASSUME NEW p \in Procs, StoreKey(p), UNCHANGED inv
      PROVE  KeyHeld'
  BY <1>10 DEF StoreKey, GoTo, Exit, Hold, TypeOK, CmdInv, KeyHeld,
     AfterDotEnv, Commands
<1>11. ASSUME NEW p \in Procs, Warn(p), UNCHANGED inv
      PROVE  KeyHeld'
  BY <1>11 DEF Warn, GoTo, Exit, Hold, TypeOK, CmdInv, KeyHeld, AfterDotEnv,
     Commands
<1>12. ASSUME NEW p \in Procs, DeleteKey(p), UNCHANGED inv
      PROVE  KeyHeld'
  BY <1>12 DEF DeleteKey, GoTo, Exit, Hold, TypeOK, CmdInv, KeyHeld,
     AfterDotEnv, Commands
<1>13. ASSUME NEW p \in Procs, ParseFlags(p)
      PROVE  KeyHeld'
  BY <1>13 DEF ParseFlags, GoTo, Exit, Hold, TypeOK, CmdInv, KeyHeld,
     AfterDotEnv, Commands
<1>14. ASSUME NEW p \in Procs, Bind(p)
      PROVE  KeyHeld'
  BY <1>14 DEF Bind, GoTo, Exit, Hold, TypeOK, CmdInv, KeyHeld, AfterDotEnv,
     Commands
<1>15. ASSUME NEW p \in Procs, Listen(p)
      PROVE  KeyHeld'
  BY <1>15 DEF Listen, GoTo, Exit, Hold, TypeOK, CmdInv, KeyHeld, AfterDotEnv,
     Commands
<1>16. ASSUME Edit, UNCHANGED inv
      PROVE  KeyHeld'
  BY <1>16 DEF Edit, Write, GoTo, Exit, Hold, TypeOK, CmdInv, KeyHeld,
     AfterDotEnv, Commands
<1>17. CASE UNCHANGED vars
  BY <1>17 DEF vars, keyVars, GoTo, Exit, Hold, TypeOK, CmdInv, KeyHeld,
     AfterDotEnv, Commands
<1> QED
  BY <1>1, <1>2, <1>3, <1>4, <1>5, <1>6, <1>7, <1>8, <1>9, <1>10, <1>11,
     <1>12, <1>13, <1>14, <1>15, <1>16, <1>17 DEF Next, KeyStep


\* The types.
LEMMA TypeStep ==
    ASSUME TypeOK, CmdInv, [Next]_vars
    PROVE  TypeOK'
<1>1. ASSUME NEW p \in Procs, NEW c \in {"serve", "status", "set", "delete"},
             Exec(p, c), UNCHANGED inv
      PROVE  TypeOK'
  <2>1. pc' \in [Procs -> Stages] /\ code' \in [Procs -> {-1, 0, 1, 2}]
    BY <1>1 DEF Exec, GoTo, Exit, TypeOK, Stages
  <2>2. cmd' \in [Procs -> Commands] /\ env' \in [Procs -> [Vars -> Value]]
         /\ saw' \in [Procs -> Store]
    BY <1>1 DEF Exec, TypeOK, Commands, Store
  <2> QED
    BY <1>1, <2>1, <2>2, HeldStep DEF Exec, TypeOK
<1>2. ASSUME NEW p \in Procs, ReadDotEnv(p), UNCHANGED inv
      PROVE  TypeOK'
  <2>1. pc' \in [Procs -> Stages] /\ code' \in [Procs -> {-1, 0, 1, 2}]
    BY <1>2 DEF ReadDotEnv, GoTo, Exit, TypeOK, Stages, AfterDotEnv, Commands,
       CmdInv
  <2>2. cmd' \in [Procs -> Commands] /\ env' \in [Procs -> [Vars -> Value]]
         /\ saw' \in [Procs -> Store]
    BY <1>2, EnvType, store.dotenv \in [Vars -> Value] DEF ReadDotEnv, TypeOK,
       Commands, Store, Store
  <2> QED
    BY <1>2, <2>1, <2>2, HeldStep DEF ReadDotEnv, TypeOK
<1>3. ASSUME NEW p \in Procs, Refuse(p), UNCHANGED inv
      PROVE  TypeOK'
  <2>1. pc' \in [Procs -> Stages] /\ code' \in [Procs -> {-1, 0, 1, 2}]
    BY <1>3 DEF Refuse, GoTo, Exit, TypeOK, Stages
  <2> QED
    BY <1>3, <2>1, HeldStep DEF Refuse, TypeOK
<1>4. ASSUME NEW p \in Procs, ReadEnv(p), UNCHANGED inv
      PROVE  TypeOK'
  <2>1. pc' \in [Procs -> Stages] /\ code' \in [Procs -> {-1, 0, 1, 2}]
    BY <1>4 DEF ReadEnv, GoTo, Exit, TypeOK, Stages
  <2>2. key' \in [Procs -> Value] /\ src' \in [Procs -> Sources]
    BY <1>4, KeyTypes DEF ReadEnv, Hold, TypeOK, Value, Sources
  <2> QED
    BY <1>4, <2>1, <2>2, HeldStep DEF ReadEnv, TypeOK
<1>5. ASSUME NEW p \in Procs, ReadKeyring(p), UNCHANGED inv
      PROVE  TypeOK'
  <2>1. pc' \in [Procs -> Stages] /\ code' \in [Procs -> {-1, 0, 1, 2}]
    BY <1>5 DEF ReadKeyring, GoTo, Exit, TypeOK, Stages
  <2>2. key' \in [Procs -> Value] /\ src' \in [Procs -> Sources]
    BY <1>5, KeyTypes DEF ReadKeyring, Hold, TypeOK, Value, Sources
  <2> QED
    BY <1>5, <2>1, <2>2, HeldStep DEF ReadKeyring, TypeOK
<1>6. ASSUME NEW p \in Procs, ReadFiles(p), UNCHANGED inv
      PROVE  TypeOK'
  <2>1. pc' \in [Procs -> Stages] /\ code' \in [Procs -> {-1, 0, 1, 2}]
    BY <1>6 DEF ReadFiles, GoTo, Exit, TypeOK, Stages
  <2>2. key' \in [Procs -> Value] /\ src' \in [Procs -> Sources]
    BY <1>6, KeyTypes DEF ReadFiles, Hold, TypeOK, Value, Sources
  <2> QED
    BY <1>6, <2>1, <2>2, HeldStep DEF ReadFiles, TypeOK
<1>7. ASSUME NEW p \in Procs, Report(p), UNCHANGED inv
      PROVE  TypeOK'
  <2>1. pc' \in [Procs -> Stages] /\ code' \in [Procs -> {-1, 0, 1, 2}]
    BY <1>7 DEF Report, GoTo, Exit, TypeOK, Stages
  <2> QED
    BY <1>7, <2>1, HeldStep DEF Report, TypeOK
<1>8. ASSUME NEW p \in Procs, AskKey(p), UNCHANGED inv
      PROVE  TypeOK'
  <2>1. pc' \in [Procs -> Stages] /\ code' \in [Procs -> {-1, 0, 1, 2}]
    BY <1>8 DEF AskKey, GoTo, Exit, TypeOK, Stages
  <2>2. key' \in [Procs -> Value] /\ src' \in [Procs -> Sources]
    <3>1. ASSUME NEW k \in Keys \cup {Blank}, Hold(p, k, "user")
          PROVE  key' \in [Procs -> Value] /\ src' \in [Procs -> Sources]
      BY <3>1 DEF Hold, TypeOK, Value, Sources
    <3>2. CASE UNCHANGED <<key, src>>
      BY <3>2 DEF TypeOK
    <3> QED
      BY <1>8, <3>1, <3>2 DEF AskKey
  <2> QED
    BY <1>8, <2>1, <2>2, HeldStep DEF AskKey, TypeOK
<1>9. ASSUME NEW p \in Procs, Rejected(p), UNCHANGED inv
      PROVE  TypeOK'
  <2>1. pc' \in [Procs -> Stages] /\ code' \in [Procs -> {-1, 0, 1, 2}]
    BY <1>9 DEF Rejected, GoTo, Exit, TypeOK, Stages
  <2> QED
    BY <1>9, <2>1, HeldStep DEF Rejected, TypeOK
<1>10. ASSUME NEW p \in Procs, StoreKey(p), UNCHANGED inv
      PROVE  TypeOK'
  <2>1. pc' \in [Procs -> Stages] /\ code' \in [Procs -> {-1, 0, 1, 2}]
    BY <1>10 DEF StoreKey, GoTo, Exit, TypeOK, Stages
  <2>2. store' \in Store /\ steady' \subseteq Procs
    BY <1>10 DEF StoreKey, Write, TypeOK, Store, Value
  <2> QED
    BY <1>10, <2>1, <2>2, HeldStep DEF StoreKey, TypeOK
<1>11. ASSUME NEW p \in Procs, Warn(p), UNCHANGED inv
      PROVE  TypeOK'
  <2>1. pc' \in [Procs -> Stages] /\ code' \in [Procs -> {-1, 0, 1, 2}]
    BY <1>11 DEF Warn, GoTo, Exit, TypeOK, Stages
  <2>2. warned' \subseteq Procs
    BY <1>11 DEF Warn, TypeOK
  <2> QED
    BY <1>11, <2>1, <2>2, HeldStep DEF Warn, TypeOK
<1>12. ASSUME NEW p \in Procs, DeleteKey(p), UNCHANGED inv
      PROVE  TypeOK'
  <2>1. pc' \in [Procs -> Stages] /\ code' \in [Procs -> {-1, 0, 1, 2}]
    BY <1>12 DEF DeleteKey, GoTo, Exit, TypeOK, Stages
  <2>2. store' \in Store /\ steady' \subseteq Procs
    BY <1>12 DEF DeleteKey, Write, TypeOK, Store, Value
  <2> QED
    BY <1>12, <2>1, <2>2, HeldStep DEF DeleteKey, TypeOK
<1>13. ASSUME NEW p \in Procs, ParseFlags(p)
      PROVE  TypeOK'
  <2>1. pc' \in [Procs -> Stages] /\ code' \in [Procs -> {-1, 0, 1, 2}]
    BY <1>13 DEF ParseFlags, GoTo, Exit, TypeOK, Stages
  <2>2. inv' \in [Procs -> Invocations \cup {NoInvocation}]
    BY <1>13 DEF ParseFlags, TypeOK
  <2> QED
    BY <1>13, <2>1, <2>2, HeldStep DEF ParseFlags, TypeOK
<1>14. ASSUME NEW p \in Procs, Bind(p)
      PROVE  TypeOK'
  <2>1. pc' \in [Procs -> Stages] /\ code' \in [Procs -> {-1, 0, 1, 2}]
    BY <1>14 DEF Bind, GoTo, Exit, TypeOK, Stages
  <2> QED
    BY <1>14, <2>1, HeldStep DEF Bind, TypeOK
<1>15. ASSUME NEW p \in Procs, Listen(p)
      PROVE  TypeOK'
  <2>1. pc' \in [Procs -> Stages] /\ code' \in [Procs -> {-1, 0, 1, 2}]
    BY <1>15 DEF Listen, GoTo, Exit, TypeOK, Stages
  <2> QED
    BY <1>15, <2>1, HeldStep DEF Listen, TypeOK
<1>16. ASSUME Edit, UNCHANGED inv
      PROVE  TypeOK'
  <2>1. store' \in Store /\ steady' \subseteq Procs /\ edits' \in 0..MaxEdits
    BY <1>16, EditedIsStore, KeysAssumption DEF Edit, Write, TypeOK
  <2> QED
    BY <1>16, <2>1, HeldStep DEF Edit, TypeOK
<1>17. CASE UNCHANGED vars
  BY <1>17, HeldStep DEF vars, keyVars, TypeOK
<1> QED
  BY <1>1, <1>2, <1>3, <1>4, <1>5, <1>6, <1>7, <1>8, <1>9, <1>10, <1>11,
     <1>12, <1>13, <1>14, <1>15, <1>16, <1>17 DEF Next, KeyStep


\* A process runs one command, from its start.
LEMMA CmdStep ==
    ASSUME TypeOK, CmdInv, [Next]_vars
    PROVE  CmdInv'
<1>1. ASSUME NEW p \in Procs, NEW c \in {"serve", "status", "set", "delete"},
             Exec(p, c), UNCHANGED inv
      PROVE  CmdInv'
  BY <1>1, KeysAssumption DEF Exec, GoTo, Exit, CmdInv, TypeOK, Commands,
     AfterDotEnv, Hold
<1>2. ASSUME NEW p \in Procs, ReadDotEnv(p), UNCHANGED inv
      PROVE  CmdInv'
  BY <1>2, KeysAssumption DEF ReadDotEnv, GoTo, Exit, CmdInv, TypeOK,
     Commands, AfterDotEnv, Hold
<1>3. ASSUME NEW p \in Procs, Refuse(p), UNCHANGED inv
      PROVE  CmdInv'
  BY <1>3, KeysAssumption DEF Refuse, GoTo, Exit, CmdInv, TypeOK, Commands,
     AfterDotEnv, Hold
<1>4. ASSUME NEW p \in Procs, ReadEnv(p), UNCHANGED inv
      PROVE  CmdInv'
  BY <1>4, KeysAssumption DEF ReadEnv, GoTo, Exit, CmdInv, TypeOK, Commands,
     AfterDotEnv, Hold
<1>5. ASSUME NEW p \in Procs, ReadKeyring(p), UNCHANGED inv
      PROVE  CmdInv'
  BY <1>5, KeysAssumption DEF ReadKeyring, GoTo, Exit, CmdInv, TypeOK,
     Commands, AfterDotEnv, Hold
<1>6. ASSUME NEW p \in Procs, ReadFiles(p), UNCHANGED inv
      PROVE  CmdInv'
  BY <1>6, KeysAssumption DEF ReadFiles, GoTo, Exit, CmdInv, TypeOK, Commands,
     AfterDotEnv, Hold
<1>7. ASSUME NEW p \in Procs, Report(p), UNCHANGED inv
      PROVE  CmdInv'
  BY <1>7, KeysAssumption DEF Report, GoTo, Exit, CmdInv, TypeOK, Commands,
     AfterDotEnv, Hold
<1>8. ASSUME NEW p \in Procs, AskKey(p), UNCHANGED inv
      PROVE  CmdInv'
  BY <1>8, KeysAssumption DEF AskKey, GoTo, Exit, CmdInv, TypeOK, Commands,
     AfterDotEnv, Hold
<1>9. ASSUME NEW p \in Procs, Rejected(p), UNCHANGED inv
      PROVE  CmdInv'
  BY <1>9, KeysAssumption DEF Rejected, GoTo, Exit, CmdInv, TypeOK, Commands,
     AfterDotEnv, Hold
<1>10. ASSUME NEW p \in Procs, StoreKey(p), UNCHANGED inv
      PROVE  CmdInv'
  BY <1>10, KeysAssumption DEF StoreKey, GoTo, Exit, CmdInv, TypeOK, Commands,
     AfterDotEnv, Hold
<1>11. ASSUME NEW p \in Procs, Warn(p), UNCHANGED inv
      PROVE  CmdInv'
  BY <1>11, KeysAssumption DEF Warn, GoTo, Exit, CmdInv, TypeOK, Commands,
     AfterDotEnv, Hold
<1>12. ASSUME NEW p \in Procs, DeleteKey(p), UNCHANGED inv
      PROVE  CmdInv'
  BY <1>12, KeysAssumption DEF DeleteKey, GoTo, Exit, CmdInv, TypeOK,
     Commands, AfterDotEnv, Hold
<1>13. ASSUME NEW p \in Procs, ParseFlags(p)
      PROVE  CmdInv'
  BY <1>13, KeysAssumption DEF ParseFlags, GoTo, Exit, CmdInv, TypeOK,
     Commands, AfterDotEnv, Hold
<1>14. ASSUME NEW p \in Procs, Bind(p)
      PROVE  CmdInv'
  BY <1>14, KeysAssumption DEF Bind, GoTo, Exit, CmdInv, TypeOK, Commands,
     AfterDotEnv, Hold
<1>15. ASSUME NEW p \in Procs, Listen(p)
      PROVE  CmdInv'
  BY <1>15, KeysAssumption DEF Listen, GoTo, Exit, CmdInv, TypeOK, Commands,
     AfterDotEnv, Hold
<1>16. ASSUME Edit, UNCHANGED inv
      PROVE  CmdInv'
  BY <1>16, KeysAssumption DEF Edit, Write, GoTo, Exit, CmdInv, TypeOK,
     Commands, AfterDotEnv, Hold
<1>17. CASE UNCHANGED vars
  BY <1>17, KeysAssumption DEF vars, keyVars, GoTo, Exit, CmdInv, TypeOK,
     Commands, AfterDotEnv, Hold
<1> QED
  BY <1>1, <1>2, <1>3, <1>4, <1>5, <1>6, <1>7, <1>8, <1>9, <1>10, <1>11,
     <1>12, <1>13, <1>14, <1>15, <1>16, <1>17 DEF Next, KeyStep


\* While a process is steady the store is what it saw.
LEMMA SteadyStep ==
    ASSUME TypeOK, CmdInv, SteadyInv, [Next]_vars
    PROVE  SteadyInv'
<1>1. ASSUME NEW p \in Procs, NEW c \in {"serve", "status", "set", "delete"},
             Exec(p, c), UNCHANGED inv
      PROVE  SteadyInv'
  BY <1>1 DEF Exec, GoTo, Exit, Hold, Write, TypeOK, CmdInv, SteadyInv,
     Running, AfterDotEnv, Commands
<1>2. ASSUME NEW p \in Procs, ReadDotEnv(p), UNCHANGED inv
      PROVE  SteadyInv'
  BY <1>2 DEF ReadDotEnv, GoTo, Exit, Hold, Write, TypeOK, CmdInv, SteadyInv,
     Running, AfterDotEnv, Commands
<1>3. ASSUME NEW p \in Procs, Refuse(p), UNCHANGED inv
      PROVE  SteadyInv'
  BY <1>3 DEF Refuse, GoTo, Exit, Hold, Write, TypeOK, CmdInv, SteadyInv,
     Running, AfterDotEnv, Commands
<1>4. ASSUME NEW p \in Procs, ReadEnv(p), UNCHANGED inv
      PROVE  SteadyInv'
  BY <1>4 DEF ReadEnv, GoTo, Exit, Hold, Write, TypeOK, CmdInv, SteadyInv,
     Running, AfterDotEnv, Commands
<1>5. ASSUME NEW p \in Procs, ReadKeyring(p), UNCHANGED inv
      PROVE  SteadyInv'
  BY <1>5 DEF ReadKeyring, GoTo, Exit, Hold, Write, TypeOK, CmdInv, SteadyInv,
     Running, AfterDotEnv, Commands
<1>6. ASSUME NEW p \in Procs, ReadFiles(p), UNCHANGED inv
      PROVE  SteadyInv'
  BY <1>6 DEF ReadFiles, GoTo, Exit, Hold, Write, TypeOK, CmdInv, SteadyInv,
     Running, AfterDotEnv, Commands
<1>7. ASSUME NEW p \in Procs, Report(p), UNCHANGED inv
      PROVE  SteadyInv'
  BY <1>7 DEF Report, GoTo, Exit, Hold, Write, TypeOK, CmdInv, SteadyInv,
     Running, AfterDotEnv, Commands
<1>8. ASSUME NEW p \in Procs, AskKey(p), UNCHANGED inv
      PROVE  SteadyInv'
  BY <1>8 DEF AskKey, GoTo, Exit, Hold, Write, TypeOK, CmdInv, SteadyInv,
     Running, AfterDotEnv, Commands
<1>9. ASSUME NEW p \in Procs, Rejected(p), UNCHANGED inv
      PROVE  SteadyInv'
  BY <1>9 DEF Rejected, GoTo, Exit, Hold, Write, TypeOK, CmdInv, SteadyInv,
     Running, AfterDotEnv, Commands
<1>10. ASSUME NEW p \in Procs, StoreKey(p), UNCHANGED inv
      PROVE  SteadyInv'
  <2>1. CASE UNCHANGED <<store, steady>> /\ Exit(p, 1)
    BY <1>10, <2>1 DEF StoreKey, Exit, TypeOK, SteadyInv, Running
  <2>2. CASE /\ key[p] \in Keys /\ store.lock = "open"
             /\ Write({p}, [store EXCEPT !.keyring = key[p]]) /\ GoTo(p, "warn")
    <3>1. \A q \in steady' : q \in steady /\ q \in Procs /\ (q # p => ~Running(q))
      BY <2>2, WriteSteady DEF TypeOK
    <3>2. p \in steady' => store = saw[p]
      BY <1>10, <3>1 DEF StoreKey, SteadyInv, Running
    <3>3. store' = [store EXCEPT !.keyring = key[p]]
      BY <2>2, WriteSteady
    <3>4. pc' = [pc EXCEPT ![p] = "warn"] /\ UNCHANGED <<key, saw>>
      BY <1>10, <2>2 DEF StoreKey, GoTo
    <3>5. ASSUME NEW q \in steady', q # p
          PROVE  pc'[q] = pc[q] /\ pc'[q] \in {"ended", "serving"}
      BY <3>1, <3>4, <3>5 DEF Running, SteadyInv, TypeOK
    <3>6. p \in steady' => /\ pc'[p] = "warn" /\ store' = [saw'[p] EXCEPT !.keyring = key'[p]]
                            /\ saw'[p].lock = "open" /\ key'[p] \in Keys
      BY <2>2, <3>2, <3>3, <3>4 DEF TypeOK
    <3> QED
      BY <3>1, <3>5, <3>6 DEF SteadyInv, Running
  <2> QED
    BY <1>10, <2>1, <2>2 DEF StoreKey
<1>11. ASSUME NEW p \in Procs, Warn(p), UNCHANGED inv
      PROVE  SteadyInv'
  BY <1>11 DEF Warn, GoTo, Exit, Hold, Write, TypeOK, CmdInv, SteadyInv,
     Running, AfterDotEnv, Commands
<1>12. ASSUME NEW p \in Procs, DeleteKey(p), UNCHANGED inv
      PROVE  SteadyInv'
  <2>1. CASE UNCHANGED <<store, steady>> /\ Exit(p, 1)
    BY <1>12, <2>1 DEF DeleteKey, Exit, TypeOK, SteadyInv, Running
  <2>2. CASE Write({p}, [store EXCEPT !.keyring = Unset]) /\ Exit(p, 0)
    <3>1. \A q \in steady' : q \in steady /\ q \in Procs /\ (q # p => ~Running(q))
      BY <2>2, WriteSteady DEF TypeOK
    <3>2. pc' = [pc EXCEPT ![p] = "ended"]
      BY <2>2 DEF Exit
    <3>3. \A q \in steady' : pc'[q] \in {"ended", "serving"}
      BY <3>1, <3>2 DEF Running, SteadyInv, TypeOK
    <3> QED
      BY <3>3 DEF SteadyInv, Running
  <2> QED
    BY <1>12, <2>1, <2>2 DEF DeleteKey
<1>13. ASSUME NEW p \in Procs, ParseFlags(p)
      PROVE  SteadyInv'
  BY <1>13 DEF ParseFlags, GoTo, Exit, Hold, Write, TypeOK, CmdInv, SteadyInv,
     Running, AfterDotEnv, Commands
<1>14. ASSUME NEW p \in Procs, Bind(p)
      PROVE  SteadyInv'
  BY <1>14 DEF Bind, GoTo, Exit, Hold, Write, TypeOK, CmdInv, SteadyInv,
     Running, AfterDotEnv, Commands
<1>15. ASSUME NEW p \in Procs, Listen(p)
      PROVE  SteadyInv'
  BY <1>15 DEF Listen, GoTo, Exit, Hold, Write, TypeOK, CmdInv, SteadyInv,
     Running, AfterDotEnv, Commands
<1>16. ASSUME Edit, UNCHANGED inv
      PROVE  SteadyInv'
  BY <1>16 DEF Edit, Write, GoTo, Exit, Hold, Write, TypeOK, CmdInv,
     SteadyInv, Running, AfterDotEnv, Commands
<1>17. CASE UNCHANGED vars
  BY <1>17 DEF vars, keyVars, GoTo, Exit, Hold, Write, TypeOK, CmdInv,
     SteadyInv, Running, AfterDotEnv, Commands
<1> QED
  BY <1>1, <1>2, <1>3, <1>4, <1>5, <1>6, <1>7, <1>8, <1>9, <1>10, <1>11,
     <1>12, <1>13, <1>14, <1>15, <1>16, <1>17 DEF Next, KeyStep


\* A process keeps its environment.
LEMMA EnvStep ==
    ASSUME TypeOK, CmdInv, SteadyInv, EnvInv, [Next]_vars
    PROVE  EnvInv'
<1>1. ASSUME NEW p \in Procs, NEW c \in {"serve", "status", "set", "delete"},
             Exec(p, c), UNCHANGED inv
      PROVE  EnvInv'
  BY <1>1 DEF Exec, GoTo, Exit, Hold, Write, TypeOK, CmdInv, SteadyInv,
     EnvInv, FullEnv, Running, AfterDotEnv, Commands
<1>2. ASSUME NEW p \in Procs, ReadDotEnv(p), UNCHANGED inv
      PROVE  EnvInv'
  BY <1>2 DEF ReadDotEnv, GoTo, Exit, Hold, Write, TypeOK, CmdInv, SteadyInv,
     EnvInv, FullEnv, Running, AfterDotEnv, Commands
<1>3. ASSUME NEW p \in Procs, Refuse(p), UNCHANGED inv
      PROVE  EnvInv'
  BY <1>3 DEF Refuse, GoTo, Exit, Hold, Write, TypeOK, CmdInv, SteadyInv,
     EnvInv, FullEnv, Running, AfterDotEnv, Commands
<1>4. ASSUME NEW p \in Procs, ReadEnv(p), UNCHANGED inv
      PROVE  EnvInv'
  BY <1>4 DEF ReadEnv, GoTo, Exit, Hold, Write, TypeOK, CmdInv, SteadyInv,
     EnvInv, FullEnv, Running, AfterDotEnv, Commands
<1>5. ASSUME NEW p \in Procs, ReadKeyring(p), UNCHANGED inv
      PROVE  EnvInv'
  BY <1>5 DEF ReadKeyring, GoTo, Exit, Hold, Write, TypeOK, CmdInv, SteadyInv,
     EnvInv, FullEnv, Running, AfterDotEnv, Commands
<1>6. ASSUME NEW p \in Procs, ReadFiles(p), UNCHANGED inv
      PROVE  EnvInv'
  BY <1>6 DEF ReadFiles, GoTo, Exit, Hold, Write, TypeOK, CmdInv, SteadyInv,
     EnvInv, FullEnv, Running, AfterDotEnv, Commands
<1>7. ASSUME NEW p \in Procs, Report(p), UNCHANGED inv
      PROVE  EnvInv'
  BY <1>7 DEF Report, GoTo, Exit, Hold, Write, TypeOK, CmdInv, SteadyInv,
     EnvInv, FullEnv, Running, AfterDotEnv, Commands
<1>8. ASSUME NEW p \in Procs, AskKey(p), UNCHANGED inv
      PROVE  EnvInv'
  BY <1>8 DEF AskKey, GoTo, Exit, Hold, Write, TypeOK, CmdInv, SteadyInv,
     EnvInv, FullEnv, Running, AfterDotEnv, Commands
<1>9. ASSUME NEW p \in Procs, Rejected(p), UNCHANGED inv
      PROVE  EnvInv'
  BY <1>9 DEF Rejected, GoTo, Exit, Hold, Write, TypeOK, CmdInv, SteadyInv,
     EnvInv, FullEnv, Running, AfterDotEnv, Commands
<1>10. ASSUME NEW p \in Procs, StoreKey(p), UNCHANGED inv
      PROVE  EnvInv'
  BY <1>10 DEF StoreKey, GoTo, Exit, Hold, Write, TypeOK, CmdInv, SteadyInv,
     EnvInv, FullEnv, Running, AfterDotEnv, Commands
<1>11. ASSUME NEW p \in Procs, Warn(p), UNCHANGED inv
      PROVE  EnvInv'
  BY <1>11 DEF Warn, GoTo, Exit, Hold, Write, TypeOK, CmdInv, SteadyInv,
     EnvInv, FullEnv, Running, AfterDotEnv, Commands
<1>12. ASSUME NEW p \in Procs, DeleteKey(p), UNCHANGED inv
      PROVE  EnvInv'
  BY <1>12 DEF DeleteKey, GoTo, Exit, Hold, Write, TypeOK, CmdInv, SteadyInv,
     EnvInv, FullEnv, Running, AfterDotEnv, Commands
<1>13. ASSUME NEW p \in Procs, ParseFlags(p)
      PROVE  EnvInv'
  BY <1>13 DEF ParseFlags, GoTo, Exit, Hold, Write, TypeOK, CmdInv, SteadyInv,
     EnvInv, FullEnv, Running, AfterDotEnv, Commands
<1>14. ASSUME NEW p \in Procs, Bind(p)
      PROVE  EnvInv'
  BY <1>14 DEF Bind, GoTo, Exit, Hold, Write, TypeOK, CmdInv, SteadyInv,
     EnvInv, FullEnv, Running, AfterDotEnv, Commands
<1>15. ASSUME NEW p \in Procs, Listen(p)
      PROVE  EnvInv'
  BY <1>15 DEF Listen, GoTo, Exit, Hold, Write, TypeOK, CmdInv, SteadyInv,
     EnvInv, FullEnv, Running, AfterDotEnv, Commands
<1>16. ASSUME Edit, UNCHANGED inv
      PROVE  EnvInv'
  BY <1>16 DEF Edit, Write, GoTo, Exit, Hold, Write, TypeOK, CmdInv,
     SteadyInv, EnvInv, FullEnv, Running, AfterDotEnv, Commands
<1>17. CASE UNCHANGED vars
  BY <1>17 DEF vars, keyVars, GoTo, Exit, Hold, Write, TypeOK, CmdInv,
     SteadyInv, EnvInv, FullEnv, Running, AfterDotEnv, Commands
<1> QED
  BY <1>1, <1>2, <1>3, <1>4, <1>5, <1>6, <1>7, <1>8, <1>9, <1>10, <1>11,
     <1>12, <1>13, <1>14, <1>15, <1>16, <1>17 DEF Next, KeyStep


\* The sources a process has read had nothing.
LEMMA ReadStep ==
    ASSUME TypeOK, CmdInv, SteadyInv, ReadInv, [Next]_vars
    PROVE  ReadInv'
<1>1. ASSUME NEW p \in Procs, NEW c \in {"serve", "status", "set", "delete"},
             Exec(p, c), UNCHANGED inv
      PROVE  ReadInv'
  BY <1>1 DEF Exec, GoTo, Exit, Hold, Write, TypeOK, CmdInv, SteadyInv,
     ReadInv, Running, AfterDotEnv, Commands
<1>2. ASSUME NEW p \in Procs, ReadDotEnv(p), UNCHANGED inv
      PROVE  ReadInv'
  BY <1>2 DEF ReadDotEnv, GoTo, Exit, Hold, Write, TypeOK, CmdInv, SteadyInv,
     ReadInv, Running, AfterDotEnv, Commands
<1>3. ASSUME NEW p \in Procs, Refuse(p), UNCHANGED inv
      PROVE  ReadInv'
  BY <1>3 DEF Refuse, GoTo, Exit, Hold, Write, TypeOK, CmdInv, SteadyInv,
     ReadInv, Running, AfterDotEnv, Commands
<1>4. ASSUME NEW p \in Procs, ReadEnv(p), UNCHANGED inv
      PROVE  ReadInv'
  BY <1>4 DEF ReadEnv, GoTo, Exit, Hold, Write, TypeOK, CmdInv, SteadyInv,
     ReadInv, Running, AfterDotEnv, Commands
<1>5. ASSUME NEW p \in Procs, ReadKeyring(p), UNCHANGED inv
      PROVE  ReadInv'
  <2>1. p \in steady => store = saw[p]
    BY <1>5 DEF ReadKeyring, SteadyInv, Running
  <2>2. pc[p] = "keyring" /\ EnvKey(env[p]) = Unset /\ UNCHANGED <<env, saw, steady>>
    BY <1>5 DEF ReadKeyring, ReadInv
  <2>3. \/ pc' = [pc EXCEPT ![p] = "loaded"] /\ Hold(p, KeyringKey(store), "os keyring")
        \/ /\ pc' = [pc EXCEPT ![p] = "files"] /\ UNCHANGED <<key, src>>
           /\ KeyringKey(store) = Unset
    BY <1>5 DEF ReadKeyring, GoTo
  <2> QED
    BY <2>1, <2>2, <2>3 DEF Hold, ReadInv, TypeOK
<1>6. ASSUME NEW p \in Procs, ReadFiles(p), UNCHANGED inv
      PROVE  ReadInv'
  <2>1. UNCHANGED <<env, saw, steady>>
    BY <1>6 DEF ReadFiles
  <2>2. /\ pc' \in [Procs -> Stages] /\ pc'[p] \in {"loaded", "ended"}
        /\ \A q \in Procs \ {p} : pc'[q] = pc[q] /\ key'[q] = key[q] /\ src'[q] = src[q]
    BY <1>6 DEF ReadFiles, GoTo, Exit, Hold, TypeOK, Stages
  <2> QED
    BY <2>1, <2>2 DEF ReadInv, TypeOK
<1>7. ASSUME NEW p \in Procs, Report(p), UNCHANGED inv
      PROVE  ReadInv'
  BY <1>7 DEF Report, GoTo, Exit, Hold, Write, TypeOK, CmdInv, SteadyInv,
     ReadInv, Running, AfterDotEnv, Commands
<1>8. ASSUME NEW p \in Procs, AskKey(p), UNCHANGED inv
      PROVE  ReadInv'
  BY <1>8 DEF AskKey, GoTo, Exit, Hold, Write, TypeOK, CmdInv, SteadyInv,
     ReadInv, Running, AfterDotEnv, Commands
<1>9. ASSUME NEW p \in Procs, Rejected(p), UNCHANGED inv
      PROVE  ReadInv'
  BY <1>9 DEF Rejected, GoTo, Exit, Hold, Write, TypeOK, CmdInv, SteadyInv,
     ReadInv, Running, AfterDotEnv, Commands
<1>10. ASSUME NEW p \in Procs, StoreKey(p), UNCHANGED inv
      PROVE  ReadInv'
  BY <1>10 DEF StoreKey, GoTo, Exit, Hold, Write, TypeOK, CmdInv, SteadyInv,
     ReadInv, Running, AfterDotEnv, Commands
<1>11. ASSUME NEW p \in Procs, Warn(p), UNCHANGED inv
      PROVE  ReadInv'
  BY <1>11 DEF Warn, GoTo, Exit, Hold, Write, TypeOK, CmdInv, SteadyInv,
     ReadInv, Running, AfterDotEnv, Commands
<1>12. ASSUME NEW p \in Procs, DeleteKey(p), UNCHANGED inv
      PROVE  ReadInv'
  BY <1>12 DEF DeleteKey, GoTo, Exit, Hold, Write, TypeOK, CmdInv, SteadyInv,
     ReadInv, Running, AfterDotEnv, Commands
<1>13. ASSUME NEW p \in Procs, ParseFlags(p)
      PROVE  ReadInv'
  BY <1>13 DEF ParseFlags, GoTo, Exit, Hold, Write, TypeOK, CmdInv, SteadyInv,
     ReadInv, Running, AfterDotEnv, Commands
<1>14. ASSUME NEW p \in Procs, Bind(p)
      PROVE  ReadInv'
  BY <1>14 DEF Bind, GoTo, Exit, Hold, Write, TypeOK, CmdInv, SteadyInv,
     ReadInv, Running, AfterDotEnv, Commands
<1>15. ASSUME NEW p \in Procs, Listen(p)
      PROVE  ReadInv'
  BY <1>15 DEF Listen, GoTo, Exit, Hold, Write, TypeOK, CmdInv, SteadyInv,
     ReadInv, Running, AfterDotEnv, Commands
<1>16. ASSUME Edit, UNCHANGED inv
      PROVE  ReadInv'
  BY <1>16 DEF Edit, Write, GoTo, Exit, Hold, Write, TypeOK, CmdInv,
     SteadyInv, ReadInv, Running, AfterDotEnv, Commands
<1>17. CASE UNCHANGED vars
  BY <1>17 DEF vars, keyVars, GoTo, Exit, Hold, Write, TypeOK, CmdInv,
     SteadyInv, ReadInv, Running, AfterDotEnv, Commands
<1> QED
  BY <1>1, <1>2, <1>3, <1>4, <1>5, <1>6, <1>7, <1>8, <1>9, <1>10, <1>11,
     <1>12, <1>13, <1>14, <1>15, <1>16, <1>17 DEF Next, KeyStep


\* A steady process holds the preferred key.
LEMMA LoadStep ==
    ASSUME TypeOK, CmdInv, SteadyInv, EnvInv, ReadInv, LoadInv, [Next]_vars
    PROVE  LoadInv'
<1>1. ASSUME NEW p \in Procs, NEW c \in {"serve", "status", "set", "delete"},
             Exec(p, c), UNCHANGED inv
      PROVE  LoadInv'
  BY <1>1 DEF Exec, GoTo, Exit, Hold, Write, TypeOK, CmdInv, LoadInv,
     AfterDotEnv, Commands
<1>2. ASSUME NEW p \in Procs, ReadDotEnv(p), UNCHANGED inv
      PROVE  LoadInv'
  BY <1>2 DEF ReadDotEnv, GoTo, Exit, Hold, Write, TypeOK, CmdInv, LoadInv,
     AfterDotEnv, Commands
<1>3. ASSUME NEW p \in Procs, Refuse(p), UNCHANGED inv
      PROVE  LoadInv'
  BY <1>3 DEF Refuse, GoTo, Exit, Hold, Write, TypeOK, CmdInv, LoadInv,
     AfterDotEnv, Commands
<1>4. ASSUME NEW p \in Procs, ReadEnv(p), UNCHANGED inv
      PROVE  LoadInv'
  <2>1. \A q \in steady' \ {p} : /\ q \in steady /\ pc'[q] = pc[q] /\ cmd'[q] = cmd[q]
                                /\ code'[q] = code[q] /\ key'[q] = key[q]
                                /\ src'[q] = src[q] /\ saw'[q] = saw[q]
    BY <1>4 DEF ReadEnv, GoTo, Exit, Hold, TypeOK
  <2>2. p \in steady' /\ pc'[p] # "keyring" =>
             key'[p] = Preferred(saw'[p])[1] /\ src'[p] = Preferred(saw'[p])[2]
    <3>1. pc'[p] # "keyring" => /\ EnvKey(env[p]) # Unset /\ key'[p] = EnvKey(env[p])
                               /\ src'[p] = "environment"
      BY <1>4 DEF ReadEnv, GoTo, Hold, TypeOK
    <3>2. p \in steady' => env[p] = FullEnv(saw[p]) /\ saw'[p] = saw[p]
      BY <1>4 DEF ReadEnv, EnvInv
    <3> QED
      BY <3>1, <3>2, PreferredIs
  <2>3. pc'[p] \in {"keyring", "loaded"}
    BY <1>4 DEF ReadEnv, GoTo, TypeOK
  <2> QED
    BY <2>1, <2>2, <2>3 DEF LoadInv, TypeOK
<1>5. ASSUME NEW p \in Procs, ReadKeyring(p), UNCHANGED inv
      PROVE  LoadInv'
  <2>1. \A q \in steady' \ {p} : /\ q \in steady /\ pc'[q] = pc[q] /\ cmd'[q] = cmd[q]
                                /\ code'[q] = code[q] /\ key'[q] = key[q]
                                /\ src'[q] = src[q] /\ saw'[q] = saw[q]
    BY <1>5 DEF ReadKeyring, GoTo, Exit, Hold, TypeOK
  <2>2. p \in steady' /\ pc'[p] # "files" =>
             key'[p] = Preferred(saw'[p])[1] /\ src'[p] = Preferred(saw'[p])[2]
    <3>1. p \in steady => store = saw[p] /\ env[p] = FullEnv(saw[p])
      BY <1>5 DEF ReadKeyring, SteadyInv, EnvInv, Running
    <3>2. pc'[p] # "files" => /\ KeyringKey(store) # Unset /\ key'[p] = KeyringKey(store)
                             /\ src'[p] = "os keyring"
      BY <1>5 DEF ReadKeyring, GoTo, Hold, TypeOK
    <3>3. EnvKey(env[p]) = Unset
      BY <1>5 DEF ReadKeyring, ReadInv
    <3>4. p \in steady' => p \in steady /\ saw'[p] = saw[p]
      BY <1>5 DEF ReadKeyring
    <3> QED
      BY <3>1, <3>2, <3>3, <3>4, PreferredIs
  <2>3. pc'[p] \in {"files", "loaded"}
    BY <1>5 DEF ReadKeyring, GoTo, TypeOK
  <2> QED
    BY <2>1, <2>2, <2>3 DEF LoadInv, TypeOK
<1>6. ASSUME NEW p \in Procs, ReadFiles(p), UNCHANGED inv
      PROVE  LoadInv'
  <2>1. \A q \in steady' \ {p} : /\ q \in steady /\ pc'[q] = pc[q] /\ cmd'[q] = cmd[q]
                                /\ code'[q] = code[q] /\ key'[q] = key[q]
                                /\ src'[q] = src[q] /\ saw'[q] = saw[q]
    BY <1>6 DEF ReadFiles, GoTo, Exit, Hold, TypeOK
  <2>2. p \in steady' => key'[p] = Preferred(saw'[p])[1] /\ src'[p] = Preferred(saw'[p])[2]
    <3>1. p \in steady => /\ store = saw[p] /\ env[p] = FullEnv(saw[p])
                         /\ KeyringKey(saw[p]) = Unset
      BY <1>6 DEF ReadFiles, SteadyInv, EnvInv, ReadInv, Running
    <3>2. EnvKey(env[p]) = Unset /\ key[p] = Unset /\ src[p] = "none"
      BY <1>6 DEF ReadFiles, ReadInv
    <3>3. \/ key'[p] = FileKey(store) /\ src'[p] = "config file" /\ FileKey(store) # Unset
          \/ key'[p] = key[p] /\ src'[p] = src[p] /\ FileKey(store) = Unset
      BY <1>6 DEF ReadFiles, Hold, TypeOK
    <3>4. p \in steady' => p \in steady /\ saw'[p] = saw[p]
      BY <1>6 DEF ReadFiles
    <3> QED
      BY <3>1, <3>2, <3>3, <3>4, PreferredIs
  <2> QED
    BY <2>1, <2>2 DEF LoadInv, TypeOK
<1>7. ASSUME NEW p \in Procs, Report(p), UNCHANGED inv
      PROVE  LoadInv'
  BY <1>7 DEF Report, GoTo, Exit, Hold, Write, TypeOK, CmdInv, LoadInv,
     AfterDotEnv, Commands
<1>8. ASSUME NEW p \in Procs, AskKey(p), UNCHANGED inv
      PROVE  LoadInv'
  BY <1>8 DEF AskKey, GoTo, Exit, Hold, Write, TypeOK, CmdInv, LoadInv,
     AfterDotEnv, Commands
<1>9. ASSUME NEW p \in Procs, Rejected(p), UNCHANGED inv
      PROVE  LoadInv'
  BY <1>9 DEF Rejected, GoTo, Exit, Hold, Write, TypeOK, CmdInv, LoadInv,
     AfterDotEnv, Commands
<1>10. ASSUME NEW p \in Procs, StoreKey(p), UNCHANGED inv
      PROVE  LoadInv'
  BY <1>10 DEF StoreKey, GoTo, Exit, Hold, Write, TypeOK, CmdInv, LoadInv,
     AfterDotEnv, Commands
<1>11. ASSUME NEW p \in Procs, Warn(p), UNCHANGED inv
      PROVE  LoadInv'
  BY <1>11 DEF Warn, GoTo, Exit, Hold, Write, TypeOK, CmdInv, LoadInv,
     AfterDotEnv, Commands
<1>12. ASSUME NEW p \in Procs, DeleteKey(p), UNCHANGED inv
      PROVE  LoadInv'
  BY <1>12 DEF DeleteKey, GoTo, Exit, Hold, Write, TypeOK, CmdInv, LoadInv,
     AfterDotEnv, Commands
<1>13. ASSUME NEW p \in Procs, ParseFlags(p)
      PROVE  LoadInv'
  BY <1>13 DEF ParseFlags, GoTo, Exit, Hold, Write, TypeOK, CmdInv, LoadInv,
     AfterDotEnv, Commands
<1>14. ASSUME NEW p \in Procs, Bind(p)
      PROVE  LoadInv'
  BY <1>14 DEF Bind, GoTo, Exit, Hold, Write, TypeOK, CmdInv, LoadInv,
     AfterDotEnv, Commands
<1>15. ASSUME NEW p \in Procs, Listen(p)
      PROVE  LoadInv'
  BY <1>15 DEF Listen, GoTo, Exit, Hold, Write, TypeOK, CmdInv, LoadInv,
     AfterDotEnv, Commands
<1>16. ASSUME Edit, UNCHANGED inv
      PROVE  LoadInv'
  BY <1>16 DEF Edit, Write, GoTo, Exit, Hold, Write, TypeOK, CmdInv, LoadInv,
     AfterDotEnv, Commands
<1>17. CASE UNCHANGED vars
  BY <1>17 DEF vars, keyVars, GoTo, Exit, Hold, Write, TypeOK, CmdInv,
     LoadInv, AfterDotEnv, Commands
<1> QED
  BY <1>1, <1>2, <1>3, <1>4, <1>5, <1>6, <1>7, <1>8, <1>9, <1>10, <1>11,
     <1>12, <1>13, <1>14, <1>15, <1>16, <1>17 DEF Next, KeyStep


\* What an auth set that ended well has done.
LEMMA SetStep ==
    ASSUME TypeOK, CmdInv, SteadyInv, EnvInv, SetInv, [Next]_vars
    PROVE  SetInv'
<1>1. ASSUME NEW p \in Procs, NEW c \in {"serve", "status", "set", "delete"},
             Exec(p, c), UNCHANGED inv
      PROVE  SetInv'
  BY <1>1 DEF Exec, GoTo, Exit, Hold, Write, TypeOK, CmdInv, SteadyInv,
     EnvInv, SetInv, Running, AfterDotEnv, Commands
<1>2. ASSUME NEW p \in Procs, ReadDotEnv(p), UNCHANGED inv
      PROVE  SetInv'
  BY <1>2 DEF ReadDotEnv, GoTo, Exit, Hold, Write, TypeOK, CmdInv, SteadyInv,
     EnvInv, SetInv, Running, AfterDotEnv, Commands
<1>3. ASSUME NEW p \in Procs, Refuse(p), UNCHANGED inv
      PROVE  SetInv'
  BY <1>3 DEF Refuse, GoTo, Exit, Hold, Write, TypeOK, CmdInv, SteadyInv,
     EnvInv, SetInv, Running, AfterDotEnv, Commands
<1>4. ASSUME NEW p \in Procs, ReadEnv(p), UNCHANGED inv
      PROVE  SetInv'
  BY <1>4 DEF ReadEnv, GoTo, Exit, Hold, Write, TypeOK, CmdInv, SteadyInv,
     EnvInv, SetInv, Running, AfterDotEnv, Commands
<1>5. ASSUME NEW p \in Procs, ReadKeyring(p), UNCHANGED inv
      PROVE  SetInv'
  BY <1>5 DEF ReadKeyring, GoTo, Exit, Hold, Write, TypeOK, CmdInv, SteadyInv,
     EnvInv, SetInv, Running, AfterDotEnv, Commands
<1>6. ASSUME NEW p \in Procs, ReadFiles(p), UNCHANGED inv
      PROVE  SetInv'
  <2>1. cmd[p] \in {"serve", "status"}
    BY <1>6 DEF ReadFiles, CmdInv
  <2>2. /\ UNCHANGED <<cmd, saw, steady, warned>>
        /\ \A q \in Procs \ {p} : pc'[q] = pc[q] /\ code'[q] = code[q] /\ key'[q] = key[q]
    BY <1>6 DEF ReadFiles, GoTo, Exit, Hold, TypeOK
  <2> QED
    BY <2>1, <2>2 DEF SetInv, TypeOK
<1>7. ASSUME NEW p \in Procs, Report(p), UNCHANGED inv
      PROVE  SetInv'
  BY <1>7 DEF Report, GoTo, Exit, Hold, Write, TypeOK, CmdInv, SteadyInv,
     EnvInv, SetInv, Running, AfterDotEnv, Commands
<1>8. ASSUME NEW p \in Procs, AskKey(p), UNCHANGED inv
      PROVE  SetInv'
  BY <1>8 DEF AskKey, GoTo, Exit, Hold, Write, TypeOK, CmdInv, SteadyInv,
     EnvInv, SetInv, Running, AfterDotEnv, Commands
<1>9. ASSUME NEW p \in Procs, Rejected(p), UNCHANGED inv
      PROVE  SetInv'
  BY <1>9 DEF Rejected, GoTo, Exit, Hold, Write, TypeOK, CmdInv, SteadyInv,
     EnvInv, SetInv, Running, AfterDotEnv, Commands
<1>10. ASSUME NEW p \in Procs, StoreKey(p), UNCHANGED inv
      PROVE  SetInv'
  BY <1>10 DEF StoreKey, GoTo, Exit, Hold, Write, TypeOK, CmdInv, SteadyInv,
     EnvInv, SetInv, Running, AfterDotEnv, Commands
<1>11. ASSUME NEW p \in Procs, Warn(p), UNCHANGED inv
      PROVE  SetInv'
  BY <1>11 DEF Warn, GoTo, Exit, Hold, Write, TypeOK, CmdInv, SteadyInv,
     EnvInv, SetInv, Running, AfterDotEnv, Commands
<1>12. ASSUME NEW p \in Procs, DeleteKey(p), UNCHANGED inv
      PROVE  SetInv'
  BY <1>12 DEF DeleteKey, GoTo, Exit, Hold, Write, TypeOK, CmdInv, SteadyInv,
     EnvInv, SetInv, Running, AfterDotEnv, Commands
<1>13. ASSUME NEW p \in Procs, ParseFlags(p)
      PROVE  SetInv'
  BY <1>13 DEF ParseFlags, GoTo, Exit, Hold, Write, TypeOK, CmdInv, SteadyInv,
     EnvInv, SetInv, Running, AfterDotEnv, Commands
<1>14. ASSUME NEW p \in Procs, Bind(p)
      PROVE  SetInv'
  BY <1>14 DEF Bind, GoTo, Exit, Hold, Write, TypeOK, CmdInv, SteadyInv,
     EnvInv, SetInv, Running, AfterDotEnv, Commands
<1>15. ASSUME NEW p \in Procs, Listen(p)
      PROVE  SetInv'
  BY <1>15 DEF Listen, GoTo, Exit, Hold, Write, TypeOK, CmdInv, SteadyInv,
     EnvInv, SetInv, Running, AfterDotEnv, Commands
<1>16. ASSUME Edit, UNCHANGED inv
      PROVE  SetInv'
  BY <1>16 DEF Edit, Write, GoTo, Exit, Hold, Write, TypeOK, CmdInv,
     SteadyInv, EnvInv, SetInv, Running, AfterDotEnv, Commands
<1>17. CASE UNCHANGED vars
  BY <1>17 DEF vars, keyVars, GoTo, Exit, Hold, Write, TypeOK, CmdInv,
     SteadyInv, EnvInv, SetInv, Running, AfterDotEnv, Commands
<1> QED
  BY <1>1, <1>2, <1>3, <1>4, <1>5, <1>6, <1>7, <1>8, <1>9, <1>10, <1>11,
     <1>12, <1>13, <1>14, <1>15, <1>16, <1>17 DEF Next, KeyStep


\* The lock was told of.
LEMMA LockStep ==
    ASSUME TypeOK, CmdInv, SteadyInv, EnvInv, ReadInv, LockInv, [Next]_vars
    PROVE  LockInv'
<1>1. ASSUME NEW p \in Procs, NEW c \in {"serve", "status", "set", "delete"},
             Exec(p, c), UNCHANGED inv
      PROVE  LockInv'
  BY <1>1 DEF Exec, GoTo, Exit, Hold, AfterDotEnv, Commands, TypeOK, CmdInv, LockInv,
     Resolved
<1>2. ASSUME NEW p \in Procs, ReadDotEnv(p), UNCHANGED inv
      PROVE  LockInv'
  BY <1>2 DEF ReadDotEnv, GoTo, Exit, Hold, AfterDotEnv, Commands, TypeOK, CmdInv, LockInv,
     Resolved
<1>3. ASSUME NEW p \in Procs, Refuse(p), UNCHANGED inv
      PROVE  LockInv'
  BY <1>3 DEF Refuse, GoTo, Exit, Hold, AfterDotEnv, Commands, TypeOK, CmdInv, LockInv,
     Resolved
<1>4. ASSUME NEW p \in Procs, ReadEnv(p), UNCHANGED inv
      PROVE  LockInv'
  BY <1>4 DEF ReadEnv, GoTo, Hold, TypeOK, EnvInv, LockInv, Resolved
<1>5. ASSUME NEW p \in Procs, ReadKeyring(p), UNCHANGED inv
      PROVE  LockInv'
  BY <1>5 DEF ReadKeyring, GoTo, Hold, Unavailable, TypeOK, SteadyInv, LockInv,
     Resolved, Running
<1>6. ASSUME NEW p \in Procs, ReadFiles(p), UNCHANGED inv
      PROVE  LockInv'
  <2>1. UNCHANGED <<steady, saw, warned>> /\ pc[p] = "files"
    BY <1>6 DEF ReadFiles
  <2>2. ASSUME NEW q \in Procs, q # p, Resolved(q)'
        PROVE  Resolved(q)
    BY <1>6, <2>2 DEF ReadFiles, GoTo, Exit, Hold, TypeOK, Resolved
  <2>3. ASSUME NEW q \in Procs, q # p
        PROVE  pc'[q] = pc[q]
    BY <1>6, <2>3 DEF ReadFiles, GoTo, Exit, TypeOK
  <2>4. ASSUME NEW q \in steady, pc'[q] = "files" \/ Resolved(q)'
        PROVE  pc[q] = "files" \/ Resolved(q)
    BY <2>1, <2>2, <2>3, <2>4 DEF TypeOK
  <2> QED
    BY <2>1, <2>4 DEF LockInv
<1>7. ASSUME NEW p \in Procs, Report(p), UNCHANGED inv
      PROVE  LockInv'
  BY <1>7 DEF Report, GoTo, Exit, Hold, AfterDotEnv, Commands, TypeOK, CmdInv, LockInv,
     Resolved
<1>8. ASSUME NEW p \in Procs, AskKey(p), UNCHANGED inv
      PROVE  LockInv'
  BY <1>8 DEF AskKey, GoTo, Exit, Hold, AfterDotEnv, Commands, TypeOK, CmdInv, LockInv,
     Resolved
<1>9. ASSUME NEW p \in Procs, Rejected(p), UNCHANGED inv
      PROVE  LockInv'
  BY <1>9 DEF Rejected, GoTo, Exit, Hold, AfterDotEnv, Commands, TypeOK, CmdInv, LockInv,
     Resolved
<1>10. ASSUME NEW p \in Procs, StoreKey(p), UNCHANGED inv
      PROVE  LockInv'
  BY <1>10 DEF StoreKey, GoTo, Exit, Write, TypeOK, CmdInv, LockInv, Resolved, Running
<1>11. ASSUME NEW p \in Procs, Warn(p), UNCHANGED inv
      PROVE  LockInv'
  BY <1>11 DEF Warn, GoTo, Exit, Hold, AfterDotEnv, Commands, TypeOK, CmdInv, LockInv,
     Resolved
<1>12. ASSUME NEW p \in Procs, DeleteKey(p), UNCHANGED inv
      PROVE  LockInv'
  BY <1>12 DEF DeleteKey, GoTo, Exit, Write, TypeOK, CmdInv, LockInv, Resolved, Running
<1>13. ASSUME NEW p \in Procs, ParseFlags(p)
      PROVE  LockInv'
  BY <1>13 DEF ParseFlags, GoTo, Exit, Hold, AfterDotEnv, Commands, TypeOK, CmdInv, LockInv,
     Resolved
<1>14. ASSUME NEW p \in Procs, Bind(p)
      PROVE  LockInv'
  BY <1>14 DEF Bind, GoTo, Exit, Hold, AfterDotEnv, Commands, TypeOK, CmdInv, LockInv,
     Resolved
<1>15. ASSUME NEW p \in Procs, Listen(p)
      PROVE  LockInv'
  BY <1>15 DEF Listen, GoTo, Exit, Hold, AfterDotEnv, Commands, TypeOK, CmdInv, LockInv,
     Resolved
<1>16. ASSUME Edit, UNCHANGED inv
      PROVE  LockInv'
  BY <1>16 DEF Edit, GoTo, Exit, Write, TypeOK, CmdInv, LockInv, Resolved, Running
<1>17. CASE UNCHANGED vars
  BY <1>17 DEF vars, keyVars, LockInv, Resolved
<1> QED
  BY <1>1, <1>2, <1>3, <1>4, <1>5, <1>6, <1>7, <1>8, <1>9, <1>10, <1>11,
     <1>12, <1>13, <1>14, <1>15, <1>16, <1>17 DEF Next, KeyStep


\* The bind policy was looked at.
LEMMA BindStep ==
    ASSUME TypeOK, CmdInv, BindInv, [Next]_vars
    PROVE  BindInv'
<1>1. ASSUME NEW p \in Procs, NEW c \in {"serve", "status", "set", "delete"},
             Exec(p, c), UNCHANGED inv
      PROVE  BindInv'
  BY <1>1 DEF Exec, GoTo, Exit, Hold, Write, TypeOK, CmdInv, BindInv,
     AfterDotEnv, Commands
<1>2. ASSUME NEW p \in Procs, ReadDotEnv(p), UNCHANGED inv
      PROVE  BindInv'
  BY <1>2 DEF ReadDotEnv, GoTo, Exit, Hold, Write, TypeOK, CmdInv, BindInv,
     AfterDotEnv, Commands
<1>3. ASSUME NEW p \in Procs, Refuse(p), UNCHANGED inv
      PROVE  BindInv'
  BY <1>3 DEF Refuse, GoTo, Exit, Hold, Write, TypeOK, CmdInv, BindInv,
     AfterDotEnv, Commands
<1>4. ASSUME NEW p \in Procs, ReadEnv(p), UNCHANGED inv
      PROVE  BindInv'
  BY <1>4 DEF ReadEnv, GoTo, Exit, Hold, Write, TypeOK, CmdInv, BindInv,
     AfterDotEnv, Commands
<1>5. ASSUME NEW p \in Procs, ReadKeyring(p), UNCHANGED inv
      PROVE  BindInv'
  BY <1>5 DEF ReadKeyring, GoTo, Exit, Hold, Write, TypeOK, CmdInv, BindInv,
     AfterDotEnv, Commands
<1>6. ASSUME NEW p \in Procs, ReadFiles(p), UNCHANGED inv
      PROVE  BindInv'
  BY <1>6 DEF ReadFiles, GoTo, Exit, Hold, Write, TypeOK, CmdInv, BindInv,
     AfterDotEnv, Commands
<1>7. ASSUME NEW p \in Procs, Report(p), UNCHANGED inv
      PROVE  BindInv'
  BY <1>7 DEF Report, GoTo, Exit, Hold, Write, TypeOK, CmdInv, BindInv,
     AfterDotEnv, Commands
<1>8. ASSUME NEW p \in Procs, AskKey(p), UNCHANGED inv
      PROVE  BindInv'
  BY <1>8 DEF AskKey, GoTo, Exit, Hold, Write, TypeOK, CmdInv, BindInv,
     AfterDotEnv, Commands
<1>9. ASSUME NEW p \in Procs, Rejected(p), UNCHANGED inv
      PROVE  BindInv'
  BY <1>9 DEF Rejected, GoTo, Exit, Hold, Write, TypeOK, CmdInv, BindInv,
     AfterDotEnv, Commands
<1>10. ASSUME NEW p \in Procs, StoreKey(p), UNCHANGED inv
      PROVE  BindInv'
  BY <1>10 DEF StoreKey, GoTo, Exit, Hold, Write, TypeOK, CmdInv, BindInv,
     AfterDotEnv, Commands
<1>11. ASSUME NEW p \in Procs, Warn(p), UNCHANGED inv
      PROVE  BindInv'
  BY <1>11 DEF Warn, GoTo, Exit, Hold, Write, TypeOK, CmdInv, BindInv,
     AfterDotEnv, Commands
<1>12. ASSUME NEW p \in Procs, DeleteKey(p), UNCHANGED inv
      PROVE  BindInv'
  BY <1>12 DEF DeleteKey, GoTo, Exit, Hold, Write, TypeOK, CmdInv, BindInv,
     AfterDotEnv, Commands
<1>13. ASSUME NEW p \in Procs, ParseFlags(p)
      PROVE  BindInv'
  BY <1>13 DEF ParseFlags, GoTo, Exit, Hold, Write, TypeOK, CmdInv, BindInv,
     AfterDotEnv, Commands
<1>14. ASSUME NEW p \in Procs, Bind(p)
      PROVE  BindInv'
  BY <1>14 DEF Bind, GoTo, Exit, Hold, Write, TypeOK, CmdInv, BindInv,
     AfterDotEnv, Commands
<1>15. ASSUME NEW p \in Procs, Listen(p)
      PROVE  BindInv'
  BY <1>15 DEF Listen, GoTo, Exit, Hold, Write, TypeOK, CmdInv, BindInv,
     AfterDotEnv, Commands
<1>16. ASSUME Edit, UNCHANGED inv
      PROVE  BindInv'
  BY <1>16 DEF Edit, Write, GoTo, Exit, Hold, Write, TypeOK, CmdInv, BindInv,
     AfterDotEnv, Commands
<1>17. CASE UNCHANGED vars
  BY <1>17 DEF vars, keyVars, GoTo, Exit, Hold, Write, TypeOK, CmdInv,
     BindInv, AfterDotEnv, Commands
<1> QED
  BY <1>1, <1>2, <1>3, <1>4, <1>5, <1>6, <1>7, <1>8, <1>9, <1>10, <1>11,
     <1>12, <1>13, <1>14, <1>15, <1>16, <1>17 DEF Next, KeyStep

\* The flags were looked at.
LEMMA FlagsStep ==
    ASSUME TypeOK, CmdInv, FlagsInv, [Next]_vars
    PROVE  FlagsInv'
<1>1. ASSUME NEW p \in Procs, NEW c \in {"serve", "status", "set", "delete"},
             Exec(p, c), UNCHANGED inv
      PROVE  FlagsInv'
  BY <1>1 DEF Exec, GoTo, Exit, Hold, Write, TypeOK, CmdInv, FlagsInv,
     AfterDotEnv, Commands
<1>2. ASSUME NEW p \in Procs, ReadDotEnv(p), UNCHANGED inv
      PROVE  FlagsInv'
  BY <1>2 DEF ReadDotEnv, GoTo, Exit, Hold, Write, TypeOK, CmdInv, FlagsInv,
     AfterDotEnv, Commands
<1>3. ASSUME NEW p \in Procs, Refuse(p), UNCHANGED inv
      PROVE  FlagsInv'
  BY <1>3 DEF Refuse, GoTo, Exit, Hold, Write, TypeOK, CmdInv, FlagsInv,
     AfterDotEnv, Commands
<1>4. ASSUME NEW p \in Procs, ReadEnv(p), UNCHANGED inv
      PROVE  FlagsInv'
  BY <1>4 DEF ReadEnv, GoTo, Exit, Hold, Write, TypeOK, CmdInv, FlagsInv,
     AfterDotEnv, Commands
<1>5. ASSUME NEW p \in Procs, ReadKeyring(p), UNCHANGED inv
      PROVE  FlagsInv'
  BY <1>5 DEF ReadKeyring, GoTo, Exit, Hold, Write, TypeOK, CmdInv, FlagsInv,
     AfterDotEnv, Commands
<1>6. ASSUME NEW p \in Procs, ReadFiles(p), UNCHANGED inv
      PROVE  FlagsInv'
  BY <1>6 DEF ReadFiles, GoTo, Exit, Hold, Write, TypeOK, CmdInv, FlagsInv,
     AfterDotEnv, Commands
<1>7. ASSUME NEW p \in Procs, Report(p), UNCHANGED inv
      PROVE  FlagsInv'
  BY <1>7 DEF Report, GoTo, Exit, Hold, Write, TypeOK, CmdInv, FlagsInv,
     AfterDotEnv, Commands
<1>8. ASSUME NEW p \in Procs, AskKey(p), UNCHANGED inv
      PROVE  FlagsInv'
  BY <1>8 DEF AskKey, GoTo, Exit, Hold, Write, TypeOK, CmdInv, FlagsInv,
     AfterDotEnv, Commands
<1>9. ASSUME NEW p \in Procs, Rejected(p), UNCHANGED inv
      PROVE  FlagsInv'
  BY <1>9 DEF Rejected, GoTo, Exit, Hold, Write, TypeOK, CmdInv, FlagsInv,
     AfterDotEnv, Commands
<1>10. ASSUME NEW p \in Procs, StoreKey(p), UNCHANGED inv
      PROVE  FlagsInv'
  BY <1>10 DEF StoreKey, GoTo, Exit, Hold, Write, TypeOK, CmdInv, FlagsInv,
     AfterDotEnv, Commands
<1>11. ASSUME NEW p \in Procs, Warn(p), UNCHANGED inv
      PROVE  FlagsInv'
  BY <1>11 DEF Warn, GoTo, Exit, Hold, Write, TypeOK, CmdInv, FlagsInv,
     AfterDotEnv, Commands
<1>12. ASSUME NEW p \in Procs, DeleteKey(p), UNCHANGED inv
      PROVE  FlagsInv'
  BY <1>12 DEF DeleteKey, GoTo, Exit, Hold, Write, TypeOK, CmdInv, FlagsInv,
     AfterDotEnv, Commands
<1>13. ASSUME NEW p \in Procs, ParseFlags(p)
      PROVE  FlagsInv'
  BY <1>13 DEF ParseFlags, GoTo, Exit, Hold, Write, TypeOK, CmdInv, FlagsInv,
     AfterDotEnv, Commands
<1>14. ASSUME NEW p \in Procs, Bind(p)
      PROVE  FlagsInv'
  BY <1>14 DEF Bind, GoTo, Exit, Hold, Write, TypeOK, CmdInv, FlagsInv,
     AfterDotEnv, Commands
<1>15. ASSUME NEW p \in Procs, Listen(p)
      PROVE  FlagsInv'
  BY <1>15 DEF Listen, GoTo, Exit, Hold, Write, TypeOK, CmdInv, FlagsInv,
     AfterDotEnv, Commands
<1>16. ASSUME Edit, UNCHANGED inv
      PROVE  FlagsInv'
  BY <1>16 DEF Edit, Write, GoTo, Exit, Hold, Write, TypeOK, CmdInv, FlagsInv,
     AfterDotEnv, Commands
<1>17. CASE UNCHANGED vars
  BY <1>17 DEF vars, keyVars, GoTo, Exit, Hold, Write, TypeOK, CmdInv,
     FlagsInv, AfterDotEnv, Commands
<1> QED
  BY <1>1, <1>2, <1>3, <1>4, <1>5, <1>6, <1>7, <1>8, <1>9, <1>10, <1>11,
     <1>12, <1>13, <1>14, <1>15, <1>16, <1>17 DEF Next, KeyStep

-----------------------------------------------------------------------------
LEMMA InvStep == Inv /\ [Next]_vars => Inv'
  BY TypeStep, CmdStep, SteadyStep, EnvStep, ReadStep, LoadStep, SetStep, LockStep,
     BindStep, FlagsStep DEF Inv

THEOREM InvHolds == Spec => []Inv
  BY InitInv, InvStep, PTL DEF Spec

\* Every process, key and setting is of its type.
THEOREM TypeCorrect == Spec => []TypeOK
<1>1. Inv => TypeOK
  BY DEF Inv
<1> QED
  BY <1>1, InvHolds, PTL

\* `auth status` reports the key and the source that a server uses.
THEOREM StatusTellsHolds == Spec => []StatusTells
<1>1. Inv => StatusTells
  <2> SUFFICES ASSUME Inv, NEW a \in steady, NEW s \in steady,
                      cmd[a] = "status", pc[a] = "ended", code[a] # 2,
                      pc[s] = "serving", saw[a] = saw[s]
               PROVE  key[a] = key[s] /\ src[a] = src[s]
    BY DEF StatusTells
  <2> QED
    BY DEF Inv, LoadInv
<1> QED
  BY <1>1, InvHolds, PTL

\* Where the lock of the keyring alone changes what is found, the process that
\* found it locked has said so: before the keyring the two found nothing, and
\* one of them was refused there.
THEOREM LockIsToldHolds == Spec => []LockIsTold
<1>1. Inv => LockIsTold
  <2> SUFFICES ASSUME Inv, NEW a \in steady, NEW s \in steady,
                      Resolved(a), Resolved(s),
                      saw[s] = [saw[a] EXCEPT !.lock = saw[s].lock],
                      key[a] # key[s] \/ src[a] # src[s]
               PROVE  \E p \in {a, s} : saw[p].lock = "locked" /\ p \in warned
    BY DEF LockIsTold
  <2>1. saw[a] \in Store /\ saw[s] \in Store
    BY DEF Inv, TypeOK
  <2>2. /\ key[a] = Preferred(saw[a])[1] /\ src[a] = Preferred(saw[a])[2]
        /\ key[s] = Preferred(saw[s])[1] /\ src[s] = Preferred(saw[s])[2]
    BY DEF Inv, LoadInv, Resolved
  <2>3. FullEnv(saw[s]) = FullEnv(saw[a])
    BY <2>1 DEF FullEnv, Store
  <2>4. EnvKey(FullEnv(saw[a])) = Unset
    <3> SUFFICES ASSUME EnvKey(FullEnv(saw[a])) # Unset
                 PROVE  FALSE
      OBVIOUS
    <3>1. /\ Preferred(saw[a])[1] = EnvKey(FullEnv(saw[a]))
          /\ Preferred(saw[a])[2] = "environment"
      BY PreferredIs
    <3>2. /\ Preferred(saw[s])[1] = EnvKey(FullEnv(saw[s]))
          /\ Preferred(saw[s])[2] = "environment"
      BY <2>3, PreferredIs
    <3> QED
      BY <2>2, <2>3, <3>1, <3>2
  <2>5. saw[a].lock # saw[s].lock
    <3>1. saw[a].lock = saw[s].lock => saw[s] = saw[a]
      BY <2>1 DEF Store
    <3> QED
      BY <2>2, <3>1
  <2>6. saw[a].lock = "locked" \/ saw[s].lock = "locked"
    BY <2>1, <2>5 DEF Store
  <2> QED
    BY <2>3, <2>4, <2>6 DEF Inv, LockInv
<1> QED
  BY <1>1, InvHolds, PTL

\* The key `auth set` stored without a warning is the one the server uses:
\* nothing in the environment stands before the keyring.
THEOREM SetIsUsedHolds == Spec => []SetIsUsed
<1>1. Inv => SetIsUsed
  <2> SUFFICES ASSUME Inv, NEW a \in steady, NEW s \in steady,
                      cmd[a] = "set", pc[a] = "ended", code[a] = 0, a \notin warned,
                      pc[s] = "serving", saw[s] = [saw[a] EXCEPT !.keyring = key[a]]
               PROVE  key[s] = key[a]
    BY DEF SetIsUsed
  <2>1. saw[a].lock = "open" /\ key[a] \in Keys /\ ~Shadowed(FullEnv(saw[a]))
    BY DEF Inv, SetInv
  <2>2. saw[a] \in Store
    BY DEF Inv, TypeOK
  <2>3. FullEnv(saw[s]) = FullEnv(saw[a]) /\ KeyringKey(saw[s]) = key[a]
    BY <2>1, <2>2 DEF FullEnv, KeyringKey, Store
  <2>4. Preferred(saw[s])[1] = key[a]
    <3>1. EnvKey(FullEnv(saw[s])) = Unset
      BY <2>1, <2>3, NotShadowed
    <3>2. KeyringKey(saw[s]) # Unset
      BY <2>1, <2>3, KeysAssumption
    <3> QED
      BY <2>3, <3>1, <3>2, PreferredIs
  <2> QED
    BY <2>4 DEF Inv, LoadInv
<1> QED
  BY <1>1, InvHolds, PTL

\* What CheckBind lets through is served with a token check, encrypted or
\* knowingly not, and without the confirm argument.
THEOREM RemoteIsGuardedHolds == Spec => []RemoteIsGuarded
<1>1. Inv => RemoteIsGuarded
  <2> SUFFICES ASSUME Inv, NEW p \in Procs, pc[p] = "serving",
                      inv[p].http # "stdio", inv[p].http # "loopback"
               PROVE  /\ TokenChecked(inv[p])
                      /\ Encrypted(inv[p]) \/ inv[p].insecure
                      /\ ~ConfirmArgAllowed(inv[p])
    BY DEF RemoteIsGuarded
  <2>1. BindAllowed(inv[p])
    BY DEF Inv, BindInv
  <2> QED
    BY <2>1 DEF BindAllowed, IsLoopbackHost, TLSSet, TokenChecked, Encrypted,
       ConfirmArgAllowed
<1> QED
  BY <1>1, InvHolds, PTL

(* How far the exception of MalformedRefusesToStart goes. *)

\* A guardrail of a server that runs is off or a limit, but for a negative
\* flag and for a price cap that is not a number.
MalformedOnlyByFlag ==
    \A p \in Procs, g \in Guards :
        pc[p] = "serving" =>
            \/ Limit(inv[p], g) \in {"off", "limit"}
            \/ Limit(inv[p], g) = "negative" /\ inv[p].flag[g] = "negative"
            \/ Limit(inv[p], g) = "nan" /\ g = "max-dph"

\* envFloat and envInt refuse whatever else is malformed, and the flag package
\* what is no number of its type (main.go:126-160): what the run of
\* MalformedRefusesToStart finds is all there is to find, and the cap on the
\* number of instances is malformed by a negative flag alone.
THEOREM MalformedExactly == Spec => []MalformedOnlyByFlag
<1>1. Inv => MalformedOnlyByFlag
  <2> SUFFICES ASSUME Inv, NEW p \in Procs, NEW g \in Guards, pc[p] = "serving"
               PROVE  \/ Limit(inv[p], g) \in {"off", "limit"}
                      \/ Limit(inv[p], g) = "negative" /\ inv[p].flag[g] = "negative"
                      \/ Limit(inv[p], g) = "nan" /\ g = "max-dph"
    BY DEF MalformedOnlyByFlag
  <2> DEFINE i == inv[p]
  <2>1. i \in Invocation /\ ~FlagError(g, i.flag[g]) /\ ~EnvError(g, i.env[g])
    BY InvocationsAssumption DEF Inv, CmdInv, FlagsInv, FlagsAccepted
  <2>2. i.flag[g] \in Numbers \cup {""} /\ i.env[g] \in Numbers \cup {""}
    BY <2>1 DEF Invocation
  <2>3. CASE i.flag[g] # ""
    <3>1. Limit(i, g) = i.flag[g]
      BY <2>3 DEF Limit
    <3> QED
      BY <2>1, <2>2, <2>3, <3>1 DEF FlagError, Numbers, Guards
  <2>4. CASE i.flag[g] = "" /\ i.env[g] # ""
    <3>1. Limit(i, g) = i.env[g]
      BY <2>4 DEF Limit
    <3> QED
      BY <2>1, <2>2, <2>4, <3>1 DEF EnvError, Numbers, Guards
  <2>5. CASE i.flag[g] = "" /\ i.env[g] = ""
    BY <2>5 DEF Limit
  <2> QED
    BY <2>3, <2>4, <2>5
<1> QED
  BY <1>1, InvHolds, PTL
=============================================================================
