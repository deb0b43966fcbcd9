---------------------------- MODULE ServerProofs ----------------------------
(* The promises of the server's end and of its audit log, for any number   *)
(* of calls and any grace.                                                 *)
EXTENDS Server, TLAPS, FiniteSetTheorems

\* No client waits for an answer.
NobodyWaits == \A c \in Calls : stage[c] \in {"none", "replied"} \/ c \in left

\* Shutdown that returned early left nobody waiting, and main returns 0 after
\* it only.
EndInv ==
    /\ shut = "done" => since = Grace \/ NobodyWaits
    /\ code = 0 => shut = "done"

\* Where a call is, and what the log has of it.
RecordInv ==
    \A c \in Calls :
        /\ stage[c] = "half" <=> holder = c
        /\ stage[c] \in {"none", "connected", "running"} =>
             errAt[c] = 0 /\ fileAt[c] = 0 /\ c \notin failed
        /\ stage[c] = "half" =>
             errAt[c] = lines /\ lines > 0 /\ fileAt[c] = 0 /\ c \notin failed
        /\ stage[c] \in {"logged", "replied"} =>
             /\ errAt[c] > 0 => fileAt[c] > 0 \/ c \in failed
             /\ fileAt[c] > 0 \/ c \in failed => errAt[c] > 0

\* Every record has a place of its own on stderr, and the file is in the same
\* order.
OrderInv ==
    /\ \A c \in Calls : errAt[c] <= lines /\ fileAt[c] <= entries
    /\ \A c, d \in Calls : c # d /\ errAt[c] = errAt[d] => errAt[c] = 0
    /\ \A c, d \in Calls :
         fileAt[c] > 0 /\ fileAt[d] > 0 => (fileAt[c] < fileAt[d] <=> errAt[c] < errAt[d])

\* The line the file ends in, whole or torn.
Latest == IF holder = NoOne THEN lines ELSE lines - 1

\* A torn end is the trace of the latest record, or older than this server.
TornInv ==
    /\ torn => Latest = 0 \/ \E d \in failed : errAt[d] = Latest
    /\ \A c \in ruined : stage[c] \in {"logged", "replied"}
    /\ SpoiltByNeighbour

\* Only finitely many writes can have failed, so that they can be counted.
CountInv == IsFiniteSet(failed) /\ FailuresCounted

Inv == TypeOK /\ EndInv /\ RecordInv /\ OrderInv /\ TornInv /\ CountInv
-----------------------------------------------------------------------------
LEMMA InitInv == Init => Inv
<1> SUFFICES ASSUME Init PROVE Inv
  OBVIOUS
<1>1. TypeOK
  <2>1. /\ main \in MainStages /\ code \in Codes /\ shut \in ShutStages /\ since \in 0..Grace
        /\ stage \in [Calls -> CallStages] /\ holder \in Calls \cup {NoOne}
        /\ left \subseteq Calls /\ failed \subseteq Calls /\ ruined \subseteq Calls
    BY ServerAssumption DEF Init, MainStages, ShutStages, CallStages, Codes
  <2>2. sig \in BOOLEAN /\ stream \in BOOLEAN /\ torn \in BOOLEAN
    BY DEF Init
  <2>3. /\ lines \in Nat /\ entries \in Nat
        /\ errAt \in [Calls -> Nat] /\ fileAt \in [Calls -> Nat]
    BY DEF Init
  <2> QED
    BY <2>1, <2>2, <2>3 DEF TypeOK
<1>2. EndInv /\ RecordInv /\ OrderInv /\ TornInv
  BY ServerAssumption
  DEF Init, EndInv, RecordInv, OrderInv, TornInv, Latest, SpoiltByNeighbour
<1>3. CountInv
  BY FS_EmptySet DEF Init, CountInv, FailuresCounted
<1> QED
  BY <1>1, <1>2, <1>3 DEF Inv

\* A step of main, of the shutdown or of a client leaves the log and the
\* calls alone.
LEMMA Elsewhere ==
    ASSUME [Next]_vars
    PROVE  \/ UNCHANGED <<stage, log>>
           \/ \E c \in Calls : Connect(c) \/ CloseIdle(c) \/ Begin(c) \/ Reply(c)
           \/ \E c \in Calls : ToStderr(c)
           \/ \E c \in Calls : ToFile(c)
  BY DEF Next, Main, Listen, ServeFails, ServeEnds, Join, CloseFile, End, Shutdown,
     StartShutdown, ShutdownEnds, Tick, Call, Leave, OpenStream, CloseStream, Signal, Die,
     vars, clients

\* Connecting, closing what is idle, beginning and answering do not touch the log.
LEMMA Moves ==
    ASSUME TypeOK, NEW c \in Calls, Connect(c) \/ CloseIdle(c) \/ Begin(c) \/ Reply(c)
    PROVE  /\ UNCHANGED log
           /\ \A d \in Calls \ {c} : stage'[d] = stage[d]
           /\ \/ /\ stage[c] \in {"none", "connected"}
                 /\ stage'[c] \in {"none", "connected", "running"}
              \/ stage[c] \in {"running", "logged"} /\ stage'[c] = "replied"
  BY DEF Connect, CloseIdle, Begin, Reply, Move, TypeOK
-----------------------------------------------------------------------------
\* The types.
LEMMA TypeStep ==
    ASSUME TypeOK, [Next]_vars
    PROVE  TypeOK'
<1> USE DEF TypeOK
<1>1. main' \in MainStages /\ code' \in Codes
  BY DEF Next, Main, Listen, ServeFails, ServeEnds, Join, CloseFile, End, Return, Shutdown,
     StartShutdown, ShutdownEnds, Tick, Call, Connect, CloseIdle, Begin, ToStderr, ToFile, Reply, Leave,
     OpenStream, CloseStream, Signal, Die, vars, process, MainStages, Codes
<1>2. shut' \in ShutStages /\ since' \in 0..Grace
  BY ServerAssumption
  DEF Next, Main, Listen, ServeFails, ServeEnds, Join, CloseFile, End, Shutdown,
     StartShutdown, ShutdownEnds, Tick, Call, Connect, CloseIdle, Begin, ToStderr, ToFile, Reply, Leave,
     OpenStream, CloseStream, Signal, Die, vars, process, ShutStages
<1>5. sig' \in BOOLEAN /\ stream' \in BOOLEAN
  <2>1. sig' \in {sig, TRUE}
    BY DEF Next, Main, Listen, ServeFails, ServeEnds, Join, CloseFile, End, Shutdown,
       StartShutdown, ShutdownEnds, Tick, Call, Connect, CloseIdle, Begin, ToStderr, ToFile, Reply,
       Leave, OpenStream, CloseStream, Signal, Die, vars, process
  <2>2. stream' \in {stream, TRUE, FALSE}
    BY DEF Next, Main, Listen, ServeFails, ServeEnds, Join, CloseFile, End, Shutdown,
       StartShutdown, ShutdownEnds, Tick, Call, Connect, CloseIdle, Begin, ToStderr, ToFile, Reply,
       Leave, OpenStream, CloseStream, Signal, Die, vars, process
  <2> QED
    BY <2>1, <2>2
<1>3. stage' \in [Calls -> CallStages] /\ left' \subseteq Calls
  BY DEF Next, Main, Listen, ServeFails, ServeEnds, Join, CloseFile, End, Shutdown,
     StartShutdown, ShutdownEnds, Tick, Call, Connect, CloseIdle, Begin, ToStderr, ToFile, Reply, Leave,
     OpenStream, CloseStream, Signal, Die, Move, vars, clients, CallStages
<1>4. /\ torn' \in BOOLEAN /\ failed' \subseteq Calls /\ ruined' \subseteq Calls
      /\ holder' \in Calls \cup {NoOne} /\ lines' \in Nat /\ entries' \in Nat
      /\ errAt' \in [Calls -> Nat] /\ fileAt' \in [Calls -> Nat]
  <2>1. CASE UNCHANGED <<stage, log>>
    BY <2>1 DEF log
  <2>2. ASSUME NEW c \in Calls, Connect(c) \/ CloseIdle(c) \/ Begin(c) \/ Reply(c)
        PROVE  UNCHANGED log
    BY <2>2, Moves
  <2>3. ASSUME NEW c \in Calls, ToStderr(c)
        PROVE  /\ UNCHANGED <<torn, failed, ruined, entries, fileAt>>
               /\ holder' \in Calls /\ lines' \in Nat /\ errAt' \in [Calls -> Nat]
    BY <2>3 DEF ToStderr
  <2>4. ASSUME NEW c \in Calls, ToFile(c)
        PROVE  /\ torn' \in BOOLEAN /\ failed' \subseteq Calls /\ ruined' \subseteq Calls
               /\ holder' = NoOne /\ UNCHANGED <<lines, errAt>>
               /\ entries' \in Nat /\ fileAt' \in [Calls -> Nat]
    <3>1. torn' \in {torn, TRUE, FALSE}
      BY <2>4 DEF ToFile
    <3>2. torn' \in BOOLEAN
      BY <3>1
    <3>3. failed' \subseteq Calls /\ ruined' \subseteq Calls
      BY <2>4 DEF ToFile, Failure
    <3>4. entries' \in Nat /\ fileAt' \in [Calls -> Nat] /\ UNCHANGED <<lines, errAt>>
      BY <2>4 DEF ToFile
    <3> QED
      BY <2>4, <3>2, <3>3, <3>4 DEF ToFile
  <2> QED
    BY <2>1, <2>2, <2>3, <2>4, Elsewhere DEF log
<1> QED
  BY <1>1, <1>2, <1>3, <1>4, <1>5

\* The end.
LEMMA EndStep ==
    ASSUME TypeOK, EndInv, [Next]_vars
    PROVE  EndInv'
<1>1. CASE shut' = "done" /\ shut # "done"
  <2>1. ShutdownEnds
    BY <1>1 DEF Next, Main, Listen, ServeFails, ServeEnds, Join, CloseFile, End, Shutdown,
       StartShutdown, Tick, Call, Connect, CloseIdle, Begin, ToStderr, ToFile, Reply, Leave,
       OpenStream, CloseStream, Signal, Die, vars, process
  <2> QED
    BY <2>1 DEF ShutdownEnds, Quiet, Overdue, EndInv, NobodyWaits, clients
<1>2. CASE shut = "done"
  <2>1. since' = since /\ left \subseteq left' /\ shut' = "done"
    BY <1>2 DEF Next, Main, Listen, ServeFails, ServeEnds, Join, CloseFile, End, Shutdown,
       StartShutdown, ShutdownEnds, Tick, Call, Connect, CloseIdle, Begin, ToStderr, ToFile, Reply,
       Leave, OpenStream, CloseStream, Signal, Die, vars, process, clients
  <2>2. \A c \in Calls : stage[c] \in {"none", "replied"} => stage'[c] = stage[c]
    BY <1>2 DEF Next, Main, Listen, ServeFails, ServeEnds, Join, CloseFile, End, Shutdown,
       StartShutdown, ShutdownEnds, Tick, Call, Connect, Open, CloseIdle, Begin, ToStderr, ToFile,
       Reply, Move, Leave, OpenStream, CloseStream, Signal, Die, vars, clients, TypeOK
  <2> QED
    BY <1>2, <2>1, <2>2 DEF EndInv, NobodyWaits
<1>3. CASE shut' # "done"
  <2>1. shut # "done"
    BY <1>3 DEF Next, Main, Listen, ServeFails, ServeEnds, Join, CloseFile, End, Shutdown,
       StartShutdown, ShutdownEnds, Tick, Call, Connect, CloseIdle, Begin, ToStderr, ToFile, Reply,
       Leave, OpenStream, CloseStream, Signal, Die, vars, process
  <2>2. code' = 0 => code = 0 \/ Join
    BY DEF Next, Main, Listen, ServeFails, ServeEnds, Join, CloseFile, End, Return, Shutdown,
       StartShutdown, ShutdownEnds, Tick, Call, Connect, CloseIdle, Begin, ToStderr, ToFile, Reply,
       Leave, OpenStream, CloseStream, Signal, Die, vars, process
  <2> QED
    BY <1>3, <2>1, <2>2 DEF Join, EndInv
<1> QED
  BY <1>1, <1>2, <1>3
-----------------------------------------------------------------------------
\* What the log has of a call.
LEMMA RecordStep ==
    ASSUME TypeOK, RecordInv, [Next]_vars
    PROVE  RecordInv'
<1>1. CASE UNCHANGED <<stage, log>>
  BY <1>1 DEF RecordInv, log
<1>2. ASSUME NEW c \in Calls, Connect(c) \/ CloseIdle(c) \/ Begin(c) \/ Reply(c)
      PROVE  RecordInv'
  BY <1>2, Moves DEF RecordInv, log
<1>3. ASSUME NEW c \in Calls, ToStderr(c)
      PROVE  RecordInv'
  <2>1. /\ \A d \in Calls \ {c} : stage'[d] = stage[d] /\ errAt'[d] = errAt[d] /\ stage[d] # "half"
        /\ stage'[c] = "half" /\ errAt'[c] = lines' /\ lines' > 0 /\ holder' = c
        /\ UNCHANGED <<fileAt, failed>>
        /\ fileAt[c] = 0 /\ c \notin failed
    BY <1>3, ServerAssumption DEF ToStderr, Move, TypeOK, RecordInv
  <2> QED
    BY <2>1 DEF RecordInv
<1>4. ASSUME NEW c \in Calls, ToFile(c)
      PROVE  RecordInv'
  <2>1. /\ \A d \in Calls \ {c} : /\ stage'[d] = stage[d] /\ errAt'[d] = errAt[d]
                                 /\ fileAt'[d] = fileAt[d] /\ (d \in failed' <=> d \in failed)
                                 /\ stage[d] # "half"
        /\ stage'[c] = "logged" /\ errAt'[c] = errAt[c] /\ errAt[c] > 0 /\ holder' = NoOne
        /\ fileAt'[c] > 0 \/ c \in failed'
        /\ lines' = lines
    BY <1>4 DEF ToFile, Failure, Move, TypeOK, RecordInv
  <2> QED
    BY <2>1, ServerAssumption DEF RecordInv
<1> QED
  BY <1>1, <1>2, <1>3, <1>4, Elsewhere

\* The order of the two sinks.
LEMMA OrderStep ==
    ASSUME TypeOK, RecordInv, OrderInv, [Next]_vars
    PROVE  OrderInv'
<1>1. CASE UNCHANGED log
  BY <1>1 DEF OrderInv, log
<1>2. ASSUME NEW c \in Calls, ToStderr(c)
      PROVE  OrderInv'
  <2>1. /\ lines' = lines + 1 /\ UNCHANGED <<entries, fileAt>>
        /\ errAt'[c] = lines + 1 /\ fileAt[c] = 0
        /\ \A d \in Calls \ {c} : errAt'[d] = errAt[d]
        /\ lines \in Nat
    BY <1>2 DEF ToStderr, TypeOK, RecordInv
  <2>2. \A d \in Calls : errAt[d] \in Nat /\ fileAt[d] \in Nat
    BY DEF TypeOK
  <2> QED
    BY <2>1, <2>2 DEF OrderInv
<1>3. ASSUME NEW c \in Calls, ToFile(c)
      PROVE  OrderInv'
  <2>1. UNCHANGED <<lines, errAt>> /\ errAt[c] = lines /\ lines > 0
    BY <1>3 DEF ToFile, RecordInv
  <2>2. \A d \in Calls : errAt[d] \in Nat /\ fileAt[d] \in Nat
    BY DEF TypeOK
  <2>3. CASE UNCHANGED <<entries, fileAt>>
    BY <2>1, <2>3 DEF OrderInv
  <2>4. CASE entries' = entries + 1 /\ fileAt' = [fileAt EXCEPT ![c] = entries + 1]
    <3>1. /\ fileAt'[c] = entries + 1 /\ entries \in Nat
          /\ \A d \in Calls \ {c} : fileAt'[d] = fileAt[d]
      BY <2>4 DEF TypeOK
    <3>2. \A d \in Calls \ {c} : errAt[d] < errAt[c] /\ fileAt[d] < fileAt'[c]
      BY <2>1, <2>2, <3>1 DEF OrderInv, TypeOK
    <3> QED
      BY <2>1, <2>2, <2>4, <3>1, <3>2 DEF OrderInv
  <2> QED
    BY <1>3, <2>3, <2>4 DEF ToFile
<1> QED
  BY <1>1, <1>2, <1>3, Elsewhere, Moves DEF log

\* What a torn line spoils.
LEMMA TornStep ==
    ASSUME TypeOK, RecordInv, OrderInv, TornInv, [Next]_vars
    PROVE  TornInv'
<1>1. CASE UNCHANGED <<stage, log>>
  BY <1>1 DEF TornInv, Latest, SpoiltByNeighbour, log
<1>2. ASSUME NEW c \in Calls, Connect(c) \/ CloseIdle(c) \/ Begin(c) \/ Reply(c)
      PROVE  TornInv'
  <2>1. UNCHANGED log /\ \A d \in ruined : stage'[d] \in {"logged", "replied"}
    BY <1>2, Moves DEF TornInv, TypeOK
  <2> QED
    BY <2>1 DEF TornInv, Latest, SpoiltByNeighbour, log
<1>3. ASSUME NEW c \in Calls, ToStderr(c)
      PROVE  TornInv'
  <2>1. /\ UNCHANGED <<torn, ruined, failed>> /\ Latest' = Latest
        /\ stage'[c] = "half" /\ stage[c] = "running"
        /\ \A d \in Calls \ {c} : stage'[d] = stage[d] /\ errAt'[d] = errAt[d]
    BY <1>3, ServerAssumption DEF ToStderr, Move, TypeOK, Latest
  <2>2. c \notin failed /\ c \notin ruined
    BY <2>1 DEF RecordInv, TornInv
  <2>3. \A d \in failed \cup ruined : errAt'[d] = errAt[d] /\ stage'[d] = stage[d]
    BY <2>1, <2>2 DEF TypeOK
  <2> QED
    BY <2>1, <2>3 DEF TornInv, SpoiltByNeighbour
<1>4. ASSUME NEW c \in Calls, ToFile(c)
      PROVE  TornInv'
  <2>1. /\ UNCHANGED <<lines, errAt>> /\ errAt[c] = lines /\ lines \in Nat /\ lines > 0
        /\ holder = c /\ holder' = NoOne
        /\ stage'[c] = "logged" /\ \A d \in Calls \ {c} : stage'[d] = stage[d]
    BY <1>4 DEF ToFile, Move, RecordInv, TypeOK
  <2>2. Latest = errAt[c] - 1 /\ Latest' = errAt[c]
    BY <2>1, ServerAssumption DEF Latest
  <2>3. ASSUME torn' = FALSE, failed' = failed,
               ruined' = IF torn THEN ruined \cup {c} ELSE ruined
        PROVE  TornInv'
    <3>1. torn => errAt[c] = 1 \/ \E d \in failed : errAt[d] > 0 /\ errAt[c] = errAt[d] + 1
      <4>1. \A d \in failed : errAt[d] > 0 /\ errAt[d] \in Nat
        BY DEF RecordInv, TypeOK, CallStages
      <4> QED
        BY <2>1, <2>2, <4>1 DEF TornInv
    <3> QED
      BY <2>1, <2>3, <3>1 DEF TornInv, SpoiltByNeighbour, TypeOK
  <2>4. ASSUME failed' = failed \cup {c}, ruined' = ruined
        PROVE  TornInv'
    BY <2>1, <2>2, <2>4 DEF TornInv, SpoiltByNeighbour, TypeOK
  <2> QED
    BY <1>4, <2>3, <2>4 DEF ToFile, Failure
<1> QED
  BY <1>1, <1>2, <1>3, <1>4, Elsewhere

\* What the failures count.
LEMMA CountStep ==
    ASSUME TypeOK, RecordInv, CountInv, [Next]_vars
    PROVE  CountInv'
<1>1. CASE UNCHANGED log
  BY <1>1 DEF CountInv, FailuresCounted, log
<1>2. ASSUME NEW c \in Calls, ToStderr(c)
      PROVE  CountInv'
  <2>1. /\ UNCHANGED <<entries, failed>> /\ lines' = lines + 1
        /\ holder = NoOne /\ holder' # NoOne
    BY <1>2, ServerAssumption DEF ToStderr
  <2>2. Cardinality(failed) \in Nat /\ entries \in Nat
    BY FS_CardinalityType DEF CountInv, TypeOK
  <2> QED
    BY <2>1, <2>2 DEF CountInv, FailuresCounted
<1>3. ASSUME NEW c \in Calls, ToFile(c)
      PROVE  CountInv'
  <2>1. holder = c /\ holder # NoOne /\ holder' = NoOne /\ lines' = lines /\ c \notin failed
    BY <1>3, ServerAssumption DEF ToFile, RecordInv
  <2>2. Cardinality(failed) \in Nat /\ entries \in Nat /\ IsFiniteSet(failed)
    BY FS_CardinalityType DEF CountInv, TypeOK
  <2>3. CASE entries' = entries + 1 /\ failed' = failed
    BY <2>1, <2>2, <2>3 DEF CountInv, FailuresCounted
  <2>4. CASE entries' = entries /\ failed' = failed \cup {c}
    <3>1. IsFiniteSet(failed') /\ Cardinality(failed') = Cardinality(failed) + 1
      BY <2>1, <2>2, <2>4, FS_AddElement
    <3> QED
      BY <2>1, <2>2, <2>4, <3>1 DEF CountInv, FailuresCounted
  <2> QED
    BY <1>3, <2>3, <2>4 DEF ToFile, Failure
<1> QED
  BY <1>1, <1>2, <1>3, Elsewhere, Moves DEF log
-----------------------------------------------------------------------------
THEOREM InvHolds == Spec => []Inv
<1>1. Inv /\ [Next]_vars => Inv'
  BY TypeStep, EndStep, RecordStep, OrderStep, TornStep, CountStep DEF Inv
<1> QED
  BY <1>1, InitInv, PTL DEF Spec

\* Every variable of the server keeps its type.
THEOREM TypeCorrect == Spec => []TypeOK
<1>1. Inv => TypeOK
  BY DEF Inv
<1> QED
  BY <1>1, InvHolds, PTL

\* Whoever waited for an answer got one, if the server ended before the grace
\* was over.
THEOREM GraceIsHonoured == Spec => []GraceHonoured
<1>1. Inv => GraceHonoured
  <2> SUFFICES ASSUME Inv, code = 0, since < Grace
               PROVE  NobodyWaits
    BY DEF GraceHonoured, NobodyWaits
  <2>1. since = Grace \/ NobodyWaits
    BY DEF Inv, EndInv
  <2>2. since # Grace
    BY ServerAssumption DEF Inv, TypeOK
  <2> QED
    BY <2>1, <2>2
<1> QED
  BY <1>1, InvHolds, PTL

\* The two sinks agree.
THEOREM SinksInAgreement == Spec => []SinksAgree
<1>1. Inv => SinksAgree
  <2> SUFFICES ASSUME Inv PROVE SinksAgree
    OBVIOUS
  <2>1. \A c \in Calls : stage[c] \in CallStages
    BY DEF Inv, TypeOK
  <2>2. \A c \in Calls : /\ fileAt[c] > 0 => errAt[c] > 0
                         /\ errAt[c] > 0 => fileAt[c] > 0 \/ c \in failed \/ holder = c
    BY <2>1 DEF Inv, RecordInv, CallStages
  <2> QED
    BY <2>2 DEF Inv, OrderInv, SinksAgree
<1> QED
  BY <1>1, InvHolds, PTL

\* A failed write spoils the next line at most.
THEOREM SpoiltOnlyByNeighbour == Spec => []SpoiltByNeighbour
<1>1. Inv => SpoiltByNeighbour
  BY DEF Inv, TornInv
<1> QED
  BY <1>1, InvHolds, PTL

\* The failures that were counted are the records the file lacks.
THEOREM FailuresAreCounted == Spec => []FailuresCounted
<1>1. Inv => FailuresCounted
  BY DEF Inv, CountInv
<1> QED
  BY <1>1, InvHolds, PTL
-----------------------------------------------------------------------------
(* That a signal ends the server is a liveness property, which TLC checks:   *)
(* ExitsAfterSignal.  What it rests on is a fact about states and steps.     *)

\* How many steps main and the goroutine of the shutdown have left at most.
MainLeft ==
    CASE main = "start"    -> 5
      [] main = "serving"  -> 4
      [] main = "joining"  -> 3
      [] main = "returned" -> 2
      [] main = "closed"   -> 1
      [] main = "exited"   -> 0

ShutLeft ==
    CASE shut = "waiting"  -> Grace + 2
      [] shut = "shutting" -> Grace + 1 - since
      [] shut = "done"     -> 0

StepsLeft == MainLeft + ShutLeft

\* What lets one of the two make a step: the guards of Main and of Shutdown.
MayMove ==
    \/ main \in {"start", "returned", "closed"}
    \/ main = "serving" /\ shut # "waiting"
    \/ main = "joining" /\ shut = "done"
    \/ shut = "waiting" /\ sig
    \/ shut = "shutting" /\ (Quiet \/ Overdue \/ since < Grace)

\* A step of either uses one of them up, and nothing gives one back.
Descends ==
    /\ StepsLeft \in Nat
    /\ StepsLeft' <= StepsLeft
    /\ Main \/ Shutdown => StepsLeft' < StepsLeft

\* main waits for a shutdown that has begun, and time stands still once the
\* grace is over.
WaitInv == TypeOK /\ (main = "joining" => shut # "waiting")

LEMMA WaitInvHolds == Spec => []WaitInv
<1>1. Init => WaitInv
  BY InitInv DEF Init, Inv, WaitInv
<1>2. WaitInv /\ [Next]_vars => WaitInv'
  <2> SUFFICES ASSUME WaitInv, [Next]_vars, main' = "joining"
               PROVE  shut' # "waiting"
    BY TypeStep DEF WaitInv
  <2>1. shut' = "waiting" => shut = "waiting"
    BY DEF Next, Main, Listen, ServeFails, ServeEnds, Join, CloseFile, End, Shutdown,
       StartShutdown, ShutdownEnds, Tick, Call, Connect, CloseIdle, Begin, ToStderr, ToFile, Reply,
       Leave, OpenStream, CloseStream, Signal, Die, vars, process
  <2>2. main = "joining" \/ ServeEnds
    BY DEF Next, Main, Listen, ServeFails, Join, CloseFile, End, Return, Shutdown,
       StartShutdown, ShutdownEnds, Tick, Call, Connect, CloseIdle, Begin, ToStderr, ToFile, Reply,
       Leave, OpenStream, CloseStream, Signal, Die, vars, process
  <2> QED
    BY <2>1, <2>2 DEF ServeEnds, WaitInv
<1> QED
  BY <1>1, <1>2, PTL DEF Spec

\* Once the signal came, main or the shutdown can go on until the process has
\* ended: neither waits for a call or a client.
THEOREM NobodyIsStuck == Spec => [](sig /\ Alive => MayMove)
<1>1. WaitInv /\ sig /\ Alive => MayMove
  <2> SUFFICES ASSUME WaitInv, sig, Alive PROVE MayMove
    OBVIOUS
  <2>1. /\ main \in MainStages /\ shut \in ShutStages /\ since \in 0..Grace
        /\ main = "joining" => shut # "waiting"
    BY DEF WaitInv, TypeOK
  <2>2. since < Grace \/ Overdue
    BY <2>1, ServerAssumption DEF Overdue
  <2> QED
    BY <2>1, <2>2 DEF MayMove, Alive, MainStages, ShutStages
<1> QED
  BY <1>1, WaitInvHolds, PTL

\* And they go on a bounded number of times: however the calls, the clients and
\* the disk behave in between, a signalled server is at most Grace + 7 of
\* their steps from its end.
THEOREM StepsRunOut == Spec => [][Descends]_vars
<1>1. TypeOK /\ [Next]_vars => Descends
  <2> SUFFICES ASSUME TypeOK, [Next]_vars PROVE Descends
    OBVIOUS
  <2>1. /\ main \in MainStages /\ shut \in ShutStages /\ since \in 0..Grace /\ Grace \in Nat
        /\ MainLeft \in Nat /\ ShutLeft \in Nat
    BY ServerAssumption DEF TypeOK, MainStages, ShutStages, MainLeft, ShutLeft
  <2>2. ASSUME Main
        PROVE  MainLeft' < MainLeft /\ ShutLeft' = ShutLeft /\ MainLeft' \in Nat
    <3>1. shut' = shut /\ since' = since
      BY <2>2 DEF Main, Listen, ServeEnds, Join, CloseFile, End
    <3>2. \/ main = "start" /\ main' \in {"serving", "returned"}
          \/ main = "serving" /\ main' = "joining"
          \/ main = "joining" /\ main' = "returned"
          \/ main = "returned" /\ main' = "closed"
          \/ main = "closed" /\ main' = "exited"
      BY <2>2 DEF Main, Listen, Return, ServeEnds, Join, CloseFile, End
    <3> QED
      BY <3>1, <3>2 DEF MainLeft, ShutLeft
  <2>3. ASSUME Shutdown
        PROVE  ShutLeft' < ShutLeft /\ MainLeft' = MainLeft /\ ShutLeft' \in Nat
    <3>1. main' = main
      BY <2>3 DEF Shutdown, StartShutdown, ShutdownEnds, Tick
    <3>2. \/ shut = "waiting" /\ shut' = "shutting" /\ since' = since
          \/ shut = "shutting" /\ shut' = "done"
          \/ shut = "shutting" /\ shut' = "shutting" /\ since < Grace /\ since' = since + 1
      BY <2>3 DEF Shutdown, StartShutdown, ShutdownEnds, Tick
    <3> QED
      BY <2>1, <3>1, <3>2 DEF MainLeft, ShutLeft
  <2>4. ASSUME ~Main, ~Shutdown
        PROVE  ShutLeft' = ShutLeft /\ MainLeft' <= MainLeft /\ MainLeft' \in Nat
    <3>1. process' = process \/ ServeFails \/ OpenStream \/ CloseStream \/ Signal \/ Die
      BY <2>4 DEF Next, Call, Connect, CloseIdle, Begin, ToStderr, ToFile, Reply, Leave, vars
    <3>2. shut' = shut /\ since' = since
      BY <3>1 DEF ServeFails, OpenStream, CloseStream, Signal, Die, process
    <3>3. main' \in {main, "exited"} \/ (main = "serving" /\ main' = "returned")
      BY <3>1 DEF ServeFails, Return, OpenStream, CloseStream, Signal, Die, process
    <3> QED
      BY <2>1, <3>2, <3>3 DEF MainLeft, ShutLeft, MainStages
  <2> QED
    BY <2>1, <2>2, <2>3, <2>4 DEF Descends, StepsLeft
<1>2. Spec => []TypeOK /\ [][Next]_vars
  BY TypeCorrect, PTL DEF Spec
<1> QED
  BY <1>1, <1>2, PTL
=============================================================================
