------------------------- MODULE SlaveProcessProofs --------------------------
(***************************************************************************)
(* Theorems about SlaveProcess, for every MAX_CONNECT_ATTEMPTS and every    *)
(* number of resets.  The safety properties are conjuncts of one inductive  *)
(* invariant, IInv.                                                         *)
(***************************************************************************)
EXTENDS SlaveProcess, TLAPS

Procs == {"none", "running", "zombie", "reaped"}

\* The blocking waitpid goes with the place of main: while the loop runs it is
\* the stop of a greeter for the session or of a worker for a reset, afterwards
\* the three stops in their order.
WaitsInOrder ==
  /\ pc \in {"new", "gone"} => wait = NoWait
  /\ pc = "loop" =>
       \/ wait = NoWait
       \/ wait = [for |-> "greeter", then |-> "start"] /\ session = "made"
       \/ wait = [for |-> "worker", then |-> "reset"] /\ conn
  /\ pc = "greeter" => wait = [for |-> "greeter", then |-> "stop"]
  /\ pc = "session" => wait = [for |-> "worker", then |-> "stop"]
  /\ pc = "server" => wait = [for |-> "server", then |-> "stop"]
  /\ exit = "none" <=> pc # "gone"

\* What has been stopped is gone.
StoppedGone ==
  /\ pc \in {"session", "server"} => child["greeter"].proc = "none"
  /\ pc = "server" => child["worker"].proc = "none"

\* Before mdm_slave_start nothing was forked and nothing is queued.
Untouched ==
  pc = "new" =>
    /\ \A c \in Child : child[c].proc = "none"
    /\ "USR1" \notin pipe /\ idles = {} /\ ~conn /\ ~xup
    /\ greeter = "none" /\ session = "none"

\* The readiness of the X server is on its way in one place at most: the pipe,
\* the idle of mdm-server.c or the idle of the slave; and only until the slave
\* has its own connection.
OneReadiness ==
  pc = "loop" =>
    /\ "USR1" \in pipe => idles = {}
    /\ "ready" \in idles => idles = {"ready"}
    /\ "USR1" \in pipe \/ idles # {} => ~conn
    /\ display.local =>
         /\ ~xup => "USR1" \notin pipe /\ idles = {} /\ ~conn
    /\ ~display.local => child["server"].proc = "none" /\ "USR1" \notin pipe

\* Nobody is on the display before that connection; without a greeter server
\* there is no greeter.
NobodyBefore ==
  pc = "loop" =>
    /\ ~conn => greeter = "none" /\ session = "none"
    /\ greeter = "none" => child["greeter"].proc = "none"

IInv ==
  /\ TypeOK
  /\ WaitsInOrder
  /\ StoppedGone
  /\ Untouched
  /\ OneReadiness
  /\ NobodyBefore
  /\ OneOnDisplay
  /\ NothingLeft

-----------------------------------------------------------------------------
\* What a child may become, in the form the steps need it.
LEMMA ChildFacts ==
  ASSUME TypeOK, NEW c \in Child
  PROVE  /\ child[c] \in ChildState
         /\ child[c].proc \in Procs
         /\ NoChild \in ChildState /\ Forked \in ChildState
         /\ NoChild.proc = "none" /\ Forked.proc = "running"
  BY DEF TypeOK, ChildState, Procs, NoChild, Forked

\* Signalling and forgetting a child keep the others and every process.
LEMMA SignalledFacts ==
  ASSUME NEW ch \in [Child -> ChildState], NEW c \in Child
  PROVE  /\ Signalled(ch, c) \in [Child -> ChildState]
         /\ \A d \in Child : Signalled(ch, c)[d].proc = ch[d].proc
<1> DEFINE told == ch[c].pid /\ ch[c].proc = "running"
           r == [[ch[c] EXCEPT !.watch = FALSE] EXCEPT !.told = told]
<1>1. told \in BOOLEAN
  OBVIOUS
<1>2. Signalled(ch, c) = [ch EXCEPT ![c] = r]
  <2>1. Signalled(ch, c) =
          [[ch EXCEPT ![c].watch = FALSE] EXCEPT ![c].told = told]
    BY Zenon DEF Signalled
  <2> HIDE DEF told
  <2> QED
    BY <2>1
<1>3. r \in ChildState /\ r.proc = ch[c].proc
  <2> HIDE DEF told
  <2> QED
    BY <1>1 DEF ChildState
<1> HIDE DEF r, told
<1> QED
  BY <1>2, <1>3

\* A child that does not run is none any more once its pid is cleared.
LEMMA ForgottenFacts ==
  ASSUME TypeOK, NEW c \in Child
  PROVE  /\ Forgotten(c) \in [Child -> ChildState]
         /\ \A d \in Child : d # c => Forgotten(c)[d] = child[d]
         /\ ~Running(c) => Forgotten(c)[c].proc = "none"
         /\ Running(c) => Forgotten(c)[c].proc = "running"
  BY DEF TypeOK, ChildState, Forgotten, Running, NoChild

-----------------------------------------------------------------------------
LEMMA InitIInv == Init => IInv
<1> SUFFICES ASSUME Init PROVE IInv
  OBVIOUS
<1>1. TypeOK
  <2>1. child \in [Child -> ChildState]
    BY DEF Init, NoChild, ChildState
  <2>2. display \in [local : BOOLEAN, auto : BOOLEAN, fetched : BOOLEAN]
    BY DEF Init
  <2>3. splash \in BOOLEAN
    BY DEF Init
  <2>4. wait \in [for : Child \cup {"none"}, then : {"none", "start", "reset", "stop"}]
    BY DEF Init, NoWait
  <2>5. attempts \in 0 .. MaxTries /\ resets \in 0 .. MaxResets
    BY TriesAssumption, ResetsAssumption DEF Init
  <2> QED
    BY <2>1, <2>2, <2>3, <2>4, <2>5 DEF Init, TypeOK
<1>2. WaitsInOrder /\ StoppedGone /\ OneReadiness /\ NobodyBefore
  BY DEF Init, WaitsInOrder, StoppedGone, OneReadiness, NobodyBefore
<1>3. Untouched
  BY DEF Init, Untouched, NoChild
<1>4. OneOnDisplay /\ NothingLeft
  BY <1>1 DEF Init, OneOnDisplay, NothingLeft, TypeOK
<1> QED
  BY <1>1, <1>2, <1>3, <1>4 DEF IInv

\* The steps that end the process without stopping anything.
LEMMA AbandonStep ==
  ASSUME IInv, pc # "gone", NEW how \in {"exit", "killed"}, Abandon(how),
         splash' \in BOOLEAN
  PROVE  IInv'
<1> USE DEF Abandon, Leave, xvars, login, IInv
<1>1. /\ child' \in [Child -> ChildState]
      /\ \A c \in Child : child'[c].proc = child[c].proc
  <2>1. child' = DeathSignal
    OBVIOUS
  <2>2. \A c \in Child : child[c] \in ChildState
    BY DEF TypeOK
  <2>3. ASSUME NEW r \in ChildState
        PROVE  LET q == [r EXCEPT !.told = TRUE] IN q \in ChildState /\ q.proc = r.proc
    BY DEF ChildState
  <2> QED
    BY <2>1, <2>2, <2>3 DEF DeathSignal
<1>2. TypeOK'
  BY <1>1 DEF TypeOK, NoWait
<1>3. WaitsInOrder' /\ StoppedGone' /\ Untouched' /\ OneReadiness' /\ NobodyBefore'
  BY DEF WaitsInOrder, StoppedGone, Untouched, OneReadiness, NobodyBefore
<1>4. OneOnDisplay' /\ NothingLeft'
  BY <1>1 DEF OneOnDisplay, NothingLeft, Running, Child
<1> QED
  BY <1>2, <1>3, <1>4

\* The actions those steps are.
LEMMA AbandonSteps ==
  ASSUME IInv, StartFails \/ BailOut \/ ConnectCrashes \/ AlarmRings \/ Killed
  PROVE  IInv'
<1>1. pc # "gone"
  BY DEF StartFails, BailOut, ConnectCrashes, AlarmRings, Killed, Loop
<1>2. splash \in BOOLEAN
  BY DEF IInv, TypeOK
<1>3. splash' \in BOOLEAN
  BY <1>2 DEF StartFails, BailOut, ConnectCrashes, AlarmRings, Killed
<1>4. Abandon("exit") \/ Abandon("killed")
  BY DEF StartFails, BailOut, ConnectCrashes, AlarmRings, Killed
<1> QED
  BY <1>1, <1>3, <1>4, AbandonStep

\* The X server is forked, or the display is remote.
LEMMA StartSlaveStep == ASSUME IInv, StartSlave PROVE IInv'
<1> USE DEF IInv
<1>1. PICK d \in Fetched :
        /\ display' = d
        /\ IF d.local
           THEN /\ child' = [child EXCEPT !["server"] = Forked]
                /\ splash' \in {FALSE, splash} /\ idles' = idles
           ELSE /\ idles' = {"connect"} /\ splash' = FALSE /\ child' = child
  BY DEF StartSlave
<1>2. /\ pc = "new" /\ pc' = "loop"
      /\ UNCHANGED <<login, quit, wait, exit, pipe, conn, attempts, xup, resets>>
  BY DEF StartSlave
<1>3. display' \in [local : BOOLEAN, auto : BOOLEAN, fetched : BOOLEAN]
  <2>1. display \in [local : BOOLEAN, auto : BOOLEAN, fetched : BOOLEAN]
    BY DEF TypeOK
  <2>2. \/ display' = [display EXCEPT !.fetched = TRUE]
        \/ \E l \in {FALSE, display.local} : display' = [display EXCEPT !.local = l]
    BY <1>1 DEF Fetched
  <2>3. {FALSE, display.local} \subseteq BOOLEAN
    BY <2>1
  <2> HIDE DEF IInv
  <2> QED
    BY <2>1, <2>2, <2>3
<1>4. child' \in [Child -> ChildState]
  <2>1. Forked \in ChildState
    BY DEF Forked, ChildState
  <2> QED
    BY <1>1, <2>1 DEF TypeOK
<1>5. TypeOK'
  <2>1. splash' \in BOOLEAN
    BY <1>1 DEF TypeOK
  <2>2. idles' \subseteq {"ready", "connect"}
    BY <1>1 DEF TypeOK
  <2> QED
    BY <1>2, <1>3, <1>4, <2>1, <2>2 DEF TypeOK, login
<1>6. WaitsInOrder' /\ StoppedGone' /\ Untouched' /\ NothingLeft'
  BY <1>2 DEF WaitsInOrder, StoppedGone, Untouched, NothingLeft, login
<1>7. OneReadiness'
  BY <1>1, <1>2, <1>3 DEF OneReadiness, Untouched, Child
<1>8. child'["greeter"] = child["greeter"]
  BY <1>1 DEF TypeOK, Child
<1>9. NobodyBefore' /\ OneOnDisplay'
  BY <1>2, <1>8 DEF NobodyBefore, OneOnDisplay, Untouched, login, Child, Running
<1> QED
  BY <1>5, <1>6, <1>7, <1>9

-----------------------------------------------------------------------------
\* Children that end, are reaped or have their end dispatched, and a main loop
\* that is quit for it.
LEMMA ChildrenEnd ==
  ASSUME IInv,
         child' \in [Child -> ChildState],
         \A c \in Child :
           /\ child'[c].proc = "running" => child[c].proc = "running"
           /\ child[c].proc = "none" => child'[c].proc = "none",
         quit' \in BOOLEAN, dbus' \in BOOLEAN, splash' \in BOOLEAN,
         UNCHANGED <<xvars, display, pc, wait, exit, lost, greeter, session, alarm,
                     resets>>
  PROVE  IInv'
<1> USE DEF IInv, xvars
<1>1. TypeOK'
  BY DEF TypeOK
<1>2. WaitsInOrder'
  BY DEF WaitsInOrder
<1>3. StoppedGone' /\ Untouched'
  BY DEF StoppedGone, Untouched, Child
<1>4. OneReadiness' /\ NobodyBefore'
  BY DEF OneReadiness, NobodyBefore, Child
<1>5. OneOnDisplay' /\ NothingLeft'
  BY DEF OneOnDisplay, NothingLeft, Running, Child
<1> QED
  BY <1>1, <1>2, <1>3, <1>4, <1>5

LEMMA WatchSteps ==
  ASSUME IInv, ServerWatch \/ GreeterWatch \/ WorkerWatch
  PROVE  IInv'
<1> USE DEF xvars, login
<1>1. PICK c \in Child : child' = Dispatched(c)
  BY DEF ServerWatch, GreeterWatch, WorkerWatch, Child
<1>2. /\ child' \in [Child -> ChildState]
      /\ \A d \in Child : child'[d].proc \in {"none", child[d].proc}
  BY <1>1, ChildFacts DEF IInv, TypeOK, Dispatched
<1>3. quit' \in BOOLEAN
  BY DEF IInv, TypeOK, ServerWatch, GreeterWatch, WorkerWatch
<1>4. dbus' \in BOOLEAN /\ splash' \in BOOLEAN
  BY DEF IInv, TypeOK, ServerWatch, GreeterWatch, WorkerWatch
<1>5. UNCHANGED <<xvars, display, pc, wait, exit, lost, greeter, session, alarm,
                  resets>>
  BY DEF ServerWatch, GreeterWatch, WorkerWatch
<1> QED
  BY <1>2, <1>3, <1>4, <1>5, ChildrenEnd

LEMMA EndSteps ==
  ASSUME IInv, NEW c \in Child, ChildEnds(c) \/ Reap(c)
  PROVE  IInv'
<1>1. PICK s \in {"none", "zombie", "reaped"} :
        /\ child' = [child EXCEPT ![c].proc = s]
        /\ child[c].proc # "none"
  BY DEF ChildEnds, Reap, Running
<1>2. /\ child' \in [Child -> ChildState]
      /\ \A d \in Child : IF d = c THEN child'[d].proc = s
                                   ELSE child'[d] = child[d]
  BY <1>1 DEF IInv, TypeOK, ChildState
<1>3. quit' \in BOOLEAN /\ dbus' \in BOOLEAN /\ splash' \in BOOLEAN
  BY DEF IInv, TypeOK, ChildEnds, Reap, control, login
<1>4. UNCHANGED <<xvars, display, pc, wait, exit, lost, greeter, session, alarm,
                  resets>>
  BY DEF ChildEnds, Reap, control, login
<1> QED
  BY <1>1, <1>2, <1>3, <1>4, ChildrenEnd

\* Signals and idles move through the queues.
LEMMA QueueSteps ==
  ASSUME IInv, XReady \/ Term \/ SignalIoWatch \/ EmitReady
  PROVE  IInv'
<1> USE DEF IInv, control, login
<1>1. UNCHANGED <<login, display, child, pc, wait, exit, conn, attempts, splash,
                  resets>>
  BY DEF XReady, Term, SignalIoWatch, EmitReady
<1>2. TypeOK'
  <2>1. pipe' \subseteq {"USR1", "TERM"} /\ idles' \subseteq {"ready", "connect"}
    BY DEF TypeOK, XReady, Term, SignalIoWatch, EmitReady
  <2>2. quit' \in BOOLEAN /\ xup' \in BOOLEAN
    BY DEF TypeOK, XReady, Term, SignalIoWatch, EmitReady
  <2> QED
    BY <1>1, <2>1, <2>2 DEF TypeOK
<1>3. WaitsInOrder' /\ StoppedGone'
  BY <1>1 DEF WaitsInOrder, StoppedGone
<1>4. Untouched'
  BY <1>1 DEF Untouched, XReady, Term, SignalIoWatch, EmitReady, Running, Child, Loop
<1>5. OneReadiness'
  <2>1. CASE XReady
    BY <1>1, <2>1 DEF OneReadiness, XReady, Running, TypeOK
  <2>2. CASE Term
    BY <1>1, <2>2 DEF OneReadiness, Term
  <2>3. CASE SignalIoWatch
    BY <1>1, <2>3 DEF OneReadiness, SignalIoWatch
  <2>4. CASE EmitReady
    BY <1>1, <2>4 DEF OneReadiness, EmitReady
  <2> QED
    BY <2>1, <2>2, <2>3, <2>4
<1>6. NobodyBefore'
  BY <1>1 DEF NobodyBefore
<1>7. OneOnDisplay' /\ NothingLeft'
  BY <1>1 DEF OneOnDisplay, NothingLeft, Running
<1> QED
  BY <1>2, <1>3, <1>4, <1>5, <1>6, <1>7

-----------------------------------------------------------------------------
\* A fork that succeeds or fails touches one child only.
LEMMA MayForkFacts ==
  ASSUME NEW ch \in [Child -> ChildState], NEW c \in Child,
         child' \in MayFork(ch, c)
  PROVE  /\ child' \in [Child -> ChildState]
         /\ \A d \in Child : d # c => child'[d] = ch[d]
         /\ child'[c].proc \in {"none", "running"}
<1>1. Forked \in ChildState /\ NoChild \in ChildState
  BY DEF Forked, NoChild, ChildState
<1>2. Forked.proc = "running" /\ NoChild.proc = "none"
  BY DEF Forked, NoChild
<1> HIDE DEF ChildState, Forked, NoChild
<1>3. child' = [ch EXCEPT ![c] = Forked] \/ child' = [ch EXCEPT ![c] = NoChild]
  BY DEF MayFork
<1> QED
  BY <1>1, <1>2, <1>3

\* The display opens: it does so once, and nobody is on it yet.
LEMMA ConnectStep == ASSUME IInv, Connect PROVE IInv'
<1> USE DEF IInv, control
<1>1. /\ pc = "loop" /\ "connect" \in idles
      /\ pc' = "loop" /\ wait = NoWait /\ wait' = NoWait
      /\ ~conn /\ conn' = TRUE /\ idles' = {} /\ splash' = FALSE
      /\ "USR1" \notin pipe
      /\ UNCHANGED <<quit, exit, display, pipe, xup, resets>>
  <2>1. pc = "loop" /\ wait = NoWait /\ "connect" \in idles
    BY DEF Connect, Loop
  <2>2. idles \subseteq {"ready", "connect"} /\ OneReadiness
    BY DEF TypeOK
  <2>3. idles # {} /\ idles # {"ready"}
    BY <2>1
  <2>4. ~conn /\ "USR1" \notin pipe /\ "ready" \notin idles
    BY <2>1, <2>2, <2>3 DEF OneReadiness
  <2>5. idles = {"connect"}
    BY <2>1, <2>2, <2>4
  <2>6. pc' = pc /\ wait' = wait /\ quit' = quit /\ exit' = exit
    BY DEF Connect
  <2>7. idles' = idles \ {"connect"} /\ splash' = FALSE /\ conn' = KeepConnection
        /\ UNCHANGED <<display, pipe, xup, resets>>
    BY DEF Connect
  <2> QED
    BY <2>1, <2>4, <2>5, <2>6, <2>7 DEF KeepConnection
<1>2. greeter = "none" /\ session = "none" /\ child["greeter"].proc = "none" /\ ~lost
  BY <1>1 DEF NobodyBefore, OneOnDisplay
<1>3. attempts' \in 0 .. MaxTries
  BY TriesAssumption DEF TypeOK, Connect
<1>4. /\ child' \in [Child -> ChildState]
      /\ child'["server"] = child["server"]
      /\ greeter' = "none" => child'["greeter"].proc = "none"
      /\ greeter' \in {"none", "started"} /\ session' = "made"
      /\ ~lost' /\ lost' \in BOOLEAN /\ dbus' \in BOOLEAN /\ alarm' \in BOOLEAN
  <2>1. CASE display.auto
    <3>1. StartConversation(child)
      BY <2>1 DEF Connect
    <3>2. child' \in MayFork(child, "worker") /\ greeter' = "none"
      BY <3>1, <1>2 DEF StartConversation
    <3>3. child' \in [Child -> ChildState] /\ child'["server"] = child["server"]
          /\ child'["greeter"] = child["greeter"]
      BY <3>2, MayForkFacts DEF TypeOK, Child
    <3> QED
      BY <1>2, <3>1, <3>2, <3>3 DEF StartConversation, TypeOK
  <2>2. CASE ~display.auto
    <3>1. StartGreeter(child, session)
      BY <2>2 DEF Connect
    <3>2. child' \in MayFork(child, "greeter")
      BY <3>1 DEF StartGreeter
    <3>3. child' \in [Child -> ChildState] /\ child'["server"] = child["server"]
      BY <3>2, MayForkFacts DEF TypeOK, Child
    <3>4. lost' = (lost \/ Running("greeter") \/ session # "none")
      BY <3>1 DEF StartGreeter
    <3>5. ~lost' /\ lost' \in BOOLEAN
      BY <3>4, <1>2 DEF Running
    <3>6. alarm' \in BOOLEAN /\ dbus' \in BOOLEAN
      BY <3>1 DEF StartGreeter, TypeOK
    <3> QED
      BY <3>1, <3>3, <3>5, <3>6 DEF StartGreeter
  <2> QED
    BY <2>1, <2>2
<1>5. TypeOK'
  <2>1. TypeOK
    OBVIOUS
  <2> HIDE DEF IInv
  <2>2. /\ display' = display /\ pc' = pc /\ quit' = quit /\ wait' = wait /\ exit' = exit
        /\ pipe' = pipe /\ xup' = xup /\ resets' = resets
    BY <1>1
  <2>3. /\ idles' \subseteq {"ready", "connect"} /\ conn' \in BOOLEAN /\ splash' \in BOOLEAN
        /\ greeter' \in {"none", "started", "connected", "stopped"}
        /\ session' \in {"none", "made", "asked", "running"}
    BY <1>1, <1>4
  <2> QED
    BY <1>3, <1>4, <2>1, <2>2, <2>3 DEF TypeOK
<1>6. WaitsInOrder' /\ StoppedGone' /\ Untouched' /\ NothingLeft'
  BY <1>1 DEF WaitsInOrder, StoppedGone, Untouched, NothingLeft
<1>7. OneReadiness'
  BY <1>1, <1>4 DEF OneReadiness
<1>8. NobodyBefore' /\ OneOnDisplay'
  BY <1>1, <1>4 DEF NobodyBefore, OneOnDisplay
<1> QED
  BY <1>5, <1>6, <1>7, <1>8

LEMMA RetryStep == ASSUME IInv, Retry PROVE IInv'
<1> USE DEF IInv, control, login
<1>1. attempts' \in 0 .. MaxTries
  BY TriesAssumption DEF TypeOK, Retry
<1>2. UNCHANGED <<control, login, display, child, pipe, idles, conn, xup, splash,
                  resets>>
  BY DEF Retry
<1>3. TypeOK'
  BY <1>1, <1>2 DEF TypeOK
<1>4. WaitsInOrder' /\ StoppedGone' /\ Untouched' /\ OneReadiness' /\ NobodyBefore'
  BY <1>2 DEF WaitsInOrder, StoppedGone, Untouched, OneReadiness, NobodyBefore
<1>5. OneOnDisplay' /\ NothingLeft'
  BY <1>2 DEF OneOnDisplay, NothingLeft, Running
<1> QED
  BY <1>3, <1>4, <1>5

-----------------------------------------------------------------------------
\* A child is signalled and waited for from the main loop.
LEMMA SignalSteps ==
  ASSUME IInv, HandOver \/ Reset \/ StopGreeter
  PROVE  IInv'
<1> USE DEF IInv, xvars, login
<1>1. PICK c \in {"greeter", "worker"} : child' = Signalled(child, c)
  BY DEF HandOver, Reset, StopGreeter
<1>2. /\ child' \in [Child -> ChildState]
      /\ \A d \in Child : child'[d].proc = child[d].proc
  BY <1>1, SignalledFacts DEF Child, TypeOK
<1>3. /\ pc = "loop"
      /\ UNCHANGED <<xvars, login, display, quit, exit, splash>>
  BY DEF HandOver, Reset, StopGreeter, Loop
<1>4. \/ /\ pc' = "loop" /\ session = "made"
         /\ wait' = [for |-> "greeter", then |-> "start"]
      \/ /\ pc' = "loop" /\ conn
         /\ wait' = [for |-> "worker", then |-> "reset"]
      \/ /\ pc' = "greeter"
         /\ wait' = [for |-> "greeter", then |-> "stop"]
  BY <1>3 DEF HandOver, Reset, StopGreeter, WaitFor, Loop, NobodyBefore
<1>5. resets' \in 0 .. MaxResets
  BY ResetsAssumption DEF TypeOK, HandOver, Reset, StopGreeter
<1>6. TypeOK'
  <2>1. wait' \in [for : Child \cup {"none"}, then : {"none", "start", "reset", "stop"}]
    BY <1>4 DEF Child
  <2>2. pc' \in {"loop", "greeter"}
    BY <1>4
  <2> QED
    BY <1>2, <1>3, <1>5, <2>1, <2>2 DEF TypeOK
<1>7. WaitsInOrder'
  BY <1>3, <1>4 DEF WaitsInOrder
<1>8. StoppedGone' /\ Untouched'
  BY <1>4 DEF StoppedGone, Untouched
<1>9. OneReadiness' /\ NobodyBefore'
  BY <1>2, <1>3 DEF OneReadiness, NobodyBefore, Child
<1>10. OneOnDisplay' /\ NothingLeft'
  BY <1>2, <1>3 DEF OneOnDisplay, NothingLeft, Running, Child
<1> QED
  BY <1>6, <1>7, <1>8, <1>9, <1>10

\* The greeter is gone when the session is asked for; X stays up over it.
LEMMA StartSessionStep == ASSUME IInv, StartSession PROVE IInv'
<1> USE DEF IInv
<1>1. /\ pc = "loop" /\ ~Running("greeter") /\ session = "made"
      /\ wait' = NoWait /\ child' = Forgotten("greeter")
      /\ greeter' = "stopped" /\ session' = "asked" /\ xup' = XAfterGreeter
      /\ UNCHANGED <<display, pc, quit, exit, lost, pipe, idles, conn, attempts,
                     splash, alarm, resets>>
  <2>1. wait = [for |-> "greeter", then |-> "start"] /\ ~Running("greeter")
    BY DEF StartSession, Waited
  <2>2. pc = "loop"
    BY <2>1 DEF WaitsInOrder, NoWait, TypeOK
  <2>3. session = "made"
    BY <2>1, <2>2 DEF WaitsInOrder, NoWait
  <2> QED
    BY <2>1, <2>2, <2>3 DEF StartSession
<1>2. /\ child' \in [Child -> ChildState]
      /\ child'["greeter"].proc = "none"
      /\ child'["server"] = child["server"]
  BY <1>1, ForgottenFacts DEF Child
<1>3. conn /\ xup' = xup
  BY <1>1 DEF NobodyBefore, XAfterGreeter, TypeOK
<1>4. TypeOK'
  <2>1. dbus' \in BOOLEAN
    BY DEF StartSession, BusStays, TypeOK
  <2>2. wait' \in [for : Child \cup {"none"}, then : {"none", "start", "reset", "stop"}]
    BY <1>1 DEF NoWait
  <2>3. xup' \in BOOLEAN
    BY <1>3 DEF TypeOK
  <2> QED
    BY <1>1, <1>2, <2>1, <2>2, <2>3 DEF TypeOK
<1>5. WaitsInOrder' /\ StoppedGone' /\ Untouched' /\ NothingLeft'
  BY <1>1 DEF WaitsInOrder, StoppedGone, Untouched, NothingLeft
<1>6. OneReadiness'
  BY <1>1, <1>2, <1>3 DEF OneReadiness
<1>7. NobodyBefore' /\ OneOnDisplay'
  BY <1>1, <1>2, <1>3 DEF NobodyBefore, OneOnDisplay, Running
<1> QED
  BY <1>4, <1>5, <1>6, <1>7

LEMMA ProgressSteps ==
  ASSUME IInv, SessionStarted \/ GreeterConnected
  PROVE  IInv'
<1> USE DEF IInv, control, xvars
<1>1. /\ pc = "loop"
      /\ UNCHANGED <<control, xvars, lost, dbus, display, splash, resets>>
  BY DEF SessionStarted, GreeterConnected, Loop
<1>2. /\ child' \in [Child -> ChildState]
      /\ child'["server"] = child["server"] /\ child'["greeter"] = child["greeter"]
  <2>1. CASE SessionStarted
    BY <2>1 DEF SessionStarted, TypeOK
  <2>2. CASE GreeterConnected
    <3>1. child' \in MayFork(child, "worker")
      BY <2>2 DEF GreeterConnected
    <3> QED
      BY <3>1, MayForkFacts DEF Child, TypeOK
  <2> QED
    BY <2>1, <2>2
<1>3. /\ greeter' # "none" <=> greeter # "none"
      /\ greeter' \in {"none", "started", "connected", "stopped"}
      /\ session' = session \/ (session = "asked" /\ session' = "running")
      /\ alarm' \in BOOLEAN
  BY DEF SessionStarted, GreeterConnected, TypeOK
<1>4. TypeOK'
  BY <1>1, <1>2, <1>3 DEF TypeOK
<1>5. WaitsInOrder'
  <2>1. session = "made" => session' = "made"
    BY <1>3
  <2> QED
    BY <1>1, <2>1 DEF WaitsInOrder
<1>6. StoppedGone' /\ Untouched' /\ OneReadiness'
  BY <1>1, <1>2 DEF StoppedGone, Untouched, OneReadiness
<1>7. NothingLeft'
  BY <1>1 DEF NothingLeft, WaitsInOrder
<1>8. NobodyBefore' /\ OneOnDisplay'
  BY <1>1, <1>2, <1>3 DEF NobodyBefore, OneOnDisplay, Running
<1> QED
  BY <1>4, <1>5, <1>6, <1>7, <1>8

\* The session of a reset: its worker is gone, and where there is no greeter
\* server none runs.
LEMMA NewSessionStep == ASSUME IInv, NewSession PROVE IInv'
<1> USE DEF IInv, xvars
<1> DEFINE ch == Forgotten("worker")
<1>1. /\ pc = "loop" /\ ~Running("worker") /\ wait' = NoWait
      /\ UNCHANGED <<xvars, display, pc, quit, exit, splash, resets>>
  <2>1. wait = [for |-> "worker", then |-> "reset"] /\ ~Running("worker")
    BY DEF NewSession, Waited
  <2>2. pc = "loop"
    BY <2>1 DEF WaitsInOrder, NoWait, TypeOK
  <2> QED
    BY <2>1, <2>2 DEF NewSession
<1>2. /\ ch \in [Child -> ChildState]
      /\ ch["server"] = child["server"] /\ ch["greeter"] = child["greeter"]
  BY ForgottenFacts DEF Child
<1> HIDE DEF ch
<1>3. /\ child' \in [Child -> ChildState]
      /\ child'["server"] = child["server"]
      /\ greeter' = "none" => child'["greeter"].proc = "none"
      /\ greeter' \in {"none", "started", "connected", "stopped"}
      /\ session' = "made" /\ ~lost' /\ lost' \in BOOLEAN
      /\ dbus' \in BOOLEAN /\ alarm' \in BOOLEAN
  <2>1. CASE greeter # "none"
    <3>1. child' \in MayFork(ch, "worker") /\ session' = "made"
          /\ UNCHANGED <<lost, dbus, greeter, alarm>>
      BY <2>1 DEF NewSession, StartConversation, ch
    <3>2. child' \in [Child -> ChildState] /\ child'["server"] = child["server"]
      BY <3>1, <1>2, MayForkFacts DEF Child
    <3> QED
      BY <2>1, <3>1, <3>2 DEF TypeOK, OneOnDisplay
  <2>2. CASE greeter = "none"
    <3>1. child' \in MayFork(ch, "greeter") /\ session' = "made"
          /\ greeter' = "started"
      BY <2>2 DEF NewSession, StartGreeter, ch
    <3>2. child' \in [Child -> ChildState] /\ child'["server"] = child["server"]
      BY <3>1, <1>2, MayForkFacts DEF Child
    <3>3. lost' = (lost \/ Running("greeter") \/ "none" # "none")
      BY <2>2 DEF NewSession, StartGreeter
    <3>4. ~Running("greeter") /\ ~lost
      BY <1>1, <2>2 DEF NobodyBefore, OneOnDisplay, Running
    <3>5. ~lost' /\ lost' \in BOOLEAN
      BY <3>3, <3>4
    <3>6. dbus' \in BOOLEAN /\ alarm' \in BOOLEAN
      BY <2>2 DEF NewSession, StartGreeter, TypeOK
    <3> QED
      BY <3>1, <3>2, <3>5, <3>6
  <2> QED
    BY <2>1, <2>2
<1>4. conn
  BY <1>1 DEF NewSession, Waited, WaitsInOrder, NoWait
<1>5. TypeOK'
  <2>1. wait' \in [for : Child \cup {"none"}, then : {"none", "start", "reset", "stop"}]
    BY <1>1 DEF NoWait
  <2> QED
    BY <1>1, <1>3, <2>1 DEF TypeOK
<1>6. WaitsInOrder' /\ StoppedGone' /\ Untouched' /\ NothingLeft'
  BY <1>1 DEF WaitsInOrder, StoppedGone, Untouched, NothingLeft
<1>7. OneReadiness'
  BY <1>1, <1>3 DEF OneReadiness
<1>8. NobodyBefore' /\ OneOnDisplay'
  BY <1>1, <1>3, <1>4 DEF NobodyBefore, OneOnDisplay
<1> QED
  BY <1>5, <1>6, <1>7, <1>8

-----------------------------------------------------------------------------
\* mdm_simple_slave_stop: what is stopped is waited for before the next.
LEMMA StopSteps ==
  ASSUME IInv, StopSession \/ StopServer
  PROVE  IInv'
<1> USE DEF IInv, xvars
<1>1. PICK c \in {"greeter", "worker"}, d \in {"worker", "server"} :
        /\ ~Running(c) /\ c # d
        /\ child' = Signalled(Forgotten(c), d)
        /\ wait' = [for |-> d, then |-> "stop"]
        /\ \/ c = "greeter" /\ d = "worker" /\ pc = "greeter" /\ pc' = "session"
           \/ c = "worker" /\ d = "server" /\ pc = "session" /\ pc' = "server"
  <2>1. CASE StopSession
    <3>1. wait = [for |-> "greeter", then |-> "stop"] /\ ~Running("greeter")
      BY <2>1 DEF StopSession, Waited
    <3>2. pc = "greeter"
      BY <3>1 DEF WaitsInOrder, NoWait, TypeOK
    <3> QED
      BY <2>1, <3>1, <3>2 DEF StopSession, WaitFor
  <2>2. CASE StopServer
    <3>1. wait = [for |-> "worker", then |-> "stop"] /\ ~Running("worker")
      BY <2>2 DEF StopServer, Waited
    <3>2. pc = "session"
      BY <3>1 DEF WaitsInOrder, NoWait, TypeOK
    <3> QED
      BY <2>2, <3>1, <3>2 DEF StopServer, WaitFor
  <2> QED
    BY <2>1, <2>2
<1>2. /\ child' \in [Child -> ChildState]
      /\ child'[c].proc = "none"
      /\ \A e \in Child : e # c => child'[e].proc = child[e].proc
  <2> DEFINE ch == Forgotten(c)
  <2>1. /\ ch \in [Child -> ChildState]
        /\ ch[c].proc = "none"
        /\ \A e \in Child : e # c => ch[e] = child[e]
    BY <1>1, ForgottenFacts DEF Child
  <2> HIDE DEF ch
  <2>2. d \in Child /\ c \in Child
    BY DEF Child
  <2>3. /\ Signalled(ch, d) \in [Child -> ChildState]
        /\ \A e \in Child : Signalled(ch, d)[e].proc = ch[e].proc
    BY <2>1, <2>2, SignalledFacts
  <2> QED
    BY <1>1, <2>1, <2>2, <2>3 DEF ch
<1>3. /\ UNCHANGED <<display, quit, exit, lost, splash, alarm, resets, pipe, idles,
                     conn, attempts>>
      /\ xup' \in BOOLEAN /\ dbus' \in BOOLEAN
      /\ greeter' \in {"stopped", greeter}
      /\ session' \in {"none", session}
  BY DEF StopSession, StopServer, XAfterGreeter, BusStays, TypeOK
<1>4. TypeOK'
  <2>1. wait' \in [for : Child \cup {"none"}, then : {"none", "start", "reset", "stop"}]
    BY <1>1 DEF Child
  <2>2. pc' \in {"session", "server"}
    BY <1>1
  <2> QED
    BY <1>2, <1>3, <2>1, <2>2 DEF TypeOK
<1>5. WaitsInOrder'
  BY <1>1, <1>3 DEF WaitsInOrder
<1>6. StoppedGone'
  BY <1>1, <1>2 DEF StoppedGone, Child
<1>7. Untouched' /\ OneReadiness' /\ NobodyBefore'
  BY <1>1 DEF Untouched, OneReadiness, NobodyBefore
<1>8. NothingLeft'
  BY <1>1, <1>3 DEF NothingLeft, WaitsInOrder
<1>9. OneOnDisplay'
  BY <1>1, <1>2, <1>3 DEF OneOnDisplay, Running, Child
<1> QED
  BY <1>4, <1>5, <1>6, <1>7, <1>8, <1>9

\* main returns when the X server, the last child, is gone.
LEMMA ReturnStep == ASSUME IInv, Return PROVE IInv'
<1> USE DEF IInv, xvars, login
<1>1. /\ pc = "server" /\ ~Running("server")
      /\ pc' = "gone" /\ exit' = "returned" /\ wait' = NoWait
      /\ child' = Forgotten("server")
      /\ UNCHANGED <<xvars, login, display, quit, splash, resets>>
  <2>1. wait = [for |-> "server", then |-> "stop"] /\ ~Running("server")
    BY DEF Return, Waited
  <2>2. pc = "server"
    BY <2>1 DEF WaitsInOrder, NoWait, TypeOK
  <2> QED
    BY <2>1, <2>2 DEF Return
<1>2. /\ child' \in [Child -> ChildState]
      /\ \A c \in Child : child'[c].proc = "none"
  BY <1>1, ForgottenFacts DEF StoppedGone, Child
<1>3. TypeOK'
  BY <1>1, <1>2 DEF TypeOK, NoWait
<1>4. WaitsInOrder' /\ StoppedGone' /\ Untouched' /\ OneReadiness' /\ NobodyBefore'
  BY <1>1 DEF WaitsInOrder, StoppedGone, Untouched, OneReadiness, NobodyBefore
<1>5. NothingLeft' /\ OneOnDisplay'
  BY <1>1, <1>2 DEF NothingLeft, OneOnDisplay, Running, Child
<1> QED
  BY <1>3, <1>4, <1>5

LEMMA IdleStep == ASSUME IInv, UNCHANGED vars PROVE IInv'
<1> USE DEF IInv, vars, control, xvars, login
<1>1. TypeOK'
  BY DEF TypeOK
<1>2. WaitsInOrder' /\ StoppedGone' /\ Untouched' /\ OneReadiness' /\ NobodyBefore'
  BY DEF WaitsInOrder, StoppedGone, Untouched, OneReadiness, NobodyBefore
<1>3. OneOnDisplay' /\ NothingLeft'
  BY DEF OneOnDisplay, NothingLeft, Running
<1> QED
  BY <1>1, <1>2, <1>3

\* Every step keeps the invariant.
LEMMA StepIInv == IInv /\ [Next]_vars => IInv'
<1> SUFFICES ASSUME IInv, [Next]_vars PROVE IInv'
  OBVIOUS
<1>1. CASE Slave
  BY <1>1, StartSlaveStep, AbandonSteps, QueueSteps, ConnectStep, RetryStep,
     SignalSteps, StartSessionStep, ProgressSteps, NewSessionStep, WatchSteps,
     StopSteps, ReturnStep DEF Slave
<1>2. CASE Surroundings
  BY <1>2, QueueSteps, AbandonSteps, EndSteps DEF Surroundings
<1>3. CASE Finished \/ UNCHANGED vars
  BY <1>3, IdleStep DEF Finished
<1> QED
  BY <1>1, <1>2, <1>3 DEF Next

-----------------------------------------------------------------------------
\* The invariant holds in every reachable state.
THEOREM Invariant == Spec => []IInv
  BY InitIInv, StepIInv, PTL DEF Spec

\* Every variable of the slave keeps its type.
THEOREM TypeCorrect == Spec => []TypeOK
<1>1. IInv => TypeOK
  BY DEF IInv
<1> QED
  BY <1>1, Invariant, PTL

\* When main returns, through whatever waits, resets and ends of children it was
\* told to stop, none of the slave's children is left: mdm_simple_slave_stop
\* waits for each before the next, and nothing forked was ever overwritten.
THEOREM NothingLeftBehind == Spec => []NothingLeft
<1>1. IInv => NothingLeft
  BY DEF IInv
<1> QED
  BY <1>1, Invariant, PTL

\* One setup of the display: the X server's readiness reaches the slave once,
\* because the slave's own connection keeps the server from resetting, and the
\* user's session is only asked for when the greeter has been waited for.
THEOREM DisplaySetUpOnce == Spec => []OneOnDisplay
<1>1. IInv => OneOnDisplay
  BY DEF IInv
<1> QED
  BY <1>1, Invariant, PTL
==============================================================================
