---------------------------- MODULE SlaveProcess -----------------------------
(***************************************************************************)
(* The simple slave as a process: from the start, over the X server that    *)
(* becomes ready, the greeter and the session worker, to its end.  It is    *)
(* one GLib main loop that forks its children, watches them, and waits for  *)
(* them with a blocking waitpid when it stops them.                         *)
(*                                                                         *)
(* A login itself is in LoginSession: here it is a greeter that connects, a *)
(* number of resets and at most one start of the user's session.            *)
(***************************************************************************)
EXTENDS Naturals

CONSTANTS
  MaxTries,    \* MAX_CONNECT_ATTEMPTS
  MaxResets    \* how often the conversation is reset (a bound)

ASSUME TriesAssumption == MaxTries \in Nat \ {0}
ASSUME ResetsAssumption == MaxResets \in Nat

VARIABLES
  display,   \* what is known of the display: local, automatic login, fetched
  pc,        \* "new", "loop", stopping: "greeter", "session", "server"; "gone"
  quit,      \* the main loop was quit
  wait,      \* the child in waitpid, and what the slave does after it
  exit,      \* "none", "returned" from main, "exit" (1), "killed"
  child,     \* the children and the slave's idea of them
  lost,      \* a running greeter, or a session, was overwritten
  pipe,      \* signals in the pipe of MdmSignalHandler
  idles,     \* queued idles and timeouts
  conn,      \* server_display: the connection that keeps X from resetting
  attempts,  \* connection_attempts
  xup,       \* the X server has sent SIGUSR1 in this generation
  greeter,   \* "none", "started", "connected", or "stopped": greeter_server stays
  session,   \* slave->priv->session: "none", "made", "asked", "running"
  dbus,      \* the greeter's dbus-daemon runs
  splash,    \* plymouth_is_running
  alarm,     \* alarm (ping_interval) is set
  resets     \* (bounds the model)

control == <<pc, quit, wait, exit>>
xvars == <<pipe, idles, conn, attempts, xup>>
login == <<greeter, session, dbus, lost, alarm>>
vars == <<control, xvars, login, display, child, splash, resets>>

Child == {"server", "greeter", "worker"}

ChildState ==
  [proc : {"none", "running", "zombie",
           "reaped"},    \* by GLib, and the watch is not dispatched
   told : BOOLEAN,       \* SIGTERM was sent
   pid : BOOLEAN,        \* the slave has its pid
   watch : BOOLEAN]      \* child_watch_id

NoChild == [proc |-> "none", told |-> FALSE, pid |-> FALSE, watch |-> FALSE]
Forked == [proc |-> "running", told |-> FALSE, pid |-> TRUE, watch |-> TRUE]
NoWait == [for |-> "none", then |-> "none"]

TypeOK ==
  /\ display \in [local : BOOLEAN, auto : BOOLEAN, fetched : BOOLEAN]
  /\ pc \in {"new", "loop", "greeter", "session", "server", "gone"}
  /\ quit \in BOOLEAN
  /\ wait \in [for : Child \cup {"none"}, then : {"none", "start", "reset", "stop"}]
  /\ exit \in {"none", "returned", "exit", "killed"}
  /\ child \in [Child -> ChildState]
  /\ lost \in BOOLEAN
  /\ pipe \subseteq {"USR1", "TERM"}
  /\ idles \subseteq {"ready", "connect"}
  /\ conn \in BOOLEAN
  /\ attempts \in 0 .. MaxTries
  /\ xup \in BOOLEAN
  /\ greeter \in {"none", "started", "connected", "stopped"}
  /\ session \in {"none", "made", "asked", "running"}
  /\ dbus \in BOOLEAN /\ splash \in BOOLEAN /\ alarm \in BOOLEAN
  /\ resets \in 0 .. MaxResets

Init ==
  /\ display \in [local : BOOLEAN, auto : BOOLEAN, fetched : {FALSE}]
  /\ pc = "new" /\ quit = FALSE /\ wait = NoWait /\ exit = "none"
  /\ child = [c \in Child |-> NoChild] /\ lost = FALSE
  /\ pipe = {} /\ idles = {} /\ conn = FALSE /\ attempts = 0 /\ xup = FALSE
  /\ greeter = "none" /\ session = "none"
  /\ dbus = FALSE /\ alarm = FALSE /\ resets = 0
  /\ splash \in IF display.local THEN BOOLEAN ELSE {FALSE}

Running(c) == child[c].proc = "running"
Ended(c) == child[c].proc \in {"zombie", "reaped"}

\* A callback of the main loop.  After a quit those of the same iteration are
\* still dispatched.
Loop == pc = "loop" /\ wait = NoWait

-----------------------------------------------------------------------------
(***************************************************************************)
(* The end of the process.                                                  *)
(***************************************************************************)
\* PR_SET_PDEATHSIG: the X server and the worker get SIGTERM, the greeter not.
DeathSignal ==
  [c \in Child |-> IF c # "greeter" /\ Running(c)
                   THEN [child[c] EXCEPT !.told = TRUE] ELSE child[c]]

Leave(how) ==
  /\ pc' = "gone" /\ exit' = how /\ wait' = NoWait
  /\ child' = DeathSignal

\* exit (1), an uncaught signal: no child is stopped.
Abandon(how) ==
  /\ Leave(how)
  /\ UNCHANGED <<xvars, login, display, quit, resets>>

\* Nothing handles SIGALRM.
AlarmRings == alarm /\ pc # "gone" /\ Abandon("killed") /\ UNCHANGED splash
Killed == pc # "gone" /\ Abandon("killed") /\ UNCHANGED splash

-----------------------------------------------------------------------------
(***************************************************************************)
(* Starting.                                                                *)
(***************************************************************************)
\* mdm_slave_real_start asks the daemon about the display.  Its failure is
\* ignored: the display may then count as remote.
Fetched == {[display EXCEPT !.fetched = TRUE]} \cup
           {[display EXCEPT !.local = l] : l \in {FALSE, display.local}}

\* mdm_simple_slave_run: the X server, or a timeout to connect to a remote one.
\* Without an active VT the splash screen is ended first.
StartSlave ==
  /\ pc = "new"
  /\ \E d \in Fetched :
       /\ display' = d
       /\ IF d.local
          THEN /\ child' = [child EXCEPT !["server"] = Forked]
               /\ splash' \in {FALSE, splash}
               /\ UNCHANGED idles
          ELSE /\ idles' = {"connect"}
               /\ splash' = FALSE   \* plymouth_is_running is not even asked
               /\ UNCHANGED child
  /\ pc' = "loop"
  /\ UNCHANGED <<login, quit, wait, exit, pipe, conn, attempts, xup, resets>>

\* The X server could not be forked.
StartFails == pc = "new" /\ display.local /\ splash' = FALSE /\ Abandon("exit")

\* SIGUSR1 of the X server; a new one when X has reset.
XReady ==
  /\ pc # "gone" /\ Running("server") /\ ~xup
  /\ xup' = TRUE
  /\ pipe' = pipe \cup {"USR1"}
  /\ UNCHANGED <<control, login, display, child, idles, conn, attempts,
                 splash, resets>>

\* SIGTERM of the daemon, at any time.
Term ==
  /\ pc # "gone" /\ "TERM" \notin pipe /\ ~quit
  /\ pipe' = pipe \cup {"TERM"}
  /\ UNCHANGED <<control, login, display, child, idles, conn, attempts, xup,
                 splash, resets>>

\* signal_io_watch with the callbacks of mdm-server.c and simple-slave-main.c.
SignalIoWatch ==
  /\ Loop /\ pipe # {}
  /\ pipe' = {}
  /\ idles' = IF "USR1" \in pipe THEN idles \cup {"ready"} ELSE idles
  /\ quit' = (quit \/ "TERM" \in pipe)
  /\ UNCHANGED <<login, display, pc, wait, exit, child, conn, attempts, xup,
                 splash, resets>>

\* emit_ready_idle and on_server_ready.
EmitReady ==
  /\ Loop /\ "ready" \in idles
  /\ idles' = (idles \ {"ready"}) \cup {"connect"}
  /\ UNCHANGED <<control, login, display, child, pipe, conn, attempts, xup,
                 splash, resets>>

-----------------------------------------------------------------------------
(***************************************************************************)
(* Connecting.                                                              *)
(***************************************************************************)
\* What could not be forked is not watched, and nobody hears of it.
MayFork(ch, c) == {[ch EXCEPT ![c] = Forked], [ch EXCEPT ![c] = NoChild]}

KeepConnection_Closed == FALSE   \* mutant: the slave closes its connection

\* "We keep our own (windowless) connection (dsp) open"
KeepConnection == TRUE

\* start_greeter and create_new_session.  A greeter and a session that are there
\* already are forgotten.
StartGreeter(ch, s) ==
  /\ child' \in MayFork(ch, "greeter")
  /\ lost' = (lost \/ Running("greeter") \/ s # "none")
  /\ dbus' \in BOOLEAN
  /\ greeter' = "started"
  /\ session' = "made"
  /\ alarm' = ~display.local

\* mdm_session_direct_start_conversation.
StartConversation(ch) ==
  /\ child' \in MayFork(ch, "worker")
  /\ session' = "made"
  /\ UNCHANGED <<lost, dbus, greeter, alarm>>

Reachable == ~display.local \/ Running("server")

\* idle_connect_to_display, the display opened.
Connect ==
  /\ Loop /\ "connect" \in idles /\ display.fetched
  /\ attempts < MaxTries /\ Reachable
  /\ idles' = idles \ {"connect"}
  /\ attempts' = attempts + 1
  /\ conn' = KeepConnection
  /\ splash' = FALSE
  /\ IF display.auto THEN StartConversation(child) ELSE StartGreeter(child, session)
  /\ UNCHANGED <<control, display, pipe, xup, resets>>

Retry_NoLimit ==   \* mutant: the attempts are not counted against the limit
  /\ Loop /\ "connect" \in idles /\ display.fetched
  /\ attempts <= MaxTries
  /\ attempts' = attempts + 1
  /\ UNCHANGED <<control, login, display, child, pipe, idles, conn, xup,
                 splash, resets>>

\* It cannot be opened: again, MAX_CONNECT_ATTEMPTS times.
Retry ==
  /\ Loop /\ "connect" \in idles /\ display.fetched
  /\ attempts + 1 < MaxTries
  /\ attempts' = attempts + 1
  /\ UNCHANGED <<control, login, display, child, pipe, idles, conn, xup,
                 splash, resets>>

BailOut ==
  /\ Loop /\ "connect" \in idles /\ display.fetched
  /\ attempts + 1 >= MaxTries
  /\ Abandon("exit") /\ UNCHANGED splash

\* The cookie was not fetched and is read.
ConnectCrashes ==
  Loop /\ "connect" \in idles /\ ~display.fetched
    /\ Abandon("killed") /\ UNCHANGED splash

-----------------------------------------------------------------------------
(***************************************************************************)
(* Stopping a child: SIGTERM and waitpid.                                   *)
(***************************************************************************)
\* The watch is removed and the signal sent, when there is a pid.
Signalled(ch, c) ==
  [ch EXCEPT ![c].watch = FALSE,
             ![c].told = ch[c].pid /\ ch[c].proc = "running"]

\* Its pid is cleared, or its object is.
Forgotten(c) ==
  [child EXCEPT ![c] = [NoChild EXCEPT !.proc = IF Running(c) THEN "running" ELSE "none",
                                       !.told = Running(c) /\ child[c].told]]

WaitFor(c, then) == wait' = [for |-> c, then |-> then]

Waited_Not(c, then) ==   \* mutant: the end is not waited for
  wait = [for |-> c, then |-> then]

\* waitpid returns; at once for a child that was not there, or that GLib has
\* reaped already (kill says ESRCH).
Waited(c, then) ==
  wait = [for |-> c, then |-> then] /\ ~Running(c)

\* The X server resets when its last client has left.
XAfterGreeter == xup /\ conn

\* start_session_timeout: the greeter is stopped, the session started after it.
HandOver ==
  /\ Loop /\ session = "made" /\ Running("worker")
  /\ WaitFor("greeter", "start") /\ child' = Signalled(child, "greeter")
  /\ UNCHANGED <<xvars, login, display, pc, quit, exit, splash, resets>>

\* mdm_welcome_session_stop returns early without a pid: its dbus-daemon stays.
BusStays == dbus /\ ~child["greeter"].pid

StartSession ==
  /\ Waited("greeter", "start") /\ wait' = NoWait
  /\ child' = Forgotten("greeter")
  /\ greeter' = "stopped" /\ dbus' = BusStays
  /\ session' = "asked"
  /\ xup' = XAfterGreeter
  /\ UNCHANGED <<display, pc, quit, exit, lost, pipe, idles, conn, attempts,
                 splash, alarm, resets>>

\* handle_session_started.
SessionStarted ==
  /\ Loop /\ session = "asked" /\ Running("worker")
  /\ session' = "running"
  /\ UNCHANGED <<control, xvars, display, child, lost, greeter, dbus, splash,
                 alarm, resets>>

\* on_greeter_connected: the first conversation; the alarm is cleared.
GreeterConnected ==
  /\ Loop /\ greeter = "started" /\ Running("greeter")
  /\ greeter' = "connected"
  /\ child' \in MayFork(child, "worker")
  /\ alarm' = FALSE
  /\ UNCHANGED <<control, xvars, lost, session, dbus, display, splash, resets>>

\* greeter_reset_timeout: the user cancelled, or a step of the login failed,
\* which it can before there is a greeter too.  A call of a greeter that has been
\* stopped since is dispatched as well.
Reset ==
  /\ Loop /\ resets < MaxResets
  /\ \/ greeter \in {"connected", "stopped"}
     \/ greeter = "none" /\ session = "made" /\ Running("worker")
  /\ resets' = resets + 1
  /\ WaitFor("worker", "reset") /\ child' = Signalled(child, "worker")
  /\ UNCHANGED <<xvars, login, display, pc, quit, exit, splash>>

\* A new session; with a greeter server its worker too, else a greeter.
NewSession ==
  /\ Waited("worker", "reset") /\ wait' = NoWait
  /\ IF greeter # "none" THEN StartConversation(Forgotten("worker"))
     ELSE StartGreeter(Forgotten("worker"), "none")
  /\ UNCHANGED <<xvars, display, pc, quit, exit, splash, resets>>

-----------------------------------------------------------------------------
(***************************************************************************)
(* Children end.                                                            *)
(***************************************************************************)
Dispatched(c) == [child EXCEPT ![c] = NoChild]

\* server_child_watch, on_server_exited, on_server_died.
ServerWatch ==
  /\ Loop /\ Ended("server") /\ child["server"].watch
  /\ child' = Dispatched("server")
  /\ quit' = TRUE
  /\ splash' = FALSE
  /\ UNCHANGED <<xvars, login, display, pc, wait, exit, resets>>

\* welcome_session_child_watch, on_greeter_session_exited: the slave stops, and
\* the greeter's session and bus are closed.
GreeterWatch ==
  /\ Loop /\ Ended("greeter") /\ child["greeter"].watch
  /\ child' = Dispatched("greeter")
  /\ quit' = TRUE
  /\ dbus' = FALSE
  /\ UNCHANGED <<xvars, display, pc, wait, exit, lost, greeter, session,
                 splash, alarm, resets>>

WorkerWatch_Unheard ==   \* mutant: the end of the session is not reported
  /\ Loop /\ Ended("worker") /\ child["worker"].watch
  /\ child' = Dispatched("worker")
  /\ UNCHANGED <<control, xvars, login, display, splash, resets>>

\* session_worker_job_child_watch, worker_exited, worker_died: the end of a
\* running session is the end of the slave.
WorkerWatch ==
  /\ Loop /\ Ended("worker") /\ child["worker"].watch
  /\ child' = Dispatched("worker")
  /\ quit' = (quit \/ session = "running")
  /\ UNCHANGED <<xvars, login, display, pc, wait, exit, splash, resets>>

\* A child ends, of itself or because it was told.
ChildEnds(c) ==
  /\ Running(c)
  /\ child' = [child EXCEPT ![c].proc = IF pc = "gone" THEN "none" ELSE "zombie"]
  /\ UNCHANGED <<control, xvars, login, display, splash, resets>>

\* GLib's waitpid.
Reap(c) ==
  /\ pc # "gone" /\ child[c].proc = "zombie" /\ child[c].watch
  /\ child' = [child EXCEPT ![c].proc = "reaped"]
  /\ UNCHANGED <<control, xvars, login, display, splash, resets>>

-----------------------------------------------------------------------------
(***************************************************************************)
(* The main loop has returned: mdm_simple_slave_finalize and _stop.         *)
(***************************************************************************)
StopGreeter ==
  /\ Loop /\ quit
  /\ pc' = "greeter"
  /\ WaitFor("greeter", "stop") /\ child' = Signalled(child, "greeter")
  /\ UNCHANGED <<xvars, login, display, quit, exit, splash, resets>>

StopSession ==
  /\ Waited("greeter", "stop")
  /\ pc' = "session"
  /\ greeter' = "stopped" /\ dbus' = BusStays
  /\ xup' = XAfterGreeter
  /\ WaitFor("worker", "stop")
  /\ child' = Signalled(Forgotten("greeter"), "worker")
  /\ UNCHANGED <<display, quit, exit, lost, pipe, idles, conn, attempts,
                 session, splash, alarm, resets>>

StopServer ==
  /\ Waited("worker", "stop")
  /\ pc' = "server"
  /\ session' = "none"
  /\ WaitFor("server", "stop")
  /\ child' = Signalled(Forgotten("worker"), "server")
  /\ UNCHANGED <<xvars, display, quit, exit, lost, greeter, dbus, splash,
                 alarm, resets>>

Return ==
  /\ Waited("server", "stop")
  /\ pc' = "gone" /\ exit' = "returned" /\ wait' = NoWait
  /\ child' = Forgotten("server")
  /\ UNCHANGED <<xvars, login, display, quit, splash, resets>>

-----------------------------------------------------------------------------
Slave ==
  \/ StartSlave \/ StartFails \/ SignalIoWatch \/ EmitReady
  \/ Connect \/ Retry \/ BailOut \/ ConnectCrashes
  \/ HandOver \/ StartSession \/ SessionStarted \/ GreeterConnected
  \/ Reset \/ NewSession
  \/ ServerWatch \/ GreeterWatch \/ WorkerWatch
  \/ StopGreeter \/ StopSession \/ StopServer \/ Return

Surroundings ==
  \/ XReady \/ Term \/ AlarmRings \/ Killed
  \/ \E c \in Child : ChildEnds(c) \/ Reap(c)

\* The slave is gone.
Finished == pc = "gone" /\ UNCHANGED vars

Next == Slave \/ Surroundings \/ Finished

Spec == Init /\ [][Next]_vars

ObeysTerm(c) == child[c].told /\ ChildEnds(c)

\* The main loop runs and serves every source, and what was told to end ends.
Fairness ==
  /\ WF_vars(StartSlave \/ StartFails)
  /\ WF_vars(SignalIoWatch) /\ WF_vars(EmitReady)
  /\ WF_vars(Connect \/ Retry \/ BailOut \/ ConnectCrashes)
  /\ WF_vars(StartSession \/ NewSession)
  /\ WF_vars(ServerWatch) /\ WF_vars(GreeterWatch) /\ WF_vars(WorkerWatch)
  /\ WF_vars(StopGreeter \/ StopSession \/ StopServer \/ Return)
  /\ \A c \in Child : WF_vars(ObeysTerm(c))

FairSpec == Spec /\ Fairness

-----------------------------------------------------------------------------
\* A slave whose main has returned leaves no process of its own behind, neither
\* running nor unwaited for, whatever ended by itself, or was being replaced,
\* when it was told to stop (mdm_simple_slave_stop).
NothingLeft ==
  exit = "returned" => ~lost /\ \A c \in Child : child[c].proc = "none"

\* The display is set up once: no second greeter, none beside the user's session,
\* and no session that a new one has overwritten.  The X server is ready once
\* because the slave keeps its connection ("to avoid the X server resetting",
\* mdm-slave.c).
OneOnDisplay ==
  /\ ~lost
  /\ session \in {"asked", "running"} => ~Running("greeter")

\* SIGTERM, the end of the X server, of the greeter and of the running session
\* are noticed, and the slave comes to an end through all that it waits for; a
\* greeter that was stopped for the session, and a session that a late reset
\* has replaced, end nothing.  A slave that exits or is killed without stopping
\* anything takes the X server and the worker with it (PR_SET_PDEATHSIG), so that
\* the next slave of the display can start its own.  Otherwise it serves: an X
\* server that is ready gets its greeter, or its automatic login, and the splash
\* screen makes room for it.
SlaveEnds ==
  /\ "TERM" \in pipe \/ Ended("server") \/ quit ~> pc = "gone"
  /\ Ended("greeter") ~> pc = "gone" \/ session \in {"asked", "running"}
  /\ Ended("worker") /\ session = "running" ~> pc = "gone" \/ session = "made"
  /\ pc = "gone" ~> ~Running("server") /\ ~Running("worker")
  /\ "USR1" \in pipe ~> pc = "gone" \/ (~splash /\ session # "none")

==============================================================================
