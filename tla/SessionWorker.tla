---------------------------- MODULE SessionWorker ----------------------------
(***************************************************************************)
(* mdm-session-worker: the process that runs one PAM transaction for the    *)
(* slave.  Requests of the slave are D-Bus signals queued in inbox; a       *)
(* request that fits the state queues an idle, and the idle runs the next   *)
(* PAM step.  Everything the worker tells the slave is a blocking method    *)
(* call, so at most one call is out and nothing else happens meanwhile.     *)
(***************************************************************************)
EXTENDS LoginNames

CONSTANTS
  AskingSteps,   \* the PAM steps whose modules ask the user something
  RenamingSteps, \* the PAM steps whose modules replace or clear PAM_USER
  WorkerFaults   \* what may go wrong: subset of {"crash", "fork"}

ASSUME AskingAssumption == AskingSteps \subseteq 2 .. 5
ASSUME RenamingAssumption == RenamingSteps \subseteq 2 .. 5

VARIABLES
  worker,  \* the worker process of the current conversation
  inbox    \* the signals of the slave it has not dispatched

workerVars == <<worker, inbox>>

\* MdmSessionWorkerState; the states after SESSION_STARTED are never asked for.
NONE == 0
SETUP_COMPLETE == 1
AUTHENTICATED == 2
AUTHORIZED == 3
ACCREDITED == 4
SESSION_OPENED == 5
SESSION_STARTED == 6
States == NONE .. SESSION_STARTED

\* The state a request needs; in any other it is "spurious" and ignored.
Needs == [Setup |-> NONE, Authenticate |-> SETUP_COMPLETE,
          Authorize |-> AUTHENTICATED, EstablishCredentials |-> AUTHORIZED,
          OpenSession |-> ACCREDITED, StartProgram |-> SESSION_OPENED]

Request == [name : DOMAIN Needs, user : User \cup {NoUser}]

\* The method calls that report the end of a step.
Completed == <<"SetupComplete", "Authenticated", "Authorized", "Accredited",
               "SessionOpened", "SessionStarted">>
Failed == <<"SetupFailed", "AuthenticationFailed", "AuthorizationFailed",
            "AccreditationFailed", "OpenFailed", "StartFailed">>
Reports == {Completed[k] : k \in 1 .. 6} \cup {Failed[k] : k \in 1 .. 6}

\* "answer": the slave holds the question and has not replied to it.
WorkerCalls == Reports \cup {"Query", "UsernameChanged", "SessionExited"}

WorkerRecord ==
  [pc : {"none", "starting", "up", "dead"},
   state : States,
   idle : BOOLEAN,         \* state_change_idle_id # 0
   step : States,          \* the step being run, NONE between steps
   call : WorkerCalls \cup {"none", "answer"},
   user : User \cup {NoUser}]

NoWorker == [pc |-> "none", state |-> NONE, idle |-> FALSE, step |-> NONE,
             call |-> "none", user |-> NoUser]
NewWorker == [NoWorker EXCEPT !.pc = "starting"]

WorkerTypeOK == worker \in WorkerRecord /\ inbox \in Seq(Request)

\* The worker is in its main loop.
Listening == worker.pc = "up" /\ worker.step = NONE /\ worker.call = "none"

\* The worker is inside step k, and not in a call.
Running(k) == worker.pc = "up" /\ worker.step = k /\ worker.call = "none"

-----------------------------------------------------------------------------
Accepts_AnyState(m) == TRUE   \* mutant: a request is never spurious

Accepts_AnySetup(m) ==        \* mutant: on_setup_for_user without its guard
  m.name = "Setup" \/ worker.state = Needs[m.name]

\* The first condition of on_setup, on_authenticate, ..., on_start_program.
Accepts(m) == worker.state = Needs[m.name]

\* worker_dbus_handle_message: the slave's next signal; a setup, with or
\* without a user, replaces what an earlier one left, and queue_state_change
\* does nothing when an idle is already queued.
OnRequest ==
  /\ Listening
  /\ inbox # <<>>
  /\ inbox' = Tail(inbox)
  /\ LET m == Head(inbox) IN
       worker' =
         IF Accepts(m)
         THEN [worker EXCEPT !.idle = TRUE,
                             !.user = IF m.name = "Setup" THEN m.user ELSE @]
         ELSE worker

\* state_change_idle: the step after the current state.
StateChangeIdle ==
  /\ Listening
  /\ worker.idle
  /\ worker' = [worker EXCEPT !.idle = FALSE, !.step = worker.state + 1]
  /\ UNCHANGED inbox

\* A step returns: the next state and a report, or PAM is uninitialized, which
\* puts the worker back in state NONE, and the failure is reported.
StepEnds(k, ok) ==
  /\ Running(k)
  /\ worker' = [worker EXCEPT !.step = NONE,
                              !.state = IF ok THEN k ELSE NONE,
                              !.call = IF ok THEN Completed[k] ELSE Failed[k]]
  /\ UNCHANGED inbox

\* do_setup: pam_start and the items of the display.
DoSetup == \E ok \in BOOLEAN : StepEnds(SETUP_COMPLETE, ok)

\* do_authenticate: pam_authenticate.  PAM may have found no name.
DoAuthenticate == \E ok \in BOOLEAN : StepEnds(AUTHENTICATED, ok)

\* do_authorize: pam_acct_mgmt, and pam_chauthtok when it is asked for.
DoAuthorize == \E ok \in BOOLEAN : StepEnds(AUTHORIZED, ok)

\* do_accredit: the user's ids and environment, and pam_setcred; nobody gets any.
DoAccredit ==
  \E ok \in BOOLEAN :
    /\ ok => worker.user # NoUser
    /\ StepEnds(ACCREDITED, ok)

\* do_open_session: pam_open_session.
DoOpenSession == \E ok \in BOOLEAN : StepEnds(SESSION_OPENED, ok)

\* do_start_session: the fork of the user's session.
DoStartSession ==
  \E ok \in BOOLEAN :
    /\ ok \/ "fork" \in WorkerFaults
    /\ StepEnds(SESSION_STARTED, ok)

\* A PAM module asks the user: the call returns when the slave replies, with an
\* answer or with an error; whether PAM then goes on is the step's outcome.
PamAsks ==
  /\ \E k \in AskingSteps : Running(k)
  /\ worker' = [worker EXCEPT !.call = "Query"]
  /\ UNCHANGED inbox

\* update_username, before every message of a PAM module and when authentication
\* has succeeded: PAM_USER is not the name the worker has.
UpdateUsername ==
  /\ \E k \in 2 .. 5 : Running(k) /\ (worker.user = NoUser \/ k \in RenamingSteps)
  /\ \E u \in (User \cup {NoUser}) \ {worker.user} :
       worker' = [worker EXCEPT !.user = u, !.call = "UsernameChanged"]
  /\ UNCHANGED inbox

\* session_worker_child_watch: the user's session has ended; the worker reports
\* it and closes the PAM session.
ChildWatch ==
  /\ Listening
  /\ worker.state = SESSION_STARTED
  /\ worker' = [worker EXCEPT !.state = NONE, !.call = "SessionExited"]
  /\ UNCHANGED inbox

\* The process is killed, or a PAM module takes it down.
WorkerCrashes ==
  /\ "crash" \in WorkerFaults
  /\ worker.pc = "up"
  /\ worker' = [NoWorker EXCEPT !.pc = "dead"]
  /\ inbox' = <<>>

WorkerStep ==
  \/ OnRequest \/ StateChangeIdle
  \/ DoSetup \/ DoAuthenticate \/ DoAuthorize
  \/ DoAccredit \/ DoOpenSession \/ DoStartSession
  \/ PamAsks \/ UpdateUsername

WorkerNext == WorkerStep \/ ChildWatch \/ WorkerCrashes
==============================================================================
