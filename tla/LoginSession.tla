---------------------------- MODULE LoginSession -----------------------------
(***************************************************************************)
(* One display's login: MdmSimpleSlave with its MdmSessionDirect and its    *)
(* MdmGreeterServer, composed with the session worker and the greeter.  The *)
(* slave is one GLib main loop: a D-Bus message or an idle with all it      *)
(* calls is one action.  Idles run when the messages that were there have   *)
(* been dispatched, and all that are queued run in one go.                  *)
(*                                                                         *)
(* The model starts when the X server is ready and the display connected.   *)
(***************************************************************************)
EXTENDS SessionWorker, GreeterWindow

CONSTANTS
  TimedLogin,        \* "off", "delayed" (TimedLogin) or "at_once" (AutomaticLogin)
  MigratableUser,    \* accounts that already have a session to switch to
  PromptGreeter,     \* a new worker connects later than the greeter's calls and
                     \* its signals are dispatched
  MaxConversations   \* how many conversations the slave may start (a bound)

ASSUME TimedLoginAssumption == TimedLogin \in {"off", "delayed", "at_once"}
ASSUME MigratableAssumption == MigratableUser \subseteq User
ASSUME ConversationsAssumption == MaxConversations \in Nat \ {0}

VARIABLES
  life,     \* "up", "stopped", or the assertion that aborted the slave
  idles,    \* its queued idles: greeter_reset_id and start_session_id
  ready,    \* start_session_when_ready
  waiting,  \* waiting_to_start_session
  sess,     \* session: an MdmSessionDirect, or NULL
  convs,    \* number of sessions created (bounds the model)
  effects   \* history: scripts run and authorizations given for an account

slaveVars == <<life, idles, ready, waiting, sess, convs, effects>>
vars == <<workerVars, greeterVars, slaveVars>>

Session ==
  [made : BOOLEAN,
   conn : BOOLEAN,      \* worker_connection is there and connected
   pending : BOOLEAN,   \* message_pending_reply
   user : User \cup {NoUser},   \* selected_user
   running : BOOLEAN]   \* is_running

NoSession == [made |-> FALSE, conn |-> FALSE, pending |-> FALSE,
              user |-> NoUser, running |-> FALSE]
NewSession == [NoSession EXCEPT !.made = TRUE]

Idles == {"reset", "authFailed", "start"}
Effect == [what : {"PostLogin", "PreSession", "PostSession", "authority"},
           user : User \cup {NoUser},   \* the account it was done for
           stage : States,   \* how far PAM was
           owner : User \cup {NoUser}]   \* the account the worker had

TypeOK ==
  /\ WorkerTypeOK
  /\ GreeterTypeOK
  /\ life \in {"up", "stopped", "abort_answer", "abort_query", "abort_authority"}
  /\ idles \in Seq(Idles)
  /\ ready \in BOOLEAN /\ waiting \in BOOLEAN
  /\ sess \in Session
  /\ convs \in 0 .. MaxConversations
  /\ effects \subseteq Effect

HasServer == greeter.st # "none"   \* slave->priv->greeter_server # NULL
HasGreeter == greeter.st \in {"starting", "up"}   \* slave->priv->greeter # NULL

Did(what, for) ==
  [what |-> what, user |-> for, stage |-> worker.state, owner |-> worker.user]

\* A script is run only with the name of a user.
Ran(what, for) == IF for = NoUser THEN {} ELSE {Did(what, for)}

\* A signal reaches the greeter that is connected, or nobody.
Tell(s) == IF greeter.st = "up" THEN signals \o s ELSE signals

\* A request reaches the worker that is connected, or nobody.
Asked(name) ==
  IF sess.conn /\ worker.pc = "up"
  THEN Append(inbox, [name |-> name, user |-> NoUser])
  ELSE inbox

\* queue_greeter_reset, queue_auth_failed_reset: one of them at a time.
QueueReset(kind) ==
  IF \E i \in 1 .. Len(idles) : idles[i] \in {"reset", "authFailed"}
  THEN idles ELSE Append(idles, kind)

\* queue_start_session.
QueueStart ==
  IF \E i \in 1 .. Len(idles) : idles[i] = "start"
  THEN idles ELSE Append(idles, "start")

Init ==
  /\ inbox = <<>> /\ calls = <<>> /\ signals = <<>>
  /\ life = "up" /\ idles = <<>>
  /\ ready = FALSE /\ waiting = FALSE
  /\ sess = NewSession
  /\ convs = 1
  /\ effects = {}
  /\ worker = IF TimedLogin = "at_once" THEN NewWorker ELSE NoWorker
  /\ greeter = IF TimedLogin = "at_once" THEN NoGreeter
               ELSE [NoGreeter EXCEPT !.st = "starting"]

-----------------------------------------------------------------------------
(***************************************************************************)
(* Pieces of the slave's handlers.                                          *)
(***************************************************************************)
\* destroy_session: the worker's question is cancelled, its connection closed,
\* and the worker stopped and waited for.
DestroySession ==
  /\ sess' = NoSession
  /\ worker' = NoWorker
  /\ inbox' = <<>>

\* reset_session: a new session and a worker for it.
ResetSession ==
  /\ sess' = NewSession
  /\ worker' = NewWorker
  /\ inbox' = <<>>

\* The reply to the worker's call and, with it, the next request.
Answered == [worker EXCEPT !.call = "none"]

Proceed(report, request) ==
  /\ worker.call = report
  /\ worker' = Answered
  /\ inbox' = Asked(request)
  /\ UNCHANGED <<greeterVars, slaveVars>>

\* on_session_setup_failed and its kin: the problem is shown, the session
\* destroyed and a new conversation queued.
GiveUp(report, kind) ==
  /\ worker.call = report
  /\ DestroySession
  /\ idles' = QueueReset(kind)
  /\ UNCHANGED <<greeterVars, life, ready, waiting, convs, effects>>

\* mdm_simple_slave_accredit_when_ready, with ready as r and the worker as w.
Accredit(r, w) ==
  /\ ready' = r
  /\ waiting' = ~r
  /\ worker' = w
  /\ inbox' = IF r THEN Asked("EstablishCredentials") ELSE inbox

-----------------------------------------------------------------------------
(***************************************************************************)
(* The worker connects, reports and asks.                                   *)
(***************************************************************************)
BeginsItself_Never == FALSE   \* mutant: the automatic login is not begun

\* Automatic login before there is a greeter.
BeginsItself == TimedLogin = "at_once" /\ ~HasServer

\* handle_connection and on_session_conversation_started.
ConversationStarted ==
  /\ worker.pc = "starting"
  /\ PromptGreeter => calls = <<>> /\ signals = <<>>
  /\ worker' = [worker EXCEPT !.pc = "up"]
  /\ signals' = Tell(<<"Ready">> \o
                     IF TimedLogin = "off" THEN <<>> ELSE <<"TimedLoginRequested">>)
  /\ IF BeginsItself
     THEN /\ sess' = [sess EXCEPT !.conn = TRUE, !.user = TimedUser]
          /\ inbox' = Append(inbox, [name |-> "Setup", user |-> TimedUser])
     ELSE /\ sess' = [sess EXCEPT !.conn = TRUE]
          /\ UNCHANGED inbox
  /\ UNCHANGED <<greeter, calls, life, idles, ready, waiting, convs, effects>>

SetupComplete == Proceed("SetupComplete", "Authenticate")
Authenticated == Proceed("Authenticated", "Authorize")

Accredited_Starts ==   \* mutant: the session is started without being opened
  /\ worker.call = "Accredited"
  /\ worker' = Answered
  /\ idles' = QueueStart
  /\ UNCHANGED <<inbox, greeterVars, life, ready, waiting, sess, convs, effects>>

Accredited == Proceed("Accredited", "OpenSession")

SetupFailed == GiveUp("SetupFailed", "reset")
AuthenticationFailed == GiveUp("AuthenticationFailed", "authFailed")
AuthorizationFailed == GiveUp("AuthorizationFailed", "reset")
AccreditationFailed == GiveUp("AccreditationFailed", "reset")
OpenFailed == GiveUp("OpenFailed", "reset")

Authorized_AtOnce ==   \* mutant: the greeter is not waited for
  /\ worker.call = "Authorized"
  /\ signals' = Tell(<<"UserAuthorized">>)
  /\ Accredit(TRUE, Answered)
  /\ UNCHANGED <<greeter, calls, life, idles, sess, convs, effects>>

\* on_session_authorized: with a greeter, once it says so.
Authorized ==
  /\ worker.call = "Authorized"
  /\ signals' = Tell(<<"UserAuthorized">>)
  /\ Accredit(ready \/ ~HasServer, Answered)
  /\ UNCHANGED <<greeter, calls, life, idles, sess, convs, effects>>

\* on_session_opened: the session starts from an idle.
Opened ==
  /\ worker.call = "SessionOpened"
  /\ worker' = Answered
  /\ idles' = QueueStart
  /\ UNCHANGED <<inbox, greeterVars, life, ready, waiting, sess, convs, effects>>

\* handle_session_started: PreSession is run.
SessionStarted ==
  /\ worker.call = "SessionStarted"
  /\ worker' = Answered
  /\ sess' = [sess EXCEPT !.running = TRUE]
  /\ effects' = effects \cup Ran("PreSession", sess.user)
  /\ UNCHANGED <<inbox, greeterVars, life, idles, ready, waiting, convs>>

\* handle_start_failed: the slave has no handler for session-start-failed.
StartFailed ==
  /\ worker.call = "StartFailed"
  /\ worker' = Answered
  /\ UNCHANGED <<inbox, greeterVars, slaveVars>>

UsernameChanged_NotTaken ==   \* mutant: the slave keeps the name it has
  /\ worker.call = "UsernameChanged"
  /\ worker' = Answered
  /\ UNCHANGED <<inbox, greeterVars, slaveVars>>

\* handle_username_changed.
UsernameChanged ==
  /\ worker.call = "UsernameChanged"
  /\ worker' = Answered
  /\ sess' = [sess EXCEPT !.user = worker.user]
  /\ UNCHANGED <<inbox, greeterVars, life, idles, ready, waiting, convs, effects>>

\* handle_info_query, handle_secret_info_query: the reply is kept for later.
WorkerQuery ==
  /\ worker.call = "Query"
  /\ IF sess.pending
     THEN /\ life' = "abort_query"   \* g_assert of set_pending_query
          /\ UNCHANGED <<worker, signals, sess>>
     ELSE /\ worker' = [worker EXCEPT !.call = "answer"]
          /\ sess' = [sess EXCEPT !.pending = TRUE]
          /\ signals' = Tell(<<"Query">>)
          /\ UNCHANGED life
  /\ UNCHANGED <<inbox, greeter, calls, idles, ready, waiting, convs, effects>>

\* worker_exited, worker_died: only a running session's end stops the slave.
WorkerGone ==
  /\ worker.pc = "dead"
  /\ ~sess.running
  /\ worker' = NoWorker
  /\ sess' = [sess EXCEPT !.conn = FALSE]
  /\ UNCHANGED <<inbox, greeterVars, life, idles, ready, waiting, convs, effects>>

FromWorker ==
  \/ ConversationStarted \/ SetupComplete \/ SetupFailed
  \/ Authenticated \/ AuthenticationFailed \/ Authorized \/ AuthorizationFailed
  \/ Accredited \/ AccreditationFailed \/ Opened \/ OpenFailed
  \/ SessionStarted \/ StartFailed \/ UsernameChanged \/ WorkerQuery \/ WorkerGone

-----------------------------------------------------------------------------
(***************************************************************************)
(* The greeter connects and calls.  A call already sent is dispatched even  *)
(* when the greeter has been stopped since.                                 *)
(***************************************************************************)
\* on_greeter_connected.
GreeterConnected ==
  /\ greeter.st = "starting"
  /\ greeter' = [greeter EXCEPT !.st = "up"]
  /\ worker' = NewWorker
  /\ UNCHANGED <<inbox, calls, signals, slaveVars>>

Take(name) ==
  /\ calls # <<>>
  /\ Head(calls).name = name
  /\ calls' = Tail(calls)

\* on_greeter_user_selected: only logged.
SelectUser ==
  /\ Take("SelectUser")
  /\ UNCHANGED <<workerVars, greeter, signals, slaveVars>>

\* on_greeter_begin_verification -> mdm_session_direct_setup.
BeginVerification ==
  /\ Take("BeginVerification")
  /\ inbox' = Asked("Setup")
  /\ UNCHANGED <<worker, greeter, signals, slaveVars>>

\* mdm_session_direct_setup_for_user; dropped while no worker is connected.
SetupForUser(u) ==
  /\ IF sess.conn
     THEN /\ sess' = [sess EXCEPT !.user = u]
          /\ inbox' = IF worker.pc = "up"
                      THEN Append(inbox, [name |-> "Setup", user |-> u])
                      ELSE inbox
     ELSE UNCHANGED <<sess, inbox>>
  /\ UNCHANGED <<worker, greeter, signals, life, idles, ready, waiting,
                 convs, effects>>

\* on_greeter_begin_verification_for_user, on_greeter_begin_auto_login.
BeginVerificationForUser ==
  Take("BeginVerificationForUser") /\ SetupForUser(Head(calls).user)
BeginAutoLogin ==
  Take("BeginAutoLogin") /\ SetupForUser(Head(calls).user)

AnswerQuery_KeepsPending ==   \* mutant: message_pending_reply is not cleared
  /\ Take("AnswerQuery")
  /\ sess.pending
  /\ worker' = IF worker.call = "answer" THEN Answered ELSE worker
  /\ UNCHANGED <<inbox, greeter, signals, slaveVars>>

\* on_greeter_answer -> answer_pending_query.
AnswerQuery ==
  /\ Take("AnswerQuery")
  /\ IF sess.pending
     THEN /\ sess' = [sess EXCEPT !.pending = FALSE]
          /\ worker' = IF worker.call = "answer" THEN Answered ELSE worker
          /\ UNCHANGED life
     ELSE /\ life' = IF sess.made THEN "abort_answer" ELSE life   \* g_assert
          /\ UNCHANGED <<sess, worker>>
  /\ UNCHANGED <<inbox, greeter, signals, idles, ready, waiting, convs, effects>>

Cancel_AsFailure ==   \* mutant: the wrong reset is queued
  /\ Take("Cancel")
  /\ idles' = QueueReset("authFailed")
  /\ UNCHANGED <<workerVars, greeter, signals, life, ready, waiting, sess,
                 convs, effects>>

\* on_greeter_cancel.
Cancel ==
  /\ Take("Cancel")
  /\ idles' = QueueReset("reset")
  /\ UNCHANGED <<workerVars, greeter, signals, life, ready, waiting, sess,
                 convs, effects>>

\* on_start_session_when_ready.
StartSessionWhenReady ==
  /\ Take("StartSessionWhenReady")
  /\ IF waiting THEN Accredit(TRUE, worker)
     ELSE ready' = TRUE /\ UNCHANGED <<waiting, worker, inbox>>
  /\ UNCHANGED <<greeter, signals, life, idles, sess, convs, effects>>

FromGreeter ==
  \/ GreeterConnected \/ SelectUser \/ BeginVerification
  \/ BeginVerificationForUser \/ BeginAutoLogin \/ AnswerQuery
  \/ Cancel \/ StartSessionWhenReady

-----------------------------------------------------------------------------
(***************************************************************************)
(* The idles.  Both, when both are queued, run in the order of queueing     *)
(* before any further message.                                              *)
(***************************************************************************)
\* greeter_reset_timeout, auth_failed_reset_timeout; also after a start that
\* only activated the user's other session.
IdleReset ==
  /\ \/ idles \in {<<"reset">>, <<"authFailed">>}
     \/ idles = <<"start", "reset">> /\ sess.user \in MigratableUser
  /\ convs < MaxConversations
  /\ idles' = <<>>
  /\ convs' = convs + 1
  /\ IF HasServer
     THEN /\ signals' = Tell(<<IF idles = <<"authFailed">>
                               THEN "AuthenticationFailed" ELSE "Reset">>)
          /\ ResetSession
          /\ UNCHANGED greeter
     ELSE /\ greeter' = [NoGreeter EXCEPT !.st = "starting"]
          /\ sess' = NewSession
          /\ UNCHANGED <<workerVars, signals>>
  /\ UNCHANGED <<calls, life, ready, waiting, effects>>

HandOver_GreeterKept ==   \* mutant: the greeter is not stopped
  /\ UNCHANGED <<greeter, calls>>
  /\ effects' = effects \cup {Did("authority", sess.user)}

\* stop_greeter and the authorization for the user's session; the call the
\* greeter was in has reached the slave.
HandOver ==
  /\ greeter' = [greeter EXCEPT !.st = IF HasServer THEN "stopped" ELSE @]
  /\ calls' = IF calls = <<>> THEN <<>> ELSE <<Head(calls)>>
  /\ effects' = effects \cup (IF HasGreeter THEN Ran("PostLogin", sess.user) ELSE {})
                        \cup {Did("authority", sess.user)}

\* start_session_timeout: the authority file can only be made for an account.
IdleStart ==
  /\ idles = <<"start">>
  /\ sess.user \in User
  /\ idles' = <<>>
  /\ HandOver
  /\ signals' = <<>>
  /\ inbox' = Asked("StartProgram")
  /\ UNCHANGED <<worker, life, ready, waiting, sess, convs>>

\* start_session_timeout when the user's other session could be activated.
IdleMigrate ==
  /\ idles = <<"start">>
  /\ sess.user \in MigratableUser
  /\ idles' = <<"reset">>
  /\ DestroySession
  /\ UNCHANGED <<greeterVars, life, ready, waiting, convs, effects>>

\* g_assert (auth_file != NULL): no account to make an authority file for.
IdleStartAborts ==
  /\ \/ idles = <<"start">> /\ sess.user \notin User
     \/ idles \in {<<"reset", "start">>, <<"authFailed", "start">>}
     \/ idles = <<"start", "reset">> /\ sess.user \notin User
  /\ life' = "abort_authority"
  /\ UNCHANGED <<workerVars, greeterVars, idles, ready, waiting, sess, convs, effects>>

\* The session is started, and then destroyed for a new conversation.
IdleStartThenReset ==
  /\ idles = <<"start", "reset">>
  /\ sess.user \in User
  /\ convs < MaxConversations
  /\ idles' = <<>>
  /\ convs' = convs + 1
  /\ HandOver
  /\ signals' = <<>>
  /\ ResetSession
  /\ UNCHANGED <<life, ready, waiting>>

IdleNext ==
  \/ IdleReset \/ IdleStart \/ IdleMigrate \/ IdleStartAborts \/ IdleStartThenReset

-----------------------------------------------------------------------------
\* mdm_slave_stopped, then mdm_simple_slave_stop: PostLogin while a greeter is
\* there, PostSession while a session is.
Stop ==
  /\ life' = "stopped"
  /\ effects' = effects \cup (IF HasGreeter THEN Ran("PostLogin", sess.user) ELSE {})
                        \cup (IF sess.made THEN Ran("PostSession", sess.user) ELSE {})
  /\ UNCHANGED <<workerVars, greeterVars, idles, ready, waiting, sess, convs>>

\* on_session_exited, on_session_died: the session is over, or its worker died.
SessionEnds ==
  /\ worker.call = "SessionExited" \/ (worker.pc = "dead" /\ sess.running)
  /\ Stop

\* on_server_exited, on_server_died, on_greeter_session_exited and _died.
DisplayEnds == Stop

Processes ==
  \/ WorkerNext /\ UNCHANGED <<greeterVars, slaveVars>>
  \/ (GreeterStep \/ UserStep) /\ UNCHANGED <<workerVars, slaveVars>>

Next ==
  /\ life = "up"
  /\ \/ FromWorker \/ FromGreeter \/ IdleNext
     \/ SessionEnds \/ DisplayEnds \/ Processes

\* GLib dispatches what is ready, PAM and the worker's fork return, a connecting
\* process connects.  Nothing is assumed of the user, of crashes, or of the ends
\* of servers and sessions.
Fairness ==
  /\ WF_vars(FromWorker /\ life = "up")
  /\ WF_vars(SessionEnds /\ life = "up")
  /\ WF_vars(FromGreeter /\ life = "up")
  /\ WF_vars(IdleNext /\ life = "up")
  /\ WF_vars(WorkerStep /\ UNCHANGED <<greeterVars, slaveVars>> /\ life = "up")
  /\ WF_vars(GreeterStep /\ UNCHANGED <<workerVars, slaveVars>> /\ life = "up")

Spec == Init /\ [][Next]_vars
FairSpec == Spec /\ Fairness

-----------------------------------------------------------------------------
(***************************************************************************)
(* What holds however the processes interleave.                             *)
(***************************************************************************)
\* A question of PAM and the reply the slave keeps for it come and go together:
\* the worker never waits for a reply the slave has lost, and the slave never
\* keeps one for a question that is over (message_pending_reply in
\* mdm-session-direct.c against the worker blocked in its call), unless the
\* worker died while asking.
QueriesPaired ==
  life = "up" =>
    /\ worker.call = "answer" => sess.pending
    /\ sess.pending => worker.call = "answer" \/ worker.pc \in {"dead", "none"}

\* g_assert (message_pending_reply == NULL) of set_pending_query: PAM never asks
\* a second question while the first is open, over any number of conversations.
QueryAssertion == life # "abort_query"

\* The user's session never shares the screen with a greeter that is still
\* connected: stop_greeter has been through before StartProgram is sent, and no
\* greeter comes back while the session runs.
SessionOwnsDisplay ==
  life = "up" /\ worker.state = SESSION_STARTED => ~HasGreeter

Pam == INSTANCE PamTransaction WITH
         stage <- worker.state,
         step <- worker.step,
         account <- IF worker.state = NONE THEN NoUser ELSE worker.user

\* Refinement: whatever the slave and the greeter send and however late it
\* arrives, PAM is taken through its steps in order, for the account it was set up
\* with until a module of the step it runs names another; a setup that comes late
\* changes nothing, and nobody gets credentials.
PamInOrder == Pam!Spec

(***************************************************************************)
(* What holds when the user only cancels while being asked something, and   *)
(* the greeter is prompt.                                                   *)
(***************************************************************************)
\* An account gets access to the X display only when PAM has opened a session
\* (add_user_authorization in start_session_timeout), and it is the account the
\* worker starts the session for, whatever was queued, cancelled or retried and
\* whatever PAM's modules made of the name: selected_user of mdm-session-direct.c,
\* which is set when the greeter begins a user and when the worker reports another,
\* agrees with the worker's username.
AuthorityForOwner ==
  \A e \in effects :
    e.what = "authority" => e.user = e.owner /\ e.stage = SESSION_OPENED

\* Once the greeter has been stopped there is a session, open or started, or its
\* end is about to stop the slave: the display is never left with neither.
NoBlankScreen ==
  life = "up" /\ greeter.st = "stopped"
    => worker.state >= SESSION_OPENED \/ worker.call = "SessionExited"

\* A session that has started ends by itself or with its worker, never by what
\* the slave does for the login window.
SessionUndisturbed ==
  [][worker.state = SESSION_STARTED /\ worker'.state # SESSION_STARTED
       => worker'.call = "SessionExited" \/ worker'.pc = "dead"]_vars

\* A user who has chosen a name is asked something, sent back to the list, or
\* logged in: the window does not wait for ever (up to the bound on
\* conversations).
Decided ==
  greeter.mode = "auth" ~>
    \/ (greeter.prompt /\ greeter.sensitive) \/ greeter.mode # "auth"
    \/ life # "up" \/ convs = MaxConversations
    \/ worker.state = SESSION_STARTED

\* A cancelled login comes back to the list.
CancelWorks ==
  (calls # <<>> /\ Head(calls).name = "Cancel") ~>
    \/ greeter.mode = "selection"
    \/ life # "up" \/ convs = MaxConversations

(***************************************************************************)
(* The automatic and the timed login.                                       *)
(***************************************************************************)
\* An automatic login whose PAM service asks nothing ends in a session or in a
\* greeter: on_session_conversation_started starts it without one.
AutoLoginDecided ==
  ~HasServer ~> HasGreeter \/ worker.state = SESSION_STARTED \/ life # "up"

\* In the first conversation the credentials of the timed user are not
\* established before the timer, or the user, has made the window interactive
\* (start_session_when_ready of the login window).
FirstTimedLoginWaits ==
  convs = 1 /\ life = "up" /\ greeter.st = "up" /\ greeter.timed
    /\ worker.step >= ACCREDITED
  => greeter.interactive

(***************************************************************************)
(* What an assertion of the code says and the code does not keep.           *)
(***************************************************************************)
\* g_assert (auth_file != NULL) of start_session_timeout: the selected user is
\* an account when the session starts.
AuthorityAssertion == life # "abort_authority"
==============================================================================
