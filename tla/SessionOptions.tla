--------------------------- MODULE SessionOptions ---------------------------
(***************************************************************************)
(* The session type, the language and the keyboard layout of a login: what  *)
(* the panel of the greeter shows, what the slave (MdmSessionDirect) starts, *)
(* and what the worker (MdmSessionSettings) reads from and writes to the     *)
(* account's dmrc.  The conversation around it is that of LoginSession with  *)
(* its PAM steps taken together, a PAM that keeps the account it is given,   *)
(* no timed login, a user who only cancels when asked something, and one     *)
(* display that lives until the session.                                     *)
(***************************************************************************)
EXTENDS OptionWidget

CONSTANTS
  User,
  OtherUser,      \* the item "Other..." of the user list
  Offers,         \* the sets of options a behaviour may be about
  Items,          \* option -> the items that exist
  SystemDefault,  \* option -> get_default_*_name without a saved one
  Recent,         \* option -> the recent ones when the greeter starts
  Dmrcs,          \* account -> option -> what the dmrc files may hold
  SaysFailsafe,   \* sessions whose comment says "failsafe"
  NamedFailsafe,  \* others, whose file name does
  MaxTries,       \* MAX_LOGIN_TRIES
  MaxConversations, MaxPicks   \* bounds of the model

ASSUME OptionsAssumption ==
  /\ \A O \in Offers : O \subseteq {"language", "layout", "session"}
  /\ MaxTries \in Nat \ {0} /\ MaxConversations \in Nat \ {0}

\* The rows of a list are items; get_default_*_name finds one that exists.
ASSUME ItemsAssumption ==
  \A O \in Offers : \A o \in O :
    /\ {NoName, GoneRow, OtherRow} \cap Items[o] = {}
    /\ Recent[o] \in Seq(Items[o])
    /\ SystemDefault[o] \in Items[o]

\* get_fallback_session_name only returns a session that get_session_command_for_name
\* finds, and the list holds every session that is found and has a name to show.
ASSUME SessionAssumption ==
  \A O \in Offers : "session" \in O =>
    \E i \in 1 .. Len(Recent["session"]) : Recent["session"][i] = SystemDefault["session"]

\* A stored session may be gone from the system; languages and layouts are there.
ASSUME DmrcsAssumption ==
  \A O \in Offers : \A o \in O \ {"session"} :
    \A u \in User : Dmrcs[u][o] \subseteq Items[o] \cup {NoName}

VARIABLES
  offer,    \* the options this behaviour is about
  panel,    \* option -> its widget
  window,   \* the login window
  calls,    \* the greeter's calls the slave has not dispatched
  signals,  \* the slave's signals the greeter has not dispatched
  sess,     \* the slave's session
  slave,    \* the slave itself
  worker,   \* the session worker
  inbox,    \* the slave's signals the worker has not dispatched
  dmrc,     \* account -> option -> what is stored
  started,  \* option -> what the session was started with
  picked,   \* history: option -> what the user last chose for this account
  picks     \* number of choices (bounds the model)

greeterVars == <<panel, window, picked, picks>>
slaveVars == <<sess, slave, started>>
workerVars == <<worker, dmrc>>
vars == <<offer, greeterVars, calls, signals, slaveVars, workerVars, inbox>>

Nothing == [o \in offer |-> NoName]
Values ==
  (UNION {Items[o] : o \in offer}) \cup (UNION {Dmrcs[u][o] : u \in User, o \in offer})
    \cup {NoName}

\* defaults_changed and settings_load go through the options in their own order.
Only(o, wanted) == IF o \in offer /\ wanted THEN <<o>> ELSE <<>>
DefaultsOrder == Only("language", TRUE) \o Only("layout", TRUE) \o Only("session", TRUE)

TypeOK ==
  /\ offer \in Offers
  /\ \A o \in offer :
       /\ panel[o].rows \in Seq(Items[o])
       /\ panel[o].active \in Items[o] \cup {NoName, GoneRow}
       /\ panel[o].def \in Items[o] \cup {NoName}
       /\ panel[o].combo \in Items[o] \cup {NoName}
  /\ window \in [mode : {"selection", "auth"}, chosen : User \cup {OtherUser, NoName},
                 prompt : {"none", "name", "password"}, sensitive : BOOLEAN,
                 visible : BOOLEAN, tries : 0 .. MaxTries - 1]
  /\ sess \in [made : BOOLEAN, conn : BOOLEAN, user : User \cup {OtherUser, NoName},
               sel : [offer -> Values], saved : [offer -> Values], missed : BOOLEAN]
  /\ slave \in [idle : {"none", "reset", "authFailed", "start"}, ready : BOOLEAN,
                waiting : BOOLEAN, convs : 1 .. MaxConversations]
  /\ worker.settings \in [offer -> Values] /\ worker.name \in User \cup {NoName}
  /\ dmrc \in [User -> [offer -> Values]]
  /\ started \in [offer -> Values] /\ picked \in [offer -> Values]

NoWorker ==
  [pc |-> "none",
   state |-> "none",     \* "none", "setup", "authenticated", "opened", "started"
   idle |-> FALSE,       \* state_change_idle_id # 0
   step |-> "none",      \* the step it is in, or the question it waits for
   name |-> NoName,      \* username
   known |-> NoName,     \* PAM_USER
   made |-> FALSE,       \* user_settings # NULL
   settings |-> Nothing,
   failsafe |-> FALSE,
   loading |-> <<>>]     \* settings still to be read from the dmrc
NewWorker == [NoWorker EXCEPT !.pc = "starting"]

\* missed: history, a choice was meant for the session before, found no worker or
\* one without settings, or was still on its way when this session was started.
NewSession == [made |-> TRUE, conn |-> FALSE, user |-> NoName,
               sel |-> Nothing, saved |-> Nothing, missed |-> FALSE]
NoSession == [NewSession EXCEPT !.made = FALSE]

Valid_Any(o, x) == TRUE   \* mutant: a session that is gone is taken from the dmrc

\* get_session_command_for_name: the session is installed.
Valid(o, x) == o # "session" \/ \E i \in 1 .. Len(panel[o].rows) : panel[o].rows[i] = x

Default(s, o) == IF s.saved[o] # NoName THEN s.saved[o] ELSE SystemDefault[o]
\* get_session_name, get_language_name, get_layout_name.
NameOf(s, o) == IF s.sel[o] # NoName THEN s.sel[o] ELSE Default(s, o)

Init ==
  /\ offer \in Offers
  /\ panel = [o \in offer |->
                NewWidget(Recent[o], IF o = "session" \/ Recent[o] = <<>> THEN NoName
                                     ELSE Head(Recent[o]))]
  /\ window = [mode |-> "selection", chosen |-> NoName, prompt |-> "none",
               sensitive |-> TRUE, visible |-> FALSE, tries |-> 0]
  /\ calls = <<>> /\ signals = <<>> /\ inbox = <<>>
  /\ sess = NewSession
  /\ slave = [idle |-> "none", ready |-> FALSE, waiting |-> FALSE, convs |-> 1]
  /\ worker = NewWorker
  /\ dmrc \in {d \in [User -> [offer -> Values]] :
                 \A u \in User, o \in offer : d[u][o] \in Dmrcs[u][o]}
  /\ started = Nothing /\ picked = Nothing /\ picks = 0

-----------------------------------------------------------------------------
(***************************************************************************)
(* The greeter.  Its calls block it, so it acts when none is out.           *)
(***************************************************************************)
AtRest == calls = <<>>

Call(name, u) == [name |-> name, user |-> u]
Select(o, x) == [name |-> "Select", opt |-> o, item |-> x]
Selects(o, xs) == [i \in 1 .. Len(xs) |-> Select(o, xs[i])]

\* The widget of o after a handler, and what the panel tells the slave.
Panel(o, r) ==
  /\ panel' = [panel EXCEPT ![o] = r.w]
  /\ calls' = Selects(o, r.sel)

At(o) == [w |-> panel[o], sel |-> <<>>]

ChooseCalls(c) ==
  <<Call("SelectUser", c),
    IF c = OtherUser THEN Call("BeginVerification", NoName)
    ELSE Call("BeginVerificationForUser", c)>>

\* on_select_user, with show_or_hide_user_options.
Choosing(c) == [window EXCEPT !.mode = "auth", !.chosen = c, !.prompt = "none",
                              !.sensitive = FALSE, !.visible = c # OtherUser]

ChooseUser ==
  /\ AtRest /\ window.mode = "selection" /\ window.sensitive
  /\ \E c \in User \cup {OtherUser} :
       window' = Choosing(c) /\ calls' = ChooseCalls(c)
  /\ picked' = Nothing
  /\ UNCHANGED <<panel, picks, signals>>

AnswerQuestion ==
  /\ AtRest /\ window.prompt # "none" /\ window.sensitive
  /\ window' = [window EXCEPT !.sensitive = FALSE]
  /\ \E u \in IF window.prompt = "name" THEN User ELSE {NoName} :
       calls' = <<Call("AnswerQuery", u)>>
  /\ UNCHANGED <<panel, picked, picks, signals>>

\* do_cancel and on_cancelled.
DoCancel ==
  /\ AtRest /\ window.prompt # "none" /\ window.sensitive
  /\ window' = [window EXCEPT !.sensitive = FALSE, !.visible = FALSE]
  /\ calls' = <<Call("Cancel", NoName)>>
  /\ UNCHANGED <<panel, picked, picks, signals>>

\* The user takes a row of a list that is shown and sensitive.
Offered(o) == AtRest /\ window.visible /\ panel[o].def # NoName /\ picks < MaxPicks

Pick(o, x, r) ==
  /\ Panel(o, r)
  /\ picked' = [picked EXCEPT ![o] = x]
  /\ picks' = picks + 1
  /\ UNCHANGED <<window, signals>>

PickItem ==
  \E o \in offer :
    /\ Offered(o)
    /\ \E x \in Items[o] :
         Has(panel[o], x) /\ panel[o].combo # x /\ Pick(o, x, Show(At(o), x))

PickOther ==
  \E o \in offer \ {"session"} :
    /\ Offered(o) /\ ~panel[o].dialog
    /\ Pick(o, panel[o].def, ChooseOther(At(o)))

\* on_dialog_response: OK with an item of the full list, or anything else.
DialogOk ==
  \E o \in offer : \E x \in Items[o] :
    /\ AtRest /\ panel[o].dialog
    /\ LET r == SetCurrent(At(o), x) IN Panel(o, [r EXCEPT !.w.dialog = FALSE])
    /\ picked' = [picked EXCEPT ![o] = x]
    /\ UNCHANGED <<window, picks, signals>>

DialogCancelled ==
  \E o \in offer :
    /\ AtRest /\ panel[o].dialog
    /\ panel' = [panel EXCEPT ![o].dialog = FALSE]
    /\ UNCHANGED <<calls, window, picked, picks, signals>>

\* mdm_recent_option_widget_notify_func: MateConf reports the list just written.
RecentsNotified ==
  \E o \in offer :
    /\ AtRest /\ panel[o].stale
    /\ LET r == Sync(At(o)) IN Panel(o, [r EXCEPT !.w.stale = FALSE])
    /\ UNCHANGED <<window, picked, picks, signals>>

Dispatch(name) ==
  /\ AtRest /\ signals # <<>>
  /\ Head(signals).name = name
  /\ signals' = Tail(signals)

\* mdm_greeter_login_window_ready: a user already chosen is begun again.
OnReady ==
  /\ Dispatch("Ready")
  /\ IF window.mode = "auth"
     THEN window' = Choosing(window.chosen) /\ calls' = ChooseCalls(window.chosen)
     ELSE window' = [window EXCEPT !.sensitive = TRUE] /\ UNCHANGED calls
  /\ UNCHANGED <<panel, picked, picks>>

\* mdm_greeter_panel_reset.
PanelReset ==
  panel' = [o \in offer |->
              IF o = "layout" THEN SetKeyboardLayout(At(o), NoName).w
              ELSE SetDefaultItem(At(o), NoName).w]

WindowReset ==
  window' = [window EXCEPT !.mode = "selection", !.chosen = NoName, !.prompt = "none",
                           !.sensitive = TRUE, !.visible = FALSE, !.tries = 0]

OnReset ==
  /\ Dispatch("Reset")
  /\ PanelReset /\ WindowReset
  /\ UNCHANGED <<calls, picked, picks>>

OnAuthenticationFailed_OneMore ==   \* mutant: one try more before the reset
  /\ Dispatch("AuthenticationFailed")
  /\ IF window.tries < MaxTries
     THEN /\ window' = [window EXCEPT !.tries = @ + 1, !.prompt = "none", !.sensitive = FALSE]
          /\ UNCHANGED panel
     ELSE PanelReset /\ WindowReset
  /\ UNCHANGED <<calls, picked, picks>>

\* on_authentication_failed: the panel is only reset after MAX_LOGIN_TRIES.
OnAuthenticationFailed ==
  /\ Dispatch("AuthenticationFailed")
  /\ IF window.tries + 1 < MaxTries
     THEN /\ window' = [window EXCEPT !.tries = @ + 1, !.prompt = "none", !.sensitive = FALSE]
          /\ UNCHANGED panel
     ELSE PanelReset /\ WindowReset
  /\ UNCHANGED <<calls, picked, picks>>

OnQuery ==
  /\ Dispatch("Query")
  /\ window' = [window EXCEPT !.prompt = Head(signals).user, !.sensitive = TRUE]
  /\ UNCHANGED <<panel, calls, picked, picks>>

OnUserAuthorized ==
  /\ Dispatch("UserAuthorized")
  /\ calls' = <<Call("StartSessionWhenReady", NoName)>>
  /\ UNCHANGED <<panel, window, picked, picks>>

\* on_selected_user_changed.
OnSelectedUserChanged ==
  /\ Dispatch("SelectedUserChanged")
  /\ window' = [window EXCEPT !.visible = TRUE]
  /\ UNCHANGED <<panel, calls, picked, picks>>

\* on_default_language_name_changed and its two like.
OnDefaultChanged ==
  /\ Dispatch("Default")
  /\ LET o == Head(signals).opt
         x == Head(signals).item
     IN Panel(o, CASE o = "language" -> SetDefaultLanguage(At(o), x)
                   [] o = "layout" -> SetKeyboardLayout(At(o), x)
                   [] o = "session" -> SetDefaultSession(At(o), x))
  /\ UNCHANGED <<window, picked, picks>>

UserStep == ChooseUser \/ AnswerQuestion \/ DoCancel \/ PickItem \/ PickOther
            \/ DialogOk \/ DialogCancelled
GreeterStep ==
  \/ OnReady \/ OnReset \/ OnAuthenticationFailed \/ OnQuery \/ OnUserAuthorized
  \/ OnSelectedUserChanged \/ OnDefaultChanged \/ RecentsNotified

-----------------------------------------------------------------------------
(***************************************************************************)
(* The slave.                                                               *)
(***************************************************************************)
Signal(name, u) == [name |-> name, user |-> u]
DefaultIs(o, x) == [name |-> "Default", opt |-> o, item |-> x]

\* mdm_session_direct_defaults_changed.
DefaultsChanged(s) ==
  [i \in 1 .. Len(DefaultsOrder) |-> DefaultIs(DefaultsOrder[i], Default(s, DefaultsOrder[i]))]

Tell(s) == signals' = signals \o s
Ask(m) == inbox' = IF sess.conn /\ worker.pc = "up" THEN inbox \o m ELSE inbox
Request(name, u) == [name |-> name, user |-> u]

\* mdm_session_direct_select_user, of setup_for_user and of a name the worker reports:
\* what was read for the last one is dropped.
ForUser(s, u) == [s EXCEPT !.user = u, !.saved = Nothing]

\* handle_saved_*_name_read.
SavedRead(o, x) ==
  IF ~Valid(o, x)
  THEN sess' = [sess EXCEPT !.saved[o] = NoName] /\ UNCHANGED signals
  ELSE IF x = Default(sess, o)
  THEN UNCHANGED <<sess, signals>>
  ELSE sess' = [sess EXCEPT !.saved[o] = x] /\ Tell(<<DefaultIs(o, x)>>)

\* handle_username_changed.
UsernameChanged(u) ==
  LET s == ForUser(sess, u) IN
  sess' = s /\ Tell(<<Signal("SelectedUserChanged", u)>> \o DefaultsChanged(s))

Take(name) ==
  /\ calls # <<>> /\ Head(calls).name = name
  /\ calls' = Tail(calls)

\* handle_connection and on_session_conversation_started.
ConversationStarted ==
  /\ worker.pc = "starting"
  /\ worker' = [worker EXCEPT !.pc = "up"]
  /\ sess' = [sess EXCEPT !.conn = TRUE]
  /\ Tell(<<Signal("Ready", NoName)>>)
  /\ UNCHANGED <<calls, slave, started, inbox, dmrc>>

\* on_greeter_user_selected only logs.
SelectUser ==
  /\ Take("SelectUser")
  /\ UNCHANGED <<signals, sess, slave, started, inbox, workerVars>>

\* mdm_session_direct_setup and _setup_for_user; dropped without a worker.
BeginVerification ==
  /\ Take("BeginVerification")
  /\ Ask(<<Request("Setup", NoName)>>)
  /\ Tell(IF sess.conn THEN DefaultsChanged(sess) ELSE <<>>)
  /\ UNCHANGED <<sess, slave, started, workerVars>>

BeginVerificationForUser ==
  /\ Take("BeginVerificationForUser")
  /\ LET u == Head(calls).user
         s == ForUser(sess, u)
     IN IF sess.conn
        THEN sess' = s /\ Tell(DefaultsChanged(s)) /\ Ask(<<Request("Setup", u)>>)
        ELSE UNCHANGED <<sess, signals, inbox>>
  /\ UNCHANGED <<slave, started, workerVars>>

AnswerQuery ==
  /\ Take("AnswerQuery")
  /\ worker' = CASE worker.step = "name?" -> [worker EXCEPT !.step = "authenticate",
                                                            !.known = Head(calls).user]
                 [] worker.step = "password?" -> [worker EXCEPT !.step = "verify"]
                 [] OTHER -> worker
  /\ UNCHANGED <<signals, sess, slave, started, inbox, dmrc>>

\* queue_greeter_reset, queue_auth_failed_reset.
QueueReset(kind) == [slave EXCEPT !.idle = IF @ = "none" THEN kind ELSE @]

Cancel ==
  /\ Take("Cancel")
  /\ slave' = QueueReset("reset")
  /\ UNCHANGED <<signals, sess, started, inbox, workerVars>>

StartSessionWhenReady ==
  /\ Take("StartSessionWhenReady")
  /\ slave' = [slave EXCEPT !.ready = TRUE, !.waiting = FALSE]
  /\ Ask(IF slave.waiting THEN <<Request("Open", NoName)>> ELSE <<>>)
  /\ UNCHANGED <<signals, sess, started, workerVars>>

\* get_is_session_failsafe reads the comment, and then the file name it has freed.
IsFailsafe(x) ==
  IF x \in SaysFailsafe THEN {TRUE} ELSE IF x \in NamedFailsafe THEN BOOLEAN ELSE {FALSE}

\* The greeter has yet to hear that the session before was given up.
GreeterBehind ==
  \E i \in 1 .. Len(signals) : signals[i].name \in {"Reset", "AuthenticationFailed"}

SelectOption_Local ==   \* mutant: the worker is told of the first choice only
  /\ Take("Select")
  /\ LET o == Head(calls).opt
         s == [sess EXCEPT !.sel[o] = Head(calls).item, !.missed = @ \/ ~sess.conn \/ GreeterBehind]
     IN IF sess.made
        THEN /\ sess' = s
             /\ \E f \in IF o = "session" THEN IsFailsafe(NameOf(s, o)) ELSE {FALSE} :
                  Ask(IF sess.sel[o] # NoName THEN <<>>
                      ELSE <<[name |-> "Option", opt |-> o, item |-> NameOf(s, o), failsafe |-> f]>>)
        ELSE UNCHANGED <<sess, inbox>>
  /\ UNCHANGED <<signals, slave, started, workerVars>>

\* mdm_session_direct_select_session with its SetIsFailsafe, _select_language and
\* _select_layout.
SelectOption ==
  /\ Take("Select")
  /\ LET o == Head(calls).opt
         s == [sess EXCEPT !.sel[o] = Head(calls).item, !.missed = @ \/ ~sess.conn \/ GreeterBehind]
     IN IF sess.made
        THEN /\ sess' = s
             /\ \E f \in IF o = "session" THEN IsFailsafe(NameOf(s, o)) ELSE {FALSE} :
                  Ask(<<[name |-> "Option", opt |-> o, item |-> NameOf(s, o), failsafe |-> f]>>)
        ELSE UNCHANGED <<sess, inbox>>
  /\ UNCHANGED <<signals, slave, started, workerVars>>

FromGreeter ==
  \/ SelectUser \/ BeginVerification \/ BeginVerificationForUser \/ AnswerQuery
  \/ Cancel \/ StartSessionWhenReady \/ SelectOption

\* destroy_session, and the idle that begins another conversation.
GiveUp(kind) ==
  /\ sess' = NoSession /\ worker' = NoWorker /\ inbox' = <<>>
  /\ slave' = QueueReset(kind)
  /\ UNCHANGED <<calls, signals, started, dmrc>>

\* greeter_reset_timeout, auth_failed_reset_timeout.
IdleReset ==
  /\ slave.idle \in {"reset", "authFailed"} /\ slave.convs < MaxConversations
  /\ slave' = [slave EXCEPT !.idle = "none", !.convs = @ + 1]
  /\ Tell(<<Signal(IF slave.idle = "reset" THEN "Reset" ELSE "AuthenticationFailed", NoName)>>)
  /\ sess' = NewSession /\ worker' = NewWorker /\ inbox' = <<>>
  /\ UNCHANGED <<calls, started, dmrc>>

\* start_session_timeout, with setup_session_environment; the greeter is stopped,
\* and the call it was in may still be there.
IdleStart ==
  /\ slave.idle = "start"
  /\ slave' = [slave EXCEPT !.idle = "none"]
  /\ started' = [o \in offer |-> NameOf(sess, o)]
  /\ Ask(<<Request("Start", NoName)>>)
  /\ calls' = IF calls = <<>> THEN <<>> ELSE <<Head(calls)>>
  /\ signals' = <<>>
  /\ sess' = [sess EXCEPT !.missed = @ \/ calls # <<>>]
  /\ UNCHANGED workerVars

-----------------------------------------------------------------------------
(***************************************************************************)
(* The worker.  What it tells the slave is a blocking call, so the slave's  *)
(* handler is part of the step.                                             *)
(***************************************************************************)
Listening == worker.pc = "up" /\ worker.step = "none"

Needs == [Setup |-> "none", Authenticate |-> "setup", Open |-> "authenticated",
          Start |-> "opened"]

OnRequest ==
  /\ Listening /\ inbox # <<>> /\ Head(inbox).name # "Option"
  /\ inbox' = Tail(inbox)
  /\ LET m == Head(inbox) IN
       worker' = IF worker.state # Needs[m.name] THEN worker
                 ELSE [worker EXCEPT !.idle = TRUE,
                                     !.name = IF m.name = "Setup" THEN m.user ELSE @]
  /\ UNCHANGED <<calls, signals, slaveVars, dmrc>>

\* on_set_session_name with on_set_is_session_failsafe, on_set_language_name and
\* on_set_layout_name: nothing to set before do_setup; a change is told to the
\* slave like one read from the dmrc.
OnSetOption ==
  /\ Listening /\ inbox # <<>> /\ Head(inbox).name = "Option"
  /\ inbox' = Tail(inbox)
  /\ LET m == Head(inbox)
         o == m.opt
         w == [worker EXCEPT !.settings[o] = m.item,
                             !.failsafe = IF o = "session" THEN m.failsafe ELSE @]
     IN IF ~worker.made
        THEN sess' = [sess EXCEPT !.missed = TRUE] /\ UNCHANGED <<worker, signals>>
        ELSE /\ worker' = w
             /\ IF worker.settings[o] # m.item THEN SavedRead(o, m.item)
                ELSE UNCHANGED <<sess, signals>>
  /\ UNCHANGED <<calls, slave, started, dmrc>>

\* What mdm_session_settings_load finds for an account.
Loads(u) ==
  LET Held(o) == Only(o, u # NoName /\ dmrc[u][o] # NoName)
  IN Held("session") \o Held("language") \o Held("layout")

StateChangeIdle ==
  /\ Listening /\ worker.idle
  /\ worker' = CASE worker.state = "none" ->
                      [worker EXCEPT !.idle = FALSE, !.step = "setup", !.known = worker.name,
                                     !.made = TRUE, !.settings = Nothing,
                                     !.loading = Loads(worker.name)]
                 [] worker.state = "setup" ->
                      [worker EXCEPT !.idle = FALSE, !.step = "authenticate"]
                 [] worker.state = "authenticated" ->
                      [worker EXCEPT !.idle = FALSE, !.step = "open"]
                 [] worker.state = "opened" ->
                      [worker EXCEPT !.idle = FALSE, !.step = "start"]
  /\ UNCHANGED <<calls, signals, slaveVars, inbox, dmrc>>

\* mdm_session_settings_load, one setting and its notification.
LoadSetting ==
  /\ worker.loading # <<>>
  /\ LET o == Head(worker.loading)
         x == dmrc[worker.name][o]
     IN /\ worker' = [worker EXCEPT !.loading = Tail(@), !.settings[o] = x,
                                    !.failsafe = FALSE]
        /\ SavedRead(o, x)
  /\ UNCHANGED <<calls, slave, started, inbox, dmrc>>

Doing(step) == worker.pc = "up" /\ worker.step = step /\ worker.loading = <<>>

SetupComplete ==
  /\ Doing("setup")
  /\ worker' = [worker EXCEPT !.step = "none", !.state = "setup"]
  /\ Ask(<<Request("Authenticate", NoName)>>)
  /\ UNCHANGED <<calls, signals, slaveVars, dmrc>>

\* mdm_session_worker_update_username, before PAM's next message.  Settings that
\* are there already are not read again.
UpdateUsername ==
  /\ Doing("authenticate") /\ worker.known # worker.name
  /\ UsernameChanged(worker.known)
  /\ worker' = [worker EXCEPT !.name = worker.known,
                              !.loading = IF worker.settings = Nothing
                                          THEN Loads(worker.known) ELSE <<>>]
  /\ UNCHANGED <<calls, slave, started, inbox, dmrc>>

\* PAM asks for the name it has not been given, then for a password.
AskQuestion ==
  /\ Doing("authenticate") /\ worker.known = worker.name
  /\ LET what == IF worker.known = NoName THEN "name" ELSE "password" IN
       /\ worker' = [worker EXCEPT !.step = IF what = "name" THEN "name?" ELSE "password?"]
       /\ Tell(<<Signal("Query", what)>>)
  /\ UNCHANGED <<calls, slaveVars, inbox, dmrc>>

PamAccepts ==
  /\ Doing("verify")
  /\ worker' = [worker EXCEPT !.step = "verified"]
  /\ UNCHANGED <<calls, signals, slaveVars, inbox, dmrc>>

PamRefuses == Doing("verify") /\ GiveUp("authFailed")

\* Authenticated, Authorize and Authorized: the greeter says when to go on.
Authorized ==
  /\ Doing("verified")
  /\ worker' = [worker EXCEPT !.step = "none", !.state = "authenticated"]
  /\ Tell(<<Signal("UserAuthorized", NoName)>>)
  /\ Ask(IF slave.ready THEN <<Request("Open", NoName)>> ELSE <<>>)
  /\ slave' = [slave EXCEPT !.waiting = ~slave.ready]
  /\ UNCHANGED <<calls, sess, started, dmrc>>

Opened ==
  /\ Doing("open")
  /\ worker' = [worker EXCEPT !.step = "none", !.state = "opened"]
  /\ slave' = [slave EXCEPT !.idle = IF @ = "none" THEN "start" ELSE @]
  /\ UNCHANGED <<calls, signals, sess, started, inbox, dmrc>>

OpenFails == Doing("open") /\ GiveUp("reset")

\* The session's process writes the settings, and they are copied to the cache.
StartSession ==
  /\ Doing("start")
  /\ worker' = [worker EXCEPT !.step = "none", !.state = "started"]
  /\ dmrc' = [dmrc EXCEPT ![worker.name] =
                IF ~worker.failsafe
                THEN [o \in offer |-> IF worker.settings[o] # NoName
                                      THEN worker.settings[o] ELSE @[o]]
                ELSE @]
  /\ UNCHANGED <<calls, signals, slaveVars, inbox>>

WorkerStep ==
  \/ OnRequest \/ OnSetOption \/ StateChangeIdle \/ LoadSetting \/ SetupComplete
  \/ UpdateUsername \/ AskQuestion \/ PamAccepts \/ PamRefuses \/ Authorized
  \/ Opened \/ OpenFails \/ StartSession

Next ==
  /\ UNCHANGED offer
  /\ \/ /\ started = Nothing
        /\ UserStep \/ GreeterStep
        /\ UNCHANGED <<slaveVars, workerVars, inbox>>
     \/ /\ ConversationStarted \/ FromGreeter \/ IdleReset \/ IdleStart \/ WorkerStep
        /\ UNCHANGED greeterVars

Spec == Init /\ [][Next]_vars

-----------------------------------------------------------------------------
\* What the dmrc of an account, or without one the system, makes of an option.
OwnDefault(d, u, o) ==
  IF d[u][o] = NoName \/ ~Valid(o, d[u][o]) THEN SystemDefault[o] ELSE d[u][o]

\* The session starts with what the panel of the greeter shows, once nothing is
\* under way between greeter and slave: each of the three keeps its own copy
\* (selected_* and saved_* of the slave, active row and default of the widget,
\* MdmSessionSettings of the worker) and each tells the others of a change.
StartedAsShown ==
  [][started' # started /\ calls = <<>> /\ signals = <<>> /\ ~sess.missed =>
       \A o \in offer : panel[o].def # NoName => started'[o] = panel[o].combo]_vars

\* "The user can change these default values by simply changing to a different
\* value when logging in.  MDM will remember this change for subsequent logins"
\* (docs/C/mdm.xml:2022-2024), except for a failsafe session, which never becomes
\* the default of an account (mdm_session_settings_save).
Remembered ==
  /\ [][worker'.state = "started" /\ worker.state # "started" =>
          \A o \in offer :
            sess.sel[o] # NoName /\ ~sess.missed /\ ~worker.failsafe
              => OwnDefault(dmrc', worker.name, o) = sess.sel[o]]_vars
  /\ [][\A u \in User :
          "session" \in offer /\ dmrc'[u]["session"] # dmrc[u]["session"]
            => dmrc'[u]["session"] \notin SaysFailsafe]_vars

\* "This way when a user fails to authenticate, any previously selected value
\* will still be selected" (mdm-option-widget.c:317): true of the session; a
\* layout goes back to the default, and a notification of MateConf shows another
\* language.
KeptOnRetry ==
  "session" \in offer =>
    (window.mode = "auth" /\ picked["session"] # NoName /\ panel["session"].def # NoName
       => panel["session"].combo = picked["session"])
==============================================================================
