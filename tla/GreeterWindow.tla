---------------------------- MODULE GreeterWindow ----------------------------
(***************************************************************************)
(* The simple greeter: the login window, the session object that connects  *)
(* it to the slave, and the user in front of it.  The slave speaks to it in *)
(* D-Bus signals; whatever the greeter tells the slave is a blocking call,  *)
(* so between two calls it neither dispatches a signal nor sees the user.   *)
(* The user list is shown and holds the accounts, "Other..." and, once a    *)
(* timed login was requested, "Automatic Login".                            *)
(***************************************************************************)
EXTENDS LoginNames

CONSTANTS
  MaxTries,     \* MAX_LOGIN_TRIES
  PatientUser,  \* the user does not press Escape while the window is busy
  PromptUser    \* nor picks a name before the window has seen the slave's signals

ASSUME MaxTriesAssumption == MaxTries \in Nat \ {0}

VARIABLES
  greeter,  \* the greeter process and its window
  calls,    \* its calls the slave has not dispatched; the first one is out
  signals   \* the slave's signals it has not dispatched

greeterVars == <<greeter, calls, signals>>

Name == User \cup {OtherItem, AutoItem, NoUser}

GreeterRecord ==
  [st : {"none", "starting", "up", "stopped"},
   mode : {"selection", "timed", "auth"},   \* dialog_mode
   chosen : Name,            \* the chosen item of the user list
   prompt : BOOLEAN,         \* a question is shown: auth-input-box
   sensitive : BOOLEAN,      \* set_sensitive
   interactive : BOOLEAN,    \* is_interactive
   hold : BOOLEAN,           \* notify::is-interactive starts the session
   timed : BOOLEAN,          \* timed_login_enabled
   auto : BOOLEAN,           \* timed_login_already_enabled
   tries : 0 .. MaxTries]    \* num_tries

Call == [name : {"SelectUser", "BeginVerification", "BeginVerificationForUser",
                 "BeginAutoLogin", "AnswerQuery", "Cancel", "StartSessionWhenReady"},
         user : Name]

Signals == {"Ready", "Reset", "AuthenticationFailed", "Query",
            "UserAuthorized", "TimedLoginRequested"}

NoGreeter == [st |-> "none", mode |-> "selection", chosen |-> NoUser,
              prompt |-> FALSE, sensitive |-> TRUE, interactive |-> FALSE, hold |-> FALSE,
              timed |-> FALSE, auto |-> FALSE, tries |-> 0]

GreeterTypeOK ==
  /\ greeter \in GreeterRecord
  /\ calls \in Seq(Call)
  /\ signals \in Seq(Signals)

\* The greeter is in its main loop.
AtRest == greeter.st = "up" /\ calls = <<>>

ACall(n) == [name |-> n, user |-> NoUser]

-----------------------------------------------------------------------------
\* choose_user: SelectUser, then the conversation for that kind of item.
ChooseCalls(c) ==
  <<[name |-> "SelectUser", user |-> c],
    IF c = OtherItem THEN ACall("BeginVerification")
    ELSE IF c = AutoItem THEN [name |-> "BeginAutoLogin", user |-> TimedUser]
    ELSE [name |-> "BeginVerificationForUser", user |-> c]>>

Choosing(g, c) ==
  [g EXCEPT !.chosen = c,
            !.mode = IF c = AutoItem THEN "timed" ELSE "auth",
            !.timed = @ \/ c = AutoItem,
            !.prompt = FALSE,
            !.sensitive = c = AutoItem]

\* reset_dialog (MODE_SELECTION) with its notification: set_interactive (FALSE)
\* runs a connected start_session_when_ready, which connects itself again, makes
\* the window interactive and starts the session; only the later connection is
\* undone.
Restarts(g) == g.hold /\ g.interactive

ToSelection(g) ==
  [g EXCEPT !.mode = "selection", !.chosen = NoUser, !.prompt = FALSE,
            !.sensitive = TRUE, !.timed = FALSE, !.interactive = Restarts(g), !.hold = Restarts(g)]

ToSelectionCalls(g) ==
  IF Restarts(g) THEN <<ACall("StartSessionWhenReady")>> ELSE <<>>

-----------------------------------------------------------------------------
\* The user picks an item of the list.
OnUserChosen ==
  /\ AtRest
  /\ greeter.mode = "selection"
  /\ greeter.sensitive
  /\ PromptUser => signals = <<>>
  /\ \E c \in User \cup {OtherItem} \cup (IF greeter.auto THEN {AutoItem} ELSE {}) :
       /\ greeter' = Choosing(greeter, c)
       /\ calls' = ChooseCalls(c)
  /\ UNCHANGED signals

OnLoginButtonAnswer_StaysOpen ==   \* mutant: the window is not made insensitive
  /\ AtRest
  /\ greeter.prompt /\ greeter.sensitive
  /\ greeter' = [greeter EXCEPT !.interactive = TRUE]
  /\ calls' = <<ACall("AnswerQuery")>>
  /\ UNCHANGED signals

\* The user answers the question on the screen.
OnLoginButtonAnswer ==
  /\ AtRest
  /\ greeter.prompt /\ greeter.sensitive
  /\ greeter' = [greeter EXCEPT !.sensitive = FALSE, !.interactive = TRUE]
  /\ calls' = (IF greeter.hold /\ ~greeter.interactive
               THEN <<ACall("StartSessionWhenReady")>> ELSE <<>>)
              \o <<ACall("AnswerQuery")>>
  /\ UNCHANGED signals

\* do_cancel: Escape, and while the window is sensitive the Cancel button.
DoCancel ==
  /\ AtRest
  /\ greeter.mode # "selection"
  /\ PatientUser => greeter.sensitive
  /\ greeter' = [greeter EXCEPT !.sensitive = FALSE]
  /\ calls' = <<ACall("Cancel")>>
  /\ UNCHANGED signals

\* timed_login_timer, which the user's keys and clicks start again, or the Log In
\* button pressed before it.
TimedLoginTimer ==
  /\ AtRest
  /\ greeter.timed
  /\ greeter' = [greeter EXCEPT !.sensitive = FALSE, !.interactive = TRUE]
  /\ calls' = IF greeter.hold /\ ~greeter.interactive
             THEN <<ACall("StartSessionWhenReady")>> ELSE <<>>
  /\ UNCHANGED signals

-----------------------------------------------------------------------------
Dispatch(s) ==
  /\ AtRest
  /\ signals # <<>>
  /\ Head(signals) = s
  /\ signals' = Tail(signals)

OnReady_NoRetry ==   \* mutant: the chosen user is not begun again
  /\ Dispatch("Ready")
  /\ UNCHANGED <<greeter, calls>>

\* mdm_greeter_login_window_ready: a user already chosen is begun again.
OnReady ==
  /\ Dispatch("Ready")
  /\ IF greeter.mode = "auth" /\ greeter.chosen # NoUser
     THEN /\ greeter' = Choosing(greeter, greeter.chosen)
          /\ calls' = ChooseCalls(greeter.chosen)
     ELSE /\ greeter' = [greeter EXCEPT !.sensitive = TRUE]
          /\ UNCHANGED calls

\* on_reset of the greeter session.
OnReset ==
  /\ Dispatch("Reset")
  /\ greeter' = [ToSelection(greeter) EXCEPT !.tries = 0]
  /\ calls' = ToSelectionCalls(greeter)

\* on_authentication_failed: the same user again, up to MAX_LOGIN_TRIES.
OnAuthenticationFailed ==
  /\ Dispatch("AuthenticationFailed")
  /\ IF greeter.tries + 1 < MaxTries
     THEN /\ greeter' = [greeter EXCEPT !.tries = @ + 1, !.mode = "auth",
                                        !.prompt = FALSE, !.sensitive = FALSE]
          /\ UNCHANGED calls
     ELSE /\ greeter' = [ToSelection(greeter) EXCEPT !.tries = 0]
          /\ calls' = ToSelectionCalls(greeter)

\* mdm_greeter_login_window_info_query and _secret_info_query.
OnQuery ==
  /\ Dispatch("Query")
  /\ greeter' = [greeter EXCEPT !.prompt = TRUE, !.sensitive = TRUE]
  /\ UNCHANGED calls

\* mdm_greeter_login_window_start_session_when_ready: at once when the user has
\* touched the window or nothing is there to wait for, else at the timer.
OnUserAuthorized ==
  /\ Dispatch("UserAuthorized")
  /\ IF greeter.interactive \/ ~greeter.timed
     THEN /\ greeter' = [greeter EXCEPT !.interactive = TRUE,
                                        !.hold = @ \/ ~greeter.interactive]
          /\ calls' = <<ACall("StartSessionWhenReady")>>
     ELSE /\ greeter' = [greeter EXCEPT !.hold = TRUE]
          /\ UNCHANGED calls

\* request_timed_login: back to the list unless it is shown; the automatic user
\* is chosen the first time only.
OnTimedLoginRequested ==
  /\ Dispatch("TimedLoginRequested")
  /\ LET shown == greeter.mode = "selection"
         g == IF shown THEN greeter ELSE ToSelection(greeter)
         before == IF shown THEN <<>> ELSE ToSelectionCalls(greeter)
     IN IF g.auto
        THEN greeter' = g /\ calls' = before
        ELSE /\ greeter' = [Choosing(g, AutoItem) EXCEPT !.auto = TRUE]
             /\ calls' = before \o ChooseCalls(AutoItem)

UserStep == OnUserChosen \/ OnLoginButtonAnswer \/ DoCancel \/ TimedLoginTimer

GreeterStep ==
  \/ OnReady \/ OnReset \/ OnAuthenticationFailed
  \/ OnQuery \/ OnUserAuthorized \/ OnTimedLoginRequested
==============================================================================
