# Verification of the MATE display manager

TLA+ models of the MATE display manager (`mdm`, a fork of GDM 2.30), the TLC
configurations that check them on small instances, and theorems about them that
the TLA+ proof system proves for every instance. Paths below are relative to
`src/`.

## 1. The system

The daemon starts one *slave* process for each X display. A slave starts the X
server and the *greeter* on it, and a *session worker* that runs PAM for whoever
logs in. When PAM is through, the greeter is stopped and the worker forks the
user's session. When the session ends the slave exits, and the daemon starts the
next one. Every process is one GLib main loop: between two dispatches nothing
else runs in it, and all concurrency is between processes, which send each other
D-Bus messages, signals, packets and exit statuses.

```
   main.c, MdmManager
      |  owns                              D-Bus (bus)
   MdmLocalDisplayFactory  MdmXdmcpDisplayFactory  <-- UDP -- X terminals
      |  makes                     |  makes
   MdmDisplay, in the MdmDisplayStore
      |  MdmSlaveProxy: fork, child watch
   slave process (MdmSimpleSlave) --- MdmServer: X server process
      |  D-Bus (private)    \  D-Bus (private)
   MdmSessionDirect       MdmGreeterServer
      |                       |
   session worker          greeter (login window, user list, panel) --- the user
   (PAM, user's session)      |  D-Bus (bus)
                          AccountsService, ConsoleKit; ck-history, /etc/passwd
```

### 1.1 Components

| Component | State it keeps | Operations | What makes it correct |
|---|---|---|---|
| Local displays: `daemon/mdm-local-display-factory.c`, `mdm-display.c`, `mdm-static-display.c`, `mdm-transient-display.c`, `mdm-display-store.c`, `mdm-slave-proxy.c` | reserved X numbers, failure count, displays with status, number, slave and queued callbacks, the guest account | start, create, guest session, manage, finish, unmanage, child watch, status handler | one number per display; exactly one login screen until the factory gives up, and one comes back; no callback on a freed display; a guest has an account |
| Slave process: `daemon/mdm-simple-slave.c`, `mdm-slave.c`, `simple-slave-main.c`, `mdm-server.c`, `mdm-welcome-session.c`, `mdm-session-worker-job.c`, `common/mdm-signal-handler.c` | pids and watches of three children, pipe of signals, idles, the X connection | start, ready on SIGUSR1, connect, child watches, stop, wait | nothing is left behind; the display is set up once; an end is noticed, and leads to the slave's |
| Login, slave side: `daemon/mdm-simple-slave.c`, `mdm-session-direct.c`, `mdm-greeter-server.c`, `mdm-slave.c` | greeter, session, kept reply, selected user, two idles, `start_session_when_ready` | a handler for each report of the worker and call of the greeter, idles, stop | PAM's order, and for whom; replies match questions; display handed over once, to the account PAM opened the session for |
| Login, worker: `daemon/mdm-session-worker.c` | PAM state, queued step, PAM user | a signal handler for each request, one step per idle, blocking reports, the session's child watch | a step only after the one before; failure goes back to the beginning |
| Login, greeter: `gui/simple-greeter/mdm-greeter-login-window.c`, `mdm-greeter-session.c`, `mdm-greeter-client.c` | dialog mode, chosen item, question, sensitivity, timed login, tries | user's input, timer, a handler for each signal | never waits for ever; a failed password is asked again, a cancel comes back to the list |
| User list, as a widget: `gui/simple-greeter/mdm-chooser-widget.c`, `mdm-user-chooser-widget.c`, `mdm-scrollable-widget.c` | rows and their visibility, active row, the state and the slide of the list | activate, deactivate, shrink, grow, stop the slide, add and remove rows | what it shows, what is chosen and what the window was told agree |
| User list, as data: `gui/simple-greeter/mdm-user-manager.c`, `mdm-user.c` | users by name and path, requests under way, reloads, monitors | seat, session, account and file changes, and the replies to its own questions | it gets loaded; the list follows the file; no request is forgotten |
| Session, language and layout: `gui/simple-greeter/mdm-option-widget.c` and its kinds, `mdm-greeter-panel.c`, `daemon/mdm-session-settings.c`, parts of the login | rows, active and default row; selected and saved names; the account's `dmrc` | pick, default, recent list, select, load, save | what is shown is started; a choice is remembered, and survives a failed password |
| XDMCP: `daemon/mdm-xdmcp-display-factory.c`, `mdm-xdmcp-*display.c`, `mdm-xdmcp-chooser-slave.c` | session counts, indirect clients, forward queries, queued MANAGED_FORWARDs | a handler for each packet, timers, status handler, the choice | a lost or repeated packet changes nothing twice; a choice reaches the display it was made for |
| Manager: `daemon/mdm-manager.c`, `main.c` | factories, started, XDMCP on or off | start, stop, set, bus lost and reconnected | after a reconnection the same factories run |
| X access: `daemon/mdm-display-access-file.c`, and the authorizations of `mdm-display.c` | the display's cookies and a user's file | add, remove | who may use the display, and until when |
| Host chooser: `gui/simple-chooser/`, `daemon/mdm-chooser-server.c` | hosts that answered | query, select | with XDMCP's |
| Product displays and relay: `daemon/mdm-factory-slave.c`, `mdm-product-slave.c`, `mdm-session-relay.c` and others | a greeter shared by several sessions | relay of every session signal | not reachable (section 8) |
| Settings: `common/mdm-settings*.c` | values, dirty, save timer | set, save, notify | what is set is saved |
| Everything else | | | tools, panel applet, `mdmsetup`, records, logging, translations: presentation, or one-shot programs; `PROJECT.json` lists them one by one with the reason |

### 1.2 What is hard here

* **Messages cross.** The greeter's calls, the worker's reports and the slave's
  idles meet in one main loop in any order. The slave keeps *one* reply for the
  worker and does not know which question an answer is for.
* **State that outlives its conversation.** A failed login makes a new session
  and a new worker, but the flags of the slave and the window stay, and so do the
  active rows of the panel.
* **Two opinions on who logs in.** The greeter tells the slave a name; PAM has its
  own, and its modules may replace or clear it in any step. Scripts and the X authority
  use the first, the session the second.
* **Nested callbacks.** A display that fails is removed and replaced by the handler
  of its own status notification, inside its own `unmanage`. A slide of the user
  list is stopped, and its end runs, inside a call that goes on afterwards.
* **Blocking waits in a main loop.** A slave waits in `waitpid` for a child it has
  told to end, the daemon waits for the scripts of the guest account.
* **Copies of one value.** The session type is kept by the widget, the slave and the
  worker, and in a file, and each tells the others of a change.
* **Many answers that may come in any order.** The user list is loaded when the last
  of six things under way has ended, failed or been killed.
* **Retries and limits.** Failed displays are counted, failed passwords are
  counted, and XDMCP counts sessions; packets are lost, repeated and overtaken.
* **Processes die** at any moment: slave, worker, greeter, X server.

`PROJECT.json` lists the hazards one by one, each at its line, with the properties
that would catch it.

## 2. Modules

| Module | What it models |
|---|---|
| `LocalDisplays` | factory, displays, store and slave proxies of the daemon |
| `GuestDisplays` | the same with guest sessions and the scripts the daemon waits for |
| `LoginNames` | the names a login is about |
| `SessionWorker` | the worker process and PAM, as one state machine |
| `GreeterWindow` | the greeter process and the user in front of it |
| `LoginSession` | the slave, composed with worker and greeter; the properties of a login |
| `PamTransaction` | abstract specification: what is promised about PAM |
| `SlaveProcess` | the slave as a process with its three children, from start to end |
| `UserManager` | the greeter's user manager, and the list that follows it |
| `UserChooser` | the user list as a widget that slides, and the window that drives it |
| `ChosenUser` | abstract specification: what the list promises the window |
| `OptionWidget`, `SessionOptions` | one list of the panel; session type, language and layout through greeter, slave, worker and `dmrc` |
| `XdmcpFactory`, `Xdmcp` | the packets of a factory; factories, terminals, slaves and the network together |
| `XdmcpSessions` | abstract specification: what is promised to a terminal |
| `DisplaysProofs`, `LoginSessionProofs`, `SlaveProcessProofs`, `UserManagerProofs`, `UserChooserProofs`, `XdmcpProofs`, `SessionOptionsProofs` | inductive invariants and theorems |
| `LoginAccessProofs` | more theorems about `LoginSession`: who is let in, and what is left of the greeter when a session runs |
| `MC...` | the model values TLC's runs use |

A definition whose name has a suffix after an underscore and a `mutant` comment is
a plausible wrong version of the definition that follows it. It is used nowhere;
each property is known to fail when one of these replaces the definition.

How they compose: `GuestDisplays` extends `LocalDisplays`, whose actions it takes over
and constrains; that its steps are steps of `LocalDisplays` is so by construction, and
serves the proofs as a lemma only. `SlaveProcess` takes a login
as a greeter that connects, a number of resets and at most one session; `LoginSession`
takes the slave process as one that has a display, and begins when the greeter is
started. `SessionOptions` has the conversation of `LoginSession` with the PAM steps
taken together, since the options travel beside it. `UserChooser` has the window of
`GreeterWindow` reduced to its calls of the list: there a choice is one step, here
it is a slide. `UserManager` feeds the rows that `UserChooser` adds and removes
freely. A slave that ends, by `SlaveProcess` or `LoginSession`, is the free
`SlaveEnds` of `LocalDisplays` and `Xdmcp`.

### 2.1 LocalDisplays and GuestDisplays

The daemon is one main loop, so a callback with everything it calls is one action.

| Action | Code |
|---|---|
| `Start`, `CreateTransient` | `create_display` and the D-Bus methods of the factory: `take_next_display_number`, construct, store, `mdm_display_manage`, which prepares the display and forks its slave. Whether the fork worked (`p`) is not looked at by any caller |
| `SlaveEnds`, `ChildWatch` | the process ends; `child_watch` emits `exited` or `died`, both of which queue `finish_idle` |
| `FinishTransient` | `finish_idle` on a display nobody listens to |
| `RestartStatic` | `finish_idle` on the login display that lasted: unmanaged, then managed again by the handler of its status |
| `FailStatic` | the same when it lasted less than three seconds: the handler drops it, counts, and makes another display, all inside `unmanage` |
| `GetTimedLoginDetails` | the slave asks whether it is to log a user in |
| `StartGuestSession`, `GuestAccountSetUp` | the D-Bus method up to the script `guest-session-setup`, and from its end on: a display is made, or an error returned |
| `GuestFinishes`, `GuestCleanedUp` | `mdm_guest_display_finish` up to the script `guest-session-cleanup`, and the rest of it |

`disp[d].proxy` distinguishes a slave whose fork failed, that runs, that has ended
without the child watch having been dispatched, and that was reaped. Whether a
display was *short* is a free choice, since nothing bounds the time between two
callbacks. Transient, user-switch and product displays have the same life cycle and
are one kind.

While a script runs (`script`), the main loop dispatches nothing, but slaves end.
`g_spawn_sync` is preceded by `signal (SIGCHLD, SIG_DFL)`, so a GLib that watches
children by SIGCHLD does not hear of them (`unheard`) until another child ends; a
GLib that uses pidfds does. The module lets both happen. `shown` is what ConsoleKit
knows of the guests' sessions. `raced` is a history: a guest display was made beside
one that ConsoleKit did not show.

### 2.2 LoginSession

Three processes and a user. Between them there are three channels:

| Variable | Channel |
|---|---|
| `inbox` | signals of the slave to the worker, in order |
| `worker.call` | the blocking method call the worker is in; at most one. `"answer"`: the slave has taken a question and kept the reply |
| `calls` | calls of the greeter. They are blocking, so while there is one the greeter neither dispatches a signal nor sees its user; a handler that makes two leaves two in the queue |
| `signals` | signals of the slave to the greeter, in order |

`worker` holds `state` (`MdmSessionWorkerState`), `idle` (a queued step), `step`
(the step it is in) and PAM's user; `OnRequest` is the signal handlers with their
"ignoring spurious" conditions, `StateChangeIdle` and `StepEnds` the idle and the
PAM functions, whose outcome is free. `greeter` holds the window. `sess` is the
slave's `MdmSessionDirect`: whether it exists, whether its worker is connected, the
kept reply, the selected user, whether it runs. `idles` holds the queued
`greeter_reset_timeout`, `auth_failed_reset_timeout` and `start_session_timeout` in
order. Each of them tests only its own id, which is why a reset and a start can be
queued together. GLib dispatches all idles that are ready in one go, so
`IdleStartThenReset` and the combined cases of `IdleReset` and `IdleStartAborts` are
single actions.

Who the login is for is kept twice. `worker.user` is the worker's name: it is set by the
setup, and `UpdateUsername`, which the code calls before every message of a PAM module
and after authentication, reports to the slave whatever the modules have made of
PAM_USER, in any of the steps 2 to 5. `sess.user` is the slave's `selected_user`: it is
set when the greeter begins a user (`SetupForUser`) and when the worker reports a name
(`UsernameChanged`). The greeter's `SelectUser` call changes nothing: `mdm-simple-slave.c`
only logs it, and so does the model.

The actions have the names of the handlers; the comment above each one names the
function when the name differs. `Stop` covers every way a slave ends: end of the
session, of its worker while it runs, of the X server, of the greeter.

`life` is `"up"`, `"stopped"`, or the name of the assertion that aborted the slave:
an assertion of the code is not assumed, its failure is a state of the model.

`effects` is a history: for each script run and each authorization given, the name
it was for, how far PAM was and which account PAM had.

Assumptions about the environment are constants, so that a run says which it makes:

* `PatientUser`: the user does not press Escape while the window is insensitive.
  Buttons are insensitive then; the Escape key is not.
* `PromptGreeter`: a new worker, which has to be forked and to connect, does so
  after the greeter's earlier calls and signals have been dispatched.
* `PromptUser`: the user picks no name before the window has dispatched the signals of
  the slave. Otherwise a name picked before Ready is dispatched is begun twice.
* `RenamingSteps`: the PAM steps whose modules replace or clear a name that is there
  (steps 2 to 5). In every step a module may name an account where there is none.
* `AskingSteps`: the PAM steps whose modules ask the user something (steps 2 to 5).
* `WorkerFaults`: `"crash"`, the worker dies at any point; `"fork"`, it cannot fork
  the session.
* `TimedLogin`: off, delayed (`TimedLogin`), or at once (`AutomaticLogin`).
* `MigratableUser`: the accounts with a session ConsoleKit can switch to.

Not in this module: the X server and the other children (`SlaveProcess`); the
slides of the list and a list that is disabled or loaded late (`UserChooser`);
languages, layouts and session types (`SessionOptions`); guest and user-switch
slaves, whose user is preset; PAM items and environment. The main loop may dispatch
an idle later than the messages that were there when it was queued: messages that
arrive meanwhile may overtake it in the model as they may in the code.

`PamTransaction` is the abstract specification: steps are taken one at a time and in
order, for the account of the setup, which only a module of the step that is being run
replaces (`Rename`); credentials, step 4, are given to an account; and a transaction can be
given up at any point. `LoginSession` implements it with `stage <- worker.state`,
`step <- worker.step` and `account <- worker.user` from the setup on (before, another
setup may come). Nothing in `PamTransaction` mentions requests, idles, greeters or retries:
that they cannot disturb it is what the refinement says.

### 2.3 SlaveProcess

A child is `[proc, told, pid, watch]`: the process itself, whether SIGTERM was sent
to it, and what the slave keeps of it. `"reaped"` is a child that GLib has waited for
and whose watch is not dispatched yet: the slave may still signal its pid. `pc` is
where the slave is: before its main loop, in it, in one of the three parts of
`mdm_simple_slave_stop`, or gone. `wait` is the blocking `waitpid` with what follows
it, which is a part of an action on each side: the first ends where the code calls
`mdm_wait_on_pid`, the second begins where it returns, and only children and signals
act between them.

`pipe` are the signals in the pipe of `MdmSignalHandler`, a set, since a second one
of a kind only repeats the first; `idles` the idle that emits `ready` and the timeout
that retries the connection. `splash` is plymouth, `alarm` the alarm that is set for
the first connection on a remote display, and kills the slave.

`MayFork` makes every fork fail freely. `Leave` ends the process without stopping
anything: the X server and the worker get SIGTERM (`PR_SET_PDEATHSIG`), the greeter
does not.

### 2.4 Xdmcp

`XdmcpFactory` has one action for each outcome of a packet a manager gets, with the variables the
factory keeps (`indirect`, `forwards`, `managed`, `serial`, `numSessions`, `store`)
and its displays. `Xdmcp` composes several managers with terminals, the slaves on
them, the bus on which a chooser's slave reports the choice, and the network `net`, a
set of packets: a packet may be lost, repeated, and overtaken. `troubles` counts
losses, repetitions, restarts of terminals and failures of a manager and bounds them.

A REQUEST has three outcomes. `AcceptRequest` prepares and stores a display.
`DeclineRequest` has not entered it, or finds too many pending. `FailToPrepare` is the
failure of `mdm_display_prepare`: the display that the terminal had is out of the store,
the session number is used, and neither ACCEPT nor DECLINE is sent. `XdmcpSessions` has a
step for it (`Waste`): a number that nobody gets, and the terminal has none that counts.

Positions in `forwards` and `managed` matter because the code searches them from the
head: `ForwardCreated` prepends, `First` finds. `acctime` is never set in the code, so
nothing expires, and the eviction takes the newest. The counts are those of the code:
`mdm_display_store_foreach` stops at the first display for which its callback returns
TRUE, and both callbacks always do. Which one is first is the hash table's choice.

A terminal is the X server's side of the protocol as the code's packets imply it
(external): it asks, requests when it is willing, manages when it is accepted, and
resets when its session is over.

### 2.5 UserManager

One record for what manager and user list hold (`list`), and a variable for each
thing that may be under way: `listing` (ListCachedUsers), `getting` (GetSessions),
`asking` (GetUnixUser and so on of each session), `history` (ck-history with its
output and its watchdog), `jobs` (reloads, in a thread). `Load` and the actions named
`On...` are the callbacks. A user is represented by its name, twice if it is known by
an object path and by its entry in the file (`Kind`). `list.rows` counts rows, since
a user can have two. What the code does in a loop for one user after another (the users
the service has cached, the requests that wait, the results of a reload) touches the
entries of that user only, and is done here for the set of them at once.

The thread is three actions (`ReloadReads`, `ReloadCompares`, `ReloadPasswdJobDone`)
because it reads the tables without a lock while the main loop changes them; the
results are applied in the main loop. `SlowJobs` lets a reload outlast the throttle
of two seconds, so that two overlap.

### 2.6 UserChooser

Every operator takes the state `s = [c |-> the list, w |-> the window]` through one
call, in the order of the code, since these calls nest: `Activate` shrinks, which may
stop a slide, whose end emits `activated`, whose handler begins a conversation.
`atOnce` is the case that the pointer and keyboard cannot be grabbed, or animations
are off. Input goes to an invisible window during a slide, so `Click` needs rest; the
slave's signals, `users-loaded` and the accounts' news are dispatched at any time.
`crashed` is the failed assertion of `mdm-chooser-widget.c:787`.

`ChosenUser` is the abstract specification, with fairness: someone is chosen, the
window is told, a choice can be withdrawn; who stays chosen is told of in the end.

### 2.7 SessionOptions

`OptionWidget` has the handlers of one list as operators on the widget and what its
`activated` signal made the panel tell the slave. `SessionOptions` keeps a widget,
the slave's `selected_*` and `saved_*` (`sess.sel`, `sess.saved`), the worker's
settings and each account's `dmrc`. A behaviour is about one of the sets in `Offers`.
`picked` is a history of what the user chose for this account; `sess.missed` one of
choices that were meant for the session before, found no worker, or were on their way
when the session was started. The properties that need it say so.

## 3. Runs

| Run | Bounds | What it shows |
|---|---|---|
| `GuestDisplays_main` | 2 login displays, 2 others, `MAX_DISPLAY_FAILURES` 1 (5 in the code), 1 154 268 states | displays with guest sessions: numbers, the one login screen, callbacks, the guest account, `LoginComesBack` |
| `LoginSession_safety` | 2 accounts, 2 conversations, 2 tries, a question while authenticating, delayed timed login, crashes failing forks, names replaced in any step, 1 788 333 states | questions and replies, ownership of the display, the first timed login, the refinement of `PamTransaction`; no assumption on user or greeter |
| `LoginSession_prompt` | 3 conversations, questions in steps 2 and 3, `PromptGreeter` and `PromptUser`, failing forks, names replaced or cleared in any step, 83 444 states | who gets access to the display, and when |
| `LoginSession_patient` | 4 conversations, `PromptGreeter` and `PatientUser`, fairness, 33 416 states | a login is decided, a cancel works, a started session is left alone, the screen is not left blank |
| `LoginSession_auto` | automatic login, no questions, fairness, 13 705 states | the automatic login ends in a session or in a greeter |
| `LoginSession_authority` | 2 conversations, no timed login | the disagreement of section 6 (TLC must find it violated) |
| `SlaveProcess_main` | 10 connection attempts (the code's), 2 resets, 245 648 states | nothing left behind, one set-up of the display, an end is noticed and leads to the end |
| `Xdmcp_main` | 2 managers, 1 terminal, 3 sessions, limits of 1, one trouble, 939 759 states | a display per terminal, the forward lists, the refinement of `XdmcpSessions` |
| `Xdmcp_choice` | the same with 4 sessions, no trouble, fairness, 47 499 states | a choice is expected, and gets its greeter |
| `Users_main` | 2 accounts of which one is only in the name service, 2 changes, 1 session, 620 878 states | the list is loaded and follows the file |
| `Chooser_main` | 2 accounts, 3 conversations, 2 accounts that come or go, 109 935 states | list, choice and conversation agree when nothing slides; a choice is reported |
| `Options_main` | 2 accounts, 3 conversations, 2 tries, 1 pick, sessions with languages, or layouts, 3 256 772 states | what is shown is started, a choice is remembered, and kept on a retry |

The properties:

* Displays: `NumbersDistinct`, `OneLoginDisplay`, `NoCallbackOnDropped`,
  `AccountKept`, `LoginComesBack`.
* Login: `QueriesPaired`: PAM's open question and the reply the slave keeps come and
  go together, so the worker never waits for a reply that is lost;
  `SessionOwnsDisplay`: greeter and session are never on the display together;
  `PamInOrder`: the refinement; `AuthorityForOwner`: access to the display is given
  after PAM has opened a session, and for the name the worker has then, whatever the
  greeter began and PAM's modules made of it;
  `FirstTimedLoginWaits`, `AutoLoginDecided`: the logins without a user;
  `NoBlankScreen`, `SessionUndisturbed`, `Decided`, `CancelWorks`.
* Slave: `NothingLeft`, `OneOnDisplay`, `SlaveEnds`.
* XDMCP: `OneDisplayPerTerminal`; `ForwardsOnce`: a manager that is being told of a
  resolution has no newer query open about the same host; `SessionsKept`: the
  refinement; `ChoiceExpected`, `ChoiceReached`.
* Users: `NobodyWaits`: the two places that set `is-loaded` forget no request;
  `Loads`, `FileFollowed`.
* List: `Settled`, `ChoiceReported` (the refinement of `ChosenUser`, with its liveness).
* Options: `KeptOnRetry`, `StartedAsShown`, `Remembered`.

**Why the bounds are enough.** The interesting cases of the displays need one
display more than the failure limit and one that is not the login display; two of
the latter are two guests. Those of a login need two accounts (the wrong one can be
chosen), two tries (one retry of the same user, one return to the list) and two
conversations (what one leaves for the next); three and four conversations find
nothing new in the runs that can afford them. Two asking steps put a question before
and after the user is settled. `MaxConversations` bounds resets only: when it is
reached a queued reset stays queued, and the liveness properties exempt that state.
Two resets of `SlaveProcess` put one before and one after whatever happens; ten
attempts are the code's. In XDMCP the second manager is the one that is forwarded
to, and a second session at the first is the one that replaces another; a trouble
more, or a second terminal, is out of reach. The users need one that is in the file
and one that is not, and two changes (one noticed while the other is being read). The
list needs two accounts to have a row to hide, and a third conversation to begin one
again after a choice was replaced. With `MaxPicks` 2 and two conversations
`Options_main` has 12.4 million states and finds no error either.
The theorems of section 5 have none of these bounds.

`CHECK_DEADLOCK` is off, except in `SlaveProcess_main`: a login ends, a login screen
is given up, a greeter aborts, and at the bounds everything stops. `SlaveProcess` has a
stuttering step for a slave that is gone, so there every other stop is an error.

**Fairness.** It is assumed for main loops, which serve a source that stays ready,
and for processes that were told to end or were asked and have a time limit.

* `GuestDisplays`: scripts end (weak); the main loop hears of a child or renews the
  login display though guest sessions keep being asked for (strong: GLib dispatches
  every ready source of one priority in each iteration, but the script makes them
  wait). Nothing is assumed of slaves.
* `LoginSession`: one weak condition per process, for what it does once there is
  something to dispatch; PAM and the forks return and a process that was started
  connects. Nothing is assumed of the user, of faults, of the timer, of the end of a
  session or of an X server, except that a session's end, once reported, is handled
  (`SessionEnds`).
* `SlaveProcess`: weak for each source of the main loop and for the waits; a child
  that was sent SIGTERM ends.
* `Xdmcp`: weak for each kind of source of a manager, for a terminal that goes on with
  what it has begun, and for a slave that connects.
* `UserManager`: D-Bus calls are answered or time out, except `GetAll`, which is
  called without a time limit; threads, timers and idles have their turn; a child that
  was killed ends.
* `UserChooser`: the timer of a slide runs out.

## 4. Reading the models against the code

`PROJECT.json`, `"map"`, gives the lines each definition stands for. The order of
effects inside a handler is not visible in an action except where another process
can tell: `HandOver` has `stop_greeter` before the request, as
`start_session_timeout` does, and the scripts are recorded with the state PAM has at
that moment. `stop_greeter` waits for the greeter's end, so a call the greeter was in
at that time has reached the slave and is still dispatched, and nothing else is.
`destroy_session` waits for the worker, so its messages are gone with it.

## 5. Theorems

Proved by TLAPS for every value of the constants: any finite set of displays and any
failure limit, any accounts, questions, faults, tries and number of conversations, any
number of connection attempts and resets, any accounts in the user list and any news of
them, any users, sessions and reloads of the user manager and any choice of those it leaves
out, any managers, terminals and limits of XDMCP with any order, loss and repetition of
packets, any items, defaults and stored settings. The assumptions are those named in the
modules: the sets of displays are finite and disjoint, limits are naturals, `NoUser` and
the two items of the list are not accounts, the timed user is one, who is left out or
named by a session is a user, questions are asked in
steps 2 to 5; there is a terminal, the server is a manager, and only a name that cannot be
resolved is chosen beside managers; the marks for no client and an open choice are not
managers; the rows of a list of the panel are items, the system's
default is one and for sessions is in the list (`get_fallback_session_name` returns only
what `get_session_command_for_name` finds), and languages and layouts that are stored exist.

Four theorems have hypotheses; the properties are false without them (sections 6, 7.2
and 7.4). Those about the login are the hypotheses of the property's run:

* `AuthorityForOwner_Holds` assumes `PromptChoice`: `PromptLogin`, that is, a new worker
  connects after what the greeter and the slave sent each other has been dispatched, there
  is no timed login and the worker does not crash; and `PromptUser`. Of PAM's modules it
  assumes nothing: they ask and rename in any steps.
* `NoBlankScreen_Holds` and `SessionUndisturbed_Holds` assume `PatientLogin`: beside
  `PromptLogin` the user presses Escape only while asked something, and the worker can fork.
* `ChoiceExpected_Holds` assumes `HostsDiffer`: two terminals are on two hosts. The
  property itself is about runs in which nothing is lost and choices are dispatched in
  time.

| Theorem | States |
|---|---|
| `DisplaysProofs!TypeCorrect` | `TypeOK` |
| `DisplayNumbersDistinct` | `NumbersDistinct` |
| `ExactlyOneLoginDisplay` | `OneLoginDisplay` |
| `CallbacksOnLiveDisplays` | `NoCallbackOnDropped` and `Supervised` |
| `TimedLoginPerFailure_Holds` | at most one timed login more than failures (section 7.1) |
| `GuestTypeCorrect` | `GuestTypeOK` |
| `GuestKeepsAccount` | `AccountKept` |
| `DisplaysKeptWithGuests` | `NumbersDistinct`, `OneLoginDisplay` and `NoCallbackOnDropped` with guest sessions |
| `LoginSessionProofs!TypeCorrect` | `TypeOK` |
| `QuestionsPaired` | `QueriesPaired` |
| `NoSecondQuestion` | `QueryAssertion`, the assertion of `set_pending_query` |
| `SessionHasDisplay` | `SessionOwnsDisplay` |
| `PamRefinement` | `PamInOrder` |
| `LoginAccessProofs!FirstTimedLoginWaits_Holds` | `FirstTimedLoginWaits` |
| `AuthorityForOwner_Holds` | `AuthorityForOwner`, if `PromptChoice` |
| `NoBlankScreen_Holds` | `NoBlankScreen`, if `PatientLogin` |
| `SessionUndisturbed_Holds` | `SessionUndisturbed`, if `PatientLogin` |
| `SlaveProcessProofs!TypeCorrect` | `TypeOK` |
| `NothingLeftBehind` | `NothingLeft` |
| `DisplaySetUpOnce` | `OneOnDisplay` |
| `UserManagerProofs!UsersTyped` | `TypeOK` |
| `NobodyWaits_Holds` | `NobodyWaits` |
| `UserChooserProofs!TypeCorrect` | `TypeOK` |
| `ListSettled` | `Settled` |
| `XdmcpProofs!TypeCorrect` | `TypeOK` |
| `OneDisplay_Holds` | `OneDisplayPerTerminal` |
| `ForwardsOnce_Holds` | `ForwardsOnce` |
| `SessionsKept_Holds` | `SessionsKept`: `Spec` implements `XdmcpSessions` |
| `ChoiceExpected_Holds` | `ChoiceExpected`, if `HostsDiffer` |
| `SessionOptionsProofs!TypeCorrect` | `TypeOK` |
| `KeptOnRetry_Holds` | `KeptOnRetry` |
| `Remembered_Holds` | `Remembered` |
| `StartedAsShown_Holds` | `StartedAsShown` |

**Local displays.** `OneLoginDisplay` is not inductive: it must be known that only a
managed display can have a slave or an idle (`Coherent`), that the store holds exactly
the displays that were made and have not failed (`StoreExact`), and that nothing has
happened before the start (`QuietBeforeStart`). `NumbersDistinct` needs
`NumbersReserved`: a number in use is reserved, also after its display has left the
store. `TimedLoginPerFailure` counts: who was granted a timed login was made, and there
are at most as many login displays ever made as failures and one (`GrantedInv`).

**Guest sessions.** Every step is a step of `LocalDisplays` or changes none of its
variables (`StepRefines`), so `IInv` of the local displays holds here too, which gives
`DisplaysKeptWithGuests`. `AccountKept` needs that a registered session
is that of a running slave (`ShownRun`), that guest displays were made and one whose
cleanup runs has its `finish_idle` (`GuestsMade`), and, without a race, that there is
one guest display and none during the setup (`OneGuest`).

**Login.** `IInv` has five parts beside the types:

* `WorkerInv`: the step being run is the one after the state, a queued step is not
  also running, and a worker that is not connected has nothing in it. This carries
  PAM's order: a request is accepted only in its state, but the step runs later, from
  an idle.
* `CallsInv`: a call that begins a user names an account; before there is a greeter
  there are no calls. Needed for the type of PAM's user.
* `PairInv`: `QueriesPaired` without its condition on `life`, and that a greeter that
  starts finds neither a worker nor a kept reply. Without the second half
  `GreeterConnected`, which makes a new worker and leaves the session alone, would
  orphan a reply.
* `DisplayInv`: as long as there is a greeter, `StartProgram` is not in the inbox and
  no step after `OpenSession` is queued or running. Hence a started session has no
  greeter.
* `ResetInv`: before the first greeter a queued reset means the worker is gone, and no
  idle is queued while that greeter starts. Without it the reset of a failed
  automatic login would bring up a greeter beside the worker that is still
  reporting.

Every action keeps `IInv`: the worker's own steps (`WorkerIInv`), the greeter's and
user's (`WindowIInv`), the reports (`FromWorkerIInv`), the calls (`FromGreeterIInv`),
the idles (`IdleNextIInv`), and the ends (`StopIInv`). For the refinement, each step
leaves PAM alone, advances it by one, or gives it up (`PamStep`): the slave never
changes the worker's state except by replacing the worker (`SlavePamStep`), and the
worker advances only through `StepEnds` (`WorkerPamStep`).

**Access.** What `LoginAccessProofs` shows rests on what is under way between the three
processes, so its invariants are about the contents of `signals`, `calls` and `inbox`
and not their types only. There are three, each on top of `IInv`:

* `TimedInv`, for `FirstTimedLoginWaits`: in the first conversation the request of the
  timed login is still on its way and the window untouched, or it has come; and as long
  as the window is not interactive nothing that would establish credentials exists: no
  call of the window, no flag of the slave, no request, no step of the worker.
* `OwnerInv`, for `AuthorityForOwner`, has two parts. `AccessInv`, which the next invariant
  needs too, is about the display: the window shows its chosen item until it is back at the
  list (`ChoiceOwn`), and a start that is queued or requested belongs to the session that is
  open, and is the only one (`OpenInv`). `NamesAgree` is about the names: the window begins a
  conversation once (`WindowOnce`); then either nobody has been begun, or the one setup under
  way is for the slave's user (`SetupSent`), or the worker has taken it up and has the slave's
  name, but while it reports another one (`UnderWay`). Since the report blocks the worker, no
  name of PAM's can be overtaken by the end of its step. A second setup would come in between;
  this is where `PromptUser` is needed.
* `PatientInv`, for `NoBlankScreen` and `SessionUndisturbed`. `QuestionInv`: while a worker
  is up, a question is in one place at most: with the window, on its way there, or
  answered and on its way back; so a cancellation is only there while the worker waits for
  an answer, and none is under way at the hand-over. `FreshInv`: what the window does while
  the next worker starts does not reach it. `CallInv`: a worker that has failed has no
  state, and a start that is queued is alone. With these, nothing that would take
  the session away is left when the greeter has been stopped (`StoppedInv`).

**Slave process.** `IInv` has, beside the types and the two properties:

* `WaitsInOrder`: the `waitpid` that is under way is the one that belongs to where the
  slave is, so that the three stops come in their order and no other.
* `StoppedGone`: what has been stopped is gone while the next child is stopped. With
  it `NothingLeft` follows at `Return`.
* `Untouched`: nothing was forked or queued before the start.
* `OneReadiness`: the readiness of the X server is under way in one place at most, and
  only until the slave has its own connection. Without it a second SIGUSR1 would set
  the display up a second time.
* `NobodyBefore`: nobody is on the display before that connection. With the last one,
  `Connect` finds no greeter and no session to overwrite (`OneOnDisplay`).

**User manager.** Most steps change the tables by the same few operations, one inside
another, so there is a lemma per operation: each leaves a list that is `Sound`, of its type
and with nobody waiting for a manager that is loaded. `NobodyWaits` is kept because `is-loaded` is set (`SetLoaded`) either when nobody is a new
user, or with the waiting requests made in the same step, and because the one operation that
makes a request wait (`GetUser`) looks at `is-loaded`. `UInv` adds `Asked`: of one user no
more sessions wait for an answer than there are; without it an answer that fails could take
the number of sessions below zero.

**User list.** The operators of `UserChooser` take one state through a call, and one call
may end a slide that an earlier one began; so `Calm`, the invariant, is a predicate on
such states, and there is one lemma per operator from it to it. It has, beside the types:

* `RowsOK`: visible and active rows are rows.
* `Slides`: for each slide the state the list is in and whether somebody is chosen. A
  list that is shrunk may still be in a shrink slide; ending that one is the failed
  assertion of `on_shrink_animation_complete`. `Settled` is its case of no slide.
* `Hidden`: a list that is not shown is grown and does not slide, and is only hidden
  until the accounts are loaded or if they are not listed. Without it
  `skip_resize_animation` could leave a chosen item of which the window was not told.

**XDMCP.** The three kinds of state are separate. `ListsOK` is `ForwardsOnce` and types;
it rests on lemmas about taking elements out of a list (`Thins`) and putting one in front
(`Grows`), since both handlers drop the first match only, and a second must not exist.
`StoreInv` adds to `OneDisplayPerTerminal` that a session number above the last one given
is neither in the store nor was ever served, and that the proxy knows a slave that was
started (`Sound`). Every step of the managers offers a display, wastes a number, serves a
display, ends one, or leaves displays and store alone (`StoreStep`); each of these is a step of `XdmcpSessions`
or a stutter. For these the packets need their types only, and their order does not matter.

`ChoiceExpected` is about runs without trouble, and there the packets matter. `Undisturbed`
says for each terminal (`OnTheWay`) that one packet about it is under way at most; that it
is the one its phase waits for, with the session it names not yet served (`Fits`); and that
a chooser it has, or will get with the session it was offered, finds the client of its host
unchosen (`Attended`). So no packet is handled for a terminal that has a chooser. Beside
that, each choice on the bus is expected, is the only one of its terminal, and comes from a
chooser that has ended (`BusInv`: the terminal has not gone further than its next query,
since a manager dispatches choices first); a display has one slave, whose end is noticed
before the display is given up, so no callback touches a freed proxy (`SingleInv`); and
only the server keeps clients that have not chosen (`ClientInv`). A step moves one terminal
and leaves the others as they were (`Kept`), which is one lemma for all actions
(`OneMoves`); what remains is the terminal that moves.

**Session options.** As for the user list there is one lemma per operator of
`OptionWidget`, from the lists it may be given (`Handled`, `Settled`) to those it leaves.
`IInv` is the types and `KeptInv`: the session type the user chose is the active row and the
row shown also while the list has lost its default; a list of session types has no dialog
and hears nothing from MateConf, which is what makes it differ from the other two.
`Remembered` needs where a choice is (`ChoiceInv`):

* `SentInv`: unless a choice was missed, the slave's is the last request for its option in
  the worker's inbox, or there is none and the worker has set it.
* `OrderInv`: from the request to start on no choice is under way behind it, since the
  greeter has been stopped; so the inbox holds none when the worker starts the session, and
  what it writes is the slave's.
* `BookInv`: the worker has settings from `do_setup` on; those that are still to be read
  from a file are not set, or as in the file (`MadeInv`), so reading overwrites no choice;
  and an account is only replaced where there was none (`NameInv`).
* `FailsafeInv`: a session that says that it is failsafe is marked as such, in every
  request and in the worker, unless it is what the account has already.
* `ListInv`: what is reported is a row of the list, and the rows of session types do not
  change; so what was written is valid at the next login.

`StartedAsShown` relates the row shown, the slave's choice, the stored values the slave has
read and the worker's settings with what is under way between them. `ShownInv` says how
they follow each other. `AtWork` holds always:

* `ListsInv`: the row shown is the active one, or the default where there is none.
* `StageInv` and `FinalInv`: a step of the worker belongs to its stage, a start to an opened
  session; after a session has been started no other is and no account is begun.
* `ReadInv`: nothing is read before `do_setup`, and the session type is read first.
* `SoundInv`: sessions that are read or sent are rows of the list.

`InTouch` holds until a session is started:

* `CallInv`: the choices under way end with one for the list they are for, and it is what
  that list shows, since a choice is reported while it is made; and the name of the user is
  followed by the request to begin.
* `ToldInv`: once a conversation has begun the list has the default that the slave would
  take, or the last signal about it is that default.
* `KnownInv`: unless a choice was missed, what the slave has is the active row of the list;
  if it has nothing, and no default is under way, the default is shown.

With nothing under way the last two say that the slave starts what is shown. The second is
where it is subtle: a list that is given a default reports its active row again, or keeps
silent and shows that default, and which of the two depends on whether it had one before
(`Says`, `Defaulted`).

**Model-checked only.** Liveness (`LoginComesBack`, `Decided`, `CancelWorks`,
`AutoLoginDecided`, `SlaveEnds`, `ChoiceReached`, `Loads`, `FileFollowed`, the fairness
half of `ChoiceReported`) is beyond the prover; without that half `ChoiceReported` says
only what the steps of `ChosenUser` are. These are checked on their small instances.

## 6. Where the code and its documents disagree

`LoginSession_authority` is a run that TLC must find violated. `AuthorityAssertion`:
Escape between authorization and the start of the session queues a reset in front of
the start; the start then finds no account and `g_assert (auth_file != NULL)` aborts
the slave.

## 7. Observations

Seen while modelling. They are not runs, since no single line of the repository
contradicts them, since the models do not have them, since one run on the login says
enough, or since a theorem says what is kept instead (the timed login below). The models behave as the code does; where a property has an exception, it
is one of these.

### 7.1 Displays

* "reset num failures" (`mdm-local-display-factory.c:686`) is in the branch for a
  status that no display is ever given, so the sixth short-lived slave in the life of
  the daemon ends the login screen for good.
* "Only allow timed/automatic login once" (`mdm-static-display.c:123`) is not what the
  code does. The flag that is cleared there belongs to the display object; when the slave
  of the login display ends within three seconds the display fails, and the one that
  replaces it (`mdm-local-display-factory.c:700`) has the flag set, so its slave is told to
  log the user in by itself again. No run claims more than that: the theorem
  `TimedLoginPerFailure_Holds` says what is kept, one timed login and one more for each
  failure.
* The store entry and the number of a transient, guest or user-switch display are never
  released (`mdm-local-display-factory.c:193`): nobody listens to its status.
* The daemon's main loop waits for the scripts of the guest account. A call that comes
  meanwhile may time out after 25 seconds and be carried out all the same. With a GLib
  that relies on SIGCHLD the end of a slave is not noticed until another child ends,
  and the screen stays dark (the exception of `LoginComesBack`).
* A second `StartGuestSession` before the first guest's session is registered, after it
  has ended but before its cleanup, or when ConsoleKit does not answer, makes a second
  guest display. The first to end runs the cleanup script under the other (the
  exception of `AccountKept`). The scripts themselves are not in the repository.
* Both switching methods of the factory return FALSE without an error after they have
  switched (`mdm-local-display-factory.c:464`, `:568`); a display that could not be
  managed is unref'd after its variable was set to NULL.
* `mdmflexiserver` called again before the display it asked for has a greeter that is
  registered with ConsoleKit finds none and asks for another X server.

### 7.2 The login

* PostLogin runs after `pam_open_session`, not before it as the manual says
  (`docs/C/mdm.xml:310`); PreSession is run when the session has already been forked;
  PostLogin and PostSession run for a name that was only selected when the slave is
  stopped; the exit status of the scripts is ignored.
* `start_session_when_ready` is never cleared, so from the second conversation on a
  timed login is opened while its delay still runs.
* An answer that arrives after Escape finds no kept reply and aborts the slave in
  `answer_pending_query` (`life = "abort_answer"`).
* No handler is connected to `session-start-failed`, so a failed fork leaves the
  display with neither greeter nor session; a worker that dies while it asks leaves the
  greeter waiting until the user cancels; with a delayed timed login
  `AuthorityForOwner` does not hold.
* A user who is picked before the window has dispatched Ready is begun twice. If PAM has
  renamed the user meanwhile, the second BeginVerificationForUser sets the slave's
  `selected_user` back, and the worker ignores the second setup: the X authority is then
  made for the name that was picked and the session started for PAM's. `AuthorityForOwner`
  is checked with `PromptUser`.
* A module that renames the user after `pam_setcred` changes the name only: ids, groups and
  environment are those of the account that was looked up in `mdm_session_worker_accredit_user`.
  A change after the last message of a step is noticed with the first message of a later
  one, if there is one, and at once only after authentication.

### 7.3 The slave process

* A greeter that cannot be forked is reported to nobody, and stopping it returns early:
  its dbus-daemon and its ConsoleKit session stay (`BusStays`).
* A failed start of the slave base is ignored; the slave crashes when it connects
  without a cookie (`ConnectCrashes`).
* Nothing handles SIGALRM: the slave of a remote display whose greeter has not connected
  in time is killed, and its greeter, without `PR_SET_PDEATHSIG`, is left.
* Plymouth is never told to quit if SIGTERM comes before the X server is ready, or after
  the last connection attempt.
* A pid that GLib has waited for may still be sent a signal (`mdm-welcome-session.c:1017`).
* The slave keeps its pointer to the greeter server of a stopped greeter, so a later
  reset makes a worker and no greeter.

### 7.4 XDMCP

* The limits of `docs/C/mdm.xml:1388-1405`, `:1459-1487` and `:1509-1523` are not kept.
  The count of sessions falls to 0 with each recount, since no code sets the status
  MANAGED that it counts; only one display is counted; and since `acctime` is never set,
  nothing expires, the newest is evicted, and a list holds one too many.
* A MANAGED_FORWARD that is sent again and arrives late drops a newer choice of the
  same manager, which is why `ChoiceReached` assumes `Calm`. A DECLINE drops it too.
* An INDIRECT query that is repeated after the local host was chosen brings the chooser
  again; a late choice uses a client that is NULL (`mdm-xdmcp-display-factory.c:2004`).
  The same happens without any loss when two displays of one host have choosers: they
  share the client of the host, and the choice of one, once used, takes it from the other.
  TLC finds this with two display numbers, so `ChoiceExpected_Holds` assumes `HostsDiffer`.
* ALIVE always says that nothing is running (`:2772`). A repeated MANAGE starts a second
  slave, whose pid and watch overwrite the first's. The branch "Session ID already
  managed" (`:2640`) is never taken.

### 7.5 The user list

* Users that arrive between `is-loaded` and the idle of the user list never get a row
  (`mdm-user-chooser-widget.c:517-518`, `:621`, `mdm-user-manager.c:1207`), users that
  are removed then keep one, and a user can have two.
* UserDeleted for an unknown path calls `remove_user (NULL)` (878-891); AccountsService
  failing while ck-history runs or GetSessions is unanswered fails an assertion (2089,
  2482); a failed GetSessions leaves its call, so the list is never loaded (2476-2515;
  the exception of `Loads`), and so does ConsoleKit if it vanishes.
* A user fetched for a session or a line of ck-history sets `is-loaded` at once
  (846-848), so that the monitors of the file are never started if the file was to be
  read. A change between the first read and the start of the monitors is missed.
* Reloads that overlap (`SlowJobs`) add twice, and the first to end clears
  `load_passwd_pending`. The thread reads tables without a lock.
* A network user who is logged in and added while a reload runs is removed by it, though
  the comment at 2195 means to keep it. Sessions added to a user that is not loaded are
  stored without a name, and their end is never seen. `has_multiple_users` is tested the
  wrong way round (792); `fclose (NULL)` follows a file that cannot be opened.

### 7.6 The list as a widget

* If the user clicks an item, and within the tenth of a second of the slide another is
  activated by SelectUser or a timed login, the first slide is stopped, its end sets the
  list to shrunk and reports the new item, and the end of the second slide fails the
  assertion at `mdm-chooser-widget.c:787`: the greeter aborts.
* A removed active row makes clicks be ignored and shows an empty list until the next
  reset; `retry_login` then does nothing. A timed request dispatched while a choice
  slides adds its item hidden, does not find it, and yet counts as enabled.
* `set_hide_inactive_items` has a condition that is always true (2810-2826);
  `area_of_visible_rows` may be read uninitialised (816-835); keys typed during the grow
  slide stay queued and are replayed into the next prompt.

### 7.7 Session, language and layout

* A user chosen before Ready is begun twice; the second time drops the saved names that
  were read and the worker does not read them again, so the system's default is shown
  and started instead of the account's (`docs/C/mdm.xml:292-295`).
* A Select call dispatched after the new session exists, a notification of MateConf
  between Cancel and Reset, or a choice made while no worker is connected, is for the
  wrong session or is not stored: `sess.missed`.
* The active row of a list survives the reset of the panel and is reported for the next
  account, and saved in its `dmrc`. A carried-over setting makes the settings count as
  loaded, so that the account's own are never read. Settings of the first name are kept
  when PAM changes the account.
* A layout chosen is lost on a retry, contrary to the comment at
  `mdm-option-widget.c:307-317`: setting the keyboard layout first makes the default
  active. A language default that is not in the recent list is activated as if picked,
  and a notification of MateConf activates the first recent item over the user's.
* `MDM_KEYBOARD_LAYOUT` is exported only if the layout *is* the default.
  `get_is_session_failsafe` reads a file name that was freed (`mdm-session-direct.c:2163`).

### 7.8 What is not modelled

* Bus loss: `bus_reconnect` gets the address of the manager pointer and overwrites it
  locally; the new manager has default settings, the global pointer stays NULL, and the
  handler it connects dangles at a second loss. `mdm_manager_finalize` does not unref
  the local factory and `mdm_display_finalize` not the slave proxy, so a slave that ends
  after the loss calls back into a freed display. `mdm_manager_set_xdmcp_enabled` starts
  its factory even while the manager waits for "go".
* Settings: polkit authorizes a SetValue asynchronously, so two of them may be applied
  in any order; the file is saved five seconds later; a save that fails leaves the
  values dirty and queues no other; slaves and workers read the file once when they
  start; edits by hand meanwhile are overwritten.
* Access files: a second grant to a user replaces `user_access_file` and leaves the first
  with its directory and stream; a removal keeps the closed pointer. Nobody in the
  repository calls the removal.

## 8. Plan, and what is not modelled

Done: the displays of the daemon with guest sessions; a login with its three processes;
the slave as a process; XDMCP with terminals and the network; the greeter's user
manager, its user list and the options of its panel. Left in these: the switch to a
session of another user as ConsoleKit shows it; the preset user of guest and user-switch
slaves; PAM items; keys queued during a slide; a second terminal.

Every safety invariant and action property of the runs that pass is proved, four of them
under the hypotheses of section 5; liveness is not.

Not modelled, and why:

* **Product displays, factory slave, relay.** Not reachable: the display that would use
  them is under `#if 0` (`mdm-local-display-factory.c:723-727`).
* **Manager and daemon.** Start and stop have one caller in one order; what happens after
  the loss of the bus is decided by freed and mistyped objects, so a model of it would
  allow anything.
* **Settings, access files.** One value and one file: each of their faults is a single
  step (7.8), and no two parts of their state are promised to agree.
* **Host chooser, chooser server.** A list of the hosts that answered, and one call with
  the host that was picked. What becomes of it is `Xdmcp`'s.
* **Copies of the user manager** in the daemon, which makes one and asks it nothing
  (`main.c:607`), and in `mdmsetup`, which reads its list when it is loaded.
* **mdmflexiserver, applet, mdmsetup, screenshot.** One-shot clients and forms. Their
  requests are actions of `LocalDisplays` (`CreateTransient`).
* **Remote login window, notification area, clock, records, auditing, addresses, digests,
  logging.** Presentation, output, or functions without state.
