----------------------------- MODULE UserChooser ------------------------------
(***************************************************************************)
(* The user list of the greeter and the login window that drives it.  A    *)
(* choice makes the list shrink to the chosen item in a slide of a tenth of *)
(* a second; the window is told when the slide has ended, and only then    *)
(* begins the conversation with the slave.  Meanwhile the input goes to an *)
(* invisible window, but the slave's signals and the news of the accounts  *)
(* are dispatched, and each of them may stop the slide and run its end     *)
(* inside.  Every operator takes the state s = [c |-> the list, w |-> the  *)
(* window] through one call, in the order of the code.                     *)
(***************************************************************************)
EXTENDS LoginNames, FiniteSets

CONSTANTS
  MaxStarts,    \* bound: conversations the slave starts
  MaxNews       \* bound: accounts that appear or disappear later

ASSUME BoundsAssumption == MaxStarts \in Nat /\ MaxNews \in Nat

VARIABLES
  chooser,  \* the chooser widget with its scrollable child
  window,   \* what the login window keeps that its calls of the list depend on
  signals,  \* the slave's signals that are not dispatched
  slave,    \* the slave's side of the conversation
  accounts  \* the accounts of the machine the list has not been told of, and the bound

vars == <<chooser, window, signals, slave, accounts>>

Item == User \cup {OtherItem, AutoItem}

ChooserRecord ==
  [rows : SUBSET Item,      \* list_store
   visible : SUBSET Item,   \* CHOOSER_ITEM_IS_VISIBLE_COLUMN
   state : {"grown", "growing", "shrunk", "shrinking"},
   held : BOOLEAN,          \* active_row is not NULL
   active : Item \cup {NoUser},  \* its item: none if the row was removed
   emit : BOOLEAN,          \* emit_activated_after_resize_animation
   slide : {"none", "grow", "shrink"},  \* the animation, by its done_func
   shown : BOOLEAN,         \* gtk_widget_get_visible
   crashed : BOOLEAN]       \* an assertion has failed: the greeter is gone

WindowRecord ==
  [mode : {"selection", "timed", "auth"},  \* dialog_mode
   loaded : BOOLEAN,        \* user_chooser_loaded
   disabled : BOOLEAN,      \* user_list_disabled
   username : User \cup {NoUser},  \* username, of SelectUser
   timed : BOOLEAN,         \* timed_login_username is not NULL
   auto : BOOLEAN,          \* timed_login_already_enabled
   begun : Item \cup {NoUser}]     \* who the last conversation was begun for

Signals == {"Ready", "SelectUser", "TimedLoginRequested", "AuthenticationFailed", "Reset"}

TypeOK ==
  /\ chooser \in ChooserRecord
  /\ chooser.visible \subseteq chooser.rows
  /\ chooser.active \in chooser.rows \cup {NoUser}
  /\ chooser.emit => chooser.held \/ chooser.crashed
  /\ window \in WindowRecord
  /\ signals \in Seq(Signals)
  /\ slave \in [open : BOOLEAN, starts : 0 .. MaxStarts, select : User \cup {NoUser},
                timed : BOOLEAN]
  /\ accounts \in [new : SUBSET User, news : 0 .. MaxNews]

\* "Other..." is listed before the accounts are loaded; the list is hidden.
Init ==
  /\ chooser = [rows |-> {OtherItem}, visible |-> {OtherItem}, state |-> "grown",
                held |-> FALSE, active |-> NoUser, emit |-> FALSE, slide |-> "none",
                shown |-> FALSE, crashed |-> FALSE]
  /\ \E disabled, timed \in BOOLEAN, select \in User \cup {NoUser} :
       /\ window = [mode |-> IF disabled THEN "auth" ELSE "selection", loaded |-> FALSE,
                    disabled |-> disabled, username |-> NoUser, timed |-> FALSE,
                    auto |-> FALSE, begun |-> NoUser]
       /\ slave = [open |-> FALSE, starts |-> 0, select |-> select, timed |-> timed]
  /\ signals = <<>>
  /\ accounts = [new |-> User, news |-> 0]

-----------------------------------------------------------------------------
(* The window, when it hears of a choice. *)

\* choose_user: the mode and the conversation for that item.
ChooseUser(s, i) ==
  [s EXCEPT !.w.mode = IF i = AutoItem THEN "timed" ELSE "auth", !.w.begun = i]

\* on_user_chosen, the handler of "activated".
OnUserChosen(s) ==
  IF s.c.active = NoUser THEN s ELSE ChooseUser(s, s.c.active)

-----------------------------------------------------------------------------
(* The chooser widget.  atOnce: the slides of the call end at once, because *)
(* the input cannot be grabbed or animations are disabled.                  *)

Abort(s) == [s EXCEPT !.c.crashed = TRUE]

\* set_inactive_items_visible
ShowInactive(c, show) ==
  [c EXCEPT !.visible = IF show THEN c.rows ELSE c.rows \cap {c.active}]

Shrunk(c) == [ShowInactive(c, FALSE) EXCEPT !.state = "shrunk"]

\* on_shrink_animation_complete
OnShrinkComplete(s) ==
  LET t == [s EXCEPT !.c = [Shrunk(s.c) EXCEPT !.emit = FALSE]]
  IN IF s.c.state # "shrinking" THEN Abort(s)
     ELSE IF s.c.emit THEN OnUserChosen(t) ELSE t

\* on_grow_animation_complete
OnGrowComplete(s) ==
  IF s.c.state # "growing" THEN Abort(s) ELSE [s EXCEPT !.c.state = "grown"]

Done(s, slide) == IF slide = "shrink" THEN OnShrinkComplete(s) ELSE OnGrowComplete(s)

\* mdm_scrollable_widget_stop_sliding: the end of the slide runs before the
\* animation is forgotten.
StopSliding(s) ==
  IF s.c.slide = "none" THEN s ELSE [Done(s, s.c.slide) EXCEPT !.c.slide = "none"]

\* mdm_scrollable_widget_slide_to_height
SlideToHeight(s, slide, atOnce) ==
  LET t == StopSliding(s)
  IN IF atOnce THEN Done(t, slide) ELSE [t EXCEPT !.c.slide = slide]

\* The rows of the view: a separator stands between accounts and other items.
RowsInView(c) ==
  Cardinality(c.visible)
  + (IF c.visible \cap User # {} /\ c.visible \ User # {} THEN 1 ELSE 0)

\* start_shrink_animation
StartShrink(s, atOnce) ==
  IF RowsInView(s.c) <= 1 THEN OnShrinkComplete(s) ELSE SlideToHeight(s, "shrink", atOnce)

\* skip_resize_animation: nothing is told.
SkipResize(c) ==
  IF c.state = "shrinking" THEN Shrunk(c)
  ELSE [ShowInactive(c, TRUE) EXCEPT !.state = "grown"]

\* mdm_chooser_widget_shrink
Shrink(s, atOnce) ==
  LET t == IF s.c.state = "growing" THEN StopSliding(s) ELSE s
      u == [t EXCEPT !.c.state = "shrinking"]
  IN IF u.c.shown THEN StartShrink(u, atOnce) ELSE [u EXCEPT !.c = SkipResize(u.c)]

\* start_grow_animation
StartGrow(s, atOnce) ==
  SlideToHeight([s EXCEPT !.c = ShowInactive(s.c, TRUE)], "grow", atOnce)

\* mdm_chooser_widget_grow
Grow(s, atOnce) ==
  LET t == IF s.c.state = "shrinking" THEN StopSliding(s) ELSE s
      u == [t EXCEPT !.c.state = "growing"]
  IN IF s.c.state = "grown" THEN s
     ELSE IF u.c.shown THEN StartGrow(u, atOnce) ELSE [u EXCEPT !.c = SkipResize(u.c)]

\* activate_from_row; the login window has the inactive items hidden.
ActivateFromRow(s, i, atOnce) ==
  Shrink([s EXCEPT !.c.held = TRUE, !.c.active = i, !.c.emit = TRUE], atOnce)

\* mdm_chooser_widget_activate_selected_item: a removed active row counts as the
\* selected one (gtk_tree_path_compare with no path).
ActivateSelected(s, i, atOnce) ==
  IF s.c.held /\ s.c.active \in {i, NoUser} THEN s ELSE ActivateFromRow(s, i, atOnce)

\* activate_from_item_id: an item that is not in the view is not found.
Activate(s, i, atOnce) ==
  IF i \in s.c.visible THEN ActivateSelected(s, i, atOnce) ELSE s

\* deactivate; the window has blocked its handler of "deactivated".
Deactivate(s, atOnce) ==
  IF s.c.held THEN Grow([s EXCEPT !.c.held = FALSE, !.c.active = NoUser], atOnce) ELSE s

AddItems_Visible(s, us) ==   \* mutant: the new row is visible whoever is active
  [s EXCEPT !.c.rows = @ \cup us, !.c.visible = @ \cup us]

\* mdm_chooser_widget_add_item: visible while nobody is active.
AddItems(s, us) ==
  [s EXCEPT !.c.rows = @ \cup us, !.c.visible = @ \cup (IF s.c.held THEN {} ELSE us)]

RemoveItem_Kept(c, i) ==   \* mutant: the row reference outlives its row
  [c EXCEPT !.rows = @ \ {i}, !.visible = @ \ {i}]

\* mdm_chooser_widget_remove_item; the reference to the row is not valid any more.
RemoveItem(c, i) ==
  [c EXCEPT !.rows = @ \ {i}, !.visible = @ \ {i},
            !.active = IF @ = i THEN NoUser ELSE @]

-----------------------------------------------------------------------------
(* The window's calls. *)

\* can_jump_to_authenticate; the list is never empty, it has "Other...".
CanJump(w) == w.loaded /\ w.disabled /\ ~w.timed

\* Straight to a conversation without a name.
Jump(s) == [s EXCEPT !.w.mode = "auth", !.w.begun = OtherItem]

\* reset_dialog
ResetDialog(s, mode, atOnce) ==
  LET t == IF mode = "selection" THEN Deactivate(s, atOnce) ELSE s
  IN IF CanJump(s.w) THEN Jump(t) ELSE [t EXCEPT !.w.mode = mode]

RequestTimedLogin_Hidden(s, atOnce) ==   \* mutant: the list is not shown first
  LET u == IF s.w.mode = "selection" THEN s ELSE ResetDialog(s, "selection", atOnce)
      v == IF u.w.auto THEN u ELSE Activate(u, AutoItem, atOnce)
  IN [v EXCEPT !.w.auto = TRUE]

\* request_timed_login
RequestTimedLogin(s, atOnce) ==
  LET t == [s EXCEPT !.c.shown = TRUE]
      u == IF t.w.mode = "selection" THEN t ELSE ResetDialog(t, "selection", atOnce)
      v == IF u.c.crashed \/ u.w.auto THEN u ELSE Activate(u, AutoItem, atOnce)
  IN [v EXCEPT !.w.auto = TRUE]

\* The greeter is in its main loop; s is the state its step leaves.
Here == [c |-> chooser, w |-> window]

Becomes(s) == chooser' = s.c /\ window' = s.w

Up == ~chooser.crashed

-----------------------------------------------------------------------------
(* The user and the clock. *)

\* on_button_release, on_row_activated: the input is free when nothing slides.
Click ==
  /\ Up /\ chooser.shown /\ chooser.slide = "none"
  /\ \E i \in chooser.visible, atOnce \in BOOLEAN : Becomes(ActivateSelected(Here, i, atOnce))
  /\ UNCHANGED <<signals, slave, accounts>>

\* on_tick_timeout after the last tick: mdm_timer_stop, on_animation_stop.
SlideEnds ==
  /\ Up
  /\ chooser.slide # "none"
  /\ Becomes(StopSliding(Here))
  /\ UNCHANGED <<signals, slave, accounts>>

(* The accounts. *)

\* on_users_loaded of the window.
OnUsersLoaded(s, atOnce) ==
  LET shown == [s EXCEPT !.c.shown = TRUE, !.w.loaded = TRUE]
      t == IF s.w.disabled THEN [s EXCEPT !.w.loaded = TRUE]
           ELSE Activate(shown, s.w.username, atOnce)
  IN IF t.w.timed /\ ~t.w.auto THEN RequestTimedLogin(t, atOnce)
     ELSE IF CanJump(t.w) THEN Jump(t) ELSE t

\* load_users, add_users: the first accounts, or none if they are not listed.
UsersLoaded ==
  /\ Up
  /\ ~window.loaded
  /\ \E us \in SUBSET accounts.new, atOnce \in BOOLEAN :
       LET listed == IF window.disabled THEN {} ELSE us
       IN /\ Becomes(OnUsersLoaded(AddItems(Here, listed), atOnce))
          /\ accounts' = [accounts EXCEPT !.new = @ \ listed]
  /\ UNCHANGED <<signals, slave>>

\* on_user_added, and the further rounds of add_users.
OnUserAdded ==
  /\ Up
  /\ window.loaded /\ ~window.disabled
  /\ \E u \in accounts.new :
       /\ Becomes(AddItems(Here, {u}))
       /\ accounts' = [accounts EXCEPT !.new = @ \ {u}]
  /\ UNCHANGED <<signals, slave>>

\* on_user_removed; the account may come back.
OnUserRemoved ==
  /\ Up
  /\ window.loaded /\ ~window.disabled
  /\ accounts.news < MaxNews
  /\ \E u \in chooser.rows \cap User :
       /\ chooser' = RemoveItem(chooser, u)
       /\ accounts' = [new |-> accounts.new \cup {u}, news |-> accounts.news + 1]
  /\ UNCHANGED <<window, signals, slave>>

-----------------------------------------------------------------------------
(* The slave's signals, in the order they are sent. *)

Dispatch(name) ==
  /\ Up
  /\ signals # <<>>
  /\ Head(signals) = name
  /\ signals' = Tail(signals)
  /\ UNCHANGED <<slave, accounts>>

\* mdm_greeter_login_window_ready: who is chosen is begun again (retry_login).
OnReady ==
  /\ Dispatch("Ready")
  /\ Becomes(IF ~window.disabled /\ window.mode = "auth" THEN OnUserChosen(Here)
             ELSE IF CanJump(window) THEN [Here EXCEPT !.w.begun = OtherItem]
             ELSE Here)

\* mdm_greeter_login_window_select_user
OnSelectUser ==
  /\ Dispatch("SelectUser")
  /\ \E atOnce \in BOOLEAN :
       LET s == [Here EXCEPT !.w.username = slave.select]
       IN Becomes(IF window.loaded THEN Activate(s, slave.select, atOnce) ELSE s)

\* mdm_greeter_login_window_request_timed_login: the item is listed at once.
OnTimedLoginRequested ==
  /\ Dispatch("TimedLoginRequested")
  /\ \E atOnce \in BOOLEAN :
       LET s == [AddItems(Here, {AutoItem} \ chooser.rows) EXCEPT !.w.timed = TRUE]
       IN Becomes(IF window.loaded THEN RequestTimedLogin(s, atOnce) ELSE s)

\* on_authentication_failed, with tries left.
OnAuthenticationFailed ==
  /\ Dispatch("AuthenticationFailed")
  /\ Becomes(ResetDialog(Here, "auth", FALSE))

\* mdm_greeter_login_window_reset: by Reset, and after the last try.
OnReset ==
  /\ Dispatch("Reset")
  /\ \E atOnce \in BOOLEAN : Becomes(ResetDialog(Here, "selection", atOnce))

\* on_session_conversation_started: SelectUser the first time if the slave was
\* given a user, else the timed login if there is one.
ConversationStarts ==
  /\ ~slave.open
  /\ slave.starts < MaxStarts
  /\ slave' = [slave EXCEPT !.open = TRUE, !.starts = @ + 1]
  /\ signals' = signals \o <<"Ready">>
       \o (IF slave.select # NoUser /\ slave.starts = 0 THEN <<"SelectUser">>
           ELSE IF slave.timed THEN <<"TimedLoginRequested">> ELSE <<>>)
  /\ UNCHANGED <<chooser, window, accounts>>

\* The conversation that was begun fails, or is reset by the user or the slave.
ConversationEnds ==
  /\ slave.open
  /\ window.begun # NoUser
  /\ slave' = [slave EXCEPT !.open = FALSE]
  /\ \E name \in {"AuthenticationFailed", "Reset"} : signals' = Append(signals, name)
  /\ UNCHANGED <<chooser, window, accounts>>

-----------------------------------------------------------------------------
GreeterStep ==
  \/ Click \/ SlideEnds \/ UsersLoaded \/ OnUserAdded \/ OnUserRemoved
  \/ OnReady \/ OnSelectUser \/ OnTimedLoginRequested
  \/ OnAuthenticationFailed \/ OnReset

Next == GreeterStep \/ ConversationStarts \/ ConversationEnds

Spec == Init /\ [][Next]_vars

\* The timer of a slide is a GLib timeout that is renewed until its time is up.
FairSpec == Spec /\ WF_vars(SlideEnds)

-----------------------------------------------------------------------------
\* Between two slides the list and the conversation agree: either nobody is
\* chosen and every row can be chosen, or the list shows the chosen item alone
\* and the window has begun a conversation for it and left the selection.  The
\* slides are stopped, and their ends run, inside calls that go on afterwards
\* (on_shrink_animation_complete, slide_to_height), and rows come and go
\* meanwhile.
Settled ==
  Up /\ chooser.slide = "none" =>
    \/ /\ chooser.state = "grown"
       /\ ~chooser.held /\ ~chooser.emit
       /\ chooser.visible = chooser.rows
    \/ /\ chooser.state = "shrunk"
       /\ chooser.held /\ ~chooser.emit
       /\ chooser.visible = chooser.rows \cap {chooser.active}
       /\ chooser.active # NoUser =>
            window.begun = chooser.active /\ window.mode # "selection"

\* The list keeps the promise of ChosenUser: a choice that is not taken back,
\* whose row stays and which no later one replaces is told to the window, however
\* the slide ends.  The window knows of it when it has begun its conversation.
Chosen == INSTANCE ChosenUser WITH
  NoItem <- NoUser,
  choice <- IF Up THEN chooser.active ELSE NoUser,
  told <- IF Up /\ window.mode # "selection" /\ window.begun = chooser.active
          THEN chooser.active ELSE NoUser

ChoiceReported == Chosen!Spec
==============================================================================
