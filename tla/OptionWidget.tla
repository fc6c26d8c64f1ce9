---------------------------- MODULE OptionWidget -----------------------------
(***************************************************************************)
(* One list of the greeter's panel: the session types, the languages or the *)
(* keyboard layouts (mdm-option-widget.c).  Languages and layouts keep the  *)
(* recent ones, shared through MateConf (mdm-recent-option-widget.c), and    *)
(* have a last row "Other..." that opens a dialog.  A handler is an operator *)
(* on r = [w, sel]: the widget, and what its "activated" signal made the     *)
(* panel tell the slave.                                                    *)
(***************************************************************************)
EXTENDS Integers, Sequences

CONSTANTS
  NoName,    \* NULL, or no row
  GoneRow,   \* a row reference whose row was removed
  OtherRow   \* "__other"

Has(w, x) == \E i \in 1 .. Len(w.rows) : w.rows[i] = x

\* first: the row a list of recent ones shows from the start.
NewWidget(rows, first) ==
  [rows |-> rows,      \* the middle rows
   active |-> NoName,  \* active_row
   def |-> NoName,     \* default_item_id
   combo |-> first,    \* the row that is shown
   dialog |-> FALSE,   \* the dialog of "Other..." is open
   stale |-> FALSE]    \* MateConf has yet to notify a new list

\* activate_from_row, with the class handlers down to the panel's signal.
ActivateRow(r, x) == [w |-> [r.w EXCEPT !.active = x], sel |-> Append(r.sel, x)]

\* gtk_combo_box_set_active_iter with on_changed and activate_selected_item: a
\* row already shown changes nothing, and without a default nothing is activated.
Show(r, x) ==
  LET shown == [r EXCEPT !.w.combo = x] IN
  IF r.w.combo = x \/ r.w.def = NoName \/ r.w.active = x \/ x = NoName
  THEN shown ELSE ActivateRow(shown, x)

\* mdm_option_widget_set_active_item.
SetActiveItem(r, x) ==
  IF x = NoName THEN [r EXCEPT !.w.active = NoName, !.w.combo = NoName]
  ELSE Show(r, x)

KeepsChoice_Not(r, x) == FALSE   \* mutant: the choice gives way to the default

\* A choice made before is still there and is not the new default.
KeepsChoice(r, x) == r.w.active \notin {NoName, GoneRow, x} /\ x # NoName

\* mdm_option_widget_set_default_item.
SetDefaultItem(r, x) ==
  LET bare == [r EXCEPT !.w.def = NoName]
      moved == IF r.w.active = NoName \/ x # NoName THEN SetActiveItem(bare, x) ELSE bare
      r1 == IF r.w.def = NoName \/ r.w.def # x THEN [moved EXCEPT !.w.def = x] ELSE r
  IN IF KeepsChoice(r1, x) THEN ActivateRow(Show(r1, r1.w.active), r1.w.active) ELSE r1

\* mdm_recent_option_widget_sync_items_from_mateconf: all rows are taken out and
\* put back, and the first is made active.
Sync(r) ==
  LET out == [r EXCEPT !.w.combo = NoName,
                       !.w.active = IF @ = NoName THEN NoName ELSE GoneRow] IN
  IF r.w.rows = <<>> THEN out ELSE SetActiveItem(out, Head(r.w.rows))

\* mdm_recent_option_widget_add_item, for one that is not there.
WithRow(r, x) ==
  IF x = NoName \/ Has(r.w, x) THEN r
  ELSE Sync([r EXCEPT !.w.rows = <<x>> \o @, !.w.stale = TRUE])

\* mdm_language_option_widget_set_current_language_name, and the layout's.
SetCurrent(r, x) == SetActiveItem(WithRow(r, x), x)

\* mdm_greeter_panel_set_default_language_name.
SetDefaultLanguage(r, x) == SetDefaultItem(WithRow(r, x), x)

\* mdm_greeter_panel_set_keyboard_layout.
SetKeyboardLayout(r, x) == SetDefaultItem(SetActiveItem(WithRow(r, x), x), x)

\* mdm_greeter_panel_set_default_session_name.
SetDefaultSession(r, x) ==
  IF x # NoName /\ ~Has(r.w, x) THEN r ELSE SetDefaultItem(r, x)

\* The row "Other...": the default is activated in its place, the dialog opened,
\* and the activation of the row itself reports the default once more.
ChooseOther(r) ==
  LET other == [r EXCEPT !.w.active = OtherRow, !.w.combo = OtherRow]
      back == SetCurrent(other, r.w.def)
  IN [w |-> [back.w EXCEPT !.dialog = TRUE], sel |-> Append(back.sel, back.w.active)]
==============================================================================
