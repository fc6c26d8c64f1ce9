------------------------ MODULE SessionOptionsProofs ------------------------
(***************************************************************************)
(* Theorems about SessionOptions, for any accounts, items and stored        *)
(* settings, and any bounds.  The operators of OptionWidget take a list and *)
(* what its panel was told through one call; a lemma on each says which      *)
(* lists it leaves, and the steps of greeter, slave and worker follow.  Three  *)
(* parts: what is shown and chosen, what is remembered for the next login,    *)
(* and what a session is started with.                                       *)
(***************************************************************************)
EXTENDS SessionOptions, SequenceTheorems, TLAPS

(***************************************************************************)
(* The inductive invariant.                                                 *)
(***************************************************************************)

\* What a list and the stored options may hold.
Choice(o) == Items[o] \cup {NoName}
Written(o) == IF o = "session" THEN Values ELSE Choice(o)
WidgetOf(I) ==
  [rows : Seq(I), active : I \cup {NoName, GoneRow}, def : I \cup {NoName},
   combo : I \cup {NoName}, dialog : BOOLEAN, stale : BOOLEAN]

Account == User \cup {NoName}
Greeted == User \cup {OtherUser, NoName}

CallRecord ==
  [name : {"SelectUser"}, user : Greeted]
    \cup [name : {"BeginVerificationForUser"}, user : User]
    \cup [name : {"AnswerQuery"}, user : Account]
    \cup [name : {"BeginVerification", "Cancel", "StartSessionWhenReady"}, user : {NoName}]
    \cup (UNION {[name : {"Select"}, opt : {o}, item : Items[o]] : o \in offer})
SignalRecord ==
  [name : {"Ready", "Reset", "AuthenticationFailed", "UserAuthorized"}, user : {NoName}]
    \cup [name : {"SelectedUserChanged"}, user : Account]
    \cup [name : {"Query"}, user : {"name", "password"}]
    \cup (UNION {[name : {"Default"}, opt : {o}, item : Choice(o)] : o \in offer})
RequestRecord ==
  [name : {"Setup"}, user : Account]
    \cup [name : {"Authenticate", "Open", "Start"}, user : {NoName}]
    \cup (UNION {[name : {"Option"}, opt : {o}, item : Items[o], failsafe : BOOLEAN]
                  : o \in offer})

WindowRecord ==
  [mode : {"selection", "auth"}, chosen : Greeted, prompt : {"none", "name", "password"},
   sensitive : BOOLEAN, visible : BOOLEAN, tries : 0 .. MaxTries - 1]
SessionRecord ==
  [made : BOOLEAN, conn : BOOLEAN, user : Greeted, sel : [offer -> Values],
   saved : [offer -> Values], missed : BOOLEAN]
WorkerRecord ==
  [pc : {"none", "starting", "up"},
   state : {"none", "setup", "authenticated", "opened", "started"},
   idle : BOOLEAN,
   step : {"none", "setup", "authenticate", "name?", "password?", "verify", "verified",
           "open", "start"},
   name : Account, known : Account, made : BOOLEAN, settings : [offer -> Values],
   failsafe : BOOLEAN, loading : Seq(offer)]

\* The lists of the panel.
PanelInv ==
  /\ panel = [o \in offer |-> panel[o]]
  /\ \A o \in offer : panel[o] \in WidgetOf(Items[o])

\* What is under way between greeter, slave and worker.
QueueInv ==
  /\ calls \in Seq(CallRecord)
  /\ signals \in Seq(SignalRecord)
  /\ inbox \in Seq(RequestRecord)

\* A conversation of the window is with somebody.
WindowInv ==
  /\ window \in WindowRecord
  /\ window.mode = "auth" => window.chosen \in User \cup {OtherUser}

\* The slave sends on items only: a stored session that is gone is dropped.
SessionOK(s) ==
  /\ s \in SessionRecord
  /\ \A o \in offer : s.sel[o] \in Choice(o) /\ s.saved[o] \in Choice(o)
SlaveRecord ==
  [idle : {"none", "reset", "authFailed", "start"}, ready : BOOLEAN, waiting : BOOLEAN,
   convs : 1 .. MaxConversations]
SlaveInv == SessionOK(sess) /\ slave \in SlaveRecord

\* The worker reads the settings of an account that has a name, and a step that is
\* under way has no other queued.
WorkerOK(w) ==
  /\ w \in WorkerRecord
  /\ \A o \in offer : w.settings[o] \in Written(o)
  /\ w.loading # <<>> => w.name \in User \ {NoName} /\ w.step \in {"setup", "authenticate"}
  /\ w.idle => w.step = "none" /\ w.state # "started"
WorkerInv == WorkerOK(worker)

\* Languages and layouts that are stored exist.
DmrcInv ==
  /\ dmrc \in [User -> [offer -> Values]]
  /\ \A u \in User, o \in offer : dmrc[u][o] \in Written(o)

\* The choice of a session type is the active row and the row that is shown, also
\* when the list has lost its default or follows another one; the list has no
\* dialog and hears nothing from MateConf.
KeptInv ==
  /\ picked \in [offer -> Values] /\ started \in [offer -> Values]
  /\ \A o \in offer : picked[o] \in Choice(o)
  /\ "session" \in offer =>
       LET w == panel["session"] IN
       /\ ~w.dialog /\ ~w.stale
       /\ picked["session"] # NoName
            => w.active = picked["session"] /\ w.combo = picked["session"]

IInv ==
  /\ offer \in Offers
  /\ PanelInv /\ QueueInv /\ WindowInv /\ SlaveInv /\ WorkerInv /\ DmrcInv /\ KeptInv

-----------------------------------------------------------------------------
(* The lists of the panel. *)

\* A list between two calls, and one in which "Other..." has just been taken; sel
\* is what the panel tells the slave.
Settled(I) == [w : WidgetOf(I), sel : Seq(I)]
Handled(I) ==
  [w : [rows : Seq(I), active : I \cup {NoName, GoneRow, OtherRow}, def : I \cup {NoName},
        combo : I \cup {NoName, OtherRow}, dialog : BOOLEAN, stale : BOOLEAN],
   sel : Seq(I)]

\* What making a row active leaves alone.
SameList(r, t) ==
  /\ t.w.rows = r.w.rows /\ t.w.def = r.w.def
  /\ t.w.dialog = r.w.dialog /\ t.w.stale = r.w.stale

LEMMA SettledIsHandled ==
  ASSUME NEW I
  PROVE  Settled(I) \subseteq Handled(I)
BY DEF Settled, Handled, WidgetOf

LEMMA ActivatesRow ==
  ASSUME NEW I, NEW r \in Handled(I), NEW x \in I
  PROVE  LET t == ActivateRow(r, x)
         IN  /\ t \in Handled(I) /\ SameList(r, t)
             /\ t.w.active = x /\ t.w.combo = r.w.combo
<1> DEFINE v == [r.w EXCEPT !.active = x]
           t == [w |-> v, sel |-> Append(r.sel, x)]
<1>1. ActivateRow(r, x) = t
  BY DEF ActivateRow
<1>2. /\ v \in [rows : Seq(I), active : I \cup {NoName, GoneRow, OtherRow},
                def : I \cup {NoName}, combo : I \cup {NoName, OtherRow},
                dialog : BOOLEAN, stale : BOOLEAN]
      /\ v.rows = r.w.rows /\ v.def = r.w.def /\ v.dialog = r.w.dialog
      /\ v.stale = r.w.stale /\ v.combo = r.w.combo /\ v.active = x
  BY DEF Handled
<1>3. Append(r.sel, x) \in Seq(I)
  BY AppendProperties DEF Handled
<1> HIDE DEF v
<1>4. t \in Handled(I) /\ t.w = v
  BY <1>2, <1>3 DEF Handled
<1> QED
  BY <1>1, <1>2, <1>4 DEF SameList

\* A row that is shown is active, unless there is no default.
LEMMA Shows ==
  ASSUME NEW I, NEW r \in Handled(I), NEW x \in I \cup {NoName}
  PROVE  LET t == Show(r, x)
         IN  /\ t \in Handled(I) /\ SameList(r, t)
             /\ t.w.combo = x /\ t.w.active \in {r.w.active, x}
             /\ r.w.combo # x /\ r.w.def # NoName /\ x # NoName => t.w.active = x
             /\ r.w.def = NoName => t.w.active = r.w.active
<1> DEFINE v == [r.w EXCEPT !.combo = x]
           shown == [r EXCEPT !.w = v]
<1>1. /\ v \in [rows : Seq(I), active : I \cup {NoName, GoneRow, OtherRow},
                def : I \cup {NoName}, combo : I \cup {NoName, OtherRow},
                dialog : BOOLEAN, stale : BOOLEAN]
      /\ v.rows = r.w.rows /\ v.def = r.w.def /\ v.dialog = r.w.dialog
      /\ v.stale = r.w.stale /\ v.combo = x /\ v.active = r.w.active
  BY DEF Handled
<1>2. Show(r, x) = IF r.w.combo = x \/ r.w.def = NoName \/ r.w.active = x \/ x = NoName
                   THEN shown ELSE ActivateRow(shown, x)
  BY DEF Show
<1> HIDE DEF v
<1>3. shown \in Handled(I) /\ shown.w = v
  BY <1>1 DEF Handled
<1> HIDE DEF shown
<1>4. SameList(r, shown) /\ shown.w.combo = x /\ shown.w.active = r.w.active
  BY <1>1, <1>3 DEF SameList
<1>5. CASE r.w.combo = x \/ r.w.def = NoName \/ r.w.active = x \/ x = NoName
  BY <1>2, <1>3, <1>4, <1>5
<1>6. CASE ~(r.w.combo = x \/ r.w.def = NoName \/ r.w.active = x \/ x = NoName)
  <2> DEFINE t == ActivateRow(shown, x)
  <2>1. /\ t \in Handled(I) /\ SameList(shown, t)
        /\ t.w.active = x /\ t.w.combo = shown.w.combo
    BY <1>3, <1>6, ActivatesRow
  <2>2. Show(r, x) = t
    BY <1>2, <1>6
  <2> HIDE DEF t
  <2> QED
    BY <1>4, <1>6, <2>1, <2>2 DEF SameList
<1> QED
  BY <1>5, <1>6

LEMMA SetsActiveItem ==
  ASSUME NEW I, NEW r \in Handled(I), NEW x \in I \cup {NoName}
  PROVE  LET t == SetActiveItem(r, x)
         IN  /\ t \in Handled(I) /\ SameList(r, t)
             /\ t.w.combo = x /\ t.w.active \in {r.w.active, x}
             /\ r.w.combo # x /\ r.w.def # NoName => t.w.active = x
             /\ r.w.def = NoName /\ x # NoName => t.w.active = r.w.active
             /\ r \in Settled(I) => t \in Settled(I)
<1>1. /\ SetActiveItem(r, x) \in Handled(I) /\ SameList(r, SetActiveItem(r, x))
      /\ SetActiveItem(r, x).w.combo = x /\ SetActiveItem(r, x).w.active \in {r.w.active, x}
      /\ r.w.combo # x /\ r.w.def # NoName => SetActiveItem(r, x).w.active = x
      /\ r.w.def = NoName /\ x # NoName => SetActiveItem(r, x).w.active = r.w.active
  <2>1. CASE x = NoName
    <3> DEFINE v == [[r.w EXCEPT !.active = NoName] EXCEPT !.combo = NoName]
               t == [r EXCEPT !.w = v]
    <3>1. /\ v \in [rows : Seq(I), active : I \cup {NoName, GoneRow, OtherRow},
                    def : I \cup {NoName}, combo : I \cup {NoName, OtherRow},
                    dialog : BOOLEAN, stale : BOOLEAN]
          /\ v.rows = r.w.rows /\ v.def = r.w.def /\ v.dialog = r.w.dialog
          /\ v.stale = r.w.stale /\ v.combo = NoName /\ v.active = NoName
      BY DEF Handled
    <3>2. SetActiveItem(r, x) = t
      BY <2>1 DEF SetActiveItem, Handled
    <3> HIDE DEF v
    <3>3. t \in Handled(I) /\ t.w = v
      BY <3>1 DEF Handled
    <3> QED
      BY <2>1, <3>1, <3>2, <3>3 DEF SameList
  <2>2. CASE x # NoName
    BY <2>2, Shows DEF SetActiveItem
  <2> QED
    BY <2>1, <2>2
<1> DEFINE t == SetActiveItem(r, x)
<1>2. ASSUME r \in Settled(I)
      PROVE  t \in Settled(I)
  <2>1. t.w.active \in I \cup {NoName, GoneRow} /\ t.w.combo \in I \cup {NoName}
    BY <1>1, <1>2 DEF Settled, WidgetOf
  <2> HIDE DEF t
  <2>2. t \in Handled(I)
    BY <1>1 DEF t
  <2> QED
    BY <2>1, <2>2 DEF Handled, Settled, WidgetOf
<1> QED
  BY <1>1, <1>2

\* A default that is taken away or replaced.
LEMMA ChangesDefault ==
  ASSUME NEW I, NEW r \in Settled(I), NEW x \in I \cup {NoName}
  PROVE  LET t == [r EXCEPT !.w.def = x]
         IN  /\ t \in Settled(I)
             /\ t.w.rows = r.w.rows /\ t.w.dialog = r.w.dialog /\ t.w.stale = r.w.stale
             /\ t.w.active = r.w.active /\ t.w.combo = r.w.combo /\ t.w.def = x
<1> DEFINE v == [r.w EXCEPT !.def = x]
           t == [r EXCEPT !.w = v]
<1>1. /\ v \in WidgetOf(I)
      /\ v.rows = r.w.rows /\ v.dialog = r.w.dialog /\ v.stale = r.w.stale
      /\ v.active = r.w.active /\ v.combo = r.w.combo /\ v.def = x
  BY DEF Settled, WidgetOf
<1> HIDE DEF v
<1>2. t \in Settled(I) /\ t.w = v
  BY <1>1 DEF Settled
<1>3. [r EXCEPT !.w.def = x] = t
  BY DEF v
<1> HIDE DEF t
<1> QED
  BY <1>1, <1>2, <1>3

\* A new default shows a choice that was made before, and leaves it the active row.
LEMMA SetsDefaultItem ==
  ASSUME NEW I, NoName \notin I, GoneRow \notin I,
         NEW r \in Settled(I), NEW x \in I \cup {NoName}
  PROVE  LET t == SetDefaultItem(r, x)
         IN  /\ t \in Settled(I) /\ t.w.rows = r.w.rows
             /\ t.w.dialog = r.w.dialog /\ t.w.stale = r.w.stale
             /\ r.w.active \in I /\ r.w.combo = r.w.active
                  => t.w.active = r.w.active /\ t.w.combo = r.w.active
<1> DEFINE bare == [r EXCEPT !.w.def = NoName]
           moved == IF r.w.active = NoName \/ x # NoName THEN SetActiveItem(bare, x) ELSE bare
           r1 == IF r.w.def = NoName \/ r.w.def # x THEN [moved EXCEPT !.w.def = x] ELSE r
           a == r1.w.active
           t == IF KeepsChoice(r1, x) THEN ActivateRow(Show(r1, a), a) ELSE r1
<1>1. SetDefaultItem(r, x) = t
  BY DEF SetDefaultItem
<1>2. /\ bare \in Settled(I)
      /\ bare.w.rows = r.w.rows /\ bare.w.dialog = r.w.dialog /\ bare.w.stale = r.w.stale
      /\ bare.w.active = r.w.active /\ bare.w.combo = r.w.combo /\ bare.w.def = NoName
  BY ChangesDefault
<1> HIDE DEF bare
<1>3. /\ moved \in Settled(I)
      /\ moved.w.rows = r.w.rows /\ moved.w.dialog = r.w.dialog /\ moved.w.stale = r.w.stale
      /\ r.w.active # NoName => moved.w.active = r.w.active
      /\ r.w.active # NoName => moved.w.combo \in {r.w.combo, x}
      /\ x = NoName /\ r.w.active # NoName => moved.w.combo = r.w.combo
  <2>1. CASE r.w.active = NoName \/ x # NoName
    <3> DEFINE m == SetActiveItem(bare, x)
    <3>1. bare \in Handled(I)
      BY <1>2, SettledIsHandled
    <3>2. /\ m \in Settled(I) /\ SameList(bare, m) /\ m.w.combo = x
          /\ x # NoName => m.w.active = bare.w.active
      BY <1>2, <3>1, SetsActiveItem
    <3>3. moved = m
      BY <2>1
    <3> HIDE DEF m, moved
    <3> QED
      BY <1>2, <2>1, <3>2, <3>3 DEF SameList
  <2>2. CASE ~(r.w.active = NoName \/ x # NoName)
    BY <1>2, <2>2
  <2> QED
    BY <2>1, <2>2
<1> HIDE DEF moved
<1>4. /\ r1 \in Settled(I)
      /\ r1.w.rows = r.w.rows /\ r1.w.dialog = r.w.dialog /\ r1.w.stale = r.w.stale
      /\ r.w.active # NoName => r1.w.active = r.w.active
      /\ r.w.active # NoName => r1.w.combo \in {r.w.combo, x}
      /\ x = NoName /\ r.w.active # NoName => r1.w.combo = r.w.combo
  <2>1. CASE r.w.def = NoName \/ r.w.def # x
    <3> DEFINE m == [moved EXCEPT !.w.def = x]
    <3>1. /\ m \in Settled(I) /\ m.w.rows = moved.w.rows
          /\ m.w.dialog = moved.w.dialog /\ m.w.stale = moved.w.stale
          /\ m.w.active = moved.w.active /\ m.w.combo = moved.w.combo
      BY <1>3, ChangesDefault
    <3>2. r1 = m
      BY <2>1
    <3> HIDE DEF m, r1
    <3> QED
      BY <1>3, <3>1, <3>2
  <2>2. CASE ~(r.w.def = NoName \/ r.w.def # x)
    BY <2>2
  <2> QED
    BY <2>1, <2>2
<1> HIDE DEF r1
<1>5. CASE KeepsChoice(r1, x)
  <2>1. a \in I /\ r1 \in Handled(I)
    BY <1>4, <1>5, SettledIsHandled DEF KeepsChoice, Settled, WidgetOf
  <2> HIDE DEF a
  <2> DEFINE s == Show(r1, a)
             u == ActivateRow(s, a)
  <2>2. /\ s \in Handled(I) /\ SameList(r1, s) /\ s.w.combo = a
    BY <2>1, Shows
  <2> HIDE DEF s
  <2>3. /\ u \in Handled(I) /\ SameList(s, u) /\ u.w.active = a /\ u.w.combo = a
    BY <2>1, <2>2, ActivatesRow
  <2>4. t = u
    BY <1>5 DEF s
  <2> HIDE DEF u, t
  <2>5. u \in Settled(I)
    BY <2>1, <2>3 DEF Handled, Settled, WidgetOf
  <2> QED
    BY <1>1, <1>4, <2>2, <2>3, <2>4, <2>5 DEF SameList, a
<1>6. CASE ~KeepsChoice(r1, x)
  <2>1. ASSUME r.w.active \in I, r.w.combo = r.w.active
        PROVE  r1.w.active = r.w.active /\ r1.w.combo = r.w.active
    <3>1. r1.w.active = r.w.active /\ r1.w.active \notin {NoName, GoneRow}
      BY <1>4, <2>1
    <3>2. r1.w.active = x \/ x = NoName
      BY <1>6, <3>1 DEF KeepsChoice
    <3> QED
      BY <1>4, <2>1, <3>1, <3>2
  <2> QED
    BY <1>1, <1>4, <1>6, <2>1
<1> QED
  BY <1>5, <1>6

\* The rows are put back, and the first is shown.
LEMMA Syncs ==
  ASSUME NEW I, NoName \notin I, NEW r \in Handled(I)
  PROVE  LET t == Sync(r)
         IN  /\ t \in Settled(I) /\ t.w.def = r.w.def
             /\ t.w.dialog = r.w.dialog /\ t.w.stale = r.w.stale
             /\ r.w.rows # <<>> /\ r.w.def # NoName => t.w.active \in I
<1> DEFINE g == IF r.w.active = NoName THEN NoName ELSE GoneRow
           v == [[r.w EXCEPT !.combo = NoName] EXCEPT !.active = g]
           out == [r EXCEPT !.w = v]
<1>1. g \in {NoName, GoneRow}
  OBVIOUS
<1>2. /\ v \in WidgetOf(I)
      /\ v.rows = r.w.rows /\ v.def = r.w.def /\ v.dialog = r.w.dialog
      /\ v.stale = r.w.stale /\ v.combo = NoName
  BY <1>1 DEF Handled, WidgetOf
<1>3. Sync(r) = IF r.w.rows = <<>> THEN out ELSE SetActiveItem(out, Head(r.w.rows))
  BY DEF Sync, Handled
<1> HIDE DEF v, g
<1>4. out \in Settled(I) /\ out.w = v
  BY <1>2 DEF Handled, Settled
<1> HIDE DEF out
<1>5. CASE r.w.rows = <<>>
  BY <1>2, <1>3, <1>4, <1>5
<1>6. CASE r.w.rows # <<>>
  <2> DEFINE x == Head(r.w.rows)
             t == SetActiveItem(out, x)
  <2>1. x \in I
    BY <1>6, HeadTailProperties DEF Handled
  <2> HIDE DEF x
  <2>2. /\ t \in Settled(I) /\ SameList(out, t)
        /\ out.w.combo # x /\ out.w.def # NoName => t.w.active = x
    BY <1>4, <2>1, SetsActiveItem, SettledIsHandled
  <2>3. Sync(r) = t
    BY <1>3, <1>6 DEF x
  <2> HIDE DEF t
  <2> QED
    BY <1>2, <1>4, <2>1, <2>2, <2>3 DEF SameList
<1> QED
  BY <1>5, <1>6

LEMMA AddsRow ==
  ASSUME NEW I, NoName \notin I, NEW r \in Handled(I), NEW x \in I \cup {NoName}
  PROVE  LET t == WithRow(r, x)
         IN  /\ t = r \/ (t \in Settled(I) /\ (r.w.def # NoName => t.w.active \in I))
             /\ t \in Handled(I) /\ t.w.def = r.w.def
             /\ r \in Settled(I) => t \in Settled(I)
<1>1. CASE x = NoName \/ Has(r.w, x)
  BY <1>1 DEF WithRow
<1>2. CASE ~(x = NoName \/ Has(r.w, x))
  <2> DEFINE q == <<x>> \o r.w.rows
             v == [[r.w EXCEPT !.rows = q] EXCEPT !.stale = TRUE]
             u == [r EXCEPT !.w = v]
             t == Sync(u)
  <2>1. q \in Seq(I) /\ q # <<>>
    <3>1. x \in I
      BY <1>2
    <3>2. <<x>> \in Seq(I) /\ r.w.rows \in Seq(I)
      BY <3>1 DEF Handled
    <3>3. Len(<<x>>) = 1
      OBVIOUS
    <3> HIDE DEF q
    <3>4. q \in Seq(I) /\ Len(q) = 1 + Len(r.w.rows)
      BY <3>2, <3>3, ConcatProperties DEF q
    <3>5. Len(r.w.rows) \in Nat
      BY <3>2, LenProperties
    <3> QED
      BY <3>4, <3>5, EmptySeq
  <2> HIDE DEF q
  <2>2. /\ v \in [rows : Seq(I), active : I \cup {NoName, GoneRow, OtherRow},
                  def : I \cup {NoName}, combo : I \cup {NoName, OtherRow},
                  dialog : BOOLEAN, stale : BOOLEAN]
        /\ v.def = r.w.def /\ v.rows = q
    BY <2>1 DEF Handled
  <2>3. WithRow(r, x) = t
    BY <1>2 DEF WithRow, Handled, q
  <2> HIDE DEF v
  <2>4. u \in Handled(I) /\ u.w = v
    BY <2>2 DEF Handled
  <2> HIDE DEF u
  <2>5. /\ t \in Settled(I) /\ t.w.def = u.w.def
        /\ r.w.def # NoName => t.w.active \in I
    BY <2>1, <2>2, <2>4, Syncs
  <2> HIDE DEF t
  <2> QED
    BY <2>2, <2>3, <2>4, <2>5, SettledIsHandled
<1> QED
  BY <1>1, <1>2

LEMMA SetsCurrent ==
  ASSUME NEW I, NoName \notin I, NEW r \in Settled(I), NEW x \in I \cup {NoName}
  PROVE  SetCurrent(r, x) \in Settled(I)
<1> DEFINE t == WithRow(r, x)
<1>1. t \in Settled(I) /\ t \in Handled(I)
  BY AddsRow, SettledIsHandled
<1> HIDE DEF t
<1>2. SetActiveItem(t, x) \in Settled(I)
  BY <1>1, SetsActiveItem
<1> QED
  BY <1>2 DEF SetCurrent, t

LEMMA SetsDefaultLanguage ==
  ASSUME NEW I, NoName \notin I, GoneRow \notin I,
         NEW r \in Settled(I), NEW x \in I \cup {NoName}
  PROVE  SetDefaultLanguage(r, x) \in Settled(I)
<1> DEFINE t == WithRow(r, x)
<1>1. t \in Settled(I)
  BY AddsRow, SettledIsHandled
<1> HIDE DEF t
<1>2. SetDefaultItem(t, x) \in Settled(I)
  BY <1>1, SetsDefaultItem
<1> QED
  BY <1>2 DEF SetDefaultLanguage, t

LEMMA SetsKeyboardLayout ==
  ASSUME NEW I, NoName \notin I, GoneRow \notin I,
         NEW r \in Settled(I), NEW x \in I \cup {NoName}
  PROVE  SetKeyboardLayout(r, x) \in Settled(I)
<1> DEFINE t == SetCurrent(r, x)
<1>1. t \in Settled(I)
  BY SetsCurrent
<1>2. SetKeyboardLayout(r, x) = SetDefaultItem(t, x)
  BY DEF SetKeyboardLayout, SetCurrent
<1> HIDE DEF t
<1> QED
  BY <1>1, <1>2, SetsDefaultItem

LEMMA SetsDefaultSession ==
  ASSUME NEW I, NoName \notin I, GoneRow \notin I,
         NEW r \in Settled(I), NEW x \in I \cup {NoName}
  PROVE  SetDefaultSession(r, x) \in Settled(I)
BY SetsDefaultItem DEF SetDefaultSession

\* "Other..." is left with a default in its place.
LEMMA ChoosesOther ==
  ASSUME NEW I, NoName \notin I, OtherRow \notin I,
         NEW r \in Settled(I), r.w.def # NoName
  PROVE  ChooseOther(r) \in Settled(I)
<1> DEFINE d == r.w.def
           v == [[r.w EXCEPT !.active = OtherRow] EXCEPT !.combo = OtherRow]
           other == [r EXCEPT !.w = v]
           added == WithRow(other, d)
           back == SetActiveItem(added, d)
           b == [back.w EXCEPT !.dialog = TRUE]
           q == Append(back.sel, back.w.active)
           t == [w |-> b, sel |-> q]
<1>1. d \in I /\ d # OtherRow
  BY DEF Settled, WidgetOf
<1>2. /\ v \in [rows : Seq(I), active : I \cup {NoName, GoneRow, OtherRow},
                def : I \cup {NoName}, combo : I \cup {NoName, OtherRow},
                dialog : BOOLEAN, stale : BOOLEAN]
      /\ v.def = d /\ v.combo = OtherRow
  BY DEF Settled, WidgetOf
<1>3. ChooseOther(r) = t
  BY DEF ChooseOther, SetCurrent, Settled
<1> HIDE DEF d, v
<1>4. other \in Handled(I) /\ other.w = v
  BY <1>2 DEF Handled, Settled
<1> HIDE DEF other
<1>5. /\ added = other \/ (added \in Settled(I) /\ added.w.active \in I)
      /\ added \in Handled(I) /\ added.w.def = d
  BY <1>1, <1>2, <1>4, AddsRow
<1> HIDE DEF added
<1>6. /\ back \in Handled(I) /\ back.w.combo = d
      /\ back.w.active \in {added.w.active, d}
      /\ added.w.combo # d => back.w.active = d
      /\ added \in Settled(I) => back \in Settled(I)
  BY <1>1, <1>5, SetsActiveItem
<1>7. back.w.active \in I
  BY <1>1, <1>2, <1>4, <1>5, <1>6
<1> HIDE DEF back
<1>8. b \in WidgetOf(I)
  BY <1>1, <1>6, <1>7 DEF Handled, WidgetOf
<1>9. q \in Seq(I)
  BY <1>6, <1>7, AppendProperties DEF Handled
<1> HIDE DEF b, q
<1>10. t \in Settled(I)
  BY <1>8, <1>9 DEF Settled
<1> QED
  BY <1>3, <1>10

-----------------------------------------------------------------------------
(* What is under way, and the panel as a whole. *)

LEMMA ItemFacts ==
  ASSUME offer \in Offers, NEW o \in offer
  PROVE  /\ NoName \notin Items[o] /\ GoneRow \notin Items[o] /\ OtherRow \notin Items[o]
         /\ Recent[o] \in Seq(Items[o]) /\ SystemDefault[o] \in Items[o]
         /\ o \in {"language", "layout", "session"}
         /\ Choice(o) \subseteq Values /\ Choice(o) \subseteq Written(o)
         /\ Written(o) \subseteq Values
<1>1. Items[o] \subseteq Values /\ NoName \in Values
  <2> DEFINE A == UNION {Items[p] : p \in offer}
             D == UNION {Dmrcs[u][p] : u \in User, p \in offer}
  <2>1. Items[o] \subseteq A
    OBVIOUS
  <2>2. Values = A \cup D \cup {NoName}
    BY DEF Values
  <2> HIDE DEF A, D
  <2> QED
    BY <2>1, <2>2
<1> QED
  BY <1>1, ItemsAssumption, OptionsAssumption DEF Choice, Written

LEMMA SameSets ==
  ASSUME UNCHANGED offer
  PROVE  /\ CallRecord' = CallRecord /\ SignalRecord' = SignalRecord
         /\ RequestRecord' = RequestRecord /\ SessionRecord' = SessionRecord
         /\ WorkerRecord' = WorkerRecord /\ Values' = Values /\ Nothing' = Nothing
<1>1. Values' = Values /\ Nothing' = Nothing
  BY DEF Values, Nothing
<1>2. /\ CallRecord' = CallRecord /\ SignalRecord' = SignalRecord
      /\ RequestRecord' = RequestRecord
  BY DEF CallRecord, SignalRecord, RequestRecord
<1>3. SessionRecord' = SessionRecord /\ WorkerRecord' = WorkerRecord
  BY <1>1 DEF SessionRecord, WorkerRecord
<1> QED
  BY <1>1, <1>2, <1>3

LEMMA AtIsSettled ==
  ASSUME PanelInv, NEW o \in offer
  PROVE  At(o) \in Settled(Items[o]) /\ At(o).w = panel[o]
<1>1. <<>> \in Seq(Items[o])
  OBVIOUS
<1> QED
  BY <1>1 DEF PanelInv, At, Settled

LEMMA SelectsAreCalls ==
  ASSUME NEW o \in offer, NEW xs \in Seq(Items[o])
  PROVE  Selects(o, xs) \in Seq(CallRecord)
<1>1. \A x \in Items[o] : Select(o, x) \in CallRecord
  BY DEF Select, CallRecord
<1>2. Len(xs) \in Nat /\ \A i \in 1 .. Len(xs) : xs[i] \in Items[o]
  BY LenProperties
<1>3. \A i \in 1 .. Len(xs) : Select(o, xs[i]) \in CallRecord
  BY <1>1, <1>2
<1> QED
  BY <1>2, <1>3, IsASeq DEF Selects

\* What a handler of one list leaves.
LEMMA PanelChanges ==
  ASSUME PanelInv, UNCHANGED offer, NEW o \in offer, NEW r \in Settled(Items[o]),
         Panel(o, r)
  PROVE  /\ PanelInv' /\ calls' \in Seq(CallRecord)'
         /\ panel'[o] = r.w /\ \A p \in offer \ {o} : panel'[p] = panel[p]
<1>1. r.w \in WidgetOf(Items[o]) /\ r.sel \in Seq(Items[o])
  BY DEF Settled
<1>2. DOMAIN panel = offer /\ \A p \in offer : panel[p] \in WidgetOf(Items[p])
  BY DEF PanelInv
<1>3. panel' = [panel EXCEPT ![o] = r.w]
  BY DEF Panel
<1>4. panel' = [p \in offer |-> IF p = o THEN r.w ELSE panel[p]]
  BY <1>2, <1>3
<1>5. PanelInv'
  BY <1>1, <1>2, <1>4 DEF PanelInv, WidgetOf
<1>6. calls' \in Seq(CallRecord)
  BY <1>1, SelectsAreCalls DEF Panel
<1> QED
  BY <1>4, <1>5, <1>6, SameSets

\* A list of session types that is left alone, or is given another default.
LEMMA ChoiceLeft ==
  ASSUME IInv, UNCHANGED <<offer, started, picked>>,
         "session" \in offer => panel'["session"] = panel["session"]
  PROVE  KeptInv'
BY SameSets DEF IInv, KeptInv, Choice

LEMMA ChoiceKept ==
  ASSUME IInv, UNCHANGED <<offer, started, picked>>,
         "session" \in offer =>
           \E x \in Choice("session") :
             panel'["session"] = SetDefaultItem(At("session"), x).w
  PROVE  KeptInv'
<1>1. CASE "session" \notin offer
  BY <1>1, ChoiceLeft
<1>2. CASE "session" \in offer
  <2> DEFINE s == "session"
             r == At(s)
  <2>1. PICK x \in Choice(s) : panel'[s] = SetDefaultItem(r, x).w
    BY <1>2
  <2> DEFINE t == SetDefaultItem(r, x)
  <2>2. r \in Settled(Items[s]) /\ r.w = panel[s]
    BY <1>2, AtIsSettled DEF IInv
  <2> HIDE DEF r
  <2>3. NoName \notin Items[s] /\ GoneRow \notin Items[s] /\ x \in Items[s] \cup {NoName}
    BY <1>2, <2>1, ItemFacts DEF IInv, Choice
  <2>4. /\ t.w.dialog = r.w.dialog /\ t.w.stale = r.w.stale
        /\ r.w.active \in Items[s] /\ r.w.combo = r.w.active
             => t.w.active = r.w.active /\ t.w.combo = r.w.active
    <3> DEFINE I == Items[s]
    <3>1. r \in Settled(I) /\ NoName \notin I /\ GoneRow \notin I /\ x \in I \cup {NoName}
      BY <2>2, <2>3
    <3> HIDE DEF I
    <3>2. /\ t.w.dialog = r.w.dialog /\ t.w.stale = r.w.stale
          /\ r.w.active \in I /\ r.w.combo = r.w.active
               => t.w.active = r.w.active /\ t.w.combo = r.w.active
      BY <3>1, SetsDefaultItem
    <3> QED
      BY <3>2 DEF I
  <2>5. panel'[s] = t.w
    BY <2>1
  <2> HIDE DEF r, t
  <2>6. /\ ~panel[s].dialog /\ ~panel[s].stale
        /\ picked[s] \in Items[s] \cup {NoName}
        /\ picked[s] # NoName => panel[s].active = picked[s] /\ panel[s].combo = picked[s]
    BY <1>2 DEF IInv, KeptInv, Choice
  <2>7. /\ ~panel'[s].dialog /\ ~panel'[s].stale
        /\ picked[s] # NoName => panel'[s].active = picked[s] /\ panel'[s].combo = picked[s]
    BY <2>2, <2>4, <2>5, <2>6, <2>3
  <2> HIDE DEF s
  <2> QED
    BY <2>7, SameSets DEF IInv, KeptInv, Choice, s
<1> QED
  BY <1>1, <1>2

-----------------------------------------------------------------------------
(* The user and the greeter. *)

LEMMA GreeterFrame ==
  ASSUME IInv, UNCHANGED <<offer, slaveVars, workerVars, inbox>>,
         PanelInv', calls' \in Seq(CallRecord)', signals' \in Seq(SignalRecord),
         WindowInv', KeptInv'
  PROVE  IInv'
<1>1. QueueInv'
  BY SameSets DEF IInv, QueueInv
<1>2. SlaveInv'
  BY SameSets DEF IInv, SlaveInv, SessionOK, slaveVars, Choice
<1>3. WorkerInv'
  BY SameSets DEF IInv, WorkerInv, WorkerOK, workerVars, Written, Choice
<1>4. DmrcInv'
  BY SameSets DEF IInv, DmrcInv, workerVars, Written, Choice
<1> QED
  BY <1>1, <1>2, <1>3, <1>4 DEF IInv

\* A choice in one list, which is then the row that is active and shown.
LEMMA ChoiceMade ==
  ASSUME IInv, UNCHANGED <<offer, started>>,
         NEW o \in offer, NEW r \in Settled(Items[o]), NEW x \in Choice(o),
         Panel(o, r), picked' = [picked EXCEPT ![o] = x],
         o = "session" => /\ ~r.w.dialog /\ ~r.w.stale
                          /\ r.w.active = x /\ r.w.combo = x
  PROVE  PanelInv' /\ KeptInv' /\ calls' \in Seq(CallRecord)'
<1>1. /\ PanelInv' /\ calls' \in Seq(CallRecord)'
      /\ panel'[o] = r.w /\ \A p \in offer \ {o} : panel'[p] = panel[p]
  BY PanelChanges DEF IInv
<1>2. x \in Values
  BY ItemFacts DEF IInv
<1>3. /\ picked' \in [offer -> Values] /\ \A p \in offer : picked'[p] \in Choice(p)
      /\ picked'[o] = x /\ \A p \in offer \ {o} : picked'[p] = picked[p]
  BY <1>2 DEF IInv, KeptInv
<1>4. ASSUME "session" \in offer
      PROVE  LET w == panel'["session"] IN
             /\ ~w.dialog /\ ~w.stale
             /\ picked'["session"] # NoName
                  => w.active = picked'["session"] /\ w.combo = picked'["session"]
  <2>1. CASE o = "session"
    BY <1>1, <1>3, <2>1
  <2>2. CASE o # "session"
    BY <1>1, <1>3, <1>4, <2>2 DEF IInv, KeptInv
  <2> QED
    BY <2>1, <2>2
<1>5. KeptInv'
  BY <1>3, <1>4, SameSets DEF IInv, KeptInv, Choice
<1> QED
  BY <1>1, <1>5

LEMMA ClosesDialog ==
  ASSUME NEW I, NEW r \in Settled(I)
  PROVE  [r EXCEPT !.w.dialog = FALSE] \in Settled(I)
<1> DEFINE v == [r.w EXCEPT !.dialog = FALSE]
<1>1. v \in WidgetOf(I)
  BY DEF Settled, WidgetOf
<1> HIDE DEF v
<1>2. [r EXCEPT !.w = v] \in Settled(I)
  BY <1>1 DEF Settled
<1> QED
  BY <1>2 DEF v

LEMMA HearsNothing ==
  ASSUME NEW I, NEW r \in Settled(I)
  PROVE  [r EXCEPT !.w.stale = FALSE] \in Settled(I)
<1> DEFINE v == [r.w EXCEPT !.stale = FALSE]
<1>1. v \in WidgetOf(I)
  BY DEF Settled, WidgetOf
<1> HIDE DEF v
<1>2. [r EXCEPT !.w = v] \in Settled(I)
  BY <1>1 DEF Settled
<1> QED
  BY <1>2 DEF v

LEMMA ChoosingSomebody ==
  ASSUME IInv, NEW c \in User \cup {OtherUser}
  PROVE  /\ Choosing(c) \in WindowRecord /\ Choosing(c).chosen = c
         /\ ChooseCalls(c) \in Seq(CallRecord)
<1>1. Choosing(c) \in WindowRecord /\ Choosing(c).chosen = c
  BY DEF IInv, WindowInv, WindowRecord, Greeted, Choosing
<1>2. PICK d : d = IF c = OtherUser THEN Call("BeginVerification", NoName)
                   ELSE Call("BeginVerificationForUser", c)
  OBVIOUS
<1>3. d \in CallRecord
  BY <1>2 DEF Call, CallRecord
<1>4. Call("SelectUser", c) \in CallRecord
  BY DEF Call, CallRecord, Greeted
<1>5. ChooseCalls(c) = <<Call("SelectUser", c), d>>
  BY <1>2 DEF ChooseCalls
<1> QED
  BY <1>1, <1>3, <1>4, <1>5

LEMMA ChooseUserStep ==
  ASSUME IInv, UNCHANGED <<offer, slaveVars, workerVars, inbox>>, ChooseUser
  PROVE  IInv'
<1>1. PICK c \in User \cup {OtherUser} : window' = Choosing(c) /\ calls' = ChooseCalls(c)
  BY DEF ChooseUser
<1>2. WindowInv' /\ calls' \in Seq(CallRecord)'
  BY <1>1, ChoosingSomebody, SameSets DEF WindowInv, WindowRecord, Greeted
<1>3. PanelInv'
  BY DEF ChooseUser, IInv, PanelInv, WidgetOf
<1>4. signals' \in Seq(SignalRecord)
  BY DEF ChooseUser, IInv, QueueInv
<1>5. /\ picked' \in [offer -> Values]
      /\ \A o \in offer : picked'[o] = NoName /\ picked'[o] \in Choice(o)
  BY ItemFacts DEF ChooseUser, Nothing, IInv, Choice
<1>6. KeptInv'
  BY <1>5, SameSets DEF ChooseUser, IInv, KeptInv, slaveVars, Choice
<1> QED
  BY <1>2, <1>3, <1>4, <1>6, GreeterFrame

\* Steps that leave the lists and what was chosen in them.
LEMMA ListsLeft ==
  ASSUME IInv, UNCHANGED <<offer, panel, picked, slaveVars>>
  PROVE  PanelInv' /\ KeptInv'
<1>1. PanelInv'
  BY DEF IInv, PanelInv, WidgetOf
<1> QED
  BY <1>1, ChoiceLeft DEF slaveVars

LEMMA AnswerQuestionStep ==
  ASSUME IInv, UNCHANGED <<offer, slaveVars, workerVars, inbox>>, AnswerQuestion
  PROVE  IInv'
<1>1. PICK u \in IF window.prompt = "name" THEN User ELSE {NoName} :
        calls' = <<Call("AnswerQuery", u)>>
  BY DEF AnswerQuestion
<1>2. Call("AnswerQuery", u) \in CallRecord
  BY DEF Call, CallRecord, Account
<1>3. calls' \in Seq(CallRecord)'
  BY <1>1, <1>2, SameSets
<1>4. WindowInv' /\ signals' \in Seq(SignalRecord)
  BY DEF AnswerQuestion, IInv, WindowInv, WindowRecord, QueueInv
<1>5. PanelInv' /\ KeptInv'
  BY ListsLeft DEF AnswerQuestion
<1> QED
  BY <1>3, <1>4, <1>5, GreeterFrame

LEMMA DoCancelStep ==
  ASSUME IInv, UNCHANGED <<offer, slaveVars, workerVars, inbox>>, DoCancel
  PROVE  IInv'
<1>1. Call("Cancel", NoName) \in CallRecord
  BY DEF Call, CallRecord
<1>2. calls' \in Seq(CallRecord)'
  BY <1>1, SameSets DEF DoCancel
<1>3. WindowInv' /\ signals' \in Seq(SignalRecord)
  BY DEF DoCancel, IInv, WindowInv, WindowRecord, QueueInv
<1>4. PanelInv' /\ KeptInv'
  BY ListsLeft DEF DoCancel
<1> QED
  BY <1>2, <1>3, <1>4, GreeterFrame

\* The user has taken something from a list.
LEMMA PickFrame ==
  ASSUME IInv, UNCHANGED <<offer, slaveVars, workerVars, inbox, window, signals>>,
         PanelInv', KeptInv', calls' \in Seq(CallRecord)'
  PROVE  IInv'
<1>1. WindowInv' /\ signals' \in Seq(SignalRecord)
  BY DEF IInv, WindowInv, WindowRecord, Greeted, QueueInv
<1> QED
  BY <1>1, GreeterFrame

LEMMA PickItemStep ==
  ASSUME IInv, UNCHANGED <<offer, slaveVars, workerVars, inbox>>, PickItem
  PROVE  IInv'
<1>1. PICK o \in offer : \E x \in Items[o] :
        Offered(o) /\ panel[o].combo # x /\ Pick(o, x, Show(At(o), x))
  BY DEF PickItem
<1>2. PICK x \in Items[o] :
        Offered(o) /\ panel[o].combo # x /\ Pick(o, x, Show(At(o), x))
  BY <1>1
<1> DEFINE r == At(o)
           t == Show(r, x)
<1>3. r \in Settled(Items[o]) /\ r \in Handled(Items[o]) /\ r.w = panel[o]
  BY AtIsSettled, SettledIsHandled DEF IInv
<1>4. NoName \notin Items[o]
  BY ItemFacts DEF IInv
<1>5. r.w.def # NoName /\ r.w.combo # x
  BY <1>2, <1>3 DEF Offered
<1> HIDE DEF r
<1>6. t \in Handled(Items[o]) /\ SameList(r, t) /\ t.w.combo = x /\ t.w.active = x
  BY <1>3, <1>4, <1>5, Shows
<1> HIDE DEF t
<1>7. t \in Settled(Items[o])
  BY <1>6 DEF Handled, Settled, WidgetOf
<1>8. o = "session" => ~t.w.dialog /\ ~t.w.stale
  BY <1>3, <1>6 DEF SameList, IInv, KeptInv
<1>9. Pick(o, x, t) /\ x \in Choice(o)
  BY <1>2 DEF r, t, Choice
<1>10. PanelInv' /\ KeptInv' /\ calls' \in Seq(CallRecord)'
  BY <1>6, <1>7, <1>8, <1>9, ChoiceMade DEF Pick, slaveVars
<1> QED
  BY <1>9, <1>10, PickFrame DEF Pick

LEMMA PickOtherStep ==
  ASSUME IInv, UNCHANGED <<offer, slaveVars, workerVars, inbox>>, PickOther
  PROVE  IInv'
<1>1. PICK o \in offer \ {"session"} :
        Offered(o) /\ Pick(o, panel[o].def, ChooseOther(At(o)))
  BY DEF PickOther
<1>2. /\ At(o) \in Settled(Items[o]) /\ At(o).w.def # NoName
      /\ panel[o].def \in Choice(o)
  BY <1>1, AtIsSettled DEF IInv, PanelInv, WidgetOf, Choice, Offered
<1>3. ChooseOther(At(o)) \in Settled(Items[o])
  BY <1>2, ChoosesOther, ItemFacts DEF IInv
<1>4. PanelInv' /\ KeptInv' /\ calls' \in Seq(CallRecord)'
  BY <1>1, <1>2, <1>3, ChoiceMade DEF Pick, slaveVars
<1> QED
  BY <1>1, <1>4, PickFrame DEF Pick

LEMMA DialogOkStep ==
  ASSUME IInv, UNCHANGED <<offer, slaveVars, workerVars, inbox>>, DialogOk
  PROVE  IInv'
<1> DEFINE t(o, x) == [SetCurrent(At(o), x) EXCEPT !.w.dialog = FALSE]
<1>1. PICK o \in offer : \E x \in Items[o] :
        /\ panel[o].dialog /\ Panel(o, t(o, x))
        /\ picked' = [picked EXCEPT ![o] = x]
        /\ UNCHANGED <<window, picks, signals>>
  BY DEF DialogOk
<1>2. PICK x \in Items[o] :
        /\ panel[o].dialog /\ Panel(o, t(o, x))
        /\ picked' = [picked EXCEPT ![o] = x]
        /\ UNCHANGED <<window, picks, signals>>
  BY <1>1
<1>3. o # "session"
  BY <1>2 DEF IInv, KeptInv
<1>4. At(o) \in Settled(Items[o]) /\ NoName \notin Items[o] /\ x \in Choice(o)
  BY AtIsSettled, ItemFacts DEF IInv, Choice
<1>5. SetCurrent(At(o), x) \in Settled(Items[o])
  BY <1>4, SetsCurrent
<1>6. t(o, x) \in Settled(Items[o])
  BY <1>5, ClosesDialog
<1> HIDE DEF t
<1>7. PanelInv' /\ KeptInv' /\ calls' \in Seq(CallRecord)'
  BY <1>2, <1>3, <1>4, <1>6, ChoiceMade DEF slaveVars
<1> QED
  BY <1>2, <1>7, PickFrame

LEMMA DialogCancelledStep ==
  ASSUME IInv, UNCHANGED <<offer, slaveVars, workerVars, inbox>>, DialogCancelled
  PROVE  IInv'
<1>1. PICK o \in offer : panel[o].dialog /\ panel' = [panel EXCEPT ![o].dialog = FALSE]
  BY DEF DialogCancelled
<1>2. o # "session"
  BY <1>1 DEF IInv, KeptInv
<1> DEFINE v == [panel[o] EXCEPT !.dialog = FALSE]
<1>3. v \in WidgetOf(Items[o])
  BY DEF IInv, PanelInv, WidgetOf
<1>4. panel' = [panel EXCEPT ![o] = v]
  BY <1>1
<1> HIDE DEF v
<1>5. panel' = [p \in offer |-> IF p = o THEN v ELSE panel[p]]
  BY <1>4 DEF IInv, PanelInv
<1>6. PanelInv'
  BY <1>3, <1>5 DEF IInv, PanelInv, WidgetOf, DialogCancelled
<1>7. KeptInv'
  BY <1>2, <1>5, ChoiceLeft DEF DialogCancelled, slaveVars
<1>8. calls' \in Seq(CallRecord)'
  BY SameSets DEF DialogCancelled, IInv, QueueInv
<1> QED
  BY <1>6, <1>7, <1>8, PickFrame DEF DialogCancelled

LEMMA RecentsNotifiedStep ==
  ASSUME IInv, UNCHANGED <<offer, slaveVars, workerVars, inbox>>, RecentsNotified
  PROVE  IInv'
<1> DEFINE t(o) == [Sync(At(o)) EXCEPT !.w.stale = FALSE]
<1>1. PICK o \in offer : panel[o].stale /\ Panel(o, t(o))
  BY DEF RecentsNotified
<1>2. o # "session"
  BY <1>1 DEF IInv, KeptInv
<1>3. At(o) \in Handled(Items[o]) /\ NoName \notin Items[o]
  BY AtIsSettled, SettledIsHandled, ItemFacts DEF IInv
<1>4. Sync(At(o)) \in Settled(Items[o])
  BY <1>3, Syncs
<1>5. t(o) \in Settled(Items[o])
  BY <1>4, HearsNothing
<1> HIDE DEF t
<1>6. /\ PanelInv' /\ calls' \in Seq(CallRecord)'
      /\ \A p \in offer \ {o} : panel'[p] = panel[p]
  BY <1>1, <1>5, PanelChanges DEF IInv
<1>7. KeptInv'
  BY <1>2, <1>6, ChoiceLeft DEF RecentsNotified, slaveVars
<1> QED
  BY <1>6, <1>7, PickFrame DEF RecentsNotified

\* A signal of the slave.
LEMMA Dispatches ==
  ASSUME IInv, NEW n, Dispatch(n)
  PROVE  /\ Head(signals) \in SignalRecord /\ Head(signals).name = n
         /\ signals' \in Seq(SignalRecord)
BY HeadTailProperties DEF Dispatch, IInv, QueueInv

LEMMA CallsLeft ==
  ASSUME IInv, UNCHANGED <<offer, calls>>
  PROVE  calls' \in Seq(CallRecord)'
BY SameSets DEF IInv, QueueInv

LEMMA WindowIs ==
  ASSUME window' \in WindowRecord,
         window'.mode = "auth" => window'.chosen \in User \cup {OtherUser}
  PROVE  WindowInv'
BY DEF WindowInv, WindowRecord, Greeted

LEMMA OnReadyStep ==
  ASSUME IInv, UNCHANGED <<offer, slaveVars, workerVars, inbox>>, OnReady
  PROVE  IInv'
<1>1. signals' \in Seq(SignalRecord)
  BY Dispatches DEF OnReady
<1>2. PanelInv' /\ KeptInv'
  BY ListsLeft DEF OnReady
<1>3. CASE window.mode = "auth"
  <2>1. window.chosen \in User \cup {OtherUser}
    BY <1>3 DEF IInv, WindowInv
  <2>2. window' = Choosing(window.chosen) /\ calls' = ChooseCalls(window.chosen)
    BY <1>3 DEF OnReady
  <2>3. WindowInv' /\ calls' \in Seq(CallRecord)'
    BY <2>1, <2>2, ChoosingSomebody, WindowIs, SameSets
  <2> QED
    BY <1>1, <1>2, <2>3, GreeterFrame
<1>4. CASE window.mode # "auth"
  <2>1. window' = [window EXCEPT !.sensitive = TRUE] /\ UNCHANGED calls
    BY <1>4 DEF OnReady
  <2>2. WindowInv'
    BY <1>4, <2>1 DEF IInv, WindowInv, WindowRecord
  <2> QED
    BY <1>1, <1>2, <2>1, <2>2, CallsLeft, GreeterFrame
<1> QED
  BY <1>3, <1>4

\* The panel and the window start afresh.
LEMMA PanelResets ==
  ASSUME IInv, UNCHANGED <<offer, started, picked>>, PanelReset
  PROVE  PanelInv' /\ KeptInv'
<1>1. \A o \in offer : /\ SetKeyboardLayout(At(o), NoName).w \in WidgetOf(Items[o])
                       /\ SetDefaultItem(At(o), NoName).w \in WidgetOf(Items[o])
  <2> TAKE o \in offer
  <2>1. At(o) \in Settled(Items[o]) /\ NoName \notin Items[o] /\ GoneRow \notin Items[o]
    BY AtIsSettled, ItemFacts DEF IInv
  <2>2. SetKeyboardLayout(At(o), NoName) \in Settled(Items[o])
    BY <2>1, SetsKeyboardLayout
  <2>3. SetDefaultItem(At(o), NoName) \in Settled(Items[o])
    BY <2>1, SetsDefaultItem
  <2> QED
    BY <2>2, <2>3 DEF Settled
<1>2. panel' = [o \in offer |-> IF o = "layout" THEN SetKeyboardLayout(At(o), NoName).w
                                ELSE SetDefaultItem(At(o), NoName).w]
  BY DEF PanelReset
<1>3. \A o \in offer : panel'[o] \in WidgetOf(Items[o])
  BY <1>1, <1>2
<1>4. panel' = [o \in offer |-> panel'[o]]
  BY <1>2
<1>5. PanelInv'
  BY <1>3, <1>4 DEF PanelInv, WidgetOf
<1>6. "session" \in offer => panel'["session"] = SetDefaultItem(At("session"), NoName).w
  BY <1>2
<1>7. NoName \in Choice("session")
  BY DEF Choice
<1>8. KeptInv'
  BY <1>6, <1>7, ChoiceKept
<1> QED
  BY <1>5, <1>8

LEMMA WindowResets ==
  ASSUME IInv, WindowReset
  PROVE  WindowInv'
<1>1. 0 \in 0 .. MaxTries - 1
  BY OptionsAssumption
<1>2. window' \in WindowRecord /\ window'.mode = "selection"
  BY <1>1 DEF WindowReset, IInv, WindowInv, WindowRecord, Greeted
<1> QED
  BY <1>2, WindowIs

LEMMA OnResetStep ==
  ASSUME IInv, UNCHANGED <<offer, slaveVars, workerVars, inbox>>, OnReset
  PROVE  IInv'
<1>1. signals' \in Seq(SignalRecord)
  BY Dispatches DEF OnReset
<1>2. PanelInv' /\ KeptInv'
  BY PanelResets DEF OnReset, slaveVars
<1>3. WindowInv'
  BY WindowResets DEF OnReset
<1>4. calls' \in Seq(CallRecord)'
  BY CallsLeft DEF OnReset
<1> QED
  BY <1>1, <1>2, <1>3, <1>4, GreeterFrame

LEMMA OnAuthenticationFailedStep ==
  ASSUME IInv, UNCHANGED <<offer, slaveVars, workerVars, inbox>>, OnAuthenticationFailed
  PROVE  IInv'
<1>1. signals' \in Seq(SignalRecord)
  BY Dispatches DEF OnAuthenticationFailed
<1>2. calls' \in Seq(CallRecord)'
  BY CallsLeft DEF OnAuthenticationFailed
<1>3. CASE window.tries + 1 < MaxTries
  <2>1. window.tries + 1 \in 0 .. MaxTries - 1
    BY <1>3, OptionsAssumption DEF IInv, WindowInv, WindowRecord
  <2>2. /\ window' = [window EXCEPT !.tries = @ + 1, !.prompt = "none", !.sensitive = FALSE]
        /\ UNCHANGED panel
    BY <1>3 DEF OnAuthenticationFailed
  <2>3. WindowInv'
    BY <2>1, <2>2 DEF IInv, WindowInv, WindowRecord
  <2>4. PanelInv' /\ KeptInv'
    BY <2>2, ListsLeft DEF OnAuthenticationFailed
  <2> QED
    BY <1>1, <1>2, <2>3, <2>4, GreeterFrame
<1>4. CASE ~(window.tries + 1 < MaxTries)
  <2>1. PanelReset /\ WindowReset
    BY <1>4 DEF OnAuthenticationFailed
  <2>2. PanelInv' /\ KeptInv'
    BY <2>1, PanelResets DEF OnAuthenticationFailed, slaveVars
  <2> QED
    BY <1>1, <1>2, <2>1, <2>2, WindowResets, GreeterFrame
<1> QED
  BY <1>3, <1>4

LEMMA OnQueryStep ==
  ASSUME IInv, UNCHANGED <<offer, slaveVars, workerVars, inbox>>, OnQuery
  PROVE  IInv'
<1>1. /\ Head(signals) \in SignalRecord /\ Head(signals).name = "Query"
      /\ signals' \in Seq(SignalRecord)
  BY Dispatches DEF OnQuery
<1>2. Head(signals).user \in {"name", "password"}
  BY <1>1 DEF SignalRecord
<1>3. WindowInv'
  BY <1>2 DEF OnQuery, IInv, WindowInv, WindowRecord
<1>4. PanelInv' /\ KeptInv' /\ calls' \in Seq(CallRecord)'
  BY ListsLeft, CallsLeft DEF OnQuery
<1> QED
  BY <1>1, <1>3, <1>4, GreeterFrame

LEMMA OnUserAuthorizedStep ==
  ASSUME IInv, UNCHANGED <<offer, slaveVars, workerVars, inbox>>, OnUserAuthorized
  PROVE  IInv'
<1>1. signals' \in Seq(SignalRecord)
  BY Dispatches DEF OnUserAuthorized
<1>2. Call("StartSessionWhenReady", NoName) \in CallRecord
  BY DEF Call, CallRecord
<1>3. calls' \in Seq(CallRecord)'
  BY <1>2, SameSets DEF OnUserAuthorized
<1>4. PanelInv' /\ KeptInv'
  BY ListsLeft DEF OnUserAuthorized
<1>5. WindowInv'
  BY DEF OnUserAuthorized, IInv, WindowInv, WindowRecord
<1> QED
  BY <1>1, <1>3, <1>4, <1>5, GreeterFrame

LEMMA OnSelectedUserChangedStep ==
  ASSUME IInv, UNCHANGED <<offer, slaveVars, workerVars, inbox>>, OnSelectedUserChanged
  PROVE  IInv'
<1>1. signals' \in Seq(SignalRecord)
  BY Dispatches DEF OnSelectedUserChanged
<1>2. PanelInv' /\ KeptInv' /\ calls' \in Seq(CallRecord)'
  BY ListsLeft, CallsLeft DEF OnSelectedUserChanged
<1>3. WindowInv'
  BY DEF OnSelectedUserChanged, IInv, WindowInv, WindowRecord
<1> QED
  BY <1>1, <1>2, <1>3, GreeterFrame

LEMMA OnDefaultChangedStep ==
  ASSUME IInv, UNCHANGED <<offer, slaveVars, workerVars, inbox>>, OnDefaultChanged
  PROVE  IInv'
<1> DEFINE o == Head(signals).opt
           x == Head(signals).item
           r == CASE o = "language" -> SetDefaultLanguage(At(o), x)
                  [] o = "layout" -> SetKeyboardLayout(At(o), x)
                  [] o = "session" -> SetDefaultSession(At(o), x)
<1>1. /\ Head(signals) \in SignalRecord /\ Head(signals).name = "Default"
      /\ signals' \in Seq(SignalRecord)
  BY Dispatches DEF OnDefaultChanged
<1>2. o \in offer /\ x \in Choice(o)
  BY <1>1 DEF SignalRecord
<1>3. Panel(o, r) /\ UNCHANGED <<window, picked, picks>>
  BY DEF OnDefaultChanged
<1> HIDE DEF o, x
<1>4. /\ At(o) \in Settled(Items[o]) /\ x \in Items[o] \cup {NoName}
      /\ NoName \notin Items[o] /\ GoneRow \notin Items[o]
      /\ o \in {"language", "layout", "session"}
  BY <1>2, AtIsSettled, ItemFacts DEF IInv, Choice
<1>5. SetDefaultLanguage(At(o), x) \in Settled(Items[o])
  BY <1>4, SetsDefaultLanguage
<1>6. SetKeyboardLayout(At(o), x) \in Settled(Items[o])
  BY <1>4, SetsKeyboardLayout
<1>7. SetDefaultSession(At(o), x) \in Settled(Items[o])
  BY <1>4, SetsDefaultSession
<1>8. r \in Settled(Items[o]) /\ (o = "session" => r = SetDefaultSession(At(o), x))
  BY <1>4, <1>5, <1>6, <1>7
<1> HIDE DEF r
<1>9. /\ PanelInv' /\ calls' \in Seq(CallRecord)'
      /\ panel'[o] = r.w /\ \A p \in offer \ {o} : panel'[p] = panel[p]
  BY <1>2, <1>3, <1>8, PanelChanges DEF IInv
<1>10. KeptInv'
  <2>1. CASE o # "session"
    BY <1>3, <1>9, <2>1, ChoiceLeft DEF slaveVars
  <2>2. CASE o = "session"
    <3>1. panel'[o] = SetDefaultSession(At(o), x).w
      BY <1>8, <1>9, <2>2
    <3>2. CASE x # NoName /\ ~Has(At(o).w, x)
      <4>1. panel'[o] = panel[o]
        BY <3>1, <3>2, AtIsSettled, <1>2 DEF SetDefaultSession, IInv
      <4> QED
        BY <1>3, <2>2, <4>1, ChoiceLeft DEF slaveVars
    <3>3. CASE ~(x # NoName /\ ~Has(At(o).w, x))
      <4>1. panel'[o] = SetDefaultItem(At(o), x).w
        BY <3>1, <3>3 DEF SetDefaultSession
      <4> QED
        BY <1>2, <1>3, <2>2, <4>1, ChoiceKept DEF slaveVars
    <3> QED
      BY <3>2, <3>3
  <2> QED
    BY <2>1, <2>2
<1>11. WindowInv'
  BY <1>3 DEF IInv, WindowInv, WindowRecord
<1> QED
  BY <1>1, <1>9, <1>10, <1>11, GreeterFrame

-----------------------------------------------------------------------------
(* What slave and worker send, and the records they keep. *)

LEMMA SlaveFrame ==
  ASSUME IInv, UNCHANGED <<offer, greeterVars>>,
         calls' \in Seq(CallRecord), signals' \in Seq(SignalRecord),
         inbox' \in Seq(RequestRecord),
         SessionOK(sess'), slave' \in SlaveRecord, WorkerOK(worker'), DmrcInv',
         started' \in [offer -> Values]
  PROVE  IInv'
<1>1. PanelInv' /\ WindowInv'
  BY DEF greeterVars, IInv, PanelInv, WidgetOf, WindowInv, WindowRecord, Greeted
<1>2. QueueInv'
  BY SameSets DEF QueueInv
<1>3. SlaveInv'
  BY SameSets DEF SlaveInv, SessionOK, SlaveRecord, Choice
<1>4. WorkerInv'
  BY SameSets DEF WorkerInv, WorkerOK, Written, Choice
<1>5. KeptInv'
  BY SameSets DEF IInv, KeptInv, greeterVars, Choice
<1> QED
  BY <1>1, <1>2, <1>3, <1>4, <1>5 DEF IInv

LEMMA DmrcLeft ==
  ASSUME IInv, UNCHANGED <<offer, dmrc>>
  PROVE  DmrcInv'
BY SameSets DEF IInv, DmrcInv, Written, Choice

LEMMA Takes ==
  ASSUME IInv, NEW n, Take(n)
  PROVE  /\ Head(calls) \in CallRecord /\ Head(calls).name = n
         /\ calls' \in Seq(CallRecord)
BY HeadTailProperties DEF Take, IInv, QueueInv

LEMMA Tells ==
  ASSUME IInv, NEW s \in Seq(SignalRecord), Tell(s)
  PROVE  signals' \in Seq(SignalRecord)
BY ConcatProperties DEF Tell, IInv, QueueInv

LEMMA Asks ==
  ASSUME IInv, NEW m \in Seq(RequestRecord), Ask(m)
  PROVE  inbox' \in Seq(RequestRecord)
BY ConcatProperties DEF Ask, IInv, QueueInv

LEMMA PlainSignals ==
  /\ \A n \in {"Ready", "Reset", "AuthenticationFailed", "UserAuthorized"} :
       <<Signal(n, NoName)>> \in Seq(SignalRecord)
  /\ \A u \in Account : <<Signal("SelectedUserChanged", u)>> \in Seq(SignalRecord)
  /\ \A q \in {"name", "password"} : <<Signal("Query", q)>> \in Seq(SignalRecord)
  /\ \A o \in offer : \A x \in Choice(o) : <<DefaultIs(o, x)>> \in Seq(SignalRecord)
  /\ <<>> \in Seq(SignalRecord)
<1>1. /\ \A n \in {"Ready", "Reset", "AuthenticationFailed", "UserAuthorized"} :
           Signal(n, NoName) \in SignalRecord
      /\ \A u \in Account : Signal("SelectedUserChanged", u) \in SignalRecord
      /\ \A q \in {"name", "password"} : Signal("Query", q) \in SignalRecord
  BY DEF Signal, SignalRecord
<1>2. \A o \in offer : \A x \in Choice(o) : DefaultIs(o, x) \in SignalRecord
  BY DEF DefaultIs, SignalRecord
<1>3. <<>> \in Seq(SignalRecord)
  OBVIOUS
<1> QED
  BY <1>1, <1>2, <1>3

LEMMA PlainRequests ==
  /\ \A n \in {"Authenticate", "Open", "Start"} :
       <<Request(n, NoName)>> \in Seq(RequestRecord)
  /\ \A u \in Account : <<Request("Setup", u)>> \in Seq(RequestRecord)
  /\ <<>> \in Seq(RequestRecord)
<1>1. /\ \A n \in {"Authenticate", "Open", "Start"} : Request(n, NoName) \in RequestRecord
      /\ \A u \in Account : Request("Setup", u) \in RequestRecord
  BY DEF Request, RequestRecord
<1>2. <<>> \in Seq(RequestRecord)
  OBVIOUS
<1> QED
  BY <1>1, <1>2

LEMMA DefaultIsItem ==
  ASSUME offer \in Offers, NEW s, SessionOK(s), NEW o \in offer
  PROVE  /\ Default(s, o) \in Items[o] /\ NameOf(s, o) \in Items[o]
         /\ Items[o] \subseteq Choice(o) /\ Items[o] \subseteq Values
BY ItemFacts DEF SessionOK, Default, NameOf, Choice

LEMMA DefaultsAreSignals ==
  ASSUME offer \in Offers, NEW s, SessionOK(s)
  PROVE  DefaultsChanged(s) \in Seq(SignalRecord)
<1>1. \A o, b : Only(o, b) \in Seq(offer)
  <2> TAKE o, b
  <2>1. CASE o \in offer /\ b
    BY <2>1 DEF Only
  <2>2. CASE ~(o \in offer /\ b)
    <3>1. <<>> \in Seq(offer)
      OBVIOUS
    <3> QED
      BY <2>2, <3>1 DEF Only
  <2> QED
    BY <2>1, <2>2
<1> DEFINE a == Only("language", TRUE)
           b == Only("layout", TRUE)
           c == Only("session", TRUE)
<1>2. a \in Seq(offer) /\ b \in Seq(offer) /\ c \in Seq(offer)
  BY <1>1
<1>3. DefaultsOrder = a \o b \o c
  BY DEF DefaultsOrder
<1> HIDE DEF a, b, c
<1>4. DefaultsOrder \in Seq(offer)
  BY <1>2, <1>3, ConcatProperties
<1> DEFINE d == DefaultsOrder
<1>5. Len(d) \in Nat /\ \A i \in 1 .. Len(d) : d[i] \in offer
  BY <1>4, LenProperties
<1> HIDE DEF d
<1>6. \A o \in offer : DefaultIs(o, Default(s, o)) \in SignalRecord
  <2> TAKE o \in offer
  <2>1. Default(s, o) \in Choice(o)
    BY DefaultIsItem
  <2> QED
    BY <2>1 DEF DefaultIs, SignalRecord
<1>7. \A i \in 1 .. Len(d) : DefaultIs(d[i], Default(s, d[i])) \in SignalRecord
  BY <1>5, <1>6
<1>8. DefaultsChanged(s) = [i \in 1 .. Len(d) |-> DefaultIs(d[i], Default(s, d[i]))]
  BY DEF DefaultsChanged, d
<1> QED
  BY <1>5, <1>7, <1>8, IsASeq

LEMMA NothingIsTyped ==
  /\ Nothing \in [offer -> Values]
  /\ \A o \in offer : /\ Nothing[o] = NoName
                      /\ NoName \in Choice(o) /\ NoName \in Written(o)
<1> DEFINE A == UNION {Items[p] : p \in offer}
           D == UNION {Dmrcs[u][p] : u \in User, p \in offer}
<1>1. Values = A \cup D \cup {NoName}
  BY DEF Values
<1> HIDE DEF A, D
<1>2. NoName \in Values
  BY <1>1
<1>3. \A o \in offer : NoName \in Choice(o) /\ NoName \in Written(o)
  BY <1>2 DEF Choice, Written
<1> QED
  BY <1>2, <1>3 DEF Nothing

LEMMA ForUserOK ==
  ASSUME offer \in Offers, NEW s, SessionOK(s), NEW u \in Greeted
  PROVE  SessionOK(ForUser(s, u))
<1>1. \A o \in offer : Nothing[o] = NoName /\ NoName \in Choice(o)
  BY NothingIsTyped
<1>2. Nothing \in [offer -> Values]
  BY NothingIsTyped
<1> QED
  BY <1>1, <1>2 DEF ForUser, SessionOK, SessionRecord

LEMMA FreshSession ==
  ASSUME offer \in Offers
  PROVE  SessionOK(NewSession) /\ SessionOK(NoSession)
<1>1. \A o \in offer : Nothing[o] = NoName /\ NoName \in Choice(o)
  BY NothingIsTyped
<1>2. Nothing \in [offer -> Values]
  BY NothingIsTyped
<1> HIDE DEF Nothing
<1>3. SessionOK(NewSession)
  BY <1>1, <1>2 DEF NewSession, SessionOK, SessionRecord, Greeted
<1>4. NoSession \in SessionRecord
  BY <1>3 DEF NoSession, SessionOK, SessionRecord
<1>5. NoSession.sel = Nothing /\ NoSession.saved = Nothing
  BY DEF NoSession, NewSession
<1> QED
  BY <1>1, <1>3, <1>4, <1>5 DEF SessionOK

LEMMA FreshWorker ==
  WorkerOK(NoWorker) /\ WorkerOK(NewWorker)
<1>1. \A o \in offer : Nothing[o] = NoName /\ NoName \in Written(o)
  BY NothingIsTyped
<1>2. Nothing \in [offer -> Values]
  BY NothingIsTyped
<1>3. <<>> \in Seq(offer) /\ NoName \in Account
  BY DEF Account
<1> HIDE DEF Nothing
<1>4. /\ NoWorker \in WorkerRecord /\ NoWorker.settings = Nothing
      /\ NoWorker.loading = <<>> /\ NoWorker.idle = FALSE
  BY <1>2, <1>3 DEF NoWorker, WorkerRecord
<1>5. WorkerOK(NoWorker)
  BY <1>1, <1>4 DEF WorkerOK
<1>6. /\ NewWorker \in WorkerRecord /\ NewWorker.settings = Nothing
      /\ NewWorker.loading = <<>> /\ NewWorker.idle = FALSE
  BY <1>4 DEF NewWorker, WorkerRecord
<1>7. WorkerOK(NewWorker)
  BY <1>1, <1>6 DEF WorkerOK
<1> QED
  BY <1>5, <1>7

\* handle_saved_*_name_read keeps items only.
LEMMA SavesName ==
  ASSUME NEW s, SessionOK(s), NEW o \in offer, NEW x \in Choice(o), offer \in Offers
  PROVE  SessionOK([s EXCEPT !.saved[o] = x])
<1> DEFINE f == [s.saved EXCEPT ![o] = x]
           t == [s EXCEPT !.saved = f]
<1>1. x \in Values
  BY ItemFacts
<1>2. f \in [offer -> Values] /\ \A p \in offer : f[p] \in Choice(p)
  BY <1>1 DEF SessionOK, SessionRecord
<1> HIDE DEF f
<1>3. t \in SessionRecord /\ t.saved = f /\ t.sel = s.sel
  BY <1>2 DEF SessionOK, SessionRecord
<1>4. [s EXCEPT !.saved[o] = x] = t
  BY DEF f
<1> HIDE DEF t
<1> QED
  BY <1>2, <1>3, <1>4 DEF SessionOK

LEMMA SavedIsRead ==
  ASSUME IInv, NEW o \in offer, NEW x \in Written(o), SavedRead(o, x)
  PROVE  SessionOK(sess') /\ signals' \in Seq(SignalRecord)
<1>1. SessionOK(sess) /\ signals \in Seq(SignalRecord) /\ offer \in Offers
  BY DEF IInv, SlaveInv, QueueInv
<1>2. CASE ~Valid(o, x)
  <2>1. NoName \in Choice(o)
    BY DEF Choice
  <2> QED
    BY <1>1, <1>2, <2>1, SavesName DEF SavedRead
<1>3. CASE Valid(o, x) /\ x = Default(sess, o)
  BY <1>1, <1>3 DEF SavedRead
<1>4. CASE Valid(o, x) /\ x # Default(sess, o)
  <2>1. x \in Choice(o)
    <3>1. CASE o # "session"
      BY <3>1 DEF Written
    <3>2. CASE o = "session"
      <4>1. panel[o].rows \in Seq(Items[o])
        BY DEF IInv, PanelInv, WidgetOf
      <4>2. PICK i \in 1 .. Len(panel[o].rows) : panel[o].rows[i] = x
        BY <1>4, <3>2 DEF Valid
      <4> QED
        BY <4>1, <4>2, LenProperties DEF Choice
    <3> QED
      BY <3>1, <3>2
  <2>2. /\ sess' = [sess EXCEPT !.saved[o] = x]
        /\ Tell(<<DefaultIs(o, x)>>)
    BY <1>4 DEF SavedRead
  <2>3. signals' \in Seq(SignalRecord)
    BY <2>1, <2>2, PlainSignals, Tells
  <2> QED
    BY <1>1, <2>1, <2>2, <2>3, SavesName
<1> QED
  BY <1>2, <1>3, <1>4

-----------------------------------------------------------------------------
(* The slave. *)

\* What holds of everything a step leaves alone.
LEMMA Unmoved ==
  ASSUME IInv
  PROVE  /\ calls \in Seq(CallRecord) /\ signals \in Seq(SignalRecord)
         /\ inbox \in Seq(RequestRecord)
         /\ SessionOK(sess) /\ slave \in SlaveRecord /\ WorkerOK(worker)
         /\ started \in [offer -> Values] /\ offer \in Offers
BY DEF IInv, QueueInv, SlaveInv, WorkerInv, KeptInv

LEMMA Connects ==
  ASSUME NEW s, SessionOK(s), NEW b \in BOOLEAN
  PROVE  SessionOK([s EXCEPT !.conn = b]) /\ SessionOK([s EXCEPT !.missed = b])
<1> DEFINE t == [s EXCEPT !.conn = b]
           u == [s EXCEPT !.missed = b]
<1>1. t \in SessionRecord /\ t.sel = s.sel /\ t.saved = s.saved
  BY DEF SessionOK, SessionRecord
<1>2. u \in SessionRecord /\ u.sel = s.sel /\ u.saved = s.saved
  BY DEF SessionOK, SessionRecord
<1> HIDE DEF t, u
<1> QED
  BY <1>1, <1>2 DEF SessionOK, t, u

LEMMA ConversationStartedStep ==
  ASSUME IInv, UNCHANGED <<offer, greeterVars>>, ConversationStarted
  PROVE  IInv'
<1>1. /\ worker' = [worker EXCEPT !.pc = "up"]
      /\ sess' = [sess EXCEPT !.conn = TRUE]
      /\ Tell(<<Signal("Ready", NoName)>>)
      /\ UNCHANGED <<calls, slave, started, inbox, dmrc>>
  BY DEF ConversationStarted
<1>2. WorkerOK(worker')
  BY <1>1, Unmoved DEF WorkerOK, WorkerRecord
<1>3. SessionOK(sess')
  BY <1>1, Unmoved, Connects
<1>4. signals' \in Seq(SignalRecord)
  BY <1>1, PlainSignals, Tells
<1> QED
  BY <1>1, <1>2, <1>3, <1>4, Unmoved, DmrcLeft, SlaveFrame

LEMMA SelectUserStep ==
  ASSUME IInv, UNCHANGED <<offer, greeterVars>>, SelectUser
  PROVE  IInv'
<1>1. /\ UNCHANGED <<signals, sess, slave, started, inbox, workerVars>>
      /\ calls' \in Seq(CallRecord)
  BY Takes DEF SelectUser
<1> QED
  BY <1>1, Unmoved, DmrcLeft, SlaveFrame DEF workerVars

LEMMA BeginVerificationStep ==
  ASSUME IInv, UNCHANGED <<offer, greeterVars>>, BeginVerification
  PROVE  IInv'
<1>1. /\ Ask(<<Request("Setup", NoName)>>)
      /\ Tell(IF sess.conn THEN DefaultsChanged(sess) ELSE <<>>)
      /\ UNCHANGED <<sess, slave, started, workerVars>>
  BY DEF BeginVerification
<1>2. calls' \in Seq(CallRecord)
  BY Takes DEF BeginVerification
<1>3. NoName \in Account
  BY DEF Account
<1>4. inbox' \in Seq(RequestRecord)
  BY <1>1, <1>3, PlainRequests, Asks
<1>5. DefaultsChanged(sess) \in Seq(SignalRecord)
  BY Unmoved, DefaultsAreSignals
<1>6. signals' \in Seq(SignalRecord)
  BY <1>1, <1>5, PlainSignals, Tells
<1> QED
  BY <1>1, <1>2, <1>4, <1>6, Unmoved, DmrcLeft, SlaveFrame DEF workerVars

LEMMA BeginVerificationForUserStep ==
  ASSUME IInv, UNCHANGED <<offer, greeterVars>>, BeginVerificationForUser
  PROVE  IInv'
<1> DEFINE u == Head(calls).user
           s == ForUser(sess, u)
<1>1. /\ IF sess.conn
         THEN sess' = s /\ Tell(DefaultsChanged(s)) /\ Ask(<<Request("Setup", u)>>)
         ELSE UNCHANGED <<sess, signals, inbox>>
      /\ UNCHANGED <<slave, started, workerVars>>
  BY DEF BeginVerificationForUser
<1>2. /\ Head(calls) \in CallRecord /\ Head(calls).name = "BeginVerificationForUser"
      /\ calls' \in Seq(CallRecord)
  BY Takes DEF BeginVerificationForUser
<1>3. u \in User
  BY <1>2 DEF CallRecord
<1> HIDE DEF u
<1>4. u \in Greeted /\ u \in Account
  BY <1>3 DEF Greeted, Account
<1>5. SessionOK(s)
  BY <1>4, ForUserOK, Unmoved
<1> HIDE DEF s
<1>6. CASE sess.conn
  <2>1. sess' = s /\ Tell(DefaultsChanged(s)) /\ Ask(<<Request("Setup", u)>>)
    BY <1>1, <1>6
  <2>2. inbox' \in Seq(RequestRecord)
    BY <1>4, <2>1, PlainRequests, Asks
  <2>3. DefaultsChanged(s) \in Seq(SignalRecord)
    BY <1>5, Unmoved, DefaultsAreSignals
  <2>4. signals' \in Seq(SignalRecord)
    BY <2>1, <2>3, Tells
  <2> QED
    BY <1>1, <1>2, <1>5, <2>1, <2>2, <2>4, Unmoved, DmrcLeft, SlaveFrame DEF workerVars
<1>7. CASE ~sess.conn
  <2>1. UNCHANGED <<sess, signals, inbox>>
    BY <1>1, <1>7
  <2> QED
    BY <1>1, <1>2, <2>1, Unmoved, DmrcLeft, SlaveFrame DEF workerVars
<1> QED
  BY <1>6, <1>7

LEMMA AnswerQueryStep ==
  ASSUME IInv, UNCHANGED <<offer, greeterVars>>, AnswerQuery
  PROVE  IInv'
<1>1. /\ Head(calls) \in CallRecord /\ Head(calls).name = "AnswerQuery"
      /\ calls' \in Seq(CallRecord)
  BY Takes DEF AnswerQuery
<1>2. Head(calls).user \in Account
  BY <1>1 DEF CallRecord
<1>3. /\ worker' = CASE worker.step = "name?" -> [worker EXCEPT !.step = "authenticate",
                                                               !.known = Head(calls).user]
                     [] worker.step = "password?" -> [worker EXCEPT !.step = "verify"]
                     [] OTHER -> worker
      /\ UNCHANGED <<signals, sess, slave, started, inbox, dmrc>>
  BY DEF AnswerQuery
<1>4. WorkerOK(worker)
  BY Unmoved
<1>5. CASE worker.step = "name?"
  BY <1>1, <1>2, <1>3, <1>4, <1>5, Unmoved, DmrcLeft, SlaveFrame DEF WorkerOK, WorkerRecord
<1>6. CASE worker.step = "password?"
  BY <1>1, <1>2, <1>3, <1>4, <1>6, Unmoved, DmrcLeft, SlaveFrame DEF WorkerOK, WorkerRecord
<1>7. CASE worker.step \notin {"name?", "password?"}
  <2>1. worker' = worker
    BY <1>3, <1>7
  <2> QED
    BY <1>1, <1>3, <2>1, Unmoved, DmrcLeft, SlaveFrame
<1> QED
  BY <1>5, <1>6, <1>7

LEMMA Queues ==
  ASSUME IInv, NEW k \in {"reset", "authFailed"}
  PROVE  QueueReset(k) \in SlaveRecord
BY Unmoved DEF QueueReset, SlaveRecord

LEMMA CancelStep ==
  ASSUME IInv, UNCHANGED <<offer, greeterVars>>, Cancel
  PROVE  IInv'
<1>1. calls' \in Seq(CallRecord)
  BY Takes DEF Cancel
<1>2. slave' \in SlaveRecord
  BY Queues DEF Cancel
<1> QED
  BY <1>1, <1>2, Unmoved, DmrcLeft, SlaveFrame DEF Cancel, workerVars

LEMMA StartSessionWhenReadyStep ==
  ASSUME IInv, UNCHANGED <<offer, greeterVars>>, StartSessionWhenReady
  PROVE  IInv'
<1>1. calls' \in Seq(CallRecord)
  BY Takes DEF StartSessionWhenReady
<1>2. slave' \in SlaveRecord
  BY Unmoved DEF StartSessionWhenReady, SlaveRecord
<1>3. Ask(IF slave.waiting THEN <<Request("Open", NoName)>> ELSE <<>>)
  BY DEF StartSessionWhenReady
<1>4. inbox' \in Seq(RequestRecord)
  BY <1>3, PlainRequests, Asks
<1> QED
  BY <1>1, <1>2, <1>4, Unmoved, DmrcLeft, SlaveFrame DEF StartSessionWhenReady, workerVars

LEMMA SelectOptionStep ==
  ASSUME IInv, UNCHANGED <<offer, greeterVars>>, SelectOption
  PROVE  IInv'
<1> DEFINE o == Head(calls).opt
           x == Head(calls).item
           f == [sess.sel EXCEPT ![o] = x]
           b == sess.missed \/ ~sess.conn \/ GreeterBehind
           s == [[sess EXCEPT !.sel = f] EXCEPT !.missed = b]
           q(g) == [name |-> "Option", opt |-> o, item |-> NameOf(s, o), failsafe |-> g]
<1>1. /\ Head(calls) \in CallRecord /\ Head(calls).name = "Select"
      /\ calls' \in Seq(CallRecord)
  BY Takes DEF SelectOption
<1>2. o \in offer /\ x \in Items[o]
  BY <1>1 DEF CallRecord
<1>3. UNCHANGED <<signals, slave, started, workerVars>>
  BY DEF SelectOption
<1>4. CASE ~sess.made
  <2>1. UNCHANGED <<sess, inbox>>
    BY <1>4 DEF SelectOption
  <2> QED
    BY <1>1, <1>3, <2>1, Unmoved, DmrcLeft, SlaveFrame DEF workerVars
<1>5. CASE sess.made
  <2>1. /\ sess' = s
        /\ \E g \in IF o = "session" THEN IsFailsafe(NameOf(s, o)) ELSE {FALSE} :
             Ask(<<q(g)>>)
    BY <1>5 DEF SelectOption
  <2> HIDE DEF o, x, b
  <2>2. x \in Choice(o) /\ x \in Values
    BY <1>2, Unmoved, DefaultIsItem
  <2>3. f \in [offer -> Values] /\ \A p \in offer : f[p] \in Choice(p)
    BY <1>2, <2>2, Unmoved DEF SessionOK, SessionRecord
  <2>4. b \in BOOLEAN
    BY DEF b
  <2> HIDE DEF f
  <2>5. s \in SessionRecord /\ s.sel = f /\ s.saved = sess.saved
    BY <2>3, <2>4, Unmoved DEF SessionOK, SessionRecord
  <2> HIDE DEF s
  <2>6. SessionOK(s)
    BY <2>3, <2>5, Unmoved DEF SessionOK
  <2>7. NameOf(s, o) \in Items[o]
    BY <1>2, <2>6, Unmoved, DefaultIsItem
  <2>8. PICK g \in BOOLEAN : Ask(<<q(g)>>)
    BY <2>1 DEF IsFailsafe
  <2>9. q(g) \in RequestRecord
    BY <1>2, <2>7 DEF RequestRecord
  <2> HIDE DEF q
  <2>10. <<q(g)>> \in Seq(RequestRecord)
    BY <2>9
  <2>11. inbox' \in Seq(RequestRecord)
    BY <2>8, <2>10, Asks
  <2> QED
    BY <1>1, <1>3, <2>1, <2>6, <2>11, Unmoved, DmrcLeft, SlaveFrame DEF workerVars
<1> QED
  BY <1>4, <1>5

LEMMA GiveUpStep ==
  ASSUME IInv, UNCHANGED <<offer, greeterVars>>,
         NEW k \in {"reset", "authFailed"}, GiveUp(k)
  PROVE  IInv'
<1>1. SessionOK(sess') /\ WorkerOK(worker') /\ slave' \in SlaveRecord
  BY Unmoved, FreshSession, FreshWorker, Queues DEF GiveUp
<1>2. inbox' \in Seq(RequestRecord)
  BY PlainRequests DEF GiveUp
<1> QED
  BY <1>1, <1>2, Unmoved, DmrcLeft, SlaveFrame DEF GiveUp

LEMMA IdleResetStep ==
  ASSUME IInv, UNCHANGED <<offer, greeterVars>>, IdleReset
  PROVE  IInv'
<1>1. SessionOK(sess') /\ WorkerOK(worker')
  BY Unmoved, FreshSession, FreshWorker DEF IdleReset
<1>2. slave.convs + 1 \in 1 .. MaxConversations
  BY Unmoved, OptionsAssumption DEF IdleReset, SlaveRecord
<1>3. slave' \in SlaveRecord
  BY <1>2, Unmoved DEF IdleReset, SlaveRecord
<1>4. inbox' \in Seq(RequestRecord)
  BY PlainRequests DEF IdleReset
<1>5. Tell(<<Signal(IF slave.idle = "reset" THEN "Reset" ELSE "AuthenticationFailed", NoName)>>)
  BY DEF IdleReset
<1>6. signals' \in Seq(SignalRecord)
  BY <1>5, PlainSignals, Tells
<1> QED
  BY <1>1, <1>3, <1>4, <1>6, Unmoved, DmrcLeft, SlaveFrame DEF IdleReset

LEMMA IdleStartStep ==
  ASSUME IInv, UNCHANGED <<offer, greeterVars>>, IdleStart
  PROVE  IInv'
<1>1. slave' \in SlaveRecord
  BY Unmoved DEF IdleStart, SlaveRecord
<1>2. \A o \in offer : NameOf(sess, o) \in Values
  <2> TAKE o \in offer
  <2>1. NameOf(sess, o) \in Items[o] /\ Items[o] \subseteq Values
    BY Unmoved, DefaultIsItem
  <2> QED
    BY <2>1
<1>3. started' \in [offer -> Values]
  BY <1>2 DEF IdleStart
<1>4. Ask(<<Request("Start", NoName)>>)
  BY DEF IdleStart
<1>5. inbox' \in Seq(RequestRecord)
  BY <1>4, PlainRequests, Asks
<1>6. calls' \in Seq(CallRecord)
  <2>1. CASE calls = <<>>
    BY <2>1, Unmoved DEF IdleStart
  <2>2. CASE calls # <<>>
    <3>1. Head(calls) \in CallRecord
      BY <2>2, Unmoved, HeadTailProperties
    <3> QED
      BY <2>2, <3>1 DEF IdleStart
  <2> QED
    BY <2>1, <2>2
<1>7. signals' \in Seq(SignalRecord)
  BY PlainSignals DEF IdleStart
<1>8. SessionOK(sess')
  <2>1. (sess.missed \/ calls # <<>>) \in BOOLEAN
    OBVIOUS
  <2>2. sess' = [sess EXCEPT !.missed = (sess.missed \/ calls # <<>>)]
    BY DEF IdleStart
  <2> QED
    BY <2>1, <2>2, Unmoved, Connects
<1> QED
  BY <1>1, <1>3, <1>5, <1>6, <1>7, <1>8, Unmoved, DmrcLeft, SlaveFrame
     DEF IdleStart, workerVars

-----------------------------------------------------------------------------
(* The worker. *)

\* A setting read from the dmrc or set by the user.
LEMMA SetsSetting ==
  ASSUME NEW w, WorkerOK(w), NEW o \in offer, NEW x \in Written(o), offer \in Offers,
         NEW b \in BOOLEAN
  PROVE  LET v == [w EXCEPT !.settings[o] = x, !.failsafe = b]
         IN  WorkerOK(v) /\ v.name = w.name /\ v.step = w.step
<1> DEFINE f == [w.settings EXCEPT ![o] = x]
           v == [[w EXCEPT !.settings = f] EXCEPT !.failsafe = b]
<1>1. x \in Values
  BY ItemFacts
<1>2. f \in [offer -> Values] /\ \A p \in offer : f[p] \in Written(p)
  BY <1>1 DEF WorkerOK, WorkerRecord
<1>3. [w EXCEPT !.settings[o] = x, !.failsafe = b] = v
  OBVIOUS
<1> HIDE DEF f
<1>4. /\ v \in WorkerRecord /\ v.settings = f
      /\ v.loading = w.loading /\ v.idle = w.idle
      /\ v.name = w.name /\ v.step = w.step /\ v.state = w.state
  BY <1>2 DEF WorkerOK, WorkerRecord
<1> HIDE DEF v
<1> QED
  BY <1>2, <1>3, <1>4 DEF WorkerOK

LEMMA Requested ==
  ASSUME IInv, inbox # <<>>
  PROVE  Head(inbox) \in RequestRecord /\ Tail(inbox) \in Seq(RequestRecord)
BY HeadTailProperties DEF IInv, QueueInv

LEMMA OnRequestStep ==
  ASSUME IInv, UNCHANGED <<offer, greeterVars>>, OnRequest
  PROVE  IInv'
<1> DEFINE m == Head(inbox)
<1>1. /\ m \in RequestRecord /\ m.name # "Option" /\ inbox' \in Seq(RequestRecord)
      /\ worker.step = "none"
  BY Requested DEF OnRequest, Listening
<1>2. /\ m.name \in {"Setup", "Authenticate", "Open", "Start"}
      /\ m.name = "Setup" => m.user \in Account
  BY <1>1 DEF RequestRecord
<1>3. UNCHANGED <<calls, signals, slaveVars, dmrc>>
  BY DEF OnRequest
<1>4. worker' = IF worker.state # Needs[m.name] THEN worker
                ELSE [worker EXCEPT !.idle = TRUE,
                                    !.name = IF m.name = "Setup" THEN m.user ELSE @]
  BY DEF OnRequest
<1>5. Needs[m.name] # "started"
  BY <1>2 DEF Needs
<1> HIDE DEF m
<1>6. WorkerOK(worker')
  <2>1. CASE worker.state # Needs[m.name]
    BY <1>4, <2>1, Unmoved
  <2>2. CASE worker.state = Needs[m.name]
    <3>1. PICK n : n = IF m.name = "Setup" THEN m.user ELSE worker.name
      OBVIOUS
    <3>2. n \in Account
      BY <1>2, <3>1, Unmoved DEF WorkerOK, WorkerRecord
    <3>3. worker' = [worker EXCEPT !.idle = TRUE, !.name = n]
      BY <1>4, <2>2, <3>1
    <3>4. worker.loading = <<>> /\ worker.state # "started"
      BY <1>1, <1>5, <2>2, Unmoved DEF WorkerOK
    <3> QED
      BY <1>1, <3>2, <3>3, <3>4, Unmoved DEF WorkerOK, WorkerRecord
  <2> QED
    BY <2>1, <2>2
<1> QED
  BY <1>1, <1>3, <1>6, Unmoved, DmrcLeft, SlaveFrame DEF slaveVars

LEMMA OnSetOptionStep ==
  ASSUME IInv, UNCHANGED <<offer, greeterVars>>, OnSetOption
  PROVE  IInv'
<1> DEFINE m == Head(inbox)
           o == m.opt
           b == IF o = "session" THEN m.failsafe ELSE worker.failsafe
           w == [worker EXCEPT !.settings[o] = m.item, !.failsafe = b]
<1>1. /\ m \in RequestRecord /\ m.name = "Option" /\ inbox' \in Seq(RequestRecord)
  BY Requested DEF OnSetOption
<1>2. o \in offer /\ m.item \in Items[o] /\ m.failsafe \in BOOLEAN
  BY <1>1 DEF RequestRecord
<1>3. UNCHANGED <<calls, slave, started, dmrc>>
  BY DEF OnSetOption
<1>4. CASE ~worker.made
  <2>1. sess' = [sess EXCEPT !.missed = TRUE] /\ UNCHANGED <<worker, signals>>
    BY <1>4 DEF OnSetOption
  <2>2. SessionOK(sess')
    BY <2>1, Connects, Unmoved
  <2> QED
    BY <1>1, <1>3, <2>1, <2>2, Unmoved, DmrcLeft, SlaveFrame
<1>5. CASE worker.made
  <2>1. /\ worker' = w
        /\ IF worker.settings[o] # m.item THEN SavedRead(o, m.item)
           ELSE UNCHANGED <<sess, signals>>
    BY <1>5 DEF OnSetOption
  <2>2. b \in BOOLEAN
    BY <1>2, Unmoved DEF WorkerOK, WorkerRecord
  <2> HIDE DEF m, o, b
  <2>3. m.item \in Written(o)
    BY <1>2, ItemFacts, Unmoved DEF Choice
  <2>4. WorkerOK(worker')
    BY <1>2, <2>1, <2>2, <2>3, SetsSetting, Unmoved
  <2>5. SessionOK(sess') /\ signals' \in Seq(SignalRecord)
    BY <1>2, <2>1, <2>3, SavedIsRead, Unmoved
  <2> QED
    BY <1>1, <1>3, <2>4, <2>5, Unmoved, DmrcLeft, SlaveFrame
<1> QED
  BY <1>4, <1>5

\* Only the settings an account has are read.
LEMMA LoadsTyped ==
  ASSUME NEW u \in Account
  PROVE  Loads(u) \in Seq(offer) /\ (Loads(u) # <<>> => u \in User \ {NoName})
<1> DEFINE h(o) == Only(o, u # NoName /\ dmrc[u][o] # NoName)
<1>1. \A o : h(o) \in Seq(offer)
  <2> TAKE o
  <2>1. <<>> \in Seq(offer)
    OBVIOUS
  <2>2. CASE o \in offer /\ (u # NoName /\ dmrc[u][o] # NoName)
    BY <2>2 DEF Only
  <2>3. CASE ~(o \in offer /\ (u # NoName /\ dmrc[u][o] # NoName))
    BY <2>1, <2>3 DEF Only
  <2> QED
    BY <2>2, <2>3
<1>2. Loads(u) = h("session") \o h("language") \o h("layout")
  BY DEF Loads
<1>3. CASE u \in User \ {NoName}
  <2> HIDE DEF h
  <2> QED
    BY <1>1, <1>2, <1>3, ConcatProperties
<1>4. CASE u = NoName
  <2>1. \A o : h(o) = <<>>
    BY <1>4 DEF Only
  <2>2. Loads(u) = <<>> \o <<>> \o <<>>
    BY <1>2, <2>1
  <2>3. <<>> \in Seq(offer)
    OBVIOUS
  <2>4. <<>> \o <<>> = <<>>
    BY <2>3, ConcatEmptySeq
  <2>5. Loads(u) = <<>>
    BY <2>2, <2>4
  <2> QED
    BY <2>3, <2>5
<1> QED
  BY <1>3, <1>4 DEF Account

\* A step of the worker that only moves the worker.
LEMMA WorkerMoves ==
  ASSUME IInv, UNCHANGED <<offer, greeterVars, calls, signals, slaveVars, inbox, dmrc>>,
         WorkerOK(worker')
  PROVE  IInv'
BY Unmoved, DmrcLeft, SlaveFrame DEF slaveVars

LEMMA StateChangeIdleStep ==
  ASSUME IInv, UNCHANGED <<offer, greeterVars>>, StateChangeIdle
  PROVE  IInv'
<1>1. WorkerOK(worker) /\ worker.idle /\ worker.loading = <<>>
  BY Unmoved DEF StateChangeIdle, Listening, WorkerOK
<1>2. worker.state \in {"none", "setup", "authenticated", "opened"}
  BY <1>1 DEF WorkerOK, WorkerRecord
<1>3. WorkerOK(worker')
  <2>1. CASE worker.state = "none"
    <3> DEFINE l == Loads(worker.name)
               n == Nothing
    <3>1. worker' = [worker EXCEPT !.idle = FALSE, !.step = "setup", !.known = worker.name,
                                   !.made = TRUE, !.settings = n, !.loading = l]
      BY <2>1 DEF StateChangeIdle
    <3>2. l \in Seq(offer) /\ (l # <<>> => worker.name \in User \ {NoName})
      BY <1>1, LoadsTyped DEF WorkerOK, WorkerRecord
    <3>3. n \in [offer -> Values] /\ \A o \in offer : n[o] \in Written(o)
      BY NothingIsTyped
    <3> HIDE DEF l, n
    <3>4. /\ worker' \in WorkerRecord /\ worker'.settings = n /\ worker'.loading = l
          /\ worker'.name = worker.name /\ worker'.step = "setup" /\ worker'.idle = FALSE
      BY <1>1, <3>1, <3>2, <3>3 DEF WorkerOK, WorkerRecord
    <3> QED
      BY <3>2, <3>3, <3>4 DEF WorkerOK
  <2>2. CASE worker.state = "setup"
    BY <1>1, <2>2 DEF StateChangeIdle, WorkerOK, WorkerRecord
  <2>3. CASE worker.state = "authenticated"
    BY <1>1, <2>3 DEF StateChangeIdle, WorkerOK, WorkerRecord
  <2>4. CASE worker.state = "opened"
    BY <1>1, <2>4 DEF StateChangeIdle, WorkerOK, WorkerRecord
  <2> QED
    BY <1>2, <2>1, <2>2, <2>3, <2>4
<1> QED
  BY <1>3, WorkerMoves DEF StateChangeIdle

LEMMA LoadSettingStep ==
  ASSUME IInv, UNCHANGED <<offer, greeterVars>>, LoadSetting
  PROVE  IInv'
<1> DEFINE o == Head(worker.loading)
           x == dmrc[worker.name][o]
           l == Tail(worker.loading)
           w == [worker EXCEPT !.settings[o] = x, !.failsafe = FALSE]
           v == [w EXCEPT !.loading = l]
<1>1. /\ worker' = [worker EXCEPT !.loading = l, !.settings[o] = x, !.failsafe = FALSE]
      /\ SavedRead(o, x)
      /\ UNCHANGED <<calls, slave, started, inbox, dmrc>>
  BY DEF LoadSetting
<1>2. /\ worker.loading \in Seq(offer) /\ worker.loading # <<>>
      /\ worker.name \in User \ {NoName} /\ worker.step \in {"setup", "authenticate"}
  BY Unmoved DEF LoadSetting, WorkerOK, WorkerRecord
<1>3. o \in offer /\ l \in Seq(offer)
  BY <1>2, HeadTailProperties
<1>4. x \in Written(o)
  BY <1>2, <1>3 DEF IInv, DmrcInv
<1>5. worker' = v
  <2> DEFINE f == [worker.settings EXCEPT ![o] = x]
  <2>1. worker' = [worker EXCEPT !.loading = l, !.settings = f, !.failsafe = FALSE]
    BY <1>1
  <2>2. v = [[worker EXCEPT !.settings = f, !.failsafe = FALSE] EXCEPT !.loading = l]
    OBVIOUS
  <2>3. worker \in WorkerRecord
    BY Unmoved DEF WorkerOK
  <2> HIDE DEF f, l, v
  <2> QED
    BY <2>1, <2>2, <2>3 DEF WorkerRecord
<1> HIDE DEF o, x, l
<1>6. SessionOK(sess') /\ signals' \in Seq(SignalRecord)
  BY <1>1, <1>3, <1>4, SavedIsRead
<1>7. /\ WorkerOK(w) /\ w.name = worker.name /\ w.step = worker.step
  BY <1>3, <1>4, Unmoved, SetsSetting
<1> HIDE DEF w
<1>8. WorkerOK(v)
  BY <1>2, <1>3, <1>7 DEF WorkerOK, WorkerRecord
<1> QED
  BY <1>1, <1>5, <1>6, <1>8, Unmoved, DmrcLeft, SlaveFrame

LEMMA SetupCompleteStep ==
  ASSUME IInv, UNCHANGED <<offer, greeterVars>>, SetupComplete
  PROVE  IInv'
<1>1. WorkerOK(worker')
  BY Unmoved DEF SetupComplete, Doing, WorkerOK, WorkerRecord
<1>2. Ask(<<Request("Authenticate", NoName)>>)
  BY DEF SetupComplete
<1>3. inbox' \in Seq(RequestRecord)
  BY <1>2, PlainRequests, Asks
<1> QED
  BY <1>1, <1>3, Unmoved, DmrcLeft, SlaveFrame DEF SetupComplete, slaveVars

LEMMA UpdateUsernameStep ==
  ASSUME IInv, UNCHANGED <<offer, greeterVars>>, UpdateUsername
  PROVE  IInv'
<1> DEFINE u == worker.known
           s == ForUser(sess, u)
<1>1. /\ worker.step = "authenticate" /\ worker.loading = <<>>
      /\ UNCHANGED <<calls, slave, started, inbox, dmrc>>
  BY DEF UpdateUsername, Doing
<1>2. /\ sess' = s
      /\ Tell(<<Signal("SelectedUserChanged", u)>> \o DefaultsChanged(s))
  BY DEF UpdateUsername, UsernameChanged
<1>3. PICK l : l = IF worker.settings = Nothing THEN Loads(u) ELSE <<>>
  OBVIOUS
<1>4. worker' = [worker EXCEPT !.name = u, !.loading = l]
  BY <1>3 DEF UpdateUsername
<1>5. u \in Account /\ u \in Greeted
  BY Unmoved DEF WorkerOK, WorkerRecord, Account, Greeted
<1>6. l \in Seq(offer) /\ (l # <<>> => u \in User \ {NoName})
  <2>1. <<>> \in Seq(offer)
    OBVIOUS
  <2> QED
    BY <1>3, <1>5, <2>1, LoadsTyped
<1> HIDE DEF u, s
<1>7. SessionOK(s)
  BY <1>5, ForUserOK, Unmoved DEF s
<1>8. signals' \in Seq(SignalRecord)
  <2> DEFINE a == <<Signal("SelectedUserChanged", u)>>
             d == DefaultsChanged(s)
  <2>1. a \in Seq(SignalRecord)
    BY <1>5, PlainSignals
  <2>2. d \in Seq(SignalRecord)
    BY <1>7, Unmoved, DefaultsAreSignals
  <2> HIDE DEF a, d
  <2>3. a \o d \in Seq(SignalRecord)
    BY <2>1, <2>2, ConcatProperties
  <2>4. Tell(a \o d)
    BY <1>2 DEF a, d
  <2> QED
    BY <2>3, <2>4, Tells
<1>9. WorkerOK(worker')
  BY <1>1, <1>4, <1>5, <1>6, Unmoved DEF WorkerOK, WorkerRecord
<1> QED
  BY <1>1, <1>2, <1>7, <1>8, <1>9, Unmoved, DmrcLeft, SlaveFrame

LEMMA AskQuestionStep ==
  ASSUME IInv, UNCHANGED <<offer, greeterVars>>, AskQuestion
  PROVE  IInv'
<1>1. PICK what \in {"name", "password"} :
        /\ worker' = [worker EXCEPT !.step = IF what = "name" THEN "name?" ELSE "password?"]
        /\ Tell(<<Signal("Query", what)>>)
  BY DEF AskQuestion
<1>2. WorkerOK(worker')
  <2>1. worker.step = "authenticate" /\ worker.loading = <<>> /\ WorkerOK(worker)
    BY Unmoved DEF AskQuestion, Doing
  <2>2. CASE what = "name"
    BY <1>1, <2>1, <2>2 DEF WorkerOK, WorkerRecord
  <2>3. CASE what # "name"
    BY <1>1, <2>1, <2>3 DEF WorkerOK, WorkerRecord
  <2> QED
    BY <2>2, <2>3
<1>3. signals' \in Seq(SignalRecord)
  BY <1>1, PlainSignals, Tells
<1> QED
  BY <1>2, <1>3, Unmoved, DmrcLeft, SlaveFrame DEF AskQuestion, slaveVars

LEMMA PamAcceptsStep ==
  ASSUME IInv, UNCHANGED <<offer, greeterVars>>, PamAccepts
  PROVE  IInv'
<1>1. WorkerOK(worker')
  BY Unmoved DEF PamAccepts, Doing, WorkerOK, WorkerRecord
<1> QED
  BY <1>1, WorkerMoves DEF PamAccepts

LEMMA AuthorizedStep ==
  ASSUME IInv, UNCHANGED <<offer, greeterVars>>, Authorized
  PROVE  IInv'
<1>1. WorkerOK(worker')
  BY Unmoved DEF Authorized, Doing, WorkerOK, WorkerRecord
<1>2. slave' \in SlaveRecord
  BY Unmoved DEF Authorized, SlaveRecord
<1>3. /\ Tell(<<Signal("UserAuthorized", NoName)>>)
      /\ Ask(IF slave.ready THEN <<Request("Open", NoName)>> ELSE <<>>)
  BY DEF Authorized
<1>4. signals' \in Seq(SignalRecord) /\ inbox' \in Seq(RequestRecord)
  BY <1>3, PlainSignals, PlainRequests, Tells, Asks
<1> QED
  BY <1>1, <1>2, <1>4, Unmoved, DmrcLeft, SlaveFrame DEF Authorized

LEMMA OpenedStep ==
  ASSUME IInv, UNCHANGED <<offer, greeterVars>>, Opened
  PROVE  IInv'
<1>1. WorkerOK(worker')
  BY Unmoved DEF Opened, Doing, WorkerOK, WorkerRecord
<1>2. slave' \in SlaveRecord
  BY Unmoved DEF Opened, SlaveRecord
<1> QED
  BY <1>1, <1>2, Unmoved, DmrcLeft, SlaveFrame DEF Opened

\* What is written is what was set, and what was there where nothing was.
LEMMA StartSessionStep ==
  ASSUME IInv, UNCHANGED <<offer, greeterVars>>, StartSession
  PROVE  IInv'
<1>1. /\ worker' = [worker EXCEPT !.step = "none", !.state = "started"]
      /\ worker.step = "start"
      /\ UNCHANGED <<calls, signals, slaveVars, inbox>>
  BY DEF StartSession, Doing
<1>2. WorkerOK(worker')
  BY <1>1, Unmoved DEF WorkerOK, WorkerRecord
<1> DEFINE row == dmrc[worker.name]
           new == IF ~worker.failsafe
                  THEN [o \in offer |-> IF worker.settings[o] # NoName
                                        THEN worker.settings[o] ELSE row[o]]
                  ELSE row
<1>3. dmrc' = [dmrc EXCEPT ![worker.name] = new]
  BY DEF StartSession
<1>4. ASSUME worker.name \in User
      PROVE  new \in [offer -> Values] /\ \A o \in offer : new[o] \in Written(o)
  <2>1. row \in [offer -> Values] /\ \A o \in offer : row[o] \in Written(o)
    BY <1>4 DEF IInv, DmrcInv
  <2>2. /\ worker.settings \in [offer -> Values]
        /\ \A o \in offer : worker.settings[o] \in Written(o)
    BY Unmoved DEF WorkerOK, WorkerRecord
  <2> HIDE DEF row
  <2> QED
    BY <2>1, <2>2
<1> HIDE DEF new
<1>5. /\ dmrc' \in [User -> [offer -> Values]]
      /\ \A u \in User, o \in offer : dmrc'[u][o] \in Written(o)
  BY <1>3, <1>4 DEF IInv, DmrcInv
<1>6. DmrcInv'
  BY <1>5, SameSets DEF DmrcInv, Written, Choice
<1> QED
  BY <1>1, <1>2, <1>6, Unmoved, SlaveFrame DEF slaveVars

-----------------------------------------------------------------------------
(* The theorems. *)

LEMMA Initially ==
  ASSUME Init
  PROVE  IInv
<1>1. offer \in Offers
  BY DEF Init
<1>2. PanelInv
  <2> DEFINE first(o) == IF o = "session" \/ Recent[o] = <<>> THEN NoName ELSE Head(Recent[o])
  <2>1. panel = [o \in offer |-> NewWidget(Recent[o], first(o))]
    BY DEF Init
  <2>2. \A o \in offer : NewWidget(Recent[o], first(o)) \in WidgetOf(Items[o])
    <3> TAKE o \in offer
    <3>1. Recent[o] \in Seq(Items[o])
      BY <1>1, ItemFacts
    <3>2. first(o) \in Items[o] \cup {NoName}
      BY <3>1, HeadTailProperties
    <3> HIDE DEF first
    <3> QED
      BY <3>1, <3>2 DEF NewWidget, WidgetOf
  <2> HIDE DEF first
  <2> QED
    BY <2>1, <2>2 DEF PanelInv
<1>3. QueueInv
  BY DEF Init, QueueInv
<1>4. WindowInv
  <2>1. 0 \in 0 .. MaxTries - 1
    BY OptionsAssumption
  <2> QED
    BY <2>1 DEF Init, WindowInv, WindowRecord, Greeted
<1>5. SlaveInv
  <2>1. slave \in SlaveRecord
    BY OptionsAssumption DEF Init, SlaveRecord
  <2> QED
    BY <1>1, <2>1, FreshSession DEF Init, SlaveInv
<1>6. WorkerInv
  BY FreshWorker DEF Init, WorkerInv
<1>7. DmrcInv
  <2>1. /\ dmrc \in [User -> [offer -> Values]]
        /\ \A u \in User, o \in offer : dmrc[u][o] \in Dmrcs[u][o]
    BY DEF Init
  <2>2. \A u \in User, o \in offer : dmrc[u][o] \in Written(o)
    <3> TAKE u \in User, o \in offer
    <3>1. CASE o = "session"
      BY <2>1, <3>1 DEF Written
    <3>2. CASE o # "session"
      BY <1>1, <2>1, <3>2, DmrcsAssumption DEF Written, Choice
    <3> QED
      BY <3>1, <3>2
  <2> QED
    BY <2>1, <2>2 DEF DmrcInv
<1>8. KeptInv
  <2>1. started = Nothing /\ picked = Nothing
    BY DEF Init
  <2>2. "session" \in offer => ~panel["session"].dialog /\ ~panel["session"].stale
    BY DEF Init, NewWidget
  <2> QED
    BY <2>1, <2>2, NothingIsTyped DEF KeptInv
<1> QED
  BY <1>1, <1>2, <1>3, <1>4, <1>5, <1>6, <1>7, <1>8 DEF IInv

LEMMA Steps ==
  ASSUME IInv, [Next]_vars
  PROVE  IInv'
<1>1. CASE UNCHANGED vars
  <2>1. UNCHANGED <<offer, greeterVars, calls, signals, slaveVars, inbox, dmrc, worker>>
    BY <1>1 DEF vars, greeterVars, slaveVars, workerVars
  <2> QED
    BY <2>1, Unmoved, WorkerMoves
<1>2. CASE Next
  <2>1. UNCHANGED offer
    BY <1>2 DEF Next
  <2>2. CASE (UserStep \/ GreeterStep) /\ UNCHANGED <<slaveVars, workerVars, inbox>>
    <3>1. CASE UserStep
      BY <2>1, <2>2, <3>1, ChooseUserStep, AnswerQuestionStep, DoCancelStep, PickItemStep,
         PickOtherStep, DialogOkStep, DialogCancelledStep DEF UserStep
    <3>2. CASE GreeterStep
      BY <2>1, <2>2, <3>2, OnReadyStep, OnResetStep, OnAuthenticationFailedStep, OnQueryStep,
         OnUserAuthorizedStep, OnSelectedUserChangedStep, OnDefaultChangedStep,
         RecentsNotifiedStep DEF GreeterStep
    <3> QED
      BY <2>2, <3>1, <3>2
  <2>3. CASE /\ ConversationStarted \/ FromGreeter \/ IdleReset \/ IdleStart \/ WorkerStep
             /\ UNCHANGED greeterVars
    <3>1. CASE FromGreeter
      BY <2>1, <2>3, <3>1, SelectUserStep, BeginVerificationStep, BeginVerificationForUserStep,
         AnswerQueryStep, CancelStep, StartSessionWhenReadyStep, SelectOptionStep
         DEF FromGreeter
    <3>2. CASE PamRefuses \/ OpenFails
      BY <2>1, <2>3, <3>2, GiveUpStep DEF PamRefuses, OpenFails
    <3>3. CASE WorkerStep /\ ~(PamRefuses \/ OpenFails)
      BY <2>1, <2>3, <3>3, OnRequestStep, OnSetOptionStep, StateChangeIdleStep,
         LoadSettingStep, SetupCompleteStep, UpdateUsernameStep, AskQuestionStep,
         PamAcceptsStep, AuthorizedStep, OpenedStep, StartSessionStep DEF WorkerStep
    <3>4. CASE ConversationStarted \/ IdleReset \/ IdleStart
      BY <2>1, <2>3, <3>4, ConversationStartedStep, IdleResetStep, IdleStartStep
    <3> QED
      BY <2>3, <3>1, <3>2, <3>3, <3>4
  <2> QED
    BY <1>2, <2>2, <2>3 DEF Next
<1> QED
  BY <1>1, <1>2

\* The inductive invariant: lists, messages, the three copies of each option and
\* the stored settings hold items, and the chosen session type is the one shown.
THEOREM Invariant == Spec => []IInv
<1>1. Init => IInv
  BY Initially
<1>2. IInv /\ [Next]_vars => IInv'
  BY Steps
<1> QED
  BY <1>1, <1>2, PTL DEF Spec

\* Whatever PAM, the user and MateConf do, the panel shows rows that exist, the
\* slave starts sessions with values that were stored or exist, and the number of
\* failed tries stays below MAX_LOGIN_TRIES.
THEOREM TypeCorrect == Spec => []TypeOK
<1>1. IInv => TypeOK
  <2> SUFFICES ASSUME IInv
               PROVE  TypeOK
    OBVIOUS
  <2>1. \A o \in offer : panel[o] \in WidgetOf(Items[o])
    BY DEF IInv, PanelInv
  <2>2. SessionOK(sess) /\ WorkerOK(worker) /\ slave \in SlaveRecord
    BY Unmoved
  <2>3. window \in WindowRecord /\ dmrc \in [User -> [offer -> Values]]
    BY DEF IInv, WindowInv, DmrcInv
  <2>4. started \in [offer -> Values] /\ picked \in [offer -> Values] /\ offer \in Offers
    BY DEF IInv, KeptInv
  <2> QED
    BY <2>1, <2>2, <2>3, <2>4
       DEF TypeOK, WidgetOf, SessionOK, SessionRecord, WorkerOK, WorkerRecord, SlaveRecord,
           WindowRecord, Greeted, Account
<1> QED
  BY <1>1, Invariant, PTL

\* The session type the user chose stays the row that is shown, through failed
\* tries, resets and the defaults of other accounts (mdm-option-widget.c:307-321).
THEOREM KeptOnRetry_Holds == Spec => []KeptOnRetry
<1>1. IInv => KeptOnRetry
  BY DEF IInv, KeptInv, KeptOnRetry
<1> QED
  BY <1>1, Invariant, PTL

-----------------------------------------------------------------------------
(***************************************************************************)
(* What is remembered for the next login.  A choice goes from the list to    *)
(* the slave in a call, from there to the worker in a request, and into the  *)
(* dmrc when the session starts.                                            *)
(***************************************************************************)

\* The session types a list has: no step adds one or takes one away.
Sessions == {Recent["session"][i] : i \in 1 .. Len(Recent["session"])}

\* The choice of a session type that a call carries is one of the list.
SoundCall ==
  {c \in CallRecord : c.name = "Select" /\ c.opt = "session" => c.item \in Sessions}
ListInv ==
  "session" \in offer =>
    /\ panel["session"] \in WidgetOf(Sessions)
    /\ panel["session"].rows = Recent["session"]
    /\ calls \in Seq(SoundCall)
    /\ sess.sel["session"] \in Sessions \cup {NoName}

\* The worker has settings from do_setup on; what is being loaded is not yet set,
\* or was loaded from the same file.
MadeInv ==
  /\ worker.made <=> worker.state # "none" \/ worker.step # "none"
  /\ ~worker.made => worker.settings = Nothing
  /\ worker.loading # <<>> =>
       \A o \in offer : worker.settings[o] \in {NoName, dmrc[worker.name][o]}

\* An account is only replaced where there was none.
NameInv ==
  /\ worker.made /\ worker.known # worker.name => worker.name = NoName
  /\ worker.step = "name?" => worker.name = NoName
  /\ worker.step \in {"password?", "verify", "verified", "open", "start"}
       => worker.name # NoName
  /\ worker.state \in {"authenticated", "opened"} => worker.name # NoName

BookInv == MadeInv /\ NameInv /\ (sess.conn => worker.pc = "up")

\* The requests for an option: none, or the last is for x.
IsOption(m, o) == m.name = "Option" /\ m.opt = o
Without(s, o) == \A i \in 1 .. Len(s) : ~IsOption(s[i], o)
LastIs(s, o, x) ==
  \E i \in 1 .. Len(s) :
    /\ IsOption(s[i], o) /\ s[i].item = x
    /\ \A j \in i + 1 .. Len(s) : ~IsOption(s[j], o)

\* What was chosen is what the worker will have set when it has read its inbox.
SentInv ==
  ~sess.missed =>
    \A o \in offer : sess.sel[o] # NoName =>
      \/ LastIs(inbox, o, sess.sel[o])
      \/ Without(inbox, o) /\ worker.made /\ worker.settings[o] = sess.sel[o]

\* From the request to start on nobody makes another choice, and none is under
\* way behind it.
Launching == (worker.idle /\ worker.state = "opened") \/ worker.step = "start"
HasStart(s) == \E i \in 1 .. Len(s) : s[i].name = "Start"
NoneBehind(s) ==
  \A i, j \in 1 .. Len(s) : s[i].name = "Start" /\ s[j].name = "Option" => j < i
NoneLeft(s) == \A i \in 1 .. Len(s) : s[i].name # "Option"
OrderInv ==
  offer # {} /\ (Launching \/ HasStart(inbox)) =>
    /\ started # Nothing
    /\ ~sess.missed =>
         calls = <<>> /\ NoneBehind(inbox) /\ (Launching => NoneLeft(inbox))

\* A session that says that it is failsafe is set as such, unless it is the one
\* the account has already.
MarkedRequest ==
  {m \in RequestRecord : IsOption(m, "session") /\ m.item \in SaysFailsafe => m.failsafe}
FailsafeInv ==
  "session" \in offer =>
    /\ inbox \in Seq(MarkedRequest)
    /\ LET x == worker.settings["session"] IN
       x # NoName /\ x \in SaysFailsafe /\ ~worker.failsafe
         => worker.name # NoName /\ x = dmrc[worker.name]["session"]

ChoiceInv == ListInv /\ BookInv /\ SentInv /\ OrderInv /\ FailsafeInv

(* Requests that are sent and read. *)

LEMMA Longer ==
  ASSUME NEW S, NEW s \in Seq(S), NEW m \in S
  PROVE  /\ Append(s, m) \in Seq(S)
         /\ Len(s) \in Nat /\ Len(Append(s, m)) = Len(s) + 1
         /\ Append(s, m)[Len(s) + 1] = m
         /\ \A i \in 1 .. Len(s) : Append(s, m)[i] = s[i]
BY AppendProperties, LenProperties

LEMMA Shorter ==
  ASSUME NEW S, NEW s \in Seq(S), s # <<>>
  PROVE  /\ Tail(s) \in Seq(S) /\ Head(s) \in S /\ Head(s) = s[1]
         /\ Len(s) \in Nat /\ Len(s) >= 1 /\ Len(Tail(s)) = Len(s) - 1
         /\ \A i \in 1 .. Len(s) - 1 : Tail(s)[i] = s[i + 1]
<1>1. Len(s) \in Nat /\ Len(s) # 0
  BY LenProperties, EmptySeq
<1> QED
  BY <1>1, HeadTailProperties

LEMMA SendsOther ==
  ASSUME NEW S, NEW s \in Seq(S), NEW m \in S, NEW o, NEW x, ~IsOption(m, o)
  PROVE  /\ LastIs(s, o, x) => LastIs(Append(s, m), o, x)
         /\ Without(s, o) => Without(Append(s, m), o)
<1> DEFINE t == Append(s, m)
<1>1. /\ Len(s) \in Nat /\ Len(t) = Len(s) + 1 /\ t[Len(s) + 1] = m
      /\ \A i \in 1 .. Len(s) : t[i] = s[i]
  BY Longer
<1> HIDE DEF t
<1>2. LastIs(s, o, x) => LastIs(t, o, x)
  <2> SUFFICES ASSUME LastIs(s, o, x)
               PROVE  LastIs(t, o, x)
    OBVIOUS
  <2>1. PICK i \in 1 .. Len(s) :
          /\ IsOption(s[i], o) /\ s[i].item = x
          /\ \A j \in i + 1 .. Len(s) : ~IsOption(s[j], o)
    BY DEF LastIs
  <2>2. i \in 1 .. Len(t) /\ t[i] = s[i]
    BY <1>1
  <2>3. \A j \in i + 1 .. Len(t) : ~IsOption(t[j], o)
    <3> TAKE j \in i + 1 .. Len(t)
    <3>1. CASE j = Len(s) + 1
      BY <1>1, <3>1
    <3>2. CASE j # Len(s) + 1
      <4>1. j \in i + 1 .. Len(s) /\ j \in 1 .. Len(s)
        BY <1>1, <3>2
      <4> QED
        BY <1>1, <2>1, <4>1
    <3> QED
      BY <3>1, <3>2
  <2> QED
    BY <2>1, <2>2, <2>3 DEF LastIs
<1>3. Without(s, o) => Without(t, o)
  <2> SUFFICES ASSUME Without(s, o), NEW i \in 1 .. Len(t)
               PROVE  ~IsOption(t[i], o)
    BY DEF Without
  <2>1. CASE i = Len(s) + 1
    BY <1>1, <2>1
  <2>2. CASE i # Len(s) + 1
    <3>1. i \in 1 .. Len(s)
      BY <1>1, <2>2
    <3> QED
      BY <1>1, <3>1 DEF Without
  <2> QED
    BY <2>1, <2>2
<1> QED
  BY <1>2, <1>3 DEF t

LEMMA SendsOption ==
  ASSUME NEW S, NEW s \in Seq(S), NEW m \in S, NEW o, IsOption(m, o)
  PROVE  LastIs(Append(s, m), o, m.item)
<1> DEFINE t == Append(s, m)
<1>1. Len(s) \in Nat /\ Len(t) = Len(s) + 1 /\ t[Len(s) + 1] = m
  BY Longer
<1> HIDE DEF t
<1>2. Len(t) \in 1 .. Len(t) /\ t[Len(t)] = m /\ Len(t) + 1 .. Len(t) = {}
  BY <1>1
<1>3. LastIs(t, o, m.item)
  BY <1>2 DEF LastIs
<1> QED
  BY <1>3 DEF t

LEMMA ReadsOther ==
  ASSUME NEW S, NEW s \in Seq(S), s # <<>>, NEW o, NEW x, ~IsOption(Head(s), o)
  PROVE  /\ LastIs(s, o, x) => LastIs(Tail(s), o, x)
         /\ Without(s, o) => Without(Tail(s), o)
<1> DEFINE t == Tail(s)
<1>1. /\ Head(s) = s[1] /\ Len(s) \in Nat /\ Len(s) >= 1 /\ Len(t) = Len(s) - 1
      /\ \A i \in 1 .. Len(s) - 1 : t[i] = s[i + 1]
  BY Shorter
<1> HIDE DEF t
<1>2. LastIs(s, o, x) => LastIs(t, o, x)
  <2> SUFFICES ASSUME LastIs(s, o, x)
               PROVE  LastIs(t, o, x)
    OBVIOUS
  <2>1. PICK i \in 1 .. Len(s) :
          /\ IsOption(s[i], o) /\ s[i].item = x
          /\ \A j \in i + 1 .. Len(s) : ~IsOption(s[j], o)
    BY DEF LastIs
  <2>2. i # 1
    BY <1>1, <2>1
  <2> DEFINE k == i - 1
  <2>3. k \in 1 .. Len(t) /\ t[k] = s[i]
    BY <1>1, <2>2
  <2>4. \A j \in k + 1 .. Len(t) : ~IsOption(t[j], o)
    <3> TAKE j \in k + 1 .. Len(t)
    <3>1. j + 1 \in i + 1 .. Len(s) /\ t[j] = s[j + 1]
      BY <1>1, <2>3
    <3> QED
      BY <2>1, <3>1
  <2> HIDE DEF k
  <2> QED
    BY <2>1, <2>3, <2>4 DEF LastIs
<1>3. Without(s, o) => Without(t, o)
  <2> SUFFICES ASSUME Without(s, o), NEW i \in 1 .. Len(t)
               PROVE  ~IsOption(t[i], o)
    BY DEF Without
  <2>1. i + 1 \in 1 .. Len(s) /\ t[i] = s[i + 1]
    BY <1>1
  <2> QED
    BY <2>1 DEF Without
<1> QED
  BY <1>2, <1>3 DEF t

LEMMA ReadsOption ==
  ASSUME NEW S, NEW s \in Seq(S), s # <<>>, NEW o, NEW x, LastIs(s, o, x)
  PROVE  LastIs(Tail(s), o, x) \/ (Head(s).item = x /\ Without(Tail(s), o))
<1> DEFINE t == Tail(s)
<1>1. /\ Head(s) = s[1] /\ Len(s) \in Nat /\ Len(s) >= 1 /\ Len(t) = Len(s) - 1
      /\ \A i \in 1 .. Len(s) - 1 : t[i] = s[i + 1]
  BY Shorter
<1> HIDE DEF t
<1>2. PICK i \in 1 .. Len(s) :
        /\ IsOption(s[i], o) /\ s[i].item = x
        /\ \A j \in i + 1 .. Len(s) : ~IsOption(s[j], o)
  BY DEF LastIs
<1>3. CASE i = 1
  <2>1. \A j \in 1 .. Len(t) : ~IsOption(t[j], o)
    <3> TAKE j \in 1 .. Len(t)
    <3>1. j + 1 \in i + 1 .. Len(s) /\ t[j] = s[j + 1]
      BY <1>1, <1>3
    <3> QED
      BY <1>2, <3>1
  <2> QED
    BY <1>1, <1>2, <1>3, <2>1 DEF Without, t
<1>4. CASE i # 1
  <2> DEFINE k == i - 1
  <2>1. k \in 1 .. Len(t) /\ t[k] = s[i]
    BY <1>1, <1>4
  <2>2. \A j \in k + 1 .. Len(t) : ~IsOption(t[j], o)
    <3> TAKE j \in k + 1 .. Len(t)
    <3>1. j + 1 \in i + 1 .. Len(s) /\ t[j] = s[j + 1]
      BY <1>1, <2>1
    <3> QED
      BY <1>2, <3>1
  <2> HIDE DEF k
  <2>3. LastIs(t, o, x)
    BY <1>2, <2>1, <2>2 DEF LastIs
  <2> QED
    BY <2>3 DEF t
<1> QED
  BY <1>3, <1>4

LEMMA SendsRequest ==
  ASSUME NEW S, NEW s \in Seq(S), NEW m \in S, m.name # "Option"
  PROVE  /\ m.name # "Start" /\ HasStart(Append(s, m)) => HasStart(s)
         /\ NoneBehind(s) => NoneBehind(Append(s, m))
         /\ NoneLeft(s) => NoneLeft(Append(s, m))
<1> DEFINE t == Append(s, m)
<1>1. /\ Len(s) \in Nat /\ Len(t) = Len(s) + 1 /\ t[Len(s) + 1] = m
      /\ \A i \in 1 .. Len(s) : t[i] = s[i]
  BY Longer
<1> HIDE DEF t
<1>2. \A i \in 1 .. Len(t) : i = Len(s) + 1 \/ (i \in 1 .. Len(s) /\ t[i] = s[i])
  BY <1>1
<1>3. m.name # "Start" /\ HasStart(t) => HasStart(s)
  <2> SUFFICES ASSUME m.name # "Start", HasStart(t)
               PROVE  HasStart(s)
    OBVIOUS
  <2>1. PICK i \in 1 .. Len(t) : t[i].name = "Start"
    BY DEF HasStart
  <2>2. i \in 1 .. Len(s) /\ t[i] = s[i]
    BY <1>1, <1>2, <2>1
  <2> QED
    BY <2>1, <2>2 DEF HasStart
<1>4. NoneBehind(s) => NoneBehind(t)
  <2> SUFFICES ASSUME NoneBehind(s), NEW i \in 1 .. Len(t), NEW j \in 1 .. Len(t),
                      t[i].name = "Start", t[j].name = "Option"
               PROVE  j < i
    BY DEF NoneBehind
  <2>1. j \in 1 .. Len(s) /\ t[j] = s[j]
    BY <1>1, <1>2
  <2>2. CASE i = Len(s) + 1
    BY <1>1, <2>1, <2>2
  <2>3. CASE i # Len(s) + 1
    <3>1. i \in 1 .. Len(s) /\ t[i] = s[i]
      BY <1>2, <2>3
    <3> QED
      BY <2>1, <3>1 DEF NoneBehind
  <2> QED
    BY <2>2, <2>3
<1>5. NoneLeft(s) => NoneLeft(t)
  BY <1>1, <1>2 DEF NoneLeft
<1> QED
  BY <1>3, <1>4, <1>5 DEF t

LEMMA ReadsRequest ==
  ASSUME NEW S, NEW s \in Seq(S), s # <<>>
  PROVE  /\ HasStart(Tail(s)) => HasStart(s)
         /\ NoneBehind(s) => NoneBehind(Tail(s))
         /\ NoneLeft(s) => NoneLeft(Tail(s)) /\ Head(s).name # "Option"
         /\ Head(s).name = "Start" => HasStart(s) /\ (NoneBehind(s) => NoneLeft(Tail(s)))
<1> DEFINE t == Tail(s)
<1>1. /\ Head(s) = s[1] /\ Len(s) \in Nat /\ Len(s) >= 1 /\ Len(t) = Len(s) - 1
      /\ \A i \in 1 .. Len(s) - 1 : t[i] = s[i + 1]
  BY Shorter
<1> HIDE DEF t
<1>2. \A i \in 1 .. Len(t) : i + 1 \in 1 .. Len(s) /\ t[i] = s[i + 1]
  BY <1>1
<1>3. 1 \in 1 .. Len(s)
  BY <1>1
<1>4. HasStart(t) => HasStart(s)
  <2> SUFFICES ASSUME HasStart(t)
               PROVE  HasStart(s)
    OBVIOUS
  <2>1. PICK i \in 1 .. Len(t) : t[i].name = "Start"
    BY DEF HasStart
  <2>2. i + 1 \in 1 .. Len(s) /\ s[i + 1].name = "Start"
    BY <1>2, <2>1
  <2> QED
    BY <2>2 DEF HasStart
<1>5. NoneBehind(s) => NoneBehind(t)
  <2> SUFFICES ASSUME NoneBehind(s), NEW i \in 1 .. Len(t), NEW j \in 1 .. Len(t),
                      t[i].name = "Start", t[j].name = "Option"
               PROVE  j < i
    BY DEF NoneBehind
  <2>1. j + 1 \in 1 .. Len(s) /\ i + 1 \in 1 .. Len(s)
    BY <1>2
  <2>2. s[j + 1].name = "Option" /\ s[i + 1].name = "Start"
    BY <1>2
  <2>3. j + 1 < i + 1
    BY <2>1, <2>2 DEF NoneBehind
  <2> QED
    BY <2>3
<1>6. NoneLeft(s) => NoneLeft(t) /\ Head(s).name # "Option"
  BY <1>1, <1>2, <1>3 DEF NoneLeft
<1>7. ASSUME Head(s).name = "Start"
      PROVE  HasStart(s) /\ (NoneBehind(s) => NoneLeft(t))
  <2>1. HasStart(s)
    BY <1>1, <1>3, <1>7 DEF HasStart
  <2>2. ASSUME NoneBehind(s), NEW i \in 1 .. Len(t), t[i].name = "Option"
        PROVE  FALSE
    <3>1. i + 1 \in 1 .. Len(s) /\ s[i + 1].name = "Option"
      BY <1>2, <2>2
    <3>2. i + 1 < 1
      BY <1>1, <1>3, <1>7, <2>2, <3>1 DEF NoneBehind
    <3> QED
      BY <3>2
  <2> QED
    BY <2>1, <2>2 DEF NoneLeft
<1> QED
  BY <1>4, <1>5, <1>6, <1>7 DEF t

\* A step that sends the worker no option and no start.
Quiet ==
  \/ inbox' = inbox
  \/ \E m \in RequestRecord : m.name \notin {"Option", "Start"} /\ inbox' = Append(inbox, m)

LEMMA AsksQuietly ==
  ASSUME IInv, NEW n \in {"Setup", "Authenticate", "Open"}, NEW u \in Account,
         n # "Setup" => u = NoName,
         NEW b \in BOOLEAN, Ask(IF b THEN <<Request(n, u)>> ELSE <<>>)
  PROVE  Quiet
<1>1. inbox \in Seq(RequestRecord)
  BY Unmoved
<1>2. CASE ~b
  <2>1. inbox \o <<>> = inbox
    BY <1>1, ConcatEmptySeq
  <2> QED
    BY <1>2, <2>1 DEF Ask, Quiet
<1>3. CASE b
  <2> DEFINE m == Request(n, u)
  <2>1. m \in RequestRecord /\ m.name \notin {"Option", "Start"}
    BY DEF Request, RequestRecord
  <2>2. inbox' = inbox \/ inbox' = inbox \o <<m>>
    BY <1>3 DEF Ask
  <2> HIDE DEF m
  <2>3. inbox \o <<m>> = Append(inbox, m)
    BY <1>1, <2>1, AppendIsConcat
  <2> QED
    BY <2>1, <2>2, <2>3 DEF Quiet
<1> QED
  BY <1>2, <1>3

LEMMA QuietSends ==
  ASSUME IInv, Quiet
  PROVE  /\ \A o, x : LastIs(inbox, o, x) => LastIs(inbox', o, x)
         /\ \A o : Without(inbox, o) => Without(inbox', o)
         /\ HasStart(inbox') => HasStart(inbox)
         /\ NoneBehind(inbox) => NoneBehind(inbox')
         /\ NoneLeft(inbox) => NoneLeft(inbox')
         /\ inbox \in Seq(MarkedRequest) => inbox' \in Seq(MarkedRequest)
<1>1. CASE inbox' = inbox
  BY <1>1
<1>2. CASE inbox' # inbox
  <2>1. PICK m \in RequestRecord :
          m.name \notin {"Option", "Start"} /\ inbox' = Append(inbox, m)
    BY <1>2 DEF Quiet
  <2>2. inbox \in Seq(RequestRecord)
    BY Unmoved
  <2>3. \A o : ~IsOption(m, o)
    BY <2>1 DEF IsOption
  <2>4. \A o, x : /\ LastIs(inbox, o, x) => LastIs(inbox', o, x)
                  /\ Without(inbox, o) => Without(inbox', o)
    BY <2>1, <2>2, <2>3, SendsOther
  <2>5. m \in MarkedRequest
    BY <2>3 DEF MarkedRequest
  <2>6. inbox \in Seq(MarkedRequest) => inbox' \in Seq(MarkedRequest)
    BY <2>1, <2>5, Longer
  <2>7. /\ HasStart(inbox') => HasStart(inbox)
        /\ NoneBehind(inbox) => NoneBehind(inbox')
        /\ NoneLeft(inbox) => NoneLeft(inbox')
    BY <2>1, <2>2, SendsRequest
  <2> QED
    BY <2>4, <2>6, <2>7
<1> QED
  BY <1>1, <1>2

(* What a step leaves. *)

LEMMA SoundCalls ==
  ASSUME UNCHANGED offer
  PROVE  SoundCall' = SoundCall /\ MarkedRequest' = MarkedRequest
BY SameSets DEF SoundCall, MarkedRequest, IsOption, Sessions

LEMMA ListLeft ==
  ASSUME IInv, ListInv, UNCHANGED <<offer, panel>>, sess'.sel = sess.sel,
         calls' = calls \/ (calls # <<>> /\ calls' = Tail(calls))
  PROVE  ListInv'
<1>1. CASE "session" \notin offer
  BY <1>1 DEF ListInv
<1>2. CASE "session" \in offer
  <2>1. calls \in Seq(SoundCall)
    BY <1>2 DEF ListInv
  <2>2. calls' \in Seq(SoundCall)
    BY <2>1, HeadTailProperties
  <2> QED
    BY <1>2, <2>2, SoundCalls DEF ListInv, Sessions, WidgetOf
<1> QED
  BY <1>1, <1>2

LEMMA SentLeft ==
  ASSUME IInv, SentInv, UNCHANGED offer, Quiet,
         sess'.sel = sess.sel, sess.missed => sess'.missed,
         worker.made =>
           /\ worker'.made
           /\ \A o \in offer : worker.settings[o] # NoName
                                 => worker'.settings[o] = worker.settings[o]
  PROVE  SentInv'
<1> SUFFICES ASSUME ~sess'.missed, NEW o \in offer, sess.sel[o] # NoName
             PROVE  \/ LastIs(inbox', o, sess.sel[o])
                    \/ /\ Without(inbox', o) /\ worker'.made
                       /\ worker'.settings[o] = sess.sel[o]
  BY DEF SentInv, LastIs, Without, IsOption
<1>1. \/ LastIs(inbox, o, sess.sel[o])
      \/ Without(inbox, o) /\ worker.made /\ worker.settings[o] = sess.sel[o]
  BY DEF SentInv
<1> QED
  BY <1>1, QuietSends

LEMMA OrderLeft ==
  ASSUME IInv, OrderInv, UNCHANGED <<offer, started>>, Quiet,
         Launching' => Launching, sess.missed => sess'.missed,
         calls' = calls \/ calls # <<>>
  PROVE  OrderInv'
<1> SUFFICES ASSUME offer # {}, Launching' \/ HasStart(inbox')
             PROVE  /\ started' # Nothing'
                    /\ ~sess'.missed =>
                         /\ calls' = <<>> /\ NoneBehind(inbox')
                         /\ Launching' => NoneLeft(inbox')
  BY DEF OrderInv, HasStart, NoneBehind, NoneLeft
<1>1. Launching \/ HasStart(inbox)
  BY QuietSends
<1>2. /\ started # Nothing
      /\ ~sess.missed =>
           calls = <<>> /\ NoneBehind(inbox) /\ (Launching => NoneLeft(inbox))
  BY <1>1 DEF OrderInv
<1> QED
  BY <1>2, QuietSends, SameSets

LEMMA FailsafeLeft ==
  ASSUME IInv, FailsafeInv, UNCHANGED <<offer, dmrc>>, Quiet,
         worker'.settings = worker.settings, worker'.failsafe = worker.failsafe,
         worker.name # NoName => worker'.name = worker.name
  PROVE  FailsafeInv'
<1>1. CASE "session" \notin offer
  BY <1>1 DEF FailsafeInv
<1>2. CASE "session" \in offer
  <2>1. inbox' \in Seq(MarkedRequest)
    BY <1>2, QuietSends DEF FailsafeInv
  <2> QED
    BY <1>2, <2>1, SoundCalls DEF FailsafeInv
<1> QED
  BY <1>1, <1>2

LEMMA Ordinary ==
  ASSUME IInv, ChoiceInv, UNCHANGED <<offer, panel, started, dmrc>>, Quiet, BookInv',
         Launching' => Launching, sess'.sel = sess.sel, sess'.missed = sess.missed,
         calls' = calls \/ (calls # <<>> /\ calls' = Tail(calls)),
         worker'.made = worker.made, worker'.settings = worker.settings,
         worker'.failsafe = worker.failsafe,
         worker.name # NoName => worker'.name = worker.name
  PROVE  ChoiceInv'
BY ListLeft, SentLeft, OrderLeft, FailsafeLeft DEF ChoiceInv

LEMMA BookLeft ==
  ASSUME BookInv, UNCHANGED <<offer, dmrc, worker>>, sess'.conn => sess.conn
  PROVE  BookInv'
BY SameSets DEF BookInv, MadeInv, NameInv

\* The worker as it is made.
LEMMA Afresh ==
  ASSUME offer \in Offers,
         worker' \in {NoWorker, NewWorker}, ~sess'.conn, UNCHANGED offer
  PROVE  BookInv' /\ ~Launching' /\ ~worker'.made /\ worker'.settings = Nothing
<1>1. /\ worker'.state = "none" /\ worker'.step = "none" /\ ~worker'.made
      /\ worker'.settings = Nothing /\ worker'.loading = <<>> /\ ~worker'.idle
  BY DEF NoWorker, NewWorker
<1> QED
  BY <1>1, SameSets DEF BookInv, MadeInv, NameInv, Launching

(* Steps that carry no choice. *)

LEMMA ConversationStartedChoice ==
  ASSUME IInv, ChoiceInv, UNCHANGED <<offer, greeterVars>>, ConversationStarted
  PROVE  ChoiceInv'
<1>1. /\ worker' = [worker EXCEPT !.pc = "up"] /\ sess' = [sess EXCEPT !.conn = TRUE]
      /\ UNCHANGED <<calls, started, inbox, dmrc, panel>>
  BY DEF ConversationStarted, greeterVars
<1>2. /\ worker'.pc = "up" /\ worker'.state = worker.state /\ worker'.idle = worker.idle
      /\ worker'.step = worker.step /\ worker'.name = worker.name
      /\ worker'.known = worker.known /\ worker'.made = worker.made
      /\ worker'.settings = worker.settings /\ worker'.failsafe = worker.failsafe
      /\ worker'.loading = worker.loading
  BY <1>1, Unmoved DEF WorkerOK, WorkerRecord
<1>3. sess'.sel = sess.sel /\ sess'.missed = sess.missed
  BY <1>1, Unmoved DEF SessionOK, SessionRecord
<1>4. BookInv'
  BY <1>1, <1>2, SameSets DEF ChoiceInv, BookInv, MadeInv, NameInv
<1> QED
  BY <1>1, <1>2, <1>3, <1>4, Ordinary DEF Launching, Quiet

LEMMA ForUserKeeps ==
  ASSUME IInv, NEW u
  PROVE  /\ ForUser(sess, u).sel = sess.sel /\ ForUser(sess, u).missed = sess.missed
         /\ ForUser(sess, u).conn = sess.conn
BY Unmoved DEF ForUser, SessionOK, SessionRecord

\* Steps of the slave that leave the worker alone.
LEMMA SlaveOnly ==
  ASSUME IInv, ChoiceInv, UNCHANGED <<offer, greeterVars, started, dmrc, worker>>, Quiet,
         sess'.sel = sess.sel, sess'.missed = sess.missed, sess'.conn = sess.conn,
         calls' = calls \/ (calls # <<>> /\ calls' = Tail(calls))
  PROVE  ChoiceInv'
<1>1. BookInv'
  BY BookLeft DEF ChoiceInv
<1> QED
  BY <1>1, Ordinary DEF Launching, greeterVars

LEMMA SelectUserChoice ==
  ASSUME IInv, ChoiceInv, UNCHANGED <<offer, greeterVars>>, SelectUser
  PROVE  ChoiceInv'
<1>1. /\ calls # <<>> /\ calls' = Tail(calls)
      /\ UNCHANGED <<sess, started, inbox, worker, dmrc>>
  BY DEF SelectUser, Take, workerVars
<1> QED
  BY <1>1, SlaveOnly DEF Quiet

LEMMA BeginVerificationChoice ==
  ASSUME IInv, ChoiceInv, UNCHANGED <<offer, greeterVars>>, BeginVerification
  PROVE  ChoiceInv'
<1>1. /\ calls # <<>> /\ calls' = Tail(calls)
      /\ Ask(IF TRUE THEN <<Request("Setup", NoName)>> ELSE <<>>)
      /\ UNCHANGED <<sess, started, worker, dmrc>>
  BY DEF BeginVerification, Take, workerVars
<1>2. NoName \in Account
  BY DEF Account
<1>3. Quiet
  BY <1>1, <1>2, AsksQuietly
<1> QED
  BY <1>1, <1>3, SlaveOnly

LEMMA BeginVerificationForUserChoice ==
  ASSUME IInv, ChoiceInv, UNCHANGED <<offer, greeterVars>>, BeginVerificationForUser
  PROVE  ChoiceInv'
<1> DEFINE u == Head(calls).user
<1>1. /\ calls # <<>> /\ calls' = Tail(calls)
      /\ \/ sess' = ForUser(sess, u) /\ Ask(<<Request("Setup", u)>>)
         \/ UNCHANGED <<sess, inbox>>
      /\ UNCHANGED <<started, worker, dmrc>>
  BY DEF BeginVerificationForUser, Take, workerVars
<1>2. u \in Account
  <2>1. Head(calls) \in CallRecord /\ Head(calls).name = "BeginVerificationForUser"
    BY Takes DEF BeginVerificationForUser
  <2> QED
    BY <2>1 DEF CallRecord, Account
<1> HIDE DEF u
<1>3. Quiet
  <2>1. CASE Ask(<<Request("Setup", u)>>)
    <3>1. Ask(IF TRUE THEN <<Request("Setup", u)>> ELSE <<>>)
      BY <2>1
    <3> QED
      BY <1>2, <3>1, AsksQuietly
  <2>2. CASE UNCHANGED inbox
    BY <2>2 DEF Quiet
  <2> QED
    BY <1>1, <2>1, <2>2
<1>4. sess'.sel = sess.sel /\ sess'.missed = sess.missed /\ sess'.conn = sess.conn
  BY <1>1, ForUserKeeps
<1> QED
  BY <1>1, <1>3, <1>4, SlaveOnly

LEMMA CancelChoice ==
  ASSUME IInv, ChoiceInv, UNCHANGED <<offer, greeterVars>>, Cancel
  PROVE  ChoiceInv'
BY SlaveOnly DEF Cancel, Take, workerVars, Quiet

LEMMA StartSessionWhenReadyChoice ==
  ASSUME IInv, ChoiceInv, UNCHANGED <<offer, greeterVars>>, StartSessionWhenReady
  PROVE  ChoiceInv'
<1>1. /\ calls # <<>> /\ calls' = Tail(calls)
      /\ Ask(IF slave.waiting THEN <<Request("Open", NoName)>> ELSE <<>>)
      /\ UNCHANGED <<sess, started, worker, dmrc>>
  BY DEF StartSessionWhenReady, Take, workerVars
<1>2. slave.waiting \in BOOLEAN /\ NoName \in Account
  BY Unmoved DEF SlaveRecord, Account
<1>3. Quiet
  BY <1>1, <1>2, AsksQuietly
<1> QED
  BY <1>1, <1>3, SlaveOnly

\* The worker goes to another step, and nothing else of it but the flags.
Moves(st, id, sp, kn) ==
  worker' = [worker EXCEPT !.state = st, !.idle = id, !.step = sp, !.known = kn]

\* Steps that move the worker to a step of its own, or let it go on.
LEMMA WorkerGoesOn ==
  ASSUME IInv, ChoiceInv, UNCHANGED <<offer, greeterVars, started, dmrc>>, Quiet, BookInv',
         calls' = calls \/ (calls # <<>> /\ calls' = Tail(calls)),
         sess' = sess, NEW st, NEW id, NEW sp, NEW kn,
         Moves(st, id, sp, kn),
         sp # "start", id /\ st = "opened" => Launching
  PROVE  ChoiceInv'
<1>1. /\ worker'.state = st /\ worker'.idle = id
      /\ worker'.step = sp /\ worker'.name = worker.name
      /\ worker'.made = worker.made
      /\ worker'.settings = worker.settings /\ worker'.failsafe = worker.failsafe
  BY Unmoved DEF WorkerOK, WorkerRecord, Moves
<1>2. Launching' => Launching
  BY <1>1 DEF Launching
<1> QED
  BY <1>1, <1>2, Ordinary DEF greeterVars

\* What becomes of the worker's books.
LEMMA WorkerBooks ==
  ASSUME IInv, ChoiceInv, UNCHANGED <<offer, dmrc, sess>>, NEW st, NEW id, NEW sp, NEW kn,
         Moves(st, id, sp, kn),
         worker.made, st # "none" \/ sp # "none",
         kn # worker.name => worker.name = NoName,
         sp = "name?" => worker.name = NoName,
         sp \in {"password?", "verify", "verified", "open", "start"} => worker.name # NoName,
         st \in {"authenticated", "opened"} => worker.name # NoName
  PROVE  BookInv'
<1>1. /\ worker'.state = st /\ worker'.pc = worker.pc
      /\ worker'.step = sp /\ worker'.name = worker.name
      /\ worker'.made = worker.made /\ worker'.known = kn
      /\ worker'.settings = worker.settings /\ worker'.loading = worker.loading
  BY Unmoved DEF WorkerOK, WorkerRecord, Moves
<1> QED
  BY <1>1, SameSets DEF ChoiceInv, BookInv, MadeInv, NameInv

LEMMA AnswerQueryChoice ==
  ASSUME IInv, ChoiceInv, UNCHANGED <<offer, greeterVars>>, AnswerQuery
  PROVE  ChoiceInv'
<1>1. /\ calls # <<>> /\ calls' = Tail(calls)
      /\ worker' = CASE worker.step = "name?" -> [worker EXCEPT !.step = "authenticate",
                                                               !.known = Head(calls).user]
                     [] worker.step = "password?" -> [worker EXCEPT !.step = "verify"]
                     [] OTHER -> worker
      /\ UNCHANGED <<sess, started, inbox, dmrc>>
  BY DEF AnswerQuery, Take
<1>2. worker \in WorkerRecord /\ Quiet
  BY <1>1, Unmoved DEF WorkerOK, Quiet
<1>3. CASE worker.step = "name?"
  <2>1. Moves(worker.state, worker.idle, "authenticate", Head(calls).user)
    BY <1>1, <1>2, <1>3 DEF WorkerRecord, Moves
  <2>2. worker.made /\ worker.name = NoName
        /\ worker.state \notin {"authenticated", "opened"}
    BY <1>3 DEF ChoiceInv, BookInv, MadeInv, NameInv
  <2>3. BookInv'
    BY <1>1, <2>1, <2>2, WorkerBooks
  <2> QED
    BY <1>1, <1>2, <2>1, <2>3, WorkerGoesOn DEF Launching
<1>4. CASE worker.step = "password?"
  <2>1. Moves(worker.state, worker.idle, "verify", worker.known)
    BY <1>1, <1>2, <1>4 DEF WorkerRecord, Moves
  <2>2. /\ worker.made /\ worker.name # NoName
        /\ worker.known # worker.name => worker.name = NoName
    BY <1>4 DEF ChoiceInv, BookInv, MadeInv, NameInv
  <2>3. BookInv'
    BY <1>1, <2>1, <2>2, WorkerBooks
  <2> QED
    BY <1>1, <1>2, <2>1, <2>3, WorkerGoesOn DEF Launching
<1>5. CASE worker.step \notin {"name?", "password?"}
  <2>1. worker' = worker
    BY <1>1, <1>5
  <2> QED
    BY <1>1, <1>2, <2>1, SlaveOnly
<1> QED
  BY <1>3, <1>4, <1>5

LEMMA SetupCompleteChoice ==
  ASSUME IInv, ChoiceInv, UNCHANGED <<offer, greeterVars>>, SetupComplete
  PROVE  ChoiceInv'
<1>1. /\ worker.step = "setup" /\ worker' = [worker EXCEPT !.step = "none", !.state = "setup"]
      /\ Ask(IF TRUE THEN <<Request("Authenticate", NoName)>> ELSE <<>>)
      /\ UNCHANGED <<calls, sess, started, dmrc>>
  BY DEF SetupComplete, Doing, slaveVars
<1>2. worker \in WorkerRecord /\ NoName \in Account
  BY Unmoved DEF WorkerOK, Account
<1>3. Quiet
  BY <1>1, <1>2, AsksQuietly
<1>4. Moves("setup", worker.idle, "none", worker.known)
  BY <1>1, <1>2 DEF WorkerRecord, Moves
<1>5. worker.made /\ (worker.known # worker.name => worker.name = NoName)
  BY <1>1 DEF ChoiceInv, BookInv, MadeInv, NameInv
<1>6. BookInv'
  BY <1>1, <1>4, <1>5, WorkerBooks
<1> QED
  BY <1>1, <1>3, <1>4, <1>6, WorkerGoesOn

LEMMA AskQuestionChoice ==
  ASSUME IInv, ChoiceInv, UNCHANGED <<offer, greeterVars>>, AskQuestion
  PROVE  ChoiceInv'
<1>1. /\ worker.step = "authenticate" /\ worker.known = worker.name
      /\ \/ worker.name = NoName /\ worker' = [worker EXCEPT !.step = "name?"]
         \/ worker.name # NoName /\ worker' = [worker EXCEPT !.step = "password?"]
      /\ UNCHANGED <<calls, sess, started, inbox, dmrc>>
  BY DEF AskQuestion, Doing, slaveVars
<1>2. worker \in WorkerRecord /\ Quiet
  BY <1>1, Unmoved DEF WorkerOK, Quiet
<1>3. /\ worker.made
      /\ worker.state \in {"authenticated", "opened"} => worker.name # NoName
  BY <1>1 DEF ChoiceInv, BookInv, MadeInv, NameInv
<1>4. PICK sp \in {"name?", "password?"} :
        /\ worker' = [worker EXCEPT !.step = sp]
        /\ sp = "name?" <=> worker.name = NoName
  BY <1>1
<1>5. Moves(worker.state, worker.idle, sp, worker.known)
  BY <1>2, <1>4 DEF WorkerRecord, Moves
<1>6. BookInv'
  BY <1>1, <1>3, <1>4, <1>5, WorkerBooks
<1> QED
  BY <1>1, <1>2, <1>4, <1>5, <1>6, WorkerGoesOn DEF Launching

LEMMA PamAcceptsChoice ==
  ASSUME IInv, ChoiceInv, UNCHANGED <<offer, greeterVars>>, PamAccepts
  PROVE  ChoiceInv'
<1>1. /\ worker.step = "verify" /\ worker' = [worker EXCEPT !.step = "verified"]
      /\ UNCHANGED <<calls, sess, started, inbox, dmrc>>
  BY DEF PamAccepts, Doing, slaveVars
<1>2. worker \in WorkerRecord /\ Quiet
  BY <1>1, Unmoved DEF WorkerOK, Quiet
<1>3. Moves(worker.state, worker.idle, "verified", worker.known)
  BY <1>1, <1>2 DEF WorkerRecord, Moves
<1>4. /\ worker.made /\ worker.name # NoName
      /\ worker.known # worker.name => worker.name = NoName
  BY <1>1 DEF ChoiceInv, BookInv, MadeInv, NameInv
<1>5. BookInv'
  BY <1>1, <1>3, <1>4, WorkerBooks
<1> QED
  BY <1>1, <1>2, <1>3, <1>5, WorkerGoesOn DEF Launching

LEMMA AuthorizedChoice ==
  ASSUME IInv, ChoiceInv, UNCHANGED <<offer, greeterVars>>, Authorized
  PROVE  ChoiceInv'
<1>1. /\ worker.step = "verified"
      /\ worker' = [worker EXCEPT !.step = "none", !.state = "authenticated"]
      /\ Ask(IF slave.ready THEN <<Request("Open", NoName)>> ELSE <<>>)
      /\ UNCHANGED <<calls, sess, started, dmrc>>
  BY DEF Authorized, Doing
<1>2. worker \in WorkerRecord /\ NoName \in Account /\ slave.ready \in BOOLEAN
  BY Unmoved DEF WorkerOK, Account, SlaveRecord
<1>3. Quiet
  BY <1>1, <1>2, AsksQuietly
<1>4. Moves("authenticated", worker.idle, "none", worker.known)
  BY <1>1, <1>2 DEF WorkerRecord, Moves
<1>5. /\ worker.made /\ worker.name # NoName
      /\ worker.known # worker.name => worker.name = NoName
  BY <1>1 DEF ChoiceInv, BookInv, MadeInv, NameInv
<1>6. BookInv'
  BY <1>1, <1>4, <1>5, WorkerBooks
<1> QED
  BY <1>1, <1>3, <1>4, <1>6, WorkerGoesOn

LEMMA OpenedChoice ==
  ASSUME IInv, ChoiceInv, UNCHANGED <<offer, greeterVars>>, Opened
  PROVE  ChoiceInv'
<1>1. /\ worker.step = "open" /\ worker' = [worker EXCEPT !.step = "none", !.state = "opened"]
      /\ UNCHANGED <<calls, sess, started, inbox, dmrc>>
  BY DEF Opened, Doing
<1>2. worker \in WorkerRecord /\ Quiet /\ ~worker.idle
  BY <1>1, Unmoved DEF WorkerOK, Quiet
<1>3. Moves("opened", worker.idle, "none", worker.known)
  BY <1>1, <1>2 DEF WorkerRecord, Moves
<1>4. /\ worker.made /\ worker.name # NoName
      /\ worker.known # worker.name => worker.name = NoName
  BY <1>1 DEF ChoiceInv, BookInv, MadeInv, NameInv
<1>5. BookInv'
  BY <1>1, <1>3, <1>4, WorkerBooks
<1> QED
  BY <1>1, <1>2, <1>3, <1>5, WorkerGoesOn

(* The greeter: its list of session types keeps its rows. *)

LEMMA SessionFacts ==
  ASSUME offer \in Offers, "session" \in offer
  PROVE  /\ Recent["session"] \in Seq(Sessions) /\ Sessions \subseteq Items["session"]
         /\ NoName \notin Sessions /\ GoneRow \notin Sessions
<1> DEFINE q == Recent["session"]
<1>1. /\ q \in Seq(Items["session"])
      /\ NoName \notin Items["session"] /\ GoneRow \notin Items["session"]
  BY ItemFacts
<1>2. Sessions = {q[i] : i \in 1 .. Len(q)}
  BY DEF Sessions
<1> HIDE DEF q
<1>3. Len(q) \in Nat /\ q = [i \in 1 .. Len(q) |-> q[i]]
  BY <1>1, LenProperties
<1>4. \A i \in 1 .. Len(q) : q[i] \in Sessions /\ q[i] \in Items["session"]
  BY <1>1, <1>2, LenProperties
<1>5. [i \in 1 .. Len(q) |-> q[i]] \in Seq(Sessions)
  BY <1>3, <1>4, IsASeq
<1>6. Sessions \subseteq Items["session"]
  BY <1>2, <1>4
<1> QED
  BY <1>1, <1>3, <1>5, <1>6 DEF q

LEMMA Narrower ==
  ASSUME NEW S, NEW T, NEW s \in Seq(S), \A i \in 1 .. Len(s) : s[i] \in T
  PROVE  s \in Seq(T)
<1>1. Len(s) \in Nat /\ s = [i \in 1 .. Len(s) |-> s[i]]
  BY LenProperties
<1>2. [i \in 1 .. Len(s) |-> s[i]] \in Seq(T)
  BY <1>1, IsASeq
<1> QED
  BY <1>1, <1>2

LEMMA GreeterChoice ==
  ASSUME IInv, ChoiceInv, UNCHANGED <<offer, slaveVars, workerVars, inbox>>,
         started = Nothing, ListInv'
  PROVE  ChoiceInv'
<1>1. UNCHANGED <<sess, worker, dmrc, inbox, started>> /\ Quiet
  BY DEF slaveVars, workerVars, Quiet
<1>2. BookInv' /\ SentInv' /\ FailsafeInv'
  BY <1>1, BookLeft, SentLeft, FailsafeLeft DEF ChoiceInv
<1>3. OrderInv'
  <2>1. offer # {} => ~(Launching \/ HasStart(inbox))
    BY DEF ChoiceInv, OrderInv
  <2> QED
    BY <1>1, <2>1 DEF OrderInv, Launching, HasStart
<1> QED
  BY <1>2, <1>3 DEF ChoiceInv

LEMMA PlainCalls ==
  ASSUME NEW c \in CallRecord, c.name # "Select"
  PROVE  c \in SoundCall
BY DEF SoundCall

LEMMA SameLists ==
  ASSUME ListInv, UNCHANGED <<offer, sess>>,
         "session" \in offer => panel'["session"] = panel["session"],
         calls' \in Seq(SoundCall)
  PROVE  ListInv'
BY SoundCalls DEF ListInv, Sessions, WidgetOf

\* The lists of languages and layouts say nothing of session types.
LEMMA OtherList ==
  ASSUME IInv, IInv', ListInv, UNCHANGED <<offer, sess>>,
         NEW o \in offer, o # "session", NEW r, Panel(o, r)
  PROVE  ListInv'
<1>1. panel' = [panel EXCEPT ![o] = r.w] /\ calls' = Selects(o, r.sel)
  BY DEF Panel
<1>2. "session" \in offer => panel'["session"] = panel["session"]
  BY <1>1 DEF IInv, PanelInv
<1>3. calls' \in Seq(CallRecord)
  BY SameSets DEF IInv, QueueInv
<1>4. \A i \in 1 .. Len(calls') : calls'[i] \in SoundCall
  <2> TAKE i \in 1 .. Len(calls')
  <2>1. calls'[i] \in CallRecord /\ i \in DOMAIN calls'
    BY <1>3, LenProperties
  <2>2. calls'[i] = Select(o, r.sel[i])
    BY <1>1, <2>1 DEF Selects
  <2>3. calls'[i].opt # "session"
    BY <2>2 DEF Select
  <2> QED
    BY <2>1, <2>3 DEF SoundCall
<1>5. calls' \in Seq(SoundCall)
  BY <1>3, <1>4, Narrower
<1> QED
  BY <1>2, <1>5, SameLists

LEMMA SessionList ==
  ASSUME IInv, ListInv, UNCHANGED <<offer, sess>>, "session" \in offer,
         NEW r \in Settled(Sessions), r.w.rows = Recent["session"],
         Panel("session", r)
  PROVE  ListInv'
<1>1. panel' = [panel EXCEPT !["session"] = r.w] /\ calls' = Selects("session", r.sel)
  BY DEF Panel
<1>2. panel'["session"] = r.w
  BY <1>1 DEF IInv, PanelInv
<1> DEFINE q == r.sel
<1>3. r.w \in WidgetOf(Sessions) /\ q \in Seq(Sessions)
  BY DEF Settled
<1> HIDE DEF q
<1>4. Len(q) \in Nat /\ \A i \in 1 .. Len(q) : q[i] \in Sessions
  BY <1>3, LenProperties
<1>5. \A x \in Sessions : Select("session", x) \in SoundCall
  <2> TAKE x \in Sessions
  <2>1. x \in Items["session"]
    BY SessionFacts, Unmoved
  <2>2. Select("session", x) \in CallRecord /\ Select("session", x).item = x
    BY <2>1 DEF Select, CallRecord
  <2> QED
    BY <2>2 DEF SoundCall
<1>6. \A i \in 1 .. Len(q) : Select("session", q[i]) \in SoundCall
  BY <1>4, <1>5
<1>7. [i \in 1 .. Len(q) |-> Select("session", q[i])] \in Seq(SoundCall)
  BY <1>4, <1>6, IsASeq
<1>8. calls' \in Seq(SoundCall)
  BY <1>1, <1>7 DEF Selects, q
<1> QED
  BY <1>2, <1>3, <1>8, SoundCalls DEF ListInv, Sessions, WidgetOf

LEMMA SessionListIs ==
  ASSUME IInv, ListInv, "session" \in offer
  PROVE  /\ At("session") \in Settled(Sessions) /\ At("session") \in Handled(Sessions)
         /\ At("session").w = panel["session"]
         /\ At("session").w.rows = Recent["session"]
         /\ \A x : Has(panel["session"], x) => x \in Sessions
<1>1. At("session") \in Settled(Sessions) /\ At("session").w = panel["session"]
  <2>1. <<>> \in Seq(Sessions)
    OBVIOUS
  <2> QED
    BY <2>1 DEF At, Settled, ListInv
<1>2. panel["session"].rows = Recent["session"]
  BY DEF ListInv
<1>3. \A x : Has(panel["session"], x) => x \in Sessions
  BY <1>2 DEF Has, Sessions
<1> QED
  BY <1>1, <1>2, <1>3, SettledIsHandled

\* A new default leaves the rows.
LEMMA SessionDefault ==
  ASSUME IInv, ListInv, "session" \in offer, NEW x \in Sessions \cup {NoName}
  PROVE  /\ SetDefaultItem(At("session"), x) \in Settled(Sessions)
         /\ SetDefaultItem(At("session"), x).w.rows = Recent["session"]
<1> DEFINE r == At("session")
           I == Sessions
<1>1. r \in Settled(I) /\ r.w.rows = Recent["session"] /\ x \in I \cup {NoName}
  BY SessionListIs
<1>2. NoName \notin I /\ GoneRow \notin I
  BY SessionFacts, Unmoved
<1> HIDE DEF r, I
<1>3. SetDefaultItem(r, x) \in Settled(I) /\ SetDefaultItem(r, x).w.rows = r.w.rows
  BY <1>1, <1>2, SetsDefaultItem
<1> QED
  BY <1>1, <1>3 DEF r, I

LEMMA UserCalls ==
  ASSUME IInv
  PROVE  /\ \A n \in {"Cancel", "StartSessionWhenReady"} :
              <<Call(n, NoName)>> \in Seq(SoundCall)
         /\ \A u \in Account : <<Call("AnswerQuery", u)>> \in Seq(SoundCall)
         /\ \A c \in User \cup {OtherUser} : ChooseCalls(c) \in Seq(SoundCall)
<1>1. \A n \in {"Cancel", "StartSessionWhenReady"} : Call(n, NoName) \in SoundCall
  BY PlainCalls DEF Call, CallRecord
<1>2. \A u \in Account : Call("AnswerQuery", u) \in SoundCall
  BY PlainCalls DEF Call, CallRecord
<1>3. ASSUME NEW c \in User \cup {OtherUser}
      PROVE  ChooseCalls(c) \in Seq(SoundCall)
  <2>1. PICK d : d = IF c = OtherUser THEN Call("BeginVerification", NoName)
                     ELSE Call("BeginVerificationForUser", c)
    OBVIOUS
  <2>2. d \in CallRecord /\ d.name # "Select"
    BY <2>1 DEF Call, CallRecord
  <2>3. Call("SelectUser", c) \in CallRecord /\ Call("SelectUser", c).name # "Select"
    BY DEF Call, CallRecord, Greeted
  <2>4. ChooseCalls(c) = <<Call("SelectUser", c), d>>
    BY <2>1 DEF ChooseCalls
  <2>5. d \in SoundCall /\ Call("SelectUser", c) \in SoundCall
    BY <2>2, <2>3, PlainCalls
  <2> HIDE DEF Call
  <2> QED
    BY <2>4, <2>5
<1> QED
  BY <1>1, <1>2, <1>3

LEMMA UserListInv ==
  ASSUME IInv, IInv', ListInv, UNCHANGED <<offer, slaveVars>>, UserStep
  PROVE  ListInv'
<1>1. UNCHANGED sess
  BY DEF slaveVars
<1>2. CASE ChooseUser
  <2>1. PICK c \in User \cup {OtherUser} : calls' = ChooseCalls(c)
    BY <1>2 DEF ChooseUser
  <2> QED
    BY <1>1, <1>2, <2>1, UserCalls, SameLists DEF ChooseUser
<1>3. CASE AnswerQuestion
  <2>1. PICK u \in Account : calls' = <<Call("AnswerQuery", u)>>
    BY <1>3 DEF AnswerQuestion, Account
  <2> QED
    BY <1>1, <1>3, <2>1, UserCalls, SameLists DEF AnswerQuestion
<1>4. CASE DoCancel
  BY <1>1, <1>4, UserCalls, SameLists DEF DoCancel
<1>5. CASE PickItem
  <2>1. PICK o \in offer : \E x \in Items[o] :
          /\ Offered(o) /\ Has(panel[o], x) /\ panel[o].combo # x
          /\ Pick(o, x, Show(At(o), x))
    BY <1>5 DEF PickItem
  <2>2. PICK x \in Items[o] :
          /\ Offered(o) /\ Has(panel[o], x) /\ panel[o].combo # x
          /\ Pick(o, x, Show(At(o), x))
    BY <2>1
  <2>3. CASE o # "session"
    BY <1>1, <2>2, <2>3, OtherList DEF Pick
  <2>4. CASE o = "session"
    <3> DEFINE r == At("session")
               I == Sessions
               t == Show(r, x)
    <3>1. /\ r \in Settled(I) /\ r \in Handled(I) /\ r.w = panel["session"]
          /\ r.w.rows = Recent["session"] /\ x \in I
      BY <2>2, <2>4, SessionListIs
    <3>2. r.w.def # NoName /\ r.w.combo # x /\ NoName \notin I
      BY <2>2, <2>4, <3>1, SessionFacts, Unmoved DEF Offered
    <3>3. Panel("session", t)
      BY <2>2, <2>4 DEF Pick
    <3> HIDE DEF r, I
    <3>4. t \in Handled(I) /\ SameList(r, t) /\ t.w.combo = x /\ t.w.active = x
      BY <3>1, <3>2, Shows
    <3> HIDE DEF t
    <3>5. t \in Settled(I) /\ t.w.rows = Recent["session"]
      BY <3>1, <3>4 DEF Handled, Settled, WidgetOf, SameList
    <3> QED
      BY <1>1, <2>4, <3>3, <3>5, SessionList DEF I
  <2> QED
    BY <2>3, <2>4
<1>6. CASE PickOther
  <2>1. PICK o \in offer \ {"session"} : Pick(o, panel[o].def, ChooseOther(At(o)))
    BY <1>6 DEF PickOther
  <2> QED
    BY <1>1, <2>1, OtherList DEF Pick
<1>7. CASE DialogOk
  <2> DEFINE t(o, x) == [SetCurrent(At(o), x) EXCEPT !.w.dialog = FALSE]
  <2>1. PICK o \in offer : \E x \in Items[o] : panel[o].dialog /\ Panel(o, t(o, x))
    BY <1>7 DEF DialogOk
  <2>2. PICK x \in Items[o] : panel[o].dialog /\ Panel(o, t(o, x))
    BY <2>1
  <2> HIDE DEF t
  <2>3. o # "session"
    BY <2>2 DEF IInv, KeptInv
  <2> QED
    BY <1>1, <2>2, <2>3, OtherList
<1>8. CASE DialogCancelled
  <2>1. PICK o \in offer : panel[o].dialog /\ panel' = [panel EXCEPT ![o].dialog = FALSE]
    BY <1>8 DEF DialogCancelled
  <2>2. o # "session"
    BY <2>1 DEF IInv, KeptInv
  <2>3. "session" \in offer => panel'["session"] = panel["session"]
    BY <2>1, <2>2 DEF IInv, PanelInv
  <2>4. "session" \in offer => calls' \in Seq(SoundCall)
    BY <1>8 DEF DialogCancelled, ListInv
  <2> QED
    BY <1>1, <2>3, <2>4, SameLists DEF ListInv
<1> QED
  BY <1>2, <1>3, <1>4, <1>5, <1>6, <1>7, <1>8 DEF UserStep

LEMMA GreeterListInv ==
  ASSUME IInv, IInv', ListInv, UNCHANGED <<offer, slaveVars>>, GreeterStep
  PROVE  ListInv'
<1>1. UNCHANGED sess
  BY DEF slaveVars
<1>2. ASSUME UNCHANGED <<panel, calls>>
      PROVE  ListInv'
  BY <1>1, <1>2, ListLeft
<1>3. ASSUME PanelReset, UNCHANGED calls
      PROVE  ListInv'
  <2>1. CASE "session" \notin offer
    BY <2>1 DEF ListInv
  <2>2. CASE "session" \in offer
    <3>1. panel'["session"] = SetDefaultItem(At("session"), NoName).w
      BY <1>3, <2>2 DEF PanelReset
    <3>2. /\ SetDefaultItem(At("session"), NoName) \in Settled(Sessions)
          /\ SetDefaultItem(At("session"), NoName).w.rows = Recent["session"]
      BY <2>2, SessionDefault
    <3>3. panel'["session"] \in WidgetOf(Sessions) /\ panel'["session"].rows = Recent["session"]
      BY <3>1, <3>2 DEF Settled
    <3> QED
      BY <1>1, <1>3, <2>2, <3>3, SoundCalls DEF ListInv, Sessions, WidgetOf
  <2> QED
    BY <2>1, <2>2
<1>4. CASE OnReady
  <2>1. CASE window.mode = "auth"
    <3>1. window.chosen \in User \cup {OtherUser}
      BY <2>1 DEF IInv, WindowInv
    <3>2. calls' = ChooseCalls(window.chosen) /\ UNCHANGED panel
      BY <1>4, <2>1 DEF OnReady
    <3> QED
      BY <1>1, <3>1, <3>2, UserCalls, SameLists
  <2>2. CASE window.mode # "auth"
    BY <1>2, <1>4, <2>2 DEF OnReady
  <2> QED
    BY <2>1, <2>2
<1>5. CASE OnReset
  BY <1>3, <1>5 DEF OnReset
<1>6. CASE OnAuthenticationFailed
  BY <1>2, <1>3, <1>6 DEF OnAuthenticationFailed
<1>7. CASE OnQuery \/ OnSelectedUserChanged
  BY <1>2, <1>7 DEF OnQuery, OnSelectedUserChanged
<1>8. CASE OnUserAuthorized
  BY <1>1, <1>8, UserCalls, SameLists DEF OnUserAuthorized
<1>9. CASE OnDefaultChanged
  <2> DEFINE o == Head(signals).opt
             x == Head(signals).item
             r == CASE o = "language" -> SetDefaultLanguage(At(o), x)
                    [] o = "layout" -> SetKeyboardLayout(At(o), x)
                    [] o = "session" -> SetDefaultSession(At(o), x)
  <2>1. Panel(o, r) /\ o \in offer
    <3>1. Head(signals) \in SignalRecord /\ Head(signals).name = "Default"
      BY <1>9, Dispatches DEF OnDefaultChanged
    <3>2. o \in offer
      BY <3>1 DEF SignalRecord
    <3>3. Panel(o, r)
      BY <1>9 DEF OnDefaultChanged
    <3> QED
      BY <3>2, <3>3
  <2>2. o = "session" => r = SetDefaultSession(At(o), x)
    OBVIOUS
  <2> HIDE DEF o, x, r
  <2>3. CASE o # "session"
    BY <1>1, <2>1, <2>3, OtherList
  <2>4. CASE o = "session"
    <3>1. r \in Settled(Sessions) /\ r.w.rows = Recent["session"]
      <4>1. CASE x # NoName /\ ~Has(panel["session"], x)
        <5>1. r = At("session")
          BY <2>1, <2>2, <2>4, <4>1, SessionListIs DEF SetDefaultSession
        <5> QED
          BY <2>1, <2>4, <5>1, SessionListIs
      <4>2. CASE ~(x # NoName /\ ~Has(panel["session"], x))
        <5>1. x \in Sessions \cup {NoName}
          BY <2>1, <2>4, <4>2, SessionListIs
        <5>2. r = SetDefaultItem(At("session"), x)
          BY <2>1, <2>2, <2>4, <4>2, SessionListIs DEF SetDefaultSession
        <5> QED
          BY <2>1, <2>4, <5>1, <5>2, SessionDefault
      <4> QED
        BY <4>1, <4>2
    <3> QED
      BY <1>1, <2>1, <2>4, <3>1, SessionList
  <2> QED
    BY <2>3, <2>4
<1>10. CASE RecentsNotified
  <2>1. PICK o \in offer : \E r : panel[o].stale /\ Panel(o, r)
    BY <1>10 DEF RecentsNotified
  <2>2. o # "session"
    BY <2>1 DEF IInv, KeptInv
  <2> QED
    BY <1>1, <2>1, <2>2, OtherList
<1> QED
  BY <1>4, <1>5, <1>6, <1>7, <1>8, <1>9, <1>10 DEF GreeterStep

(* Steps that carry a choice, or end a conversation. *)

\* One more option for the worker.
LEMMA SelectOptionChoice ==
  ASSUME IInv, ChoiceInv, UNCHANGED <<offer, greeterVars>>, SelectOption
  PROVE  ChoiceInv'
<1> DEFINE o == Head(calls).opt
           x == Head(calls).item
           f == [sess.sel EXCEPT ![o] = x]
           b == sess.missed \/ ~sess.conn \/ GreeterBehind
           s == [[sess EXCEPT !.sel = f] EXCEPT !.missed = b]
           q(g) == [name |-> "Option", opt |-> o, item |-> NameOf(s, o), failsafe |-> g]
<1>1. /\ calls # <<>> /\ calls' = Tail(calls)
      /\ UNCHANGED <<started, worker, dmrc, panel>>
  BY DEF SelectOption, Take, workerVars, greeterVars
<1>2. o \in offer /\ x \in Items[o]
  <2>1. Head(calls) \in CallRecord /\ Head(calls).name = "Select"
    BY Takes DEF SelectOption
  <2> QED
    BY <2>1 DEF CallRecord
<1>3. CASE ~sess.made
  <2>1. UNCHANGED <<sess, inbox>>
    BY <1>3 DEF SelectOption
  <2> QED
    BY <1>1, <2>1, SlaveOnly DEF Quiet
<1>4. CASE sess.made
  <2>1. PICK g \in IF o = "session" THEN IsFailsafe(NameOf(s, o)) ELSE {FALSE} :
          sess' = s /\ Ask(<<q(g)>>)
    BY <1>4 DEF SelectOption
  <2>2. x # NoName /\ x \in Values
    BY <1>2, ItemFacts, Unmoved DEF Choice
  <2>3. "session" \in offer /\ o = "session" => x \in Sessions
    <3>1. ASSUME "session" \in offer, o = "session"
          PROVE  x \in Sessions
      <4>1. Head(calls) \in SoundCall
        BY <1>1, <3>1, HeadTailProperties DEF ChoiceInv, ListInv
      <4>2. Head(calls).name = "Select"
        BY Takes DEF SelectOption
      <4> QED
        BY <3>1, <4>1, <4>2 DEF SoundCall
    <3> QED
      BY <3>1
  <2> HIDE DEF x, b
  <2>4. /\ f[o] = x /\ \A p \in offer \ {o} : f[p] = sess.sel[p]
        /\ f \in [offer -> Values]
    BY <1>2, <2>2, Unmoved DEF SessionOK, SessionRecord
  <2> HIDE DEF f
  <2>5. s.sel = f /\ s.missed = b /\ s.conn = sess.conn
    BY Unmoved DEF SessionOK, SessionRecord
  <2> HIDE DEF s
  <2>6. NameOf(s, o) = x
    BY <2>2, <2>4, <2>5 DEF NameOf
  <2> DEFINE m == q(g)
  <2>7. /\ IsOption(m, o) /\ m.item = x /\ m.name = "Option"
        /\ \A p : p # o => ~IsOption(m, p)
    BY <2>6 DEF IsOption
  <2>8. g \in BOOLEAN /\ (o = "session" /\ x \in SaysFailsafe => g = TRUE)
    BY <2>1, <2>6 DEF IsFailsafe
  <2>9. m \in RequestRecord
    BY <1>2, <2>6, <2>8 DEF RequestRecord
  <2>10. m \in MarkedRequest
    BY <2>7, <2>8, <2>9 DEF MarkedRequest, IsOption
  <2>11. inbox \in Seq(RequestRecord)
    BY Unmoved
  <2>12. inbox' = inbox \o <<m>> \/ inbox' = inbox
    BY <2>1 DEF Ask
  <2>13. sess.conn => inbox' = inbox \o <<m>>
    BY <2>1 DEF Ask, ChoiceInv, BookInv
  <2> HIDE DEF m
  <2>14. inbox \o <<m>> = Append(inbox, m)
    BY <2>9, <2>11, AppendIsConcat
  <2>15. ListInv'
    <3>1. CASE "session" \notin offer
      BY <3>1 DEF ListInv
    <3>2. CASE "session" \in offer
      <4>1. calls' \in Seq(SoundCall)
        BY <1>1, <3>2, HeadTailProperties DEF ChoiceInv, ListInv
      <4>2. sess'.sel["session"] \in Sessions \cup {NoName}
        BY <2>1, <2>3, <2>4, <2>5, <3>2 DEF ChoiceInv, ListInv
      <4> QED
        BY <1>1, <3>2, <4>1, <4>2, SoundCalls DEF ChoiceInv, ListInv, Sessions, WidgetOf
    <3> QED
      BY <3>1, <3>2
  <2>16. BookInv'
    BY <1>1, <2>1, <2>5, BookLeft DEF ChoiceInv
  <2>17. SentInv'
    <3> SUFFICES ASSUME ~sess'.missed, NEW p \in offer, sess'.sel[p] # NoName
                 PROVE  \/ LastIs(inbox', p, sess'.sel[p])
                        \/ /\ Without(inbox', p) /\ worker'.made
                           /\ worker'.settings[p] = sess'.sel[p]
      BY DEF SentInv, LastIs, Without, IsOption
    <3>1. sess.conn /\ ~sess.missed
      BY <2>1, <2>5 DEF b
    <3>2. inbox' = Append(inbox, m)
      BY <2>13, <2>14, <3>1
    <3>3. CASE p = o
      <4>1. LastIs(Append(inbox, m), o, x)
        BY <2>7, <2>9, <2>11, SendsOption
      <4> QED
        BY <2>1, <2>4, <2>5, <3>2, <3>3, <4>1
    <3>4. CASE p # o
      <4>1. sess'.sel[p] = sess.sel[p]
        BY <2>1, <2>4, <2>5, <3>4
      <4>2. \/ LastIs(inbox, p, sess.sel[p])
            \/ Without(inbox, p) /\ worker.made /\ worker.settings[p] = sess.sel[p]
        BY <3>1, <4>1 DEF ChoiceInv, SentInv
      <4>3. /\ LastIs(inbox, p, sess.sel[p]) => LastIs(inbox', p, sess.sel[p])
            /\ Without(inbox, p) => Without(inbox', p)
        BY <2>7, <2>9, <2>11, <3>2, <3>4, SendsOther
      <4> QED
        BY <1>1, <4>1, <4>2, <4>3
    <3> QED
      BY <3>3, <3>4
  <2>18. OrderInv'
    <3> SUFFICES ASSUME offer # {}, Launching' \/ HasStart(inbox')
                 PROVE  started' # Nothing' /\ sess'.missed
      BY DEF OrderInv, HasStart, NoneBehind, NoneLeft
    <3>1. Launching \/ HasStart(inbox)
      <4>1. Launching' => Launching
        BY <1>1 DEF Launching
      <4>2. HasStart(Append(inbox, m)) => HasStart(inbox)
        <5>1. \A i \in 1 .. Len(Append(inbox, m)) :
                Append(inbox, m)[i].name = "Start" => i \in 1 .. Len(inbox) /\ inbox[i].name = "Start"
          <6> TAKE i \in 1 .. Len(Append(inbox, m))
          <6>1. /\ Len(inbox) \in Nat /\ Len(Append(inbox, m)) = Len(inbox) + 1
                /\ Append(inbox, m)[Len(inbox) + 1] = m
                /\ \A j \in 1 .. Len(inbox) : Append(inbox, m)[j] = inbox[j]
            BY <2>9, <2>11, Longer
          <6>2. CASE i = Len(inbox) + 1
            BY <2>7, <6>1, <6>2
          <6>3. CASE i # Len(inbox) + 1
            <7>1. i \in 1 .. Len(inbox)
              BY <6>1, <6>3
            <7> QED
              BY <6>1, <7>1
          <6> QED
            BY <6>2, <6>3
        <5> QED
          BY <5>1 DEF HasStart
      <4> QED
        BY <2>12, <2>14, <4>1, <4>2
    <3>2. started # Nothing /\ sess.missed
      BY <1>1, <3>1 DEF ChoiceInv, OrderInv
    <3> QED
      BY <1>1, <2>1, <2>5, <3>2, SameSets DEF b
  <2>19. FailsafeInv'
    <3>1. CASE "session" \notin offer
      BY <3>1 DEF FailsafeInv
    <3>2. CASE "session" \in offer
      <4>1. inbox' \in Seq(MarkedRequest)
        BY <2>10, <2>12, <2>14, <3>2, Longer DEF ChoiceInv, FailsafeInv
      <4> QED
        BY <1>1, <3>2, <4>1, SoundCalls DEF ChoiceInv, FailsafeInv
    <3> QED
      BY <3>1, <3>2
  <2> QED
    BY <2>15, <2>16, <2>17, <2>18, <2>19 DEF ChoiceInv
<1> QED
  BY <1>3, <1>4

\* The worker is replaced, and with it what was on its way to it.
LEMMA Replaced ==
  ASSUME IInv, ChoiceInv, UNCHANGED <<offer, greeterVars, calls, dmrc>>,
         inbox' = <<>>, worker' \in {NoWorker, NewWorker}, sess' \in {NoSession, NewSession}
  PROVE  ChoiceInv'
<1>1. /\ ~sess'.conn /\ sess'.sel = Nothing /\ ~sess'.missed
      /\ \A o \in offer : Nothing[o] = NoName
  BY DEF NoSession, NewSession, Nothing
<1>2. BookInv' /\ ~Launching' /\ worker'.settings = Nothing
  BY <1>1, Unmoved, Afresh
<1>3. ListInv'
  BY <1>1, SoundCalls DEF ChoiceInv, ListInv, Sessions, WidgetOf, greeterVars
<1>4. SentInv'
  BY <1>1 DEF SentInv
<1>5. OrderInv'
  <2>1. ~HasStart(inbox')
    <3>1. Len(inbox') = 0
      OBVIOUS
    <3> QED
      BY <3>1 DEF HasStart
  <2> QED
    BY <1>2, <2>1 DEF OrderInv, HasStart
<1>6. FailsafeInv'
  <2>1. inbox' \in Seq(MarkedRequest')
    OBVIOUS
  <2> QED
    BY <1>1, <1>2, <2>1 DEF FailsafeInv
<1> QED
  BY <1>2, <1>3, <1>4, <1>5, <1>6 DEF ChoiceInv

LEMMA GiveUpChoice ==
  ASSUME IInv, ChoiceInv, UNCHANGED <<offer, greeterVars>>,
         NEW k \in {"reset", "authFailed"}, GiveUp(k)
  PROVE  ChoiceInv'
BY Replaced DEF GiveUp

LEMMA IdleResetChoice ==
  ASSUME IInv, ChoiceInv, UNCHANGED <<offer, greeterVars>>, IdleReset
  PROVE  ChoiceInv'
BY Replaced DEF IdleReset

\* The request to start is the last of those that matter.
LEMMA IdleStartChoice ==
  ASSUME IInv, ChoiceInv, UNCHANGED <<offer, greeterVars>>, IdleStart
  PROVE  ChoiceInv'
<1> DEFINE m == Request("Start", NoName)
           b == sess.missed \/ calls # <<>>
<1>1. /\ started' = [o \in offer |-> NameOf(sess, o)]
      /\ inbox' = inbox \o <<m>> \/ inbox' = inbox
      /\ calls' = IF calls = <<>> THEN <<>> ELSE <<Head(calls)>>
      /\ sess' = [sess EXCEPT !.missed = b]
      /\ UNCHANGED <<worker, dmrc, panel>>
  BY DEF IdleStart, Ask, workerVars, greeterVars
<1>2. /\ m \in RequestRecord /\ m.name = "Start"
      /\ \A o : ~IsOption(m, o)
  BY DEF Request, RequestRecord, IsOption
<1> HIDE DEF m, b
<1>3. inbox \in Seq(RequestRecord)
  BY Unmoved
<1>4. inbox' = Append(inbox, m) \/ inbox' = inbox
  BY <1>1, <1>2, <1>3, AppendIsConcat
<1>5. sess'.sel = sess.sel /\ sess'.missed = b /\ sess'.conn = sess.conn
  BY <1>1, Unmoved DEF SessionOK, SessionRecord
<1>6. offer # {} => started' # Nothing
  <2> SUFFICES ASSUME NEW o \in offer
               PROVE  started' # Nothing
    OBVIOUS
  <2>1. started'[o] \in Items[o] /\ Nothing[o] = NoName
    BY <1>1, DefaultIsItem, Unmoved DEF Nothing
  <2> QED
    BY <2>1, ItemFacts, Unmoved
<1>7. ListInv'
  <2>1. CASE "session" \notin offer
    BY <2>1 DEF ListInv
  <2>2. CASE "session" \in offer
    <3>1. calls' \in Seq(SoundCall)
      <4>1. CASE calls = <<>>
        BY <1>1, <4>1
      <4>2. CASE calls # <<>>
        <5>1. Head(calls) \in SoundCall
          BY <2>2, <4>2, HeadTailProperties DEF ChoiceInv, ListInv
        <5> QED
          BY <1>1, <4>2, <5>1
      <4> QED
        BY <4>1, <4>2
    <3> QED
      BY <1>1, <1>5, <2>2, <3>1, SoundCalls DEF ChoiceInv, ListInv, Sessions, WidgetOf
  <2> QED
    BY <2>1, <2>2
<1>8. BookInv'
  BY <1>1, <1>5, BookLeft DEF ChoiceInv
<1>9. SentInv'
  <2> SUFFICES ASSUME ~sess'.missed, NEW o \in offer, sess.sel[o] # NoName
               PROVE  \/ LastIs(inbox', o, sess.sel[o])
                      \/ /\ Without(inbox', o) /\ worker'.made
                         /\ worker'.settings[o] = sess.sel[o]
    BY <1>5 DEF SentInv, LastIs, Without, IsOption
  <2>1. \/ LastIs(inbox, o, sess.sel[o])
        \/ Without(inbox, o) /\ worker.made /\ worker.settings[o] = sess.sel[o]
    BY <1>5 DEF ChoiceInv, SentInv, b
  <2>2. /\ LastIs(inbox, o, sess.sel[o]) => LastIs(inbox', o, sess.sel[o])
        /\ Without(inbox, o) => Without(inbox', o)
    BY <1>2, <1>3, <1>4, SendsOther
  <2> QED
    BY <1>1, <2>1, <2>2
<1>10. OrderInv'
  <2> SUFFICES ASSUME offer # {}
               PROVE  /\ started' # Nothing'
                      /\ ~sess'.missed =>
                           /\ calls' = <<>> /\ NoneBehind(inbox')
                           /\ Launching' => NoneLeft(inbox')
    BY DEF OrderInv, HasStart, NoneBehind, NoneLeft
  <2>1. started' # Nothing'
    BY <1>6, SameSets
  <2> SUFFICES ASSUME ~sess'.missed
               PROVE  /\ calls' = <<>> /\ NoneBehind(inbox')
                      /\ Launching' => NoneLeft(inbox')
    BY <2>1
  <2>2. ~sess.missed /\ calls = <<>> /\ calls' = <<>>
    BY <1>1, <1>5 DEF b
  <2>3. NoneBehind(inbox) /\ (Launching => NoneLeft(inbox))
    <3>1. CASE HasStart(inbox) \/ Launching
      BY <2>2, <3>1 DEF ChoiceInv, OrderInv
    <3>2. CASE ~(HasStart(inbox) \/ Launching)
      BY <3>2 DEF HasStart, NoneBehind
    <3> QED
      BY <3>1, <3>2
  <2>4. /\ NoneBehind(inbox) => NoneBehind(inbox')
        /\ NoneLeft(inbox) => NoneLeft(inbox')
    BY <1>2, <1>3, <1>4, SendsRequest
  <2>5. Launching' => Launching
    BY <1>1 DEF Launching
  <2> QED
    BY <2>2, <2>3, <2>4, <2>5
<1>11. FailsafeInv'
  <2>1. CASE "session" \notin offer
    BY <2>1 DEF FailsafeInv
  <2>2. CASE "session" \in offer
    <3>1. m \in MarkedRequest
      BY <1>2 DEF MarkedRequest
    <3>2. inbox' \in Seq(MarkedRequest)
      BY <1>4, <2>2, <3>1, Longer DEF ChoiceInv, FailsafeInv
    <3> QED
      BY <1>1, <2>2, <3>2, SoundCalls DEF ChoiceInv, FailsafeInv
  <2> QED
    BY <2>1, <2>2
<1> QED
  BY <1>7, <1>8, <1>9, <1>10, <1>11 DEF ChoiceInv

(* The worker reads a request, the dmrc or another name, and writes the dmrc. *)

LEMMA SavedKeeps ==
  ASSUME IInv, NEW o, NEW x, SavedRead(o, x)
  PROVE  sess'.sel = sess.sel /\ sess'.missed = sess.missed /\ sess'.conn = sess.conn
BY Unmoved DEF SavedRead, SessionOK, SessionRecord

LEMMA OnRequestChoice ==
  ASSUME IInv, ChoiceInv, UNCHANGED <<offer, greeterVars>>, OnRequest
  PROVE  ChoiceInv'
<1> DEFINE m == Head(inbox)
<1>1. /\ inbox # <<>> /\ inbox' = Tail(inbox) /\ m.name # "Option"
      /\ worker.step = "none" /\ UNCHANGED <<calls, sess, started, dmrc, panel>>
  BY DEF OnRequest, Listening, slaveVars, greeterVars
<1>2. inbox \in Seq(RequestRecord) /\ m \in RequestRecord /\ WorkerOK(worker)
  BY <1>1, Unmoved, Requested
<1>3. m.name \in {"Setup", "Authenticate", "Open", "Start"} /\ \A o : ~IsOption(m, o)
  BY <1>1, <1>2 DEF RequestRecord, IsOption
<1>4. \/ worker' = worker
      \/ /\ worker.state = Needs[m.name]
         /\ \E n : /\ worker' = [worker EXCEPT !.idle = TRUE, !.name = n]
                   /\ m.name # "Setup" => n = worker.name
  <2>1. CASE worker.state # Needs[m.name]
    BY <2>1 DEF OnRequest
  <2>2. CASE worker.state = Needs[m.name]
    <3>1. PICK n : n = IF m.name = "Setup" THEN m.user ELSE worker.name
      OBVIOUS
    <3>2. worker' = [worker EXCEPT !.idle = TRUE, !.name = n]
      BY <2>2, <3>1 DEF OnRequest
    <3> QED
      BY <2>2, <3>1, <3>2
  <2> QED
    BY <2>1, <2>2
<1> HIDE DEF m
<1>5. /\ worker'.state = worker.state /\ worker'.step = "none" /\ worker'.pc = worker.pc
      /\ worker'.known = worker.known /\ worker'.made = worker.made
      /\ worker'.settings = worker.settings /\ worker'.failsafe = worker.failsafe
      /\ worker'.loading = worker.loading
      /\ worker'.name = worker.name
         \/ (worker.state = "none" /\ m.name = "Setup")
      /\ worker'.idle => worker.idle \/ worker.state = Needs[m.name]
  <2>1. CASE worker' = worker
    BY <1>1, <2>1
  <2>2. CASE worker' # worker
    <3>1. PICK n : /\ worker' = [worker EXCEPT !.idle = TRUE, !.name = n]
                   /\ worker.state = Needs[m.name]
                   /\ m.name # "Setup" => n = worker.name
      BY <1>4, <2>2
    <3>2. m.name = "Setup" => worker.state = "none"
      BY <3>1 DEF Needs
    <3> QED
      BY <1>1, <1>2, <3>1, <3>2 DEF WorkerOK, WorkerRecord
  <2> QED
    BY <2>1, <2>2
<1>6. worker.loading = <<>>
  BY <1>1, <1>2 DEF WorkerOK
<1>7. worker.state = "none" => ~worker.made /\ worker.settings = Nothing
  BY <1>1 DEF ChoiceInv, BookInv, MadeInv
<1>8. ListInv'
  BY <1>1, ListLeft DEF ChoiceInv
<1>9. BookInv'
  <2>1. MadeInv'
    BY <1>1, <1>5, <1>6, SameSets DEF ChoiceInv, BookInv, MadeInv
  <2>2. NameInv'
    BY <1>5, <1>7 DEF ChoiceInv, BookInv, NameInv
  <2> QED
    BY <1>1, <1>5, <2>1, <2>2 DEF ChoiceInv, BookInv
<1>10. SentInv'
  <2> SUFFICES ASSUME ~sess.missed, NEW o \in offer, sess.sel[o] # NoName
               PROVE  \/ LastIs(inbox', o, sess.sel[o])
                      \/ /\ Without(inbox', o) /\ worker'.made
                         /\ worker'.settings[o] = sess.sel[o]
    BY <1>1 DEF SentInv, LastIs, Without, IsOption
  <2>1. \/ LastIs(inbox, o, sess.sel[o])
        \/ Without(inbox, o) /\ worker.made /\ worker.settings[o] = sess.sel[o]
    BY DEF ChoiceInv, SentInv
  <2>2. /\ LastIs(inbox, o, sess.sel[o]) => LastIs(inbox', o, sess.sel[o])
        /\ Without(inbox, o) => Without(inbox', o)
    BY <1>1, <1>2, <1>3, ReadsOther DEF m
  <2> QED
    BY <1>5, <2>1, <2>2
<1>11. OrderInv'
  <2>1. /\ HasStart(inbox') => HasStart(inbox)
        /\ NoneBehind(inbox) => NoneBehind(inbox')
        /\ NoneLeft(inbox) => NoneLeft(inbox')
        /\ m.name = "Start" => HasStart(inbox) /\ (NoneBehind(inbox) => NoneLeft(inbox'))
    BY <1>1, <1>2, ReadsRequest DEF m
  <2>2. Launching' => Launching \/ m.name = "Start"
    <3>1. worker.state = "opened" /\ worker.state = Needs[m.name] => m.name = "Start"
      BY <1>3 DEF Needs
    <3> QED
      BY <1>5, <3>1 DEF Launching
  <2> SUFFICES ASSUME offer # {}, Launching' \/ HasStart(inbox')
               PROVE  /\ started' # Nothing'
                      /\ ~sess'.missed =>
                           /\ calls' = <<>> /\ NoneBehind(inbox')
                           /\ Launching' => NoneLeft(inbox')
    BY DEF OrderInv, HasStart, NoneBehind, NoneLeft
  <2>3. /\ started # Nothing
        /\ ~sess.missed =>
             calls = <<>> /\ NoneBehind(inbox) /\ (Launching => NoneLeft(inbox))
    BY <2>1, <2>2 DEF ChoiceInv, OrderInv
  <2> QED
    BY <1>1, <2>1, <2>2, <2>3, SameSets
<1>12. FailsafeInv'
  <2>1. CASE "session" \notin offer
    BY <2>1 DEF FailsafeInv
  <2>2. CASE "session" \in offer
    <3>1. inbox' \in Seq(MarkedRequest)
      BY <1>1, <2>2, HeadTailProperties DEF ChoiceInv, FailsafeInv
    <3>2. worker.state = "none" => worker.settings["session"] = NoName
      BY <1>7, <2>2 DEF Nothing
    <3> QED
      BY <1>1, <1>5, <2>2, <3>1, <3>2, SoundCalls DEF ChoiceInv, FailsafeInv
  <2> QED
    BY <2>1, <2>2
<1> QED
  BY <1>8, <1>9, <1>10, <1>11, <1>12 DEF ChoiceInv

LEMMA OnSetOptionChoice ==
  ASSUME IInv, ChoiceInv, UNCHANGED <<offer, greeterVars>>, OnSetOption
  PROVE  ChoiceInv'
<1> DEFINE m == Head(inbox)
<1>1. /\ inbox # <<>> /\ inbox' = Tail(inbox) /\ m.name = "Option"
      /\ worker.step = "none" /\ UNCHANGED <<calls, started, dmrc, panel>>
  BY DEF OnSetOption, Listening, greeterVars
<1>2. inbox \in Seq(RequestRecord) /\ m \in RequestRecord /\ WorkerOK(worker)
  BY <1>1, Unmoved, Requested
<1>3. m.opt \in offer /\ \A o : IsOption(m, o) <=> o = m.opt
  BY <1>1, <1>2 DEF RequestRecord, IsOption
<1>4. worker.loading = <<>>
  BY <1>1, <1>2 DEF WorkerOK
<1>5. /\ sess'.sel = sess.sel /\ sess'.conn = sess.conn /\ (sess.missed => sess'.missed)
      /\ ~worker.made => sess'.missed
  <2>1. CASE ~worker.made
    <3>1. sess' = [sess EXCEPT !.missed = TRUE]
      BY <2>1 DEF OnSetOption
    <3> QED
      BY <3>1, <2>1, Unmoved DEF SessionOK, SessionRecord
  <2>2. CASE worker.made
    <3>1. SavedRead(m.opt, m.item) \/ UNCHANGED sess
      BY <2>2 DEF OnSetOption
    <3> QED
      BY <2>2, <3>1, SavedKeeps
  <2> QED
    BY <2>1, <2>2
<1>6. /\ worker'.state = worker.state /\ worker'.step = "none" /\ worker'.pc = worker.pc
      /\ worker'.known = worker.known /\ worker'.made = worker.made
      /\ worker'.idle = worker.idle /\ worker'.name = worker.name
      /\ worker'.loading = worker.loading
      /\ ~worker.made => /\ worker'.settings = worker.settings
                         /\ worker'.failsafe = worker.failsafe
      /\ worker.made =>
           /\ worker'.settings[m.opt] = m.item
           /\ \A o \in offer \ {m.opt} : worker'.settings[o] = worker.settings[o]
           /\ worker'.failsafe = IF m.opt = "session" THEN m.failsafe ELSE worker.failsafe
  <2>1. CASE ~worker.made
    BY <1>1, <2>1 DEF OnSetOption
  <2>2. CASE worker.made
    <3> DEFINE f == [worker.settings EXCEPT ![m.opt] = m.item]
    <3>1. PICK b : b = IF m.opt = "session" THEN m.failsafe ELSE worker.failsafe
      OBVIOUS
    <3>2. worker' = [worker EXCEPT !.settings = f, !.failsafe = b]
      BY <2>2, <3>1 DEF OnSetOption
    <3>3. f[m.opt] = m.item /\ \A o \in offer \ {m.opt} : f[o] = worker.settings[o]
      BY <1>2, <1>3 DEF WorkerOK, WorkerRecord
    <3> HIDE DEF f, m
    <3> QED
      BY <1>1, <1>2, <2>2, <3>1, <3>2, <3>3 DEF WorkerOK, WorkerRecord
  <2> QED
    BY <2>1, <2>2
<1> HIDE DEF m
<1>7. ListInv'
  BY <1>1, <1>5, ListLeft DEF ChoiceInv
<1>8. BookInv'
  <2>1. MadeInv'
    BY <1>1, <1>4, <1>6, SameSets DEF ChoiceInv, BookInv, MadeInv
  <2>2. NameInv'
    BY <1>1, <1>6 DEF ChoiceInv, BookInv, NameInv
  <2> QED
    BY <1>5, <1>6, <2>1, <2>2 DEF ChoiceInv, BookInv
<1>9. SentInv'
  <2> SUFFICES ASSUME ~sess'.missed, NEW o \in offer, sess.sel[o] # NoName
               PROVE  \/ LastIs(inbox', o, sess.sel[o])
                      \/ /\ Without(inbox', o) /\ worker'.made
                         /\ worker'.settings[o] = sess.sel[o]
    BY <1>5 DEF SentInv, LastIs, Without, IsOption
  <2>1. worker.made /\ ~sess.missed
    BY <1>5
  <2>2. \/ LastIs(inbox, o, sess.sel[o])
        \/ Without(inbox, o) /\ worker.settings[o] = sess.sel[o]
    BY <2>1 DEF ChoiceInv, SentInv
  <2>3. CASE o = m.opt
    <3>1. ~Without(inbox, o)
      BY <1>1, <1>2, <1>3, <2>3, Shorter DEF Without, m
    <3>2. LastIs(inbox, o, sess.sel[o])
      BY <2>2, <3>1
    <3>3. \/ LastIs(inbox', o, sess.sel[o])
          \/ m.item = sess.sel[o] /\ Without(inbox', o)
      BY <1>1, <1>2, <3>2, ReadsOption DEF m
    <3> QED
      BY <1>6, <2>1, <2>3, <3>3
  <2>4. CASE o # m.opt
    <3>1. ~IsOption(m, o)
      BY <1>3, <2>4
    <3>2. /\ LastIs(inbox, o, sess.sel[o]) => LastIs(inbox', o, sess.sel[o])
          /\ Without(inbox, o) => Without(inbox', o)
      BY <1>1, <1>2, <3>1, ReadsOther DEF m
    <3> QED
      BY <1>6, <2>1, <2>2, <2>4, <3>2
  <2> QED
    BY <2>3, <2>4
<1>10. OrderInv'
  <2>1. /\ HasStart(inbox') => HasStart(inbox)
        /\ NoneBehind(inbox) => NoneBehind(inbox')
        /\ NoneLeft(inbox) => NoneLeft(inbox')
    BY <1>1, <1>2, ReadsRequest
  <2>2. Launching' => Launching
    BY <1>1, <1>6 DEF Launching
  <2> SUFFICES ASSUME offer # {}, Launching' \/ HasStart(inbox')
               PROVE  /\ started' # Nothing'
                      /\ ~sess'.missed =>
                           /\ calls' = <<>> /\ NoneBehind(inbox')
                           /\ Launching' => NoneLeft(inbox')
    BY DEF OrderInv, HasStart, NoneBehind, NoneLeft
  <2>3. /\ started # Nothing
        /\ ~sess.missed =>
             calls = <<>> /\ NoneBehind(inbox) /\ (Launching => NoneLeft(inbox))
    BY <2>1, <2>2 DEF ChoiceInv, OrderInv
  <2> QED
    BY <1>1, <1>5, <2>1, <2>2, <2>3, SameSets
<1>11. FailsafeInv'
  <2>1. CASE "session" \notin offer
    BY <2>1 DEF FailsafeInv
  <2>2. CASE "session" \in offer
    <3>1. inbox \in Seq(MarkedRequest)
      BY <2>2 DEF ChoiceInv, FailsafeInv
    <3>2. inbox' \in Seq(MarkedRequest) /\ m \in MarkedRequest
      BY <1>1, <3>1, HeadTailProperties DEF m
    <3>3. m.opt = "session" /\ m.item \in SaysFailsafe => m.failsafe
      BY <1>3, <3>2 DEF MarkedRequest
    <3>4. CASE worker.made /\ m.opt = "session"
      BY <1>6, <2>2, <3>2, <3>3, <3>4, SoundCalls DEF FailsafeInv
    <3>5. CASE ~(worker.made /\ m.opt = "session")
      <4>1. /\ worker'.settings["session"] = worker.settings["session"]
            /\ worker'.failsafe = worker.failsafe
        BY <1>6, <2>2, <3>5
      <4> QED
        BY <1>1, <1>6, <2>2, <3>2, <4>1, SoundCalls DEF ChoiceInv, FailsafeInv
    <3> QED
      BY <3>4, <3>5
  <2> QED
    BY <2>1, <2>2
<1> QED
  BY <1>7, <1>8, <1>9, <1>10, <1>11 DEF ChoiceInv

LEMMA StateChangeIdleChoice ==
  ASSUME IInv, ChoiceInv, UNCHANGED <<offer, greeterVars>>, StateChangeIdle
  PROVE  ChoiceInv'
<1>1. /\ worker.step = "none" /\ worker.idle /\ worker.loading = <<>>
      /\ UNCHANGED <<calls, sess, started, inbox, dmrc, panel>>
  BY Unmoved DEF StateChangeIdle, Listening, WorkerOK, slaveVars, greeterVars
<1>2. /\ worker \in WorkerRecord /\ Quiet
      /\ worker.state \in {"none", "setup", "authenticated", "opened"}
  BY <1>1, Unmoved DEF WorkerOK, WorkerRecord, Quiet
<1>3. CASE worker.state = "none"
  <2> DEFINE l == Loads(worker.name)
             n == Nothing
  <2>1. worker' = [worker EXCEPT !.idle = FALSE, !.step = "setup", !.known = worker.name,
                                 !.made = TRUE, !.settings = n, !.loading = l]
    BY <1>3 DEF StateChangeIdle
  <2>2. \A o \in offer : n[o] = NoName
    BY DEF Nothing
  <2> HIDE DEF n, l
  <2>3. /\ worker'.state = "none" /\ worker'.step = "setup" /\ worker'.pc = worker.pc
        /\ worker'.known = worker.name /\ worker'.name = worker.name /\ worker'.made
        /\ worker'.settings = n /\ ~worker'.idle
    BY <1>2, <1>3, <2>1 DEF WorkerRecord
  <2>4. ~worker.made
    BY <1>1, <1>3 DEF ChoiceInv, BookInv, MadeInv
  <2>5. BookInv'
    BY <1>1, <2>2, <2>3 DEF ChoiceInv, BookInv, MadeInv, NameInv
  <2>6. ListInv' /\ SentInv'
    BY <1>1, <1>2, <2>4, ListLeft, SentLeft DEF ChoiceInv
  <2>7. OrderInv'
    BY <1>1, <1>2, <2>3, OrderLeft DEF ChoiceInv, Launching
  <2>8. FailsafeInv'
    BY <1>1, <2>2, <2>3, SoundCalls DEF ChoiceInv, FailsafeInv
  <2> QED
    BY <2>5, <2>6, <2>7, <2>8 DEF ChoiceInv
<1>4. CASE worker.state # "none"
  <2>1. PICK sp \in {"authenticate", "open", "start"} :
          /\ Moves(worker.state, FALSE, sp, worker.known)
          /\ sp \in {"open", "start"} => worker.state \in {"authenticated", "opened"}
          /\ sp = "start" => worker.state = "opened"
    <3>1. CASE worker.state = "setup"
      BY <1>2, <3>1 DEF StateChangeIdle, Moves, WorkerRecord
    <3>2. CASE worker.state = "authenticated"
      BY <1>2, <3>2 DEF StateChangeIdle, Moves, WorkerRecord
    <3>3. CASE worker.state = "opened"
      BY <1>2, <3>3 DEF StateChangeIdle, Moves, WorkerRecord
    <3> QED
      BY <1>2, <1>4, <3>1, <3>2, <3>3
  <2>2. /\ worker.made /\ (worker.known # worker.name => worker.name = NoName)
        /\ worker.state \in {"authenticated", "opened"} => worker.name # NoName
    BY <1>4 DEF ChoiceInv, BookInv, MadeInv, NameInv
  <2>3. BookInv'
    BY <1>1, <2>1, <2>2, WorkerBooks
  <2>4. /\ worker'.state = worker.state /\ worker'.idle = FALSE /\ worker'.step = sp
        /\ worker'.name = worker.name /\ worker'.made = worker.made
        /\ worker'.settings = worker.settings /\ worker'.failsafe = worker.failsafe
    BY <1>2, <2>1 DEF Moves, WorkerRecord
  <2>5. Launching' => Launching
    BY <1>1, <2>1, <2>4 DEF Launching
  <2> QED
    BY <1>1, <1>2, <2>3, <2>4, <2>5, Ordinary
<1> QED
  BY <1>3, <1>4

LEMMA LoadSettingChoice ==
  ASSUME IInv, ChoiceInv, UNCHANGED <<offer, greeterVars>>, LoadSetting
  PROVE  ChoiceInv'
<1> DEFINE o == Head(worker.loading)
           x == dmrc[worker.name][o]
           l == Tail(worker.loading)
           f == [worker.settings EXCEPT ![o] = x]
<1>1. /\ worker' = [worker EXCEPT !.loading = l, !.settings = f, !.failsafe = FALSE]
      /\ SavedRead(o, x)
      /\ UNCHANGED <<calls, started, inbox, dmrc, panel>>
  BY DEF LoadSetting, greeterVars
<1>2. /\ worker.loading \in Seq(offer) /\ worker.loading # <<>> /\ worker \in WorkerRecord
      /\ worker.step \in {"setup", "authenticate"}
  BY Unmoved DEF LoadSetting, WorkerOK, WorkerRecord
<1>3. o \in offer
  BY <1>2, HeadTailProperties
<1>4. /\ f[o] = x /\ \A p \in offer \ {o} : f[p] = worker.settings[p]
  BY <1>2, <1>3 DEF WorkerRecord
<1> HIDE DEF o, l, f
<1>5. /\ worker'.state = worker.state /\ worker'.step = worker.step
      /\ worker'.pc = worker.pc /\ worker'.idle = worker.idle
      /\ worker'.known = worker.known /\ worker'.name = worker.name
      /\ worker'.made = worker.made /\ worker'.settings = f /\ ~worker'.failsafe
  BY <1>1, <1>2 DEF WorkerRecord
<1>6. sess'.sel = sess.sel /\ sess'.missed = sess.missed /\ sess'.conn = sess.conn
  BY <1>1, SavedKeeps
<1>7. worker.made /\ \A p \in offer : worker.settings[p] \in {NoName, dmrc[worker.name][p]}
  BY <1>2 DEF ChoiceInv, BookInv, MadeInv
<1>8. \A p \in offer : /\ f[p] \in {NoName, dmrc[worker.name][p]}
                       /\ worker.settings[p] # NoName => f[p] = worker.settings[p]
  BY <1>3, <1>4, <1>7
<1>9. BookInv'
  <2>1. MadeInv'
    BY <1>1, <1>5, <1>7, <1>8 DEF ChoiceInv, BookInv, MadeInv
  <2>2. NameInv'
    BY <1>5 DEF ChoiceInv, BookInv, NameInv
  <2> QED
    BY <1>5, <1>6, <2>1, <2>2 DEF ChoiceInv, BookInv
<1>10. ListInv'
  BY <1>1, <1>6, ListLeft DEF ChoiceInv
<1>11. Quiet /\ (Launching' => Launching)
  BY <1>1, <1>5 DEF Quiet, Launching
<1>12. SentInv' /\ OrderInv'
  BY <1>1, <1>5, <1>6, <1>8, <1>11, SentLeft, OrderLeft DEF ChoiceInv
<1>13. FailsafeInv'
  <2>1. CASE "session" \notin offer
    BY <2>1 DEF FailsafeInv
  <2>2. CASE "session" \in offer
    <3>1. worker.name \in User
      BY <1>2, Unmoved DEF WorkerOK
    <3>2. worker'.settings["session"] # NoName
            => worker'.settings["session"] = dmrc'[worker'.name]["session"]
      BY <1>1, <1>5, <1>8, <2>2
    <3>3. worker.name # NoName
      BY <1>2, Unmoved DEF WorkerOK
    <3> QED
      BY <1>1, <1>5, <2>2, <3>2, <3>3, SoundCalls DEF ChoiceInv, FailsafeInv
  <2> QED
    BY <2>1, <2>2
<1> QED
  BY <1>9, <1>10, <1>12, <1>13 DEF ChoiceInv

LEMMA UpdateUsernameChoice ==
  ASSUME IInv, ChoiceInv, UNCHANGED <<offer, greeterVars>>, UpdateUsername
  PROVE  ChoiceInv'
<1>1. /\ worker.step = "authenticate" /\ worker.known # worker.name
      /\ sess' = ForUser(sess, worker.known)
      /\ UNCHANGED <<calls, started, inbox, dmrc, panel>>
  BY DEF UpdateUsername, UsernameChanged, Doing, greeterVars
<1>2. PICK l : l = IF worker.settings = Nothing THEN Loads(worker.known) ELSE <<>>
  OBVIOUS
<1>3. worker' = [worker EXCEPT !.name = worker.known, !.loading = l]
  BY <1>2 DEF UpdateUsername
<1>4. l # <<>> => worker.settings = Nothing
  BY <1>2
<1>5. /\ worker'.state = worker.state /\ worker'.step = worker.step
      /\ worker'.pc = worker.pc /\ worker'.idle = worker.idle
      /\ worker'.known = worker.known /\ worker'.name = worker.known
      /\ worker'.made = worker.made /\ worker'.settings = worker.settings
      /\ worker'.failsafe = worker.failsafe /\ worker'.loading = l
  BY <1>3, Unmoved DEF WorkerOK, WorkerRecord
<1>6. worker.name = NoName /\ worker.known # NoName
  BY <1>1 DEF ChoiceInv, BookInv, MadeInv, NameInv
<1>7. sess'.sel = sess.sel /\ sess'.missed = sess.missed /\ sess'.conn = sess.conn
  BY <1>1, ForUserKeeps
<1>8. BookInv'
  <2>1. MadeInv'
    <3>1. worker'.loading # <<>> => \A o \in offer : worker'.settings[o] = NoName
      BY <1>4, <1>5 DEF Nothing
    <3>2. Nothing' = Nothing
      BY SameSets
    <3> QED
      BY <1>5, <3>1, <3>2 DEF ChoiceInv, BookInv, MadeInv
  <2>2. NameInv'
    BY <1>1, <1>5, <1>6 DEF ChoiceInv, BookInv, NameInv
  <2> QED
    BY <1>5, <1>7, <2>1, <2>2 DEF ChoiceInv, BookInv
<1> QED
  BY <1>1, <1>5, <1>6, <1>7, <1>8, Ordinary DEF Launching, Quiet

\* The settings that are written.
LEMMA Writes ==
  ASSUME IInv, ChoiceInv, StartSession
  PROVE  /\ worker.name \in User /\ worker.name # NoName
         /\ \A u \in User \ {worker.name} : dmrc'[u] = dmrc[u]
         /\ worker.failsafe => dmrc' = dmrc
         /\ ~worker.failsafe =>
              \A o \in offer :
                dmrc'[worker.name][o] = IF worker.settings[o] # NoName
                                        THEN worker.settings[o] ELSE dmrc[worker.name][o]
<1>1. worker.step = "start"
  BY DEF StartSession, Doing
<1>2. worker.name # NoName
  BY <1>1 DEF ChoiceInv, BookInv, NameInv
<1>3. worker.name \in User
  BY <1>2, Unmoved DEF WorkerOK, WorkerRecord, Account
<1> DEFINE row == dmrc[worker.name]
           new == [o \in offer |-> IF worker.settings[o] # NoName
                                   THEN worker.settings[o] ELSE row[o]]
<1>4. dmrc' = [dmrc EXCEPT ![worker.name] = IF ~worker.failsafe THEN new ELSE row]
  BY DEF StartSession
<1>5. dmrc \in [User -> [offer -> Values]]
  BY DEF IInv, DmrcInv
<1>6. CASE worker.failsafe
  BY <1>2, <1>3, <1>4, <1>5, <1>6
<1>7. CASE ~worker.failsafe
  <2>1. dmrc' = [dmrc EXCEPT ![worker.name] = new]
    BY <1>4, <1>7
  <2>2. \A o \in offer : new[o] = IF worker.settings[o] # NoName
                                  THEN worker.settings[o] ELSE row[o]
    OBVIOUS
  <2> HIDE DEF new
  <2>3. dmrc'[worker.name] = new /\ \A u \in User \ {worker.name} : dmrc'[u] = dmrc[u]
    BY <1>3, <1>5, <2>1
  <2> QED
    BY <1>2, <1>3, <1>7, <2>2, <2>3
<1> QED
  BY <1>6, <1>7

LEMMA StartSessionChoice ==
  ASSUME IInv, ChoiceInv, UNCHANGED <<offer, greeterVars>>, StartSession
  PROVE  ChoiceInv'
<1>1. /\ worker.step = "start" /\ worker.loading = <<>>
      /\ worker' = [worker EXCEPT !.step = "none", !.state = "started"]
      /\ UNCHANGED <<calls, sess, started, inbox, panel>>
  BY DEF StartSession, Doing, slaveVars, greeterVars
<1>2. /\ worker'.state = "started" /\ worker'.step = "none"
      /\ worker'.pc = worker.pc /\ worker'.idle = worker.idle
      /\ worker'.known = worker.known /\ worker'.name = worker.name
      /\ worker'.made = worker.made /\ worker'.settings = worker.settings
      /\ worker'.failsafe = worker.failsafe /\ worker'.loading = worker.loading
  BY <1>1, Unmoved DEF WorkerOK, WorkerRecord
<1>3. BookInv'
  BY <1>1, <1>2, SameSets DEF ChoiceInv, BookInv, MadeInv, NameInv
<1>4. Quiet /\ ~Launching'
  BY <1>1, <1>2 DEF Quiet, Launching
<1>5. ListInv' /\ SentInv' /\ OrderInv'
  BY <1>1, <1>2, <1>4, ListLeft, SentLeft, OrderLeft DEF ChoiceInv
<1>6. FailsafeInv'
  <2>1. CASE "session" \notin offer
    BY <2>1 DEF FailsafeInv
  <2>2. CASE "session" \in offer
    <3>1. CASE worker.failsafe
      BY <1>1, <1>2, <2>2, <3>1, SoundCalls DEF ChoiceInv, FailsafeInv
    <3>2. CASE ~worker.failsafe
      <4>1. worker.settings["session"] # NoName
              => dmrc'[worker.name]["session"] = worker.settings["session"]
        BY <2>2, <3>2, Writes
      <4> QED
        BY <1>1, <1>2, <2>2, <4>1, Writes, SoundCalls DEF ChoiceInv, FailsafeInv
    <3> QED
      BY <3>1, <3>2
  <2> QED
    BY <2>1, <2>2
<1> QED
  BY <1>3, <1>5, <1>6 DEF ChoiceInv

LEMMA ChoiceInitially ==
  ASSUME Init
  PROVE  ChoiceInv
<1>1. IInv
  BY Initially
<1>2. /\ calls = <<>> /\ inbox = <<>> /\ sess = NewSession /\ worker = NewWorker
  BY DEF Init
<1>3. ~sess.conn /\ sess.sel = Nothing
  BY <1>2 DEF NewSession
<1>4. /\ worker.state = "none" /\ worker.step = "none" /\ ~worker.made /\ ~worker.idle
      /\ worker.settings = Nothing /\ worker.loading = <<>>
  BY <1>2 DEF NewWorker, NoWorker
<1>5. \A o \in offer : Nothing[o] = NoName
  BY DEF Nothing
<1>6. ListInv
  <2>1. CASE "session" \notin offer
    BY <2>1 DEF ListInv
  <2>2. CASE "session" \in offer
    <3>1. panel["session"] = NewWidget(Recent["session"], NoName)
      BY <2>2 DEF Init
    <3>2. Recent["session"] \in Seq(Sessions)
      BY <1>1, <2>2, SessionFacts, Unmoved
    <3>3. /\ panel["session"] \in WidgetOf(Sessions)
          /\ panel["session"].rows = Recent["session"]
      BY <3>1, <3>2 DEF NewWidget, WidgetOf
    <3>4. calls \in Seq(SoundCall)
      BY <1>2
    <3> QED
      BY <1>3, <1>5, <2>2, <3>3, <3>4 DEF ListInv
  <2> QED
    BY <2>1, <2>2
<1>7. BookInv
  BY <1>3, <1>4 DEF BookInv, MadeInv, NameInv
<1>8. SentInv
  BY <1>3, <1>5 DEF SentInv
<1>9. OrderInv
  BY <1>2, <1>4 DEF OrderInv, Launching, HasStart
<1>10. FailsafeInv
  <2>1. inbox \in Seq(MarkedRequest)
    BY <1>2
  <2> QED
    BY <1>4, <1>5, <2>1 DEF FailsafeInv
<1> QED
  BY <1>6, <1>7, <1>8, <1>9, <1>10 DEF ChoiceInv

LEMMA ChoiceSteps ==
  ASSUME IInv, IInv', ChoiceInv, [Next]_vars
  PROVE  ChoiceInv'
<1>1. CASE UNCHANGED vars
  <2>1. UNCHANGED <<offer, greeterVars, calls, sess, started, inbox, worker, dmrc>>
    BY <1>1 DEF vars, slaveVars, workerVars
  <2> QED
    BY <2>1, SlaveOnly DEF Quiet
<1>2. CASE Next
  <2>1. UNCHANGED offer
    BY <1>2 DEF Next
  <2>2. CASE /\ started = Nothing /\ (UserStep \/ GreeterStep)
             /\ UNCHANGED <<slaveVars, workerVars, inbox>>
    <3>1. ListInv'
      BY <2>1, <2>2, UserListInv, GreeterListInv DEF ChoiceInv
    <3> QED
      BY <2>1, <2>2, <3>1, GreeterChoice
  <2>3. CASE /\ ConversationStarted \/ FromGreeter \/ IdleReset \/ IdleStart \/ WorkerStep
             /\ UNCHANGED greeterVars
    <3>1. CASE FromGreeter
      BY <2>1, <2>3, <3>1, SelectUserChoice, BeginVerificationChoice,
         BeginVerificationForUserChoice, AnswerQueryChoice, CancelChoice,
         StartSessionWhenReadyChoice, SelectOptionChoice DEF FromGreeter
    <3>2. CASE PamRefuses \/ OpenFails
      BY <2>1, <2>3, <3>2, GiveUpChoice DEF PamRefuses, OpenFails
    <3>3. CASE WorkerStep /\ ~(PamRefuses \/ OpenFails)
      BY <2>1, <2>3, <3>3, OnRequestChoice, OnSetOptionChoice, StateChangeIdleChoice,
         LoadSettingChoice, SetupCompleteChoice, UpdateUsernameChoice, AskQuestionChoice,
         PamAcceptsChoice, AuthorizedChoice, OpenedChoice, StartSessionChoice DEF WorkerStep
    <3>4. CASE ConversationStarted \/ IdleReset \/ IdleStart
      BY <2>1, <2>3, <3>4, ConversationStartedChoice, IdleResetChoice, IdleStartChoice
    <3> QED
      BY <2>3, <3>1, <3>2, <3>3, <3>4
  <2> QED
    BY <1>2, <2>2, <2>3 DEF Next
<1> QED
  BY <1>1, <1>2

\* A choice is on its way, or is what the worker has set.
THEOREM ChoiceAlways == Spec => []ChoiceInv
<1>1. Init => ChoiceInv
  BY ChoiceInitially
<1>2. IInv /\ IInv' /\ ChoiceInv /\ [Next]_vars => ChoiceInv'
  BY ChoiceSteps
<1> QED
  BY <1>1, <1>2, Invariant, PTL DEF Spec

(* Only a session that starts writes the settings of an account. *)

LEMMA ReadingStarts ==
  ASSUME IInv, OnRequest \/ OnSetOption \/ StateChangeIdle \/ LoadSetting
  PROVE  worker'.state = worker.state /\ dmrc' = dmrc
<1>1. worker \in WorkerRecord
  BY Unmoved DEF WorkerOK
<1>2. CASE OnRequest
  <2>1. CASE worker.state # Needs[Head(inbox).name]
    BY <1>2, <2>1 DEF OnRequest
  <2>2. CASE worker.state = Needs[Head(inbox).name]
    <3>1. PICK n : n = IF Head(inbox).name = "Setup" THEN Head(inbox).user ELSE worker.name
      OBVIOUS
    <3>2. worker' = [worker EXCEPT !.idle = TRUE, !.name = n] /\ dmrc' = dmrc
      BY <1>2, <2>2, <3>1 DEF OnRequest
    <3> QED
      BY <1>1, <3>2 DEF WorkerRecord
  <2> QED
    BY <2>1, <2>2
<1>3. CASE OnSetOption
  <2> DEFINE m == Head(inbox)
             f == [worker.settings EXCEPT ![m.opt] = m.item]
  <2>1. CASE ~worker.made
    BY <1>3, <2>1 DEF OnSetOption
  <2>2. CASE worker.made
    <3>1. PICK b : b = IF m.opt = "session" THEN m.failsafe ELSE worker.failsafe
      OBVIOUS
    <3>2. worker' = [worker EXCEPT !.settings = f, !.failsafe = b] /\ dmrc' = dmrc
      BY <1>3, <2>2, <3>1 DEF OnSetOption
    <3> HIDE DEF f
    <3> QED
      BY <1>1, <3>2 DEF WorkerRecord
  <2> QED
    BY <2>1, <2>2
<1>4. CASE StateChangeIdle
  <2>1. worker.state \in {"none", "setup", "authenticated", "opened"} /\ dmrc' = dmrc
    BY <1>1, <1>4, Unmoved DEF StateChangeIdle, WorkerOK, WorkerRecord
  <2>2. CASE worker.state = "none"
    <3> DEFINE l == Loads(worker.name)
               n == Nothing
    <3>1. worker' = [worker EXCEPT !.idle = FALSE, !.step = "setup", !.known = worker.name,
                                   !.made = TRUE, !.settings = n, !.loading = l]
      BY <1>4, <2>2 DEF StateChangeIdle
    <3> HIDE DEF l, n
    <3> QED
      BY <1>1, <2>1, <3>1 DEF WorkerRecord
  <2>3. CASE worker.state # "none"
    <3>1. \E sp : worker' = [worker EXCEPT !.idle = FALSE, !.step = sp]
      BY <1>4, <2>1, <2>3 DEF StateChangeIdle
    <3> QED
      BY <1>1, <2>1, <3>1 DEF WorkerRecord
  <2> QED
    BY <2>2, <2>3
<1>5. CASE LoadSetting
  <2> DEFINE o == Head(worker.loading)
             l == Tail(worker.loading)
             f == [worker.settings EXCEPT ![o] = dmrc[worker.name][o]]
  <2>1. worker' = [worker EXCEPT !.loading = l, !.settings = f, !.failsafe = FALSE]
        /\ dmrc' = dmrc
    BY <1>5 DEF LoadSetting
  <2> HIDE DEF l, f
  <2> QED
    BY <1>1, <2>1 DEF WorkerRecord
<1> QED
  BY <1>2, <1>3, <1>4, <1>5

LEMMA StartsAtStart ==
  ASSUME IInv, [Next]_vars
  PROVE  \/ StartSession /\ UNCHANGED <<offer, greeterVars>>
         \/ /\ worker'.state = "started" => worker.state = "started"
            /\ dmrc' = dmrc
<1>1. worker \in WorkerRecord
  BY Unmoved DEF WorkerOK
<1>2. CASE UNCHANGED vars
  BY <1>2 DEF vars, workerVars
<1>3. CASE Next /\ UNCHANGED workerVars
  BY <1>3 DEF workerVars
<1>4. CASE /\ UNCHANGED <<offer, greeterVars>>
           /\ ConversationStarted \/ FromGreeter \/ IdleReset \/ IdleStart \/ WorkerStep
  <2>1. CASE ConversationStarted
    BY <1>1, <2>1 DEF ConversationStarted, WorkerRecord
  <2>2. CASE FromGreeter
    <3>1. CASE AnswerQuery
      BY <1>1, <3>1 DEF AnswerQuery, WorkerRecord
    <3>2. CASE ~AnswerQuery
      <4>1. UNCHANGED workerVars
        BY <2>2, <3>2 DEF FromGreeter, SelectUser, BeginVerification,
           BeginVerificationForUser, Cancel, StartSessionWhenReady, SelectOption
      <4> QED
        BY <4>1 DEF workerVars
    <3> QED
      BY <3>1, <3>2
  <2>3. CASE IdleReset \/ PamRefuses \/ OpenFails
    BY <2>3 DEF IdleReset, PamRefuses, OpenFails, GiveUp, NewWorker, NoWorker
  <2>4. CASE IdleStart
    BY <2>4 DEF IdleStart, workerVars
  <2>5. CASE OnRequest \/ OnSetOption \/ StateChangeIdle \/ LoadSetting
    BY <2>5, ReadingStarts
  <2>6. CASE SetupComplete \/ AskQuestion \/ PamAccepts
    BY <1>1, <2>6 DEF SetupComplete, AskQuestion, PamAccepts, WorkerRecord
  <2>7. CASE Authorized \/ Opened
    BY <1>1, <2>7 DEF Authorized, Opened, WorkerRecord
  <2>8. CASE UpdateUsername
    <3>1. PICK l : l = IF worker.settings = Nothing THEN Loads(worker.known) ELSE <<>>
      OBVIOUS
    <3>2. worker' = [worker EXCEPT !.name = worker.known, !.loading = l] /\ dmrc' = dmrc
      BY <2>8, <3>1 DEF UpdateUsername
    <3> QED
      BY <1>1, <3>2 DEF WorkerRecord
  <2>9. CASE StartSession
    BY <1>4, <2>9
  <2> QED
    BY <1>4, <2>1, <2>2, <2>3, <2>4, <2>5, <2>6, <2>7, <2>8, <2>9 DEF WorkerStep
<1> QED
  BY <1>2, <1>3, <1>4 DEF Next

\* When the session starts nothing is under way to the worker any more.
LEMMA StartIsSettled ==
  ASSUME IInv, ChoiceInv, StartSession, ~sess.missed,
         NEW o \in offer, sess.sel[o] # NoName
  PROVE  worker.settings[o] = sess.sel[o]
<1>1. Launching
  BY DEF StartSession, Doing, Launching
<1>2. NoneLeft(inbox)
  BY <1>1 DEF ChoiceInv, OrderInv
<1>3. ~LastIs(inbox, o, sess.sel[o])
  BY <1>2 DEF NoneLeft, LastIs, IsOption
<1> QED
  BY <1>3 DEF ChoiceInv, SentInv

LEMMA ChoiceIsStored ==
  ASSUME IInv, ChoiceInv, [Next]_vars, worker'.state = "started",
         worker.state # "started", NEW o \in offer, sess.sel[o] # NoName,
         ~sess.missed, ~worker.failsafe
  PROVE  OwnDefault(dmrc', worker.name, o) = sess.sel[o]
<1>1. StartSession
  BY StartsAtStart
<1>2. dmrc'[worker.name][o] = sess.sel[o]
  BY <1>1, Writes, StartIsSettled
<1>3. Valid(o, sess.sel[o])
  <2>1. CASE o # "session"
    BY <2>1 DEF Valid
  <2>2. CASE o = "session"
    <3>1. /\ panel["session"].rows = Recent["session"]
          /\ sess.sel["session"] \in Sessions
      BY <2>2 DEF ChoiceInv, ListInv
    <3>2. \E i \in 1 .. Len(Recent["session"]) : Recent["session"][i] = sess.sel["session"]
      BY <3>1 DEF Sessions
    <3> QED
      BY <2>2, <3>1, <3>2 DEF Valid
  <2> QED
    BY <2>1, <2>2
<1> QED
  BY <1>2, <1>3 DEF OwnDefault

LEMMA FailsafeIsNot ==
  ASSUME IInv, ChoiceInv, [Next]_vars, NEW u \in User, "session" \in offer,
         dmrc'[u]["session"] # dmrc[u]["session"]
  PROVE  dmrc'[u]["session"] \notin SaysFailsafe
<1>1. StartSession
  BY StartsAtStart
<1>2. u = worker.name /\ ~worker.failsafe
  BY <1>1, Writes
<1>3. /\ worker.settings["session"] # NoName
      /\ dmrc'[u]["session"] = worker.settings["session"]
  BY <1>1, <1>2, Writes
<1> QED
  BY <1>2, <1>3 DEF ChoiceInv, FailsafeInv

\* What the user chose is what the account starts with the next time, and a session
\* type that says that it is failsafe is never made the account's
\* (mdm_session_settings_save): between the choice and the session's start the
\* choice is either the last request for its option in the worker's inbox or what
\* the worker has set, and no request is left when the session starts.
THEOREM Remembered_Holds == Spec => Remembered
<1> DEFINE Stored == worker'.state = "started" /\ worker.state # "started" =>
             \A o \in offer :
               sess.sel[o] # NoName /\ ~sess.missed /\ ~worker.failsafe
                 => OwnDefault(dmrc', worker.name, o) = sess.sel[o]
           Ordinarily == \A u \in User :
             "session" \in offer /\ dmrc'[u]["session"] # dmrc[u]["session"]
               => dmrc'[u]["session"] \notin SaysFailsafe
<1>1. IInv /\ ChoiceInv /\ [Next]_vars => Stored
  BY ChoiceIsStored
<1>2. IInv /\ ChoiceInv /\ [Next]_vars => Ordinarily
  BY FailsafeIsNot
<1>3. Spec => [][Stored]_vars
  <2> HIDE DEF Stored
  <2> QED
    BY <1>1, Invariant, ChoiceAlways, PTL DEF Spec
<1>4. Spec => [][Ordinarily]_vars
  <2> HIDE DEF Ordinarily
  <2> QED
    BY <1>2, Invariant, ChoiceAlways, PTL DEF Spec
<1> QED
  BY <1>3, <1>4 DEF Remembered

-----------------------------------------------------------------------------
(***************************************************************************)
(* What is started.  The row that is shown, what its list has told the       *)
(* slave, and what the slave would start follow each other through calls and *)
(* signals.                                                                 *)
(***************************************************************************)

\* With a default, the row that is shown is the active one, or the default where
\* there is none; MateConf only notifies of lists that have an item.
Faithful(w) ==
  /\ w.stale => w.rows # <<>>
  /\ w.def # NoName => w.combo = IF w.active \in {NoName, GoneRow} THEN w.def ELSE w.active

\* The last thing that the slave is told of is the active row.
Ends(t) == t.sel # <<>> /\ t.sel[Len(t.sel)] = t.w.active

\* What becomes of a list whose active row the slave knows: it is told of another.
Says(r, t) == Ends(t) \/ (t.sel = r.sel /\ (r.w.def # NoName => t.w.active = r.w.active))

\* A list that has its default: a row that has not been told of is the default.
Defaulted(r, t, x) ==
  /\ t.w.def = x /\ Faithful(t.w)
  /\ Ends(t) \/ (/\ t.sel = r.sel /\ t.w.combo = x
                 /\ r.w.def # NoName => t.w.active = r.w.active)

LEMMA ActivatedEnds ==
  ASSUME NEW I, NEW r \in Handled(I), NEW x \in I
  PROVE  Ends(ActivateRow(r, x))
<1> DEFINE q == Append(r.sel, x)
           v == [r.w EXCEPT !.active = x]
<1>1. ActivateRow(r, x) = [w |-> v, sel |-> q]
  BY DEF ActivateRow
<1>2. v.active = x
  BY DEF Handled
<1>3. q # <<>> /\ q[Len(q)] = x
  BY AppendProperties DEF Handled
<1> HIDE DEF q, v
<1> QED
  BY <1>1, <1>2, <1>3 DEF Ends

\* A row is shown: it becomes the active one and the slave is told, or nothing is.
LEMMA ShowSays ==
  ASSUME NEW I, NEW r \in Handled(I), NEW x \in I \cup {NoName}
  PROVE  \/ /\ Show(r, x).sel = r.sel /\ Show(r, x).w.active = r.w.active
            /\ r.w.combo = x \/ r.w.def = NoName \/ r.w.active = x \/ x = NoName
         \/ /\ Ends(Show(r, x)) /\ Show(r, x).w.active = x
            /\ r.w.def # NoName /\ x # NoName
<1> DEFINE v == [r.w EXCEPT !.combo = x]
           shown == [r EXCEPT !.w = v]
           quiet == r.w.combo = x \/ r.w.def = NoName \/ r.w.active = x \/ x = NoName
<1>1. Show(r, x) = IF quiet THEN shown ELSE ActivateRow(shown, x)
  BY DEF Show
<1>2. /\ v \in [rows : Seq(I), active : I \cup {NoName, GoneRow, OtherRow},
                def : I \cup {NoName}, combo : I \cup {NoName, OtherRow},
                dialog : BOOLEAN, stale : BOOLEAN]
      /\ v.active = r.w.active
  BY DEF Handled
<1> HIDE DEF v
<1>3. shown \in Handled(I) /\ shown.w = v /\ shown.sel = r.sel
  BY <1>2 DEF Handled
<1> HIDE DEF shown
<1>4. CASE quiet
  BY <1>1, <1>2, <1>3, <1>4
<1>5. CASE ~quiet
  <2>1. x \in I
    BY <1>5
  <2>2. Ends(ActivateRow(shown, x)) /\ ActivateRow(shown, x).w.active = x
    BY <1>3, <2>1, ActivatedEnds, ActivatesRow
  <2> QED
    BY <1>1, <1>5, <2>2
<1> QED
  BY <1>4, <1>5

LEMMA SetActiveSays ==
  ASSUME NEW I, NEW r \in Handled(I), NEW x \in I \cup {NoName}
  PROVE  \/ SetActiveItem(r, x).sel = r.sel /\ x = NoName
         \/ /\ SetActiveItem(r, x).sel = r.sel /\ SetActiveItem(r, x).w.active = r.w.active
            /\ r.w.combo = x \/ r.w.def = NoName \/ r.w.active = x
         \/ Ends(SetActiveItem(r, x)) /\ SetActiveItem(r, x).w.active = x /\ r.w.def # NoName
<1>1. CASE x = NoName
  BY <1>1 DEF SetActiveItem, Handled
<1>2. CASE x # NoName
  BY <1>2, ShowSays DEF SetActiveItem
<1> QED
  BY <1>1, <1>2

\* In a list with a default that is faithful the row stays, or is told of.
LEMMA SetActiveFaithful ==
  ASSUME NEW I, NoName \notin I, GoneRow \notin I, NEW r \in Handled(I), NEW x \in I,
         Faithful(r.w)
  PROVE  Says(r, SetActiveItem(r, x)) /\ Faithful(SetActiveItem(r, x).w)
<1> DEFINE t == SetActiveItem(r, x)
<1>1. /\ t \in Handled(I) /\ t.w.rows = r.w.rows /\ t.w.def = r.w.def
      /\ t.w.stale = r.w.stale /\ t.w.combo = x
  BY SetsActiveItem DEF SameList
<1>2. x # NoName /\ x # GoneRow
  OBVIOUS
<1>3. \/ /\ t.sel = r.sel /\ t.w.active = r.w.active
         /\ r.w.combo = x \/ r.w.def = NoName \/ r.w.active = x
      \/ Ends(t) /\ t.w.active = x /\ r.w.def # NoName
  BY <1>2, SetActiveSays
<1> HIDE DEF t
<1>4. Says(r, t)
  BY <1>3 DEF Says
<1>5. Faithful(t.w)
  BY <1>1, <1>2, <1>3 DEF Faithful
<1> QED
  BY <1>4, <1>5 DEF t

\* Without a default nothing is told.
LEMMA SetActiveQuiet ==
  ASSUME NEW I, NEW r \in Handled(I), NEW x \in I \cup {NoName}, r.w.def = NoName,
         Faithful(r.w)
  PROVE  /\ SetActiveItem(r, x).sel = r.sel
         /\ Faithful(SetActiveItem(r, x).w) /\ SetActiveItem(r, x).w.def = NoName
<1>1. /\ SetActiveItem(r, x).w.rows = r.w.rows /\ SetActiveItem(r, x).w.def = r.w.def
      /\ SetActiveItem(r, x).w.stale = r.w.stale
  BY SetsActiveItem DEF SameList
<1>2. SetActiveItem(r, x).sel = r.sel
  BY SetActiveSays
<1> QED
  BY <1>1, <1>2 DEF Faithful

\* The active row is not changed by a default.
LEMMA SetDefaultSays ==
  ASSUME NEW I, NoName \notin I, GoneRow \notin I,
         NEW r \in Settled(I), Faithful(r.w), NEW x \in I
  PROVE  LET t == SetDefaultItem(r, x)
         IN  /\ t.w.def = x /\ t.w.active = r.w.active /\ Faithful(t.w)
             /\ Ends(t) \/ (t.sel = r.sel /\ t.w.combo = x)
<1> DEFINE bare == [r EXCEPT !.w.def = NoName]
           moved == IF r.w.active = NoName \/ x # NoName THEN SetActiveItem(bare, x) ELSE bare
           r1 == IF r.w.def = NoName \/ r.w.def # x THEN [moved EXCEPT !.w.def = x] ELSE r
           a == r1.w.active
           t == IF KeepsChoice(r1, x) THEN ActivateRow(Show(r1, a), a) ELSE r1
<1>1. SetDefaultItem(r, x) = t
  BY DEF SetDefaultItem
<1>0. x # NoName /\ x # GoneRow
  OBVIOUS
<1>2. /\ bare \in Settled(I) /\ bare \in Handled(I)
      /\ bare.w.rows = r.w.rows /\ bare.w.stale = r.w.stale
      /\ bare.w.active = r.w.active /\ bare.w.combo = r.w.combo /\ bare.w.def = NoName
  BY ChangesDefault, SettledIsHandled
<1>3. bare.sel = r.sel
  BY DEF Settled
<1> HIDE DEF bare
<1>4. /\ moved \in Settled(I) /\ moved.sel = r.sel
      /\ moved.w.rows = r.w.rows /\ moved.w.stale = r.w.stale
      /\ moved.w.active = r.w.active /\ moved.w.combo = x
  <2> DEFINE m == SetActiveItem(bare, x)
  <2>1. /\ m \in Settled(I) /\ SameList(bare, m) /\ m.w.combo = x
        /\ m.w.active = bare.w.active
    BY <1>0, <1>2, SetsActiveItem
  <2>2. m.sel = bare.sel
    BY <1>0, <1>2, SetActiveSays
  <2>3. moved = m
    BY <1>0
  <2> HIDE DEF m, moved
  <2> QED
    BY <1>2, <1>3, <2>1, <2>2, <2>3 DEF SameList
<1> HIDE DEF moved
<1>5. /\ r1 \in Settled(I) /\ r1.sel = r.sel /\ r1.w.def = x
      /\ r1.w.rows = r.w.rows /\ r1.w.stale = r.w.stale
      /\ r1.w.active = r.w.active
      /\ r.w.active \in {NoName, GoneRow, x} => r1.w.combo = x
  <2>1. CASE r.w.def = NoName \/ r.w.def # x
    <3> DEFINE m == [moved EXCEPT !.w.def = x]
    <3>1. /\ m \in Settled(I) /\ m.w.rows = moved.w.rows /\ m.w.stale = moved.w.stale
          /\ m.w.active = moved.w.active /\ m.w.combo = moved.w.combo /\ m.w.def = x
      BY <1>4, ChangesDefault
    <3>2. m.sel = moved.sel
      BY <1>4 DEF Settled
    <3>3. r1 = m
      BY <2>1
    <3> HIDE DEF m, r1
    <3> QED
      BY <1>4, <3>1, <3>2, <3>3
  <2>2. CASE ~(r.w.def = NoName \/ r.w.def # x)
    <3>1. r1 = r
      BY <2>2
    <3> HIDE DEF r1
    <3>2. r.w.combo = IF r.w.active \in {NoName, GoneRow} THEN x ELSE r.w.active
      BY <1>0, <2>2 DEF Faithful
    <3> QED
      BY <2>2, <3>1, <3>2
  <2> QED
    BY <2>1, <2>2
<1> HIDE DEF r1
<1>6. CASE KeepsChoice(r1, x)
  <2>1. a \in I /\ r1 \in Handled(I) /\ a \notin {NoName, GoneRow}
    BY <1>5, <1>6, SettledIsHandled DEF KeepsChoice, Settled, WidgetOf
  <2> HIDE DEF a
  <2> DEFINE s == Show(r1, a)
             u == ActivateRow(s, a)
  <2>2. s \in Handled(I) /\ SameList(r1, s) /\ s.w.combo = a
    BY <2>1, Shows
  <2> HIDE DEF s
  <2>3. u \in Handled(I) /\ SameList(s, u) /\ u.w.active = a /\ u.w.combo = a /\ Ends(u)
    BY <2>1, <2>2, ActivatesRow, ActivatedEnds
  <2>4. t = u
    BY <1>6 DEF s
  <2> HIDE DEF u, t
  <2>5. u.w.def = x /\ u.w.rows = r.w.rows /\ u.w.stale = r.w.stale
    BY <1>5, <2>2, <2>3 DEF SameList
  <2>6. a = r.w.active
    BY <1>5 DEF a
  <2>7. Faithful(u.w)
    BY <2>1, <2>3, <2>5 DEF Faithful
  <2> QED
    BY <1>1, <2>3, <2>4, <2>5, <2>6, <2>7
<1>7. CASE ~KeepsChoice(r1, x)
  <2>1. r1.w.active \in {NoName, GoneRow, x}
    BY <1>0, <1>7 DEF KeepsChoice
  <2>2. t = r1
    BY <1>7
  <2> HIDE DEF t
  <2>3. Faithful(r1.w)
    BY <1>0, <1>5, <2>1 DEF Faithful
  <2> QED
    BY <1>1, <1>5, <2>1, <2>2, <2>3
<1> QED
  BY <1>6, <1>7

\* The last row that the slave is told of, after a list that is faithful.
LEMMA SyncSays ==
  ASSUME NEW I, NoName \notin I, GoneRow \notin I, NEW r \in Handled(I),
         r.w.rows # <<>>
  PROVE  /\ Faithful(Sync(r).w) /\ Sync(r).w.def = r.w.def
         /\ r.w.def # NoName => Ends(Sync(r))
         /\ r.w.def = NoName => Sync(r).sel = r.sel
<1> DEFINE v == [r.w EXCEPT !.combo = NoName,
                           !.active = IF @ = NoName THEN NoName ELSE GoneRow]
           out == [r EXCEPT !.w = v]
           x == Head(r.w.rows)
           t == SetActiveItem(out, x)
<1>1. Sync(r) = t
  BY DEF Sync
<1>2. /\ v \in [rows : Seq(I), active : I \cup {NoName, GoneRow, OtherRow},
                def : I \cup {NoName}, combo : I \cup {NoName, OtherRow},
                dialog : BOOLEAN, stale : BOOLEAN]
      /\ v.active \in {NoName, GoneRow} /\ v.combo = NoName
      /\ v.def = r.w.def /\ v.rows = r.w.rows
  BY DEF Handled
<1>3. x \in I
  <2>1. r.w.rows \in Seq(I)
    BY DEF Handled
  <2> QED
    BY <2>1, HeadTailProperties
<1> HIDE DEF v, x
<1>4. out \in Handled(I) /\ out.w = v /\ out.sel = r.sel
  BY <1>2 DEF Handled
<1> HIDE DEF out
<1>5. x # NoName /\ x # GoneRow
  BY <1>3
<1>6. /\ t.w.rows = r.w.rows /\ t.w.def = r.w.def /\ t.w.combo = x
      /\ r.w.def # NoName => t.w.active = x
  <2>1. /\ SameList(out, t) /\ t.w.combo = x
        /\ out.w.combo # x /\ out.w.def # NoName => t.w.active = x
    BY <1>3, <1>4, SetsActiveItem
  <2> HIDE DEF t
  <2> QED
    BY <1>2, <1>4, <1>5, <2>1 DEF SameList
<1>7. \/ t.sel = r.sel /\ r.w.def = NoName
      \/ Ends(t) /\ r.w.def # NoName
  BY <1>2, <1>3, <1>4, <1>5, SetActiveSays
<1> HIDE DEF t
<1>8. Faithful(t.w)
  BY <1>5, <1>6 DEF Faithful
<1> QED
  BY <1>1, <1>6, <1>7, <1>8

LEMMA RowSays ==
  ASSUME NEW I, NoName \notin I, GoneRow \notin I, NEW r \in Handled(I), NEW x \in I
  PROVE  \/ WithRow(r, x) = r
         \/ /\ Faithful(WithRow(r, x).w) /\ WithRow(r, x).w.def = r.w.def
            /\ r.w.def # NoName => Ends(WithRow(r, x))
            /\ r.w.def = NoName => WithRow(r, x).sel = r.sel
<1> DEFINE q == <<x>> \o r.w.rows
           v == [r.w EXCEPT !.rows = q, !.stale = TRUE]
           more == [r EXCEPT !.w = v]
<1>1. WithRow(r, x) = r \/ WithRow(r, x) = Sync(more)
  BY DEF WithRow
<1>2. q \in Seq(I) /\ q # <<>>
  <2>1. r.w.rows \in Seq(I) /\ <<x>> \in Seq(I)
    BY DEF Handled
  <2>2. Len(q) = 1 + Len(r.w.rows) /\ Len(r.w.rows) \in Nat
    BY <2>1, ConcatProperties, LenProperties
  <2> QED
    BY <2>1, <2>2, ConcatProperties, EmptySeq
<1> HIDE DEF q
<1>3. /\ v \in [rows : Seq(I), active : I \cup {NoName, GoneRow, OtherRow},
                def : I \cup {NoName}, combo : I \cup {NoName, OtherRow},
                dialog : BOOLEAN, stale : BOOLEAN]
      /\ v.rows = q /\ v.def = r.w.def
  BY <1>2 DEF Handled
<1> HIDE DEF v
<1>4. more \in Handled(I) /\ more.w = v /\ more.sel = r.sel
  BY <1>3 DEF Handled
<1> HIDE DEF more
<1> QED
  BY <1>1, <1>2, <1>3, <1>4, SyncSays

\* What a handler of a list with a default says, if it leaves the default.
Speaks(r, t) ==
  /\ Faithful(t.w) /\ Says(r, t)
  /\ r.w.def = NoName => t.sel = r.sel

LEMMA WithRowSpeaks ==
  ASSUME NEW I, NoName \notin I, GoneRow \notin I, NEW r \in Settled(I),
         Faithful(r.w), NEW x \in I
  PROVE  /\ Speaks(r, WithRow(r, x)) /\ WithRow(r, x) \in Settled(I)
         /\ WithRow(r, x).w.def = r.w.def
<1>1. r \in Handled(I)
  BY SettledIsHandled
<1>2. WithRow(r, x) \in Settled(I) /\ WithRow(r, x).w.def = r.w.def
  BY <1>1, AddsRow
<1>3. Speaks(r, WithRow(r, x))
  BY <1>1, RowSays DEF Speaks, Says
<1> QED
  BY <1>2, <1>3

LEMMA SetCurrentSpeaks ==
  ASSUME NEW I, NoName \notin I, GoneRow \notin I, NEW r \in Settled(I),
         Faithful(r.w), NEW x \in I
  PROVE  /\ Speaks(r, SetCurrent(r, x)) /\ SetCurrent(r, x) \in Settled(I)
         /\ SetCurrent(r, x).w.def = r.w.def
<1> DEFINE u == WithRow(r, x)
           t == SetActiveItem(u, x)
<1>1. Speaks(r, u) /\ u \in Settled(I) /\ u \in Handled(I) /\ u.w.def = r.w.def
  BY WithRowSpeaks, SettledIsHandled
<1> HIDE DEF u
<1>2. x # NoName
  OBVIOUS
<1>3. t.w.def = u.w.def /\ t \in Settled(I)
  BY <1>1, <1>2, SetsActiveItem DEF SameList
<1>4. Says(u, t) /\ Faithful(t.w)
  BY <1>1, SetActiveFaithful DEF Speaks
<1>5. u.w.def = NoName => t.sel = u.sel
  BY <1>1, SetActiveQuiet DEF Speaks
<1>6. SetCurrent(r, x) = t
  BY DEF SetCurrent, u
<1> HIDE DEF t
<1>7. Says(r, t)
  <2>1. CASE Ends(t)
    BY <2>1 DEF Says
  <2>2. CASE ~Ends(t) /\ r.w.def = NoName
    BY <1>1, <1>5, <2>2 DEF Says, Speaks
  <2>3. CASE ~Ends(t) /\ r.w.def # NoName
    <3>1. t.sel = u.sel /\ t.w.active = u.w.active
      BY <1>1, <1>4, <2>3 DEF Says
    <3>2. ~Ends(u)
      BY <2>3, <3>1 DEF Ends
    <3> QED
      BY <1>1, <3>1, <3>2 DEF Says, Speaks
  <2> QED
    BY <2>1, <2>2, <2>3
<1> QED
  BY <1>1, <1>3, <1>4, <1>5, <1>6, <1>7 DEF Speaks

\* A default that comes after a row has been added or shown.
LEMMA DefaultedAfter ==
  ASSUME NEW I, NoName \notin I, GoneRow \notin I, NEW r \in Settled(I),
         NEW v \in Settled(I), Speaks(r, v), NEW x \in I
  PROVE  Defaulted(r, SetDefaultItem(v, x), x)
<1> DEFINE t == SetDefaultItem(v, x)
<1>1. /\ t.w.def = x /\ t.w.active = v.w.active /\ Faithful(t.w)
      /\ Ends(t) \/ (t.sel = v.sel /\ t.w.combo = x)
  BY SetDefaultSays DEF Speaks
<1> HIDE DEF t
<1>2. CASE Ends(t)
  BY <1>1, <1>2 DEF Defaulted, t
<1>3. CASE ~Ends(t)
  <2>1. t.sel = v.sel /\ t.w.combo = x
    BY <1>1, <1>3
  <2>2. ~Ends(v)
    BY <1>1, <1>3, <2>1 DEF Ends
  <2>3. v.sel = r.sel /\ (r.w.def # NoName => v.w.active = r.w.active)
    BY <2>2 DEF Speaks, Says
  <2> QED
    BY <1>1, <2>1, <2>3 DEF Defaulted, t
<1> QED
  BY <1>2, <1>3

LEMMA StaysSpeaks ==
  ASSUME NEW r, Faithful(r.w)
  PROVE  Speaks(r, r)
BY DEF Speaks, Says

LEMMA DefaultsSpeak ==
  ASSUME NEW I, NoName \notin I, GoneRow \notin I, NEW r \in Settled(I),
         Faithful(r.w), NEW x \in I
  PROVE  /\ Defaulted(r, SetDefaultLanguage(r, x), x)
         /\ Defaulted(r, SetKeyboardLayout(r, x), x)
         /\ Has(r.w, x) => Defaulted(r, SetDefaultSession(r, x), x)
<1>1. Defaulted(r, SetDefaultLanguage(r, x), x)
  BY WithRowSpeaks, DefaultedAfter DEF SetDefaultLanguage
<1>2. Defaulted(r, SetKeyboardLayout(r, x), x)
  BY SetCurrentSpeaks, DefaultedAfter DEF SetKeyboardLayout, SetCurrent
<1>3. Has(r.w, x) => Defaulted(r, SetDefaultSession(r, x), x)
  BY StaysSpeaks, DefaultedAfter DEF SetDefaultSession
<1> QED
  BY <1>1, <1>2, <1>3

\* A row that the user takes.
LEMMA PickedSpeaks ==
  ASSUME NEW I, NoName \notin I, GoneRow \notin I, NEW r \in Settled(I),
         Faithful(r.w), r.w.def # NoName, NEW x \in I, r.w.combo # x
  PROVE  /\ Ends(Show(r, x)) /\ Faithful(Show(r, x).w) /\ Show(r, x).w.def = r.w.def
<1> DEFINE t == Show(r, x)
<1>1. r \in Handled(I) /\ x # NoName /\ x # GoneRow
  BY SettledIsHandled
<1>2. /\ t.w.rows = r.w.rows /\ t.w.def = r.w.def /\ t.w.stale = r.w.stale
      /\ t.w.combo = x /\ t.w.active = x
  BY <1>1, Shows DEF SameList
<1>3. r.w.active # x
  BY <1>1 DEF Faithful
<1>4. Ends(t)
  BY <1>1, <1>3, ShowSays
<1> HIDE DEF t
<1>5. Faithful(t.w)
  BY <1>1, <1>2 DEF Faithful
<1> QED
  BY <1>2, <1>4, <1>5 DEF t

\* "Other..." tells the slave of what is put in its place.
LEMMA OtherSpeaks ==
  ASSUME NEW I, NoName \notin I, GoneRow \notin I, OtherRow \notin I,
         NEW r \in Settled(I), Faithful(r.w), r.w.def # NoName
  PROVE  /\ Ends(ChooseOther(r)) /\ Faithful(ChooseOther(r).w)
         /\ ChooseOther(r).w.def = r.w.def
<1> DEFINE v == [r.w EXCEPT !.active = OtherRow, !.combo = OtherRow]
           other == [r EXCEPT !.w = v]
           d == r.w.def
           u == WithRow(other, d)
           back == SetActiveItem(u, d)
           t == ChooseOther(r)
<1>1. /\ v \in [rows : Seq(I), active : I \cup {NoName, GoneRow, OtherRow},
                def : I \cup {NoName}, combo : I \cup {NoName, OtherRow},
                dialog : BOOLEAN, stale : BOOLEAN]
      /\ v.def = d /\ v.combo = OtherRow /\ v.rows = r.w.rows /\ v.stale = r.w.stale
  BY DEF Settled, WidgetOf
<1>2. d \in I /\ d # NoName /\ d # OtherRow /\ d # GoneRow
  BY DEF Settled, WidgetOf
<1> HIDE DEF v
<1>3. other \in Handled(I) /\ other.w = v
  BY <1>1 DEF Settled, Handled
<1>4. t = [w |-> [back.w EXCEPT !.dialog = TRUE], sel |-> Append(back.sel, back.w.active)]
  BY DEF ChooseOther, SetCurrent, v
<1> HIDE DEF other, d, t
<1>5. u \in Handled(I) /\ u.w.def = d /\ (u = other \/ Faithful(u.w))
  BY <1>1, <1>2, <1>3, AddsRow, RowSays
<1>6. u = other \/ u.w.active \in I
  BY <1>1, <1>2, <1>3, AddsRow
<1> HIDE DEF u
<1>7. /\ back \in Handled(I) /\ SameList(u, back) /\ back.w.combo = d
      /\ back.w.active \in {u.w.active, d}
      /\ u.w.combo # d /\ u.w.def # NoName => back.w.active = d
  BY <1>2, <1>5, SetsActiveItem
<1>8. Faithful(back.w) /\ back.w.active \in I /\ back.w.def = d
  <2>1. CASE u = other
    <3>1. back.w.active = d
      BY <1>1, <1>2, <1>3, <1>7, <2>1
    <3>2. back.w.stale => back.w.rows # <<>>
      BY <1>1, <1>3, <1>7, <2>1 DEF SameList, Faithful
    <3> QED
      BY <1>2, <1>5, <1>7, <3>1, <3>2 DEF Faithful, SameList
  <2>2. CASE u # other
    <3>1. Faithful(back.w)
      BY <1>2, <1>5, <2>2, SetActiveFaithful
    <3> QED
      BY <1>2, <1>5, <1>6, <1>7, <2>2, <3>1 DEF SameList
  <2> QED
    BY <2>1, <2>2
<1> HIDE DEF back
<1>9. /\ t.w.active = back.w.active /\ t.w.rows = back.w.rows /\ t.w.def = back.w.def
      /\ t.w.combo = back.w.combo /\ t.w.stale = back.w.stale
      /\ t.sel = Append(back.sel, back.w.active)
  BY <1>4, <1>7 DEF Handled
<1>10. Ends(t)
  <2>1. back.sel \in Seq(I)
    BY <1>7 DEF Handled
  <2> QED
    BY <1>8, <1>9, <2>1, AppendProperties DEF Ends
<1>11. Faithful(t.w)
  BY <1>8, <1>9 DEF Faithful
<1> QED
  BY <1>8, <1>9, <1>10, <1>11 DEF t, d

\* A list that loses its default.
LEMMA DefaultGone ==
  ASSUME NEW I, NoName \notin I, GoneRow \notin I, NEW r \in Settled(I), Faithful(r.w)
  PROVE  /\ SetDefaultItem(r, NoName).w.def = NoName
         /\ SetKeyboardLayout(r, NoName).w.def = NoName
         /\ Faithful(SetDefaultItem(r, NoName).w) /\ Faithful(SetKeyboardLayout(r, NoName).w)
<1>1. ASSUME NEW v \in Settled(I), v.w.rows = r.w.rows, v.w.stale = r.w.stale
      PROVE  /\ SetDefaultItem(v, NoName).w.def = NoName
             /\ Faithful(SetDefaultItem(v, NoName).w)
  <2> DEFINE bare == [v EXCEPT !.w.def = NoName]
             moved == IF v.w.active = NoName THEN SetActiveItem(bare, NoName) ELSE bare
             r1 == [moved EXCEPT !.w.def = NoName]
             t == SetDefaultItem(v, NoName)
  <2>1. t = r1
    BY DEF SetDefaultItem, KeepsChoice
  <2>2. bare \in Settled(I)
    BY ChangesDefault
  <2> HIDE DEF bare
  <2>3. moved \in Settled(I)
    BY <2>2, SettledIsHandled, SetsActiveItem
  <2> HIDE DEF moved
  <2>4. r1.w.def = NoName
    BY <2>3 DEF Settled, WidgetOf
  <2>5. t.w.rows = v.w.rows /\ t.w.stale = v.w.stale
    BY SetsDefaultItem
  <2> HIDE DEF t, r1
  <2>6. Faithful(t.w)
    BY <1>1, <2>1, <2>4, <2>5 DEF Faithful
  <2> QED
    BY <2>1, <2>4, <2>6 DEF t
<1>2. /\ SetDefaultItem(r, NoName).w.def = NoName
      /\ Faithful(SetDefaultItem(r, NoName).w)
  BY <1>1
<1> DEFINE v == SetActiveItem(r, NoName)
<1>3. v \in Settled(I) /\ v.w.rows = r.w.rows /\ v.w.stale = r.w.stale
  BY SettledIsHandled, SetsActiveItem DEF SameList
<1>4. SetKeyboardLayout(r, NoName) = SetDefaultItem(v, NoName)
  BY DEF SetKeyboardLayout, WithRow
<1> HIDE DEF v
<1> QED
  BY <1>1, <1>2, <1>3, <1>4

(* Signals that are sent and dispatched. *)

IsDefault(m, o) == m.name = "Default" /\ m.opt = o
GivenUp(m) == m.name \in {"Reset", "AuthenticationFailed"}

\* Nothing is said of the default of o, or the last is that it is x.
Untold(s, o) == \A i \in 1 .. Len(s) : ~IsDefault(s[i], o)
LastTold(s, o, x) ==
  \E i \in 1 .. Len(s) :
    /\ IsDefault(s[i], o) /\ s[i].item = x
    /\ \A j \in i + 1 .. Len(s) : ~IsDefault(s[j], o)

\* A conversation that was given up, and the default that is sent after that.
Behind(s) == \E i \in 1 .. Len(s) : GivenUp(s[i])
Followed(s, o) ==
  \A i \in 1 .. Len(s) : GivenUp(s[i]) => \E j \in i + 1 .. Len(s) : IsDefault(s[j], o)

LEMMA Joined ==
  ASSUME NEW S, NEW s \in Seq(S), NEW e \in Seq(S)
  PROVE  /\ s \o e \in Seq(S) /\ Len(s) \in Nat /\ Len(e) \in Nat
         /\ Len(s \o e) = Len(s) + Len(e)
         /\ \A i \in 1 .. Len(s) : (s \o e)[i] = s[i]
         /\ \A i \in 1 .. Len(e) : (s \o e)[Len(s) + i] = e[i]
         /\ \A i \in Len(s) + 1 .. Len(s \o e) :
              i - Len(s) \in 1 .. Len(e) /\ (s \o e)[i] = e[i - Len(s)]
<1> DEFINE t == s \o e
<1>1. /\ t \in Seq(S) /\ Len(s) \in Nat /\ Len(e) \in Nat /\ Len(t) = Len(s) + Len(e)
      /\ \A i \in 1 .. Len(s) + Len(e) :
           t[i] = IF i <= Len(s) THEN s[i] ELSE e[i - Len(s)]
  BY ConcatProperties, LenProperties
<1> HIDE DEF t
<1>2. \A i \in 1 .. Len(e) : t[Len(s) + i] = e[i]
  <2> TAKE i \in 1 .. Len(e)
  <2>1. Len(s) + i \in 1 .. Len(s) + Len(e) /\ ~(Len(s) + i <= Len(s))
    BY <1>1
  <2>2. Len(s) + i - Len(s) = i
    BY <1>1
  <2> QED
    BY <1>1, <2>1, <2>2
<1> QED
  BY <1>1, <1>2 DEF t

LEMMA TellsMore ==
  ASSUME NEW S, NEW s \in Seq(S), NEW e \in Seq(S), NEW o
  PROVE  /\ Untold(s \o e, o) <=> Untold(s, o) /\ Untold(e, o)
         /\ \A x : LastTold(e, o, x) => LastTold(s \o e, o, x)
         /\ \A x : LastTold(s, o, x) /\ Untold(e, o) => LastTold(s \o e, o, x)
<1> DEFINE t == s \o e
           n == Len(s)
<1>1. /\ n \in Nat /\ Len(e) \in Nat /\ Len(t) = n + Len(e)
      /\ \A i \in 1 .. n : t[i] = s[i]
      /\ \A i \in 1 .. Len(e) : t[n + i] = e[i]
      /\ \A i \in n + 1 .. Len(t) : i - n \in 1 .. Len(e) /\ t[i] = e[i - n]
  BY Joined
<1> HIDE DEF t, n
<1>2. Untold(t, o) <=> Untold(s, o) /\ Untold(e, o)
  <2>1. Untold(t, o) => Untold(s, o)
    BY <1>1 DEF Untold, n
  <2>2. Untold(t, o) => Untold(e, o)
    <3> SUFFICES ASSUME Untold(t, o), NEW i \in 1 .. Len(e)
                 PROVE  ~IsDefault(e[i], o)
      BY DEF Untold
    <3>1. n + i \in 1 .. Len(t) /\ t[n + i] = e[i]
      BY <1>1
    <3> QED
      BY <3>1 DEF Untold
  <2>3. Untold(s, o) /\ Untold(e, o) => Untold(t, o)
    <3> SUFFICES ASSUME Untold(s, o), Untold(e, o), NEW i \in 1 .. Len(t)
                 PROVE  ~IsDefault(t[i], o)
      BY DEF Untold
    <3>1. CASE i \in 1 .. n
      BY <1>1, <3>1 DEF Untold, n
    <3>2. CASE i \notin 1 .. n
      <4>1. i \in n + 1 .. Len(t)
        BY <1>1, <3>2
      <4> QED
        BY <1>1, <4>1 DEF Untold
    <3> QED
      BY <3>1, <3>2
  <2> QED
    BY <2>1, <2>2, <2>3
<1>3. ASSUME NEW x, LastTold(e, o, x)
      PROVE  LastTold(t, o, x)
  <2>1. PICK i \in 1 .. Len(e) :
          /\ IsDefault(e[i], o) /\ e[i].item = x
          /\ \A j \in i + 1 .. Len(e) : ~IsDefault(e[j], o)
    BY <1>3 DEF LastTold
  <2> DEFINE k == n + i
  <2>2. k \in 1 .. Len(t) /\ t[k] = e[i]
    BY <1>1
  <2>3. ASSUME NEW j \in k + 1 .. Len(t)
        PROVE  ~IsDefault(t[j], o)
    <3>1. j \in n + 1 .. Len(t) /\ j - n \in i + 1 .. Len(e)
      BY <1>1, <2>2
    <3> QED
      BY <1>1, <2>1, <3>1
  <2> HIDE DEF k
  <2> QED
    BY <2>1, <2>2, <2>3 DEF LastTold
<1>4. ASSUME NEW x, LastTold(s, o, x), Untold(e, o)
      PROVE  LastTold(t, o, x)
  <2>1. PICK i \in 1 .. n :
          /\ IsDefault(s[i], o) /\ s[i].item = x
          /\ \A j \in i + 1 .. n : ~IsDefault(s[j], o)
    BY <1>4 DEF LastTold, n
  <2>2. i \in 1 .. Len(t) /\ t[i] = s[i]
    BY <1>1
  <2>3. ASSUME NEW j \in i + 1 .. Len(t)
        PROVE  ~IsDefault(t[j], o)
    <3>1. CASE j \in 1 .. n
      BY <1>1, <2>1, <3>1
    <3>2. CASE j \notin 1 .. n
      <4>1. j \in n + 1 .. Len(t)
        BY <1>1, <3>2
      <4> QED
        BY <1>1, <1>4, <4>1 DEF Untold
    <3> QED
      BY <3>1, <3>2
  <2> QED
    BY <2>1, <2>2, <2>3 DEF LastTold
<1> QED
  BY <1>2, <1>3, <1>4 DEF t

LEMMA StaysBehind ==
  ASSUME NEW S, NEW s \in Seq(S), NEW e \in Seq(S), ~Behind(e)
  PROVE  /\ Behind(s \o e) <=> Behind(s)
         /\ \A o : Followed(s, o) \/ ~Untold(e, o) => Followed(s \o e, o)
<1> DEFINE t == s \o e
           n == Len(s)
<1>1. /\ n \in Nat /\ Len(e) \in Nat /\ Len(t) = n + Len(e)
      /\ \A i \in 1 .. n : t[i] = s[i]
      /\ \A i \in 1 .. Len(e) : t[n + i] = e[i]
      /\ \A i \in n + 1 .. Len(t) : i - n \in 1 .. Len(e) /\ t[i] = e[i - n]
  BY Joined
<1> HIDE DEF t, n
<1>2. ASSUME NEW i \in 1 .. Len(t), GivenUp(t[i])
      PROVE  i \in 1 .. n /\ GivenUp(s[i])
  <2>1. i \notin n + 1 .. Len(t)
    BY <1>1, <1>2 DEF Behind
  <2>2. i \in 1 .. n
    BY <1>1, <2>1
  <2> QED
    BY <1>1, <1>2, <2>2
<1>3. Behind(t) => Behind(s)
  BY <1>2 DEF Behind, n
<1>4. Behind(s) => Behind(t)
  <2> SUFFICES ASSUME Behind(s)
               PROVE  Behind(t)
    OBVIOUS
  <2>1. PICK i \in 1 .. n : GivenUp(s[i])
    BY DEF Behind, n
  <2>2. i \in 1 .. Len(t) /\ t[i] = s[i]
    BY <1>1
  <2> QED
    BY <2>1, <2>2 DEF Behind
<1>5. ASSUME NEW o, Followed(s, o) \/ ~Untold(e, o)
      PROVE  Followed(t, o)
  <2> SUFFICES ASSUME NEW i \in 1 .. Len(t), GivenUp(t[i])
               PROVE  \E j \in i + 1 .. Len(t) : IsDefault(t[j], o)
    BY DEF Followed
  <2>1. i \in 1 .. n /\ GivenUp(s[i])
    BY <1>2
  <2>2. CASE Followed(s, o)
    <3>1. PICK j \in i + 1 .. n : IsDefault(s[j], o)
      BY <2>1, <2>2 DEF Followed, n
    <3>2. j \in i + 1 .. Len(t) /\ t[j] = s[j]
      BY <1>1, <2>1
    <3> QED
      BY <3>1, <3>2
  <2>3. CASE ~Untold(e, o)
    <3>1. PICK j \in 1 .. Len(e) : IsDefault(e[j], o)
      BY <2>3 DEF Untold
    <3>2. n + j \in i + 1 .. Len(t) /\ t[n + j] = e[j]
      BY <1>1, <2>1
    <3> QED
      BY <3>1, <3>2
  <2> QED
    BY <1>5, <2>2, <2>3
<1> QED
  BY <1>3, <1>4, <1>5 DEF t

LEMMA HearsOther ==
  ASSUME NEW S, NEW s \in Seq(S), s # <<>>, NEW o, ~IsDefault(Head(s), o)
  PROVE  /\ Untold(s, o) <=> Untold(Tail(s), o)
         /\ \A x : LastTold(s, o, x) => LastTold(Tail(s), o, x)
<1> DEFINE t == Tail(s)
<1>1. /\ Head(s) = s[1] /\ Len(s) \in Nat /\ Len(s) >= 1 /\ Len(t) = Len(s) - 1
      /\ \A i \in 1 .. Len(s) - 1 : t[i] = s[i + 1]
  BY Shorter
<1> HIDE DEF t
<1>2. Untold(s, o) => Untold(t, o)
  <2> SUFFICES ASSUME Untold(s, o), NEW i \in 1 .. Len(t)
               PROVE  ~IsDefault(t[i], o)
    BY DEF Untold
  <2>1. i + 1 \in 1 .. Len(s) /\ t[i] = s[i + 1]
    BY <1>1
  <2> QED
    BY <2>1 DEF Untold
<1>3. Untold(t, o) => Untold(s, o)
  <2> SUFFICES ASSUME Untold(t, o), NEW i \in 1 .. Len(s)
               PROVE  ~IsDefault(s[i], o)
    BY DEF Untold
  <2>1. CASE i = 1
    BY <1>1, <2>1
  <2>2. CASE i # 1
    <3>1. i - 1 \in 1 .. Len(t) /\ t[i - 1] = s[i - 1 + 1] /\ i - 1 + 1 = i
      BY <1>1, <2>2
    <3> QED
      BY <3>1 DEF Untold
  <2> QED
    BY <2>1, <2>2
<1>4. ASSUME NEW x, LastTold(s, o, x)
      PROVE  LastTold(t, o, x)
  <2>1. PICK i \in 1 .. Len(s) :
          /\ IsDefault(s[i], o) /\ s[i].item = x
          /\ \A j \in i + 1 .. Len(s) : ~IsDefault(s[j], o)
    BY <1>4 DEF LastTold
  <2>2. i # 1
    BY <1>1, <2>1
  <2> DEFINE k == i - 1
  <2>3. k \in 1 .. Len(t) /\ t[k] = s[i]
    BY <1>1, <2>2
  <2>4. \A j \in k + 1 .. Len(t) : ~IsDefault(t[j], o)
    <3> TAKE j \in k + 1 .. Len(t)
    <3>1. j + 1 \in i + 1 .. Len(s) /\ t[j] = s[j + 1]
      BY <1>1, <2>3
    <3> QED
      BY <2>1, <3>1
  <2> HIDE DEF k
  <2> QED
    BY <2>1, <2>3, <2>4 DEF LastTold
<1> QED
  BY <1>2, <1>3, <1>4 DEF t

LEMMA HearsDefault ==
  ASSUME NEW S, NEW s \in Seq(S), s # <<>>, NEW o, NEW x, LastTold(s, o, x)
  PROVE  LastTold(Tail(s), o, x) \/ (Head(s).item = x /\ Untold(Tail(s), o))
<1> DEFINE t == Tail(s)
<1>1. /\ Head(s) = s[1] /\ Len(s) \in Nat /\ Len(s) >= 1 /\ Len(t) = Len(s) - 1
      /\ \A i \in 1 .. Len(s) - 1 : t[i] = s[i + 1]
  BY Shorter
<1> HIDE DEF t
<1>2. PICK i \in 1 .. Len(s) :
        /\ IsDefault(s[i], o) /\ s[i].item = x
        /\ \A j \in i + 1 .. Len(s) : ~IsDefault(s[j], o)
  BY DEF LastTold
<1>3. CASE i = 1
  <2>1. \A j \in 1 .. Len(t) : ~IsDefault(t[j], o)
    <3> TAKE j \in 1 .. Len(t)
    <3>1. j + 1 \in i + 1 .. Len(s) /\ t[j] = s[j + 1]
      BY <1>1, <1>3
    <3> QED
      BY <1>2, <3>1
  <2> QED
    BY <1>1, <1>2, <1>3, <2>1 DEF Untold, t
<1>4. CASE i # 1
  <2> DEFINE k == i - 1
  <2>1. k \in 1 .. Len(t) /\ t[k] = s[i]
    BY <1>1, <1>4
  <2>2. \A j \in k + 1 .. Len(t) : ~IsDefault(t[j], o)
    <3> TAKE j \in k + 1 .. Len(t)
    <3>1. j + 1 \in i + 1 .. Len(s) /\ t[j] = s[j + 1]
      BY <1>1, <2>1
    <3> QED
      BY <1>2, <3>1
  <2> HIDE DEF k
  <2>3. LastTold(t, o, x)
    BY <1>2, <2>1, <2>2 DEF LastTold
  <2> QED
    BY <2>3 DEF t
<1> QED
  BY <1>3, <1>4

LEMMA HearsOfEnd ==
  ASSUME NEW S, NEW s \in Seq(S), s # <<>>
  PROVE  /\ Behind(Tail(s)) => Behind(s)
         /\ ~GivenUp(Head(s)) => (Behind(s) => Behind(Tail(s)))
         /\ \A o : Followed(s, o) => Followed(Tail(s), o)
         /\ \A o : GivenUp(Head(s)) /\ Followed(s, o) => ~Untold(Tail(s), o)
<1> DEFINE t == Tail(s)
<1>1. /\ Head(s) = s[1] /\ Len(s) \in Nat /\ Len(s) >= 1 /\ Len(t) = Len(s) - 1
      /\ \A i \in 1 .. Len(s) - 1 : t[i] = s[i + 1]
  BY Shorter
<1> HIDE DEF t
<1>2. \A i \in 1 .. Len(t) : i + 1 \in 1 .. Len(s) /\ t[i] = s[i + 1]
  BY <1>1
<1>3. \A j \in 2 .. Len(s) : j - 1 \in 1 .. Len(t) /\ t[j - 1] = s[j]
  <2> TAKE j \in 2 .. Len(s)
  <2>1. j - 1 \in 1 .. Len(s) - 1 /\ j - 1 + 1 = j
    BY <1>1
  <2>2. t[j - 1] = s[j - 1 + 1]
    BY <1>1, <2>1
  <2> QED
    BY <1>1, <2>1, <2>2
<1>4. Behind(t) => Behind(s)
  <2> SUFFICES ASSUME Behind(t)
               PROVE  Behind(s)
    OBVIOUS
  <2>1. PICK i \in 1 .. Len(t) : GivenUp(t[i])
    BY DEF Behind
  <2>2. i + 1 \in 1 .. Len(s) /\ GivenUp(s[i + 1])
    BY <1>2, <2>1
  <2> QED
    BY <2>2 DEF Behind
<1>5. ~GivenUp(Head(s)) => (Behind(s) => Behind(t))
  <2> SUFFICES ASSUME ~GivenUp(Head(s)), Behind(s)
               PROVE  Behind(t)
    OBVIOUS
  <2>1. PICK i \in 1 .. Len(s) : GivenUp(s[i])
    BY DEF Behind
  <2>2. i \in 2 .. Len(s)
    BY <1>1, <2>1
  <2>3. i - 1 \in 1 .. Len(t) /\ GivenUp(t[i - 1])
    BY <1>3, <2>1, <2>2
  <2> QED
    BY <2>3 DEF Behind
<1>6. ASSUME NEW o, Followed(s, o)
      PROVE  Followed(t, o)
  <2> SUFFICES ASSUME NEW i \in 1 .. Len(t), GivenUp(t[i])
               PROVE  \E j \in i + 1 .. Len(t) : IsDefault(t[j], o)
    BY DEF Followed
  <2>1. i + 1 \in 1 .. Len(s) /\ GivenUp(s[i + 1])
    BY <1>2
  <2>2. PICK j \in i + 1 + 1 .. Len(s) : IsDefault(s[j], o)
    BY <1>6, <2>1 DEF Followed
  <2>3. j \in 2 .. Len(s) /\ j - 1 \in i + 1 .. Len(t)
    BY <1>1, <2>1
  <2>4. t[j - 1] = s[j]
    BY <1>3, <2>3
  <2> QED
    BY <2>2, <2>3, <2>4
<1>7. ASSUME NEW o, GivenUp(Head(s)), Followed(s, o)
      PROVE  ~Untold(t, o)
  <2>1. 1 \in 1 .. Len(s) /\ GivenUp(s[1])
    BY <1>1, <1>7
  <2>2. PICK j \in 1 + 1 .. Len(s) : IsDefault(s[j], o)
    BY <1>7, <2>1 DEF Followed
  <2>3. j \in 2 .. Len(s)
    BY <1>1
  <2>4. j - 1 \in 1 .. Len(t) /\ IsDefault(t[j - 1], o)
    BY <1>3, <2>2, <2>3
  <2> QED
    BY <2>4 DEF Untold
<1> QED
  BY <1>4, <1>5, <1>6, <1>7 DEF t

(* The invariant that says what a session is started with. *)

\* The items that the list of an option has, or takes.
Rows(o) == IF o = "session" THEN Sessions ELSE Items[o]

\* With a choice the calls say so: they are all for one list, and the last is what
\* it shows.  The user's name is followed by the request to begin.
IsSelect(c) == c.name = "Select"
IsBegin(c) == c.name \in {"BeginVerification", "BeginVerificationForUser"}
Heading(s, o) == s # <<>> /\ IsSelect(s[Len(s)]) /\ s[Len(s)].opt = o
ToBegin(s) == \E i \in 1 .. Len(s) : IsBegin(s[i])
CallInv ==
  /\ \A i \in 1 .. Len(calls) : IsSelect(calls[i]) => Heading(calls, calls[i].opt)
  /\ \A o \in offer : Heading(calls, o) =>
       calls[Len(calls)].item = panel[o].active /\ panel[o].def # NoName
  /\ \A i \in 1 .. Len(calls) : calls[i].name = "SelectUser" =>
       i < Len(calls) /\ IsBegin(calls[i + 1])

\* The worker has been asked to set an account up, or has done so.
HasSetup(s) == \E i \in 1 .. Len(s) : s[i].name = "Setup"
Begun ==
  HasSetup(inbox) \/ worker.idle \/ worker.state # "none" \/ worker.step # "none"

\* In a conversation the list has the default of the session, or is told of it; and
\* the greeter is told again when it has heard that the one before was given up.
ToldInv ==
  Begun => \A o \in offer :
    /\ ~ToBegin(calls) =>
         \/ LastTold(signals, o, Default(sess, o))
         \/ Untold(signals, o) /\ panel[o].def = Default(sess, o)
    /\ Followed(signals, o)

\* The slave knows the row that is shown: it was chosen, or it is the default.
KnownInv ==
  ~sess.missed =>
    IF Behind(signals) THEN sess.sel = Nothing
    ELSE \A o \in offer : ~Heading(calls, o) =>
           IF sess.sel[o] # NoName
           THEN panel[o].def # NoName /\ panel[o].active = sess.sel[o]
           ELSE Begun /\ Untold(signals, o) => panel[o].combo = panel[o].def

\* Sessions that are read, sent on and set are rows of the list.
SoundSignal ==
  {m \in SignalRecord : \A o \in offer : IsDefault(m, o) => m.item \in Rows(o)}
SoundRequest ==
  {m \in RequestRecord : \A o \in offer : IsOption(m, o) => m.item \in Rows(o)}
SoundInv ==
  /\ \A o \in offer : sess.saved[o] \in Rows(o) \cup {NoName}
  /\ signals \in Seq(SoundSignal) /\ inbox \in Seq(SoundRequest)

\* Settings are read after the account is set up, the session type first.
ReadInv ==
  /\ ~worker.made => sess.saved = Nothing
  /\ \A i \in 1 .. Len(worker.loading) :
       /\ dmrc[worker.name][worker.loading[i]] # NoName
       /\ worker.loading[i] = "session" => i = 1 /\ sess.saved["session"] = NoName

\* The steps of a conversation belong to its stages.
StageInv ==
  /\ worker.step = "setup" => worker.state = "none"
  /\ worker.step \in {"authenticate", "name?", "password?", "verify", "verified"}
       => worker.state = "setup"
  /\ worker.step = "open" => worker.state = "authenticated"
  /\ worker.step = "start" => worker.state = "opened"
  /\ slave.idle = "start" => worker.state = "opened"
  /\ Begun \/ worker.pc = "up" => sess.conn
  /\ sess.conn \/ worker.pc = "starting" => sess.made
  /\ ~sess.made => sess.sel = Nothing

\* Once a session has been started no other is, and no conversation is begun.
FinalInv ==
  started # Nothing =>
    /\ slave.idle \in {"none", "reset"} /\ Len(calls) <= 1
    /\ \/ /\ worker.state \in {"opened", "started"}
          /\ slave.idle = "reset" => calls = <<>>
       \/ /\ worker.state = "none" /\ worker.step = "none" /\ ~worker.idle
          /\ calls = <<>> /\ inbox = <<>>

ListsInv == \A o \in offer : Faithful(panel[o])
AtWork == ListsInv /\ StageInv /\ FinalInv /\ ReadInv /\ SoundInv
InTouch == started = Nothing => CallInv /\ ToldInv /\ KnownInv

\* Without an option to choose there is nothing to show.
ShownInv == offer # {} => AtWork /\ InTouch

LEMMA RowFacts ==
  ASSUME IInv, NEW o \in offer
  PROVE  /\ Rows(o) \subseteq Items[o] /\ SystemDefault[o] \in Rows(o)
         /\ NoName \notin Rows(o) /\ NoName \notin Items[o] /\ GoneRow \notin Items[o]
         /\ OtherRow \notin Items[o] /\ o \in {"language", "layout", "session"}
<1>1. offer \in Offers
  BY DEF IInv
<1>2. /\ NoName \notin Items[o] /\ GoneRow \notin Items[o] /\ OtherRow \notin Items[o]
      /\ SystemDefault[o] \in Items[o] /\ o \in {"language", "layout", "session"}
  BY <1>1, ItemFacts
<1>3. CASE o # "session"
  BY <1>2, <1>3 DEF Rows
<1>4. CASE o = "session"
  <2>1. Sessions \subseteq Items["session"]
    BY <1>1, <1>4, SessionFacts
  <2>2. SystemDefault["session"] \in Sessions
    BY <1>1, <1>4, SessionAssumption DEF Sessions
  <2> QED
    BY <1>2, <1>4, <2>1, <2>2 DEF Rows
<1> QED
  BY <1>2, <1>3, <1>4

LEMMA DefaultIsRow ==
  ASSUME IInv, NEW s, NEW o \in offer, s.saved[o] \in Rows(o) \cup {NoName}
  PROVE  Default(s, o) \in Rows(o)
BY RowFacts DEF Default

LEMMA SameRows ==
  ASSUME UNCHANGED offer
  PROVE  SoundSignal' = SoundSignal /\ SoundRequest' = SoundRequest
BY SameSets DEF SoundSignal, SoundRequest, Rows, Sessions, IsDefault, IsOption

\* defaults_changed tells of each option once.
LEMMA OnceEach ==
  ASSUME NEW o \in offer, offer \subseteq {"language", "layout", "session"}
  PROVE  /\ DefaultsOrder \in Seq(offer)
         /\ \E i \in 1 .. Len(DefaultsOrder) :
              /\ DefaultsOrder[i] = o
              /\ \A j \in 1 .. Len(DefaultsOrder) : DefaultsOrder[j] = o => j = i
<1> DEFINE a == Only("language", TRUE)
           b == Only("layout", TRUE)
           c == Only("session", TRUE)
           d == a \o b
           e == d \o c
<1>1. ASSUME NEW p
      PROVE  /\ Only(p, TRUE) \in Seq(offer) /\ Len(Only(p, TRUE)) \in {0, 1}
             /\ p \in offer => Len(Only(p, TRUE)) = 1
             /\ \A i \in 1 .. Len(Only(p, TRUE)) : Only(p, TRUE)[i] = p
  <2>1. CASE p \in offer
    <3> DEFINE q == <<p>>
    <3>1. Only(p, TRUE) = q
      BY <2>1 DEF Only
    <3>2. q \in Seq(offer) /\ Len(q) = 1 /\ q[1] = p
      BY <2>1
    <3> HIDE DEF q
    <3>3. Len(q) \in {0, 1} /\ \A i \in 1 .. Len(q) : q[i] = p
      BY <3>2
    <3> QED
      BY <2>1, <3>1, <3>2, <3>3
  <2>2. CASE p \notin offer
    <3>1. <<>> \in Seq(offer) /\ Len(<<>>) = 0
      OBVIOUS
    <3> QED
      BY <2>2, <3>1 DEF Only
  <2> QED
    BY <2>1, <2>2
<1>2. /\ a \in Seq(offer) /\ Len(a) \in {0, 1} /\ ("language" \in offer => Len(a) = 1)
      /\ \A i \in 1 .. Len(a) : a[i] = "language"
      /\ b \in Seq(offer) /\ Len(b) \in {0, 1} /\ ("layout" \in offer => Len(b) = 1)
      /\ \A i \in 1 .. Len(b) : b[i] = "layout"
      /\ c \in Seq(offer) /\ Len(c) \in {0, 1} /\ ("session" \in offer => Len(c) = 1)
      /\ \A i \in 1 .. Len(c) : c[i] = "session"
  BY <1>1
<1>3. DefaultsOrder = e
  BY DEF DefaultsOrder
<1> HIDE DEF a, b, c
<1>4. /\ d \in Seq(offer) /\ Len(d) = Len(a) + Len(b)
      /\ \A i \in 1 .. Len(a) : d[i] = a[i]
      /\ \A i \in Len(a) + 1 .. Len(d) : i - Len(a) \in 1 .. Len(b) /\ d[i] = b[i - Len(a)]
  BY <1>2, Joined
<1> HIDE DEF d
<1>5. /\ e \in Seq(offer) /\ Len(e) = Len(d) + Len(c)
      /\ \A i \in 1 .. Len(d) : e[i] = d[i]
      /\ \A i \in Len(d) + 1 .. Len(e) : i - Len(d) \in 1 .. Len(c) /\ e[i] = c[i - Len(d)]
  BY <1>2, <1>4, Joined
<1> HIDE DEF e
<1>6. /\ \A i \in 1 .. Len(a) : e[i] = "language"
      /\ \A i \in Len(a) + 1 .. Len(d) : e[i] = "layout"
      /\ \A i \in Len(d) + 1 .. Len(e) : e[i] = "session"
  <2>1. \A i \in 1 .. Len(d) : e[i] = d[i]
    BY <1>5
  <2>2. \A i \in 1 .. Len(a) : i \in 1 .. Len(d) /\ d[i] = "language"
    BY <1>2, <1>4
  <2>3. \A i \in Len(a) + 1 .. Len(d) : i \in 1 .. Len(d) /\ d[i] = "layout"
    BY <1>2, <1>4
  <2>4. \A i \in Len(d) + 1 .. Len(e) : e[i] = "session"
    BY <1>2, <1>5
  <2> QED
    BY <2>1, <2>2, <2>3, <2>4
<1>7. \A i \in 1 .. Len(e) : i \in 1 .. Len(a) \/ i \in Len(a) + 1 .. Len(d)
                               \/ i \in Len(d) + 1 .. Len(e)
  BY <1>2, <1>4, <1>5
<1>9. \E i \in 1 .. Len(e) : e[i] = o /\ \A j \in 1 .. Len(e) : e[j] = o => j = i
  <2>1. CASE o = "language"
    <3>1. 1 \in 1 .. Len(e) /\ 1 \in 1 .. Len(a)
      BY <1>2, <1>4, <1>5, <2>1
    <3>2. ASSUME NEW j \in 1 .. Len(e), e[j] = o
          PROVE  j = 1
      <4>1. j \in 1 .. Len(a)
        BY <1>6, <1>7, <2>1, <3>2
      <4> QED
        BY <1>2, <4>1
    <3> QED
      BY <1>6, <2>1, <3>1, <3>2
  <2>2. CASE o = "layout"
    <3> DEFINE i == Len(a) + 1
    <3>1. i \in 1 .. Len(e) /\ i \in Len(a) + 1 .. Len(d)
      BY <1>2, <1>4, <1>5, <2>2
    <3>2. ASSUME NEW j \in 1 .. Len(e), e[j] = o
          PROVE  j = i
      <4>1. j \in Len(a) + 1 .. Len(d)
        BY <1>6, <1>7, <2>2, <3>2
      <4> QED
        BY <1>2, <1>4, <4>1
    <3> HIDE DEF i
    <3> QED
      BY <1>6, <2>2, <3>1, <3>2
  <2>3. CASE o = "session"
    <3> DEFINE i == Len(d) + 1
    <3>1. i \in 1 .. Len(e) /\ i \in Len(d) + 1 .. Len(e)
      BY <1>2, <1>4, <1>5, <2>3
    <3>2. ASSUME NEW j \in 1 .. Len(e), e[j] = o
          PROVE  j = i
      <4>1. j \in Len(d) + 1 .. Len(e)
        BY <1>6, <1>7, <2>3, <3>2
      <4> QED
        BY <1>2, <1>4, <1>5, <4>1
    <3> HIDE DEF i
    <3> QED
      BY <1>6, <2>3, <3>1, <3>2
  <2> QED
    BY <2>1, <2>2, <2>3
<1> QED
  BY <1>3, <1>5, <1>9

LEMMA DefaultsTold ==
  ASSUME IInv, NEW s, \A o \in offer : s.saved[o] \in Rows(o) \cup {NoName}
  PROVE  /\ DefaultsChanged(s) \in Seq(SoundSignal) /\ ~Behind(DefaultsChanged(s))
         /\ \A o \in offer : LastTold(DefaultsChanged(s), o, Default(s, o))
<1> DEFINE d == DefaultsOrder
           e == DefaultsChanged(s)
<1>1. /\ offer \subseteq {"language", "layout", "session"}
      /\ \A o \in offer : Rows(o) \subseteq Items[o] /\ Default(s, o) \in Rows(o)
  BY RowFacts, DefaultIsRow
<1>2. e = [i \in 1 .. Len(d) |-> DefaultIs(d[i], Default(s, d[i]))]
  BY DEF DefaultsChanged
<1> HIDE DEF e
<1>3. d \in Seq(offer)
  <2>1. CASE offer = {}
    <3>1. d = <<>> \o <<>> \o <<>>
      BY <2>1 DEF DefaultsOrder, Only
    <3>2. <<>> \in Seq(offer)
      OBVIOUS
    <3> QED
      BY <3>1, <3>2, ConcatProperties
  <2>2. CASE offer # {}
    BY <1>1, <2>2, OnceEach
  <2> QED
    BY <2>1, <2>2
<1>4. /\ \A o \in offer : \E i \in 1 .. Len(d) :
           d[i] = o /\ \A j \in 1 .. Len(d) : d[j] = o => j = i
  BY <1>1, OnceEach
<1> HIDE DEF d
<1>5. Len(d) \in Nat /\ \A i \in 1 .. Len(d) : d[i] \in offer
  BY <1>3, LenProperties
<1>6. \A o \in offer : DefaultIs(o, Default(s, o)) \in SoundSignal
  <2> TAKE o \in offer
  <2>1. Default(s, o) \in Rows(o) /\ Default(s, o) \in Choice(o)
    BY <1>1 DEF Choice
  <2>2. DefaultIs(o, Default(s, o)) \in SignalRecord
    BY <2>1 DEF DefaultIs, SignalRecord
  <2> QED
    BY <2>1, <2>2 DEF SoundSignal, IsDefault, DefaultIs
<1>7. e \in Seq(SoundSignal)
  <2>1. \A i \in 1 .. Len(d) : DefaultIs(d[i], Default(s, d[i])) \in SoundSignal
    BY <1>5, <1>6
  <2> QED
    BY <1>2, <1>5, <2>1, IsASeq
<1>8. /\ Len(e) = Len(d)
      /\ \A i \in 1 .. Len(d) : e[i] = DefaultIs(d[i], Default(s, d[i]))
  <2>1. DOMAIN e = 1 .. Len(d)
    BY <1>2
  <2> QED
    BY <1>2, <1>5, <1>7, <2>1, LenProperties
<1>9. \A i \in 1 .. Len(d) : /\ e[i].name = "Default" /\ e[i].opt = d[i]
                             /\ e[i].item = Default(s, d[i])
  <2> TAKE i \in 1 .. Len(d)
  <2> DEFINE p == d[i]
             y == Default(s, p)
  <2>1. e[i] = DefaultIs(p, y)
    BY <1>8
  <2> HIDE DEF y, p
  <2>2. e[i].name = "Default" /\ e[i].opt = p /\ e[i].item = y
    BY <2>1 DEF DefaultIs
  <2> QED
    BY <2>2 DEF p, y
<1>10. ~Behind(e)
  BY <1>8, <1>9 DEF Behind, GivenUp
<1>11. ASSUME NEW o \in offer
       PROVE  LastTold(e, o, Default(s, o))
  <2>1. PICK i \in 1 .. Len(d) : d[i] = o /\ \A j \in 1 .. Len(d) : d[j] = o => j = i
    BY <1>4
  <2>2. i \in 1 .. Len(e) /\ IsDefault(e[i], o) /\ e[i].item = Default(s, o)
    BY <1>8, <1>9, <2>1 DEF IsDefault
  <2>3. ASSUME NEW j \in i + 1 .. Len(e)
        PROVE  ~IsDefault(e[j], o)
    <3>1. j \in 1 .. Len(d) /\ j # i
      BY <1>5, <1>8
    <3> QED
      BY <1>9, <2>1, <3>1 DEF IsDefault
  <2> QED
    BY <2>2, <2>3 DEF LastTold
<1> QED
  BY <1>7, <1>10, <1>11 DEF e

(* The greeter: what it hears and what its user does. *)

LEMMA NothingHeading ==
  ASSUME calls = <<>>
  PROVE  /\ \A o : ~Heading(calls, o)
         /\ ~ToBegin(calls) /\ CallInv
BY DEF Heading, ToBegin, CallInv, IsSelect

\* What holds while no call of the greeter is out.
LEMMA RestFacts ==
  ASSUME IInv, InTouch, started = Nothing, AtRest, NEW o \in offer
  PROVE  /\ Begun => /\ Followed(signals, o)
                     /\ \/ LastTold(signals, o, Default(sess, o))
                        \/ Untold(signals, o) /\ panel[o].def = Default(sess, o)
         /\ ~sess.missed /\ Behind(signals) => sess.sel[o] = NoName
         /\ ~sess.missed /\ ~Behind(signals) =>
              IF sess.sel[o] # NoName
              THEN panel[o].def # NoName /\ panel[o].active = sess.sel[o]
              ELSE Begun /\ Untold(signals, o) => panel[o].combo = panel[o].def
<1>1. ToldInv /\ KnownInv /\ ~Heading(calls, o) /\ ~ToBegin(calls)
  BY NothingHeading DEF InTouch, AtRest
<1>2. ~sess.missed /\ Behind(signals) => sess.sel[o] = NoName
  BY <1>1, NothingIsTyped DEF KnownInv
<1>3. ~sess.missed /\ ~Behind(signals) =>
        IF sess.sel[o] # NoName
        THEN panel[o].def # NoName /\ panel[o].active = sess.sel[o]
        ELSE Begun /\ Untold(signals, o) => panel[o].combo = panel[o].def
  BY <1>1 DEF KnownInv
<1> QED
  BY <1>1, <1>2, <1>3 DEF ToldInv

\* What a greeter's step has to show of each list.
LEMMA RestKeeps ==
  ASSUME IInv, InTouch, started = Nothing, AtRest,
         UNCHANGED <<offer, slaveVars, workerVars, inbox>>, CallInv',
         \A o \in offer :
           /\ Begun => /\ Followed(signals', o)
                       /\ \/ ToBegin(calls')
                          \/ LastTold(signals', o, Default(sess, o))
                          \/ Untold(signals', o) /\ panel'[o].def = Default(sess, o)
           /\ ~sess.missed /\ ~Behind(signals') /\ ~Heading(calls', o) =>
                IF sess.sel[o] # NoName
                THEN panel'[o].def # NoName /\ panel'[o].active = sess.sel[o]
                ELSE Begun /\ Untold(signals', o) => panel'[o].combo = panel'[o].def,
         Behind(signals') => Behind(signals)
  PROVE  InTouch'
<1>1. UNCHANGED <<sess, started, worker>>
  BY DEF slaveVars, workerVars
<1>2. Begun' = Begun /\ Nothing' = Nothing
  BY <1>1 DEF Begun, HasSetup, Nothing
<1>3. ToldInv'
  <2> SUFFICES ASSUME Begun, NEW o \in offer
               PROVE  /\ ~ToBegin(calls') =>
                           \/ LastTold(signals', o, Default(sess', o))
                           \/ Untold(signals', o) /\ panel'[o].def = Default(sess', o)
                      /\ Followed(signals', o)
    BY <1>2 DEF ToldInv, LastTold, Untold, Followed, ToBegin, IsBegin, IsDefault, GivenUp,
                Default
  <2> QED
    BY <1>1
<1>4. KnownInv'
  <2> SUFFICES ASSUME ~sess.missed
               PROVE  IF Behind(signals') THEN sess.sel = Nothing
                      ELSE \A o \in offer : ~Heading(calls', o) =>
                             IF sess.sel[o] # NoName
                             THEN panel'[o].def # NoName /\ panel'[o].active = sess.sel[o]
                             ELSE Begun /\ Untold(signals', o)
                                    => panel'[o].combo = panel'[o].def
    BY <1>1, <1>2 DEF KnownInv, Behind, Heading, Untold, IsSelect, IsDefault, GivenUp
  <2>1. CASE Behind(signals')
    BY <2>1 DEF InTouch, KnownInv
  <2>2. CASE ~Behind(signals')
    BY <2>2
  <2> QED
    BY <2>1, <2>2
<1> QED
  BY <1>3, <1>4 DEF InTouch

\* Calls that are no choices.
PlainCall(s) ==
  \A i \in 1 .. Len(s) :
    /\ ~IsSelect(s[i])
    /\ s[i].name = "SelectUser" => i < Len(s) /\ IsBegin(s[i + 1])

LEMMA PlainIsNotHeading ==
  ASSUME calls' \in Seq(CallRecord), PlainCall(calls')
  PROVE  CallInv' /\ \A o : ~Heading(calls', o)
<1>1. \A o : ~Heading(calls', o)
  <2> SUFFICES ASSUME NEW o, Heading(calls', o)
               PROVE  FALSE
    OBVIOUS
  <2>1. calls' # <<>> /\ IsSelect(calls'[Len(calls')])
    BY DEF Heading
  <2>2. Len(calls') \in 1 .. Len(calls')
    BY <2>1, LenProperties, EmptySeq
  <2> QED
    BY <2>1, <2>2 DEF PlainCall
<1>2. CallInv'
  BY <1>1 DEF CallInv, PlainCall, Heading, IsSelect, IsBegin
<1> QED
  BY <1>1, <1>2

\* Steps that leave the lists, and hear neither a default nor an end.
LEMMA ListsAlone ==
  ASSUME IInv, InTouch, ListsInv, started = Nothing, AtRest,
         UNCHANGED <<offer, slaveVars, workerVars, inbox>>,
         \A o \in offer :
           /\ panel'[o].def = panel[o].def /\ panel'[o].active = panel[o].active
           /\ panel'[o].combo = panel[o].combo /\ panel'[o].rows = panel[o].rows
           /\ panel'[o].stale = panel[o].stale,
         calls' \in Seq(CallRecord), PlainCall(calls'),
         \/ signals' = signals
         \/ /\ signals # <<>> /\ signals' = Tail(signals)
            /\ Head(signals).name \notin {"Default", "Reset", "AuthenticationFailed"}
  PROVE  ListsInv' /\ InTouch'
<1>1. ListsInv'
  BY DEF ListsInv, Faithful
<1>2. CallInv' /\ \A o : ~Heading(calls', o)
  BY PlainIsNotHeading
<1>3. /\ \A o : Untold(signals', o) <=> Untold(signals, o)
      /\ \A o, x : LastTold(signals, o, x) => LastTold(signals', o, x)
      /\ \A o : Followed(signals, o) => Followed(signals', o)
      /\ Behind(signals') <=> Behind(signals)
  <2>1. CASE signals' = signals
    BY <2>1
  <2>2. CASE signals' # signals
    <3>1. /\ signals # <<>> /\ signals' = Tail(signals)
          /\ Head(signals).name \notin {"Default", "Reset", "AuthenticationFailed"}
      BY <2>2
    <3>2. signals \in Seq(SignalRecord)
      BY Unmoved
    <3>3. ~GivenUp(Head(signals)) /\ \A o : ~IsDefault(Head(signals), o)
      BY <3>1 DEF GivenUp, IsDefault
    <3>4. /\ \A o : Untold(signals', o) <=> Untold(signals, o)
          /\ \A o, x : LastTold(signals, o, x) => LastTold(signals', o, x)
      BY <3>1, <3>2, <3>3, HearsOther
    <3>5. /\ \A o : Followed(signals, o) => Followed(signals', o)
          /\ Behind(signals') <=> Behind(signals)
      BY <3>1, <3>2, <3>3, HearsOfEnd
    <3> QED
      BY <3>4, <3>5
  <2> QED
    BY <2>1, <2>2
<1>4. \A o \in offer :
        /\ Begun => /\ Followed(signals', o)
                    /\ \/ ToBegin(calls')
                       \/ LastTold(signals', o, Default(sess, o))
                       \/ Untold(signals', o) /\ panel'[o].def = Default(sess, o)
        /\ ~sess.missed /\ ~Behind(signals') /\ ~Heading(calls', o) =>
             IF sess.sel[o] # NoName
             THEN panel'[o].def # NoName /\ panel'[o].active = sess.sel[o]
             ELSE Begun /\ Untold(signals', o) => panel'[o].combo = panel'[o].def
  BY <1>3, RestFacts
<1>5. InTouch'
  BY <1>2, <1>3, <1>4, RestKeeps
<1> QED
  BY <1>1, <1>5

\* The end of a conversation is heard; what becomes of the lists does not matter,
\* as they are told of their defaults again.
LEMMA EndHeard ==
  ASSUME IInv, InTouch, started = Nothing, AtRest,
         UNCHANGED <<offer, slaveVars, workerVars, inbox, calls>>,
         signals # <<>>, signals' = Tail(signals),
         Head(signals).name \in {"Reset", "AuthenticationFailed"}
  PROVE  InTouch'
<1>1. signals \in Seq(SignalRecord) /\ GivenUp(Head(signals))
  BY Unmoved DEF GivenUp
<1>2. /\ Behind(signals) /\ (Behind(signals') => Behind(signals))
      /\ \A o : Followed(signals, o) => Followed(signals', o) /\ ~Untold(signals', o)
  <2>1. 1 \in 1 .. Len(signals) /\ Head(signals) = signals[1]
    BY <1>1, Shorter
  <2>2. Behind(signals)
    BY <1>1, <2>1 DEF Behind
  <2> QED
    BY <1>1, <2>2, HearsOfEnd
<1>3. /\ \A o : Untold(signals', o) <=> Untold(signals, o)
      /\ \A o, x : LastTold(signals, o, x) => LastTold(signals', o, x)
  <2>1. \A o : ~IsDefault(Head(signals), o)
    BY DEF IsDefault
  <2> QED
    BY <1>1, <2>1, HearsOther
<1>4. CallInv'
  BY NothingHeading DEF AtRest, CallInv, Heading, IsSelect
<1>5. \A o \in offer :
        /\ Begun => /\ Followed(signals', o)
                    /\ \/ ToBegin(calls')
                       \/ LastTold(signals', o, Default(sess, o))
                       \/ Untold(signals', o) /\ panel'[o].def = Default(sess, o)
        /\ ~sess.missed /\ ~Behind(signals') /\ ~Heading(calls', o) =>
             IF sess.sel[o] # NoName
             THEN panel'[o].def # NoName /\ panel'[o].active = sess.sel[o]
             ELSE Begun /\ Untold(signals', o) => panel'[o].combo = panel'[o].def
  BY <1>2, <1>3, RestFacts
<1> QED
  BY <1>2, <1>4, <1>5, RestKeeps

\* The calls of one list.
LEMMA SelectsSay ==
  ASSUME NEW o \in offer, NEW xs \in Seq(Items[o])
  PROVE  LET s == Selects(o, xs)
         IN  /\ Len(s) = Len(xs) /\ Len(s) \in Nat
             /\ \A i \in 1 .. Len(s) : /\ s[i].name = "Select" /\ s[i].opt = o
                                       /\ s[i].item = xs[i]
             /\ xs = <<>> => s = <<>>
<1> DEFINE s == Selects(o, xs)
<1>1. Len(xs) \in Nat /\ s = [i \in 1 .. Len(xs) |-> Select(o, xs[i])]
  BY LenProperties DEF Selects
<1>2. s \in Seq(CallRecord)
  BY SelectsAreCalls
<1> HIDE DEF s
<1>3. Len(s) = Len(xs)
  BY <1>1, <1>2, LenProperties
<1>4. \A i \in 1 .. Len(s) : /\ s[i].name = "Select" /\ s[i].opt = o
                             /\ s[i].item = xs[i]
  BY <1>1, <1>3 DEF Select
<1>5. xs = <<>> => s = <<>>
  BY <1>2, <1>3, EmptySeq
<1> QED
  BY <1>1, <1>3, <1>4, <1>5 DEF s

LEMMA PanelCalls ==
  ASSUME NEW o \in offer, NEW t \in Settled(Items[o]), Panel(o, t), UNCHANGED offer,
         PanelInv, t.sel # <<>> => Ends(t) /\ t.w.def # NoName
  PROVE  /\ CallInv' /\ \A p : Heading(calls', p) => p = o
         /\ t.sel # <<>> => Heading(calls', o)
<1> DEFINE s == Selects(o, t.sel)
<1>1. t.sel \in Seq(Items[o])
  BY DEF Settled
<1>2. /\ Len(s) = Len(t.sel) /\ Len(s) \in Nat
      /\ \A i \in 1 .. Len(s) : /\ s[i].name = "Select" /\ s[i].opt = o
                                /\ s[i].item = t.sel[i]
      /\ t.sel = <<>> => s = <<>>
  BY <1>1, SelectsSay
<1>3. s \in Seq(CallRecord)
  BY <1>1, SelectsAreCalls
<1>4. calls' = s
  BY DEF Panel
<1> HIDE DEF s
<1>5. s # <<>> => Len(s) \in 1 .. Len(s)
  BY <1>2, <1>3, EmptySeq
<1>6. \A p : Heading(s, p) => p = o /\ t.sel # <<>>
  BY <1>2, <1>5 DEF Heading
<1>7. t.sel # <<>> => s # <<>> /\ Heading(s, o)
  BY <1>1, <1>2, <1>3, <1>5, EmptySeq DEF Heading, IsSelect
<1>8. \A i \in 1 .. Len(s) : Heading(s, s[i].opt)
  <2> TAKE i \in 1 .. Len(s)
  <2>1. s # <<>> /\ s[i].opt = o
    BY <1>2, <1>3, EmptySeq
  <2> QED
    BY <1>2, <1>7, <2>1
<1>9. panel'[o] = t.w
  BY PanelChanges
<1>10. \A p \in offer : Heading(s, p) => s[Len(s)].item = panel'[p].active
                                         /\ panel'[p].def # NoName
  <2> TAKE p \in offer
  <2> HAVE Heading(s, p)
  <2>1. p = o /\ t.sel # <<>> /\ s # <<>>
    BY <1>6, <1>7
  <2>2. s[Len(s)].item = t.sel[Len(t.sel)]
    BY <1>2, <1>5, <2>1
  <2> QED
    BY <1>9, <2>1, <2>2 DEF Ends
<1>11. CallInv'
  BY <1>2, <1>4, <1>8, <1>10 DEF CallInv, Heading, IsSelect, IsBegin
<1> QED
  BY <1>4, <1>6, <1>7, <1>11

LEMMA PanelLists ==
  ASSUME IInv, ListsInv, UNCHANGED offer, NEW o \in offer, NEW t \in Settled(Items[o]),
         Panel(o, t), Faithful(t.w)
  PROVE  ListsInv' /\ panel'[o] = t.w /\ \A p \in offer \ {o} : panel'[p] = panel[p]
<1>1. panel'[o] = t.w /\ \A p \in offer \ {o} : panel'[p] = panel[p]
  BY PanelChanges DEF IInv
<1>2. \A p \in offer : Faithful(panel'[p])
  BY <1>1 DEF ListsInv
<1> QED
  BY <1>1, <1>2 DEF ListsInv, Faithful

LEMMA TellingIsNot ==
  ASSUME NEW s, NEW o, NEW x, LastTold(s, o, x)
  PROVE  ~Untold(s, o)
BY DEF LastTold, Untold

\* A handler that leaves the default of its list.
LEMMA ListSpoken ==
  ASSUME IInv, InTouch, ListsInv, started = Nothing, AtRest,
         UNCHANGED <<offer, slaveVars, workerVars, inbox, signals>>,
         NEW o \in offer, NEW t \in Settled(Items[o]), Panel(o, t),
         Speaks(At(o), t), t.w.def = panel[o].def
  PROVE  ListsInv' /\ InTouch'
<1>1. At(o).w = panel[o] /\ At(o).sel = <<>>
  BY DEF At
<1>2. /\ Faithful(t.w) /\ (panel[o].def = NoName => t.sel = <<>>)
      /\ Ends(t) \/ (t.sel = <<>> /\ (panel[o].def # NoName => t.w.active = panel[o].active))
  BY <1>1 DEF Speaks, Says
<1>3. t.sel # <<>> => Ends(t) /\ t.w.def # NoName
  BY <1>2
<1>4. /\ ListsInv' /\ panel'[o] = t.w
      /\ \A p \in offer \ {o} : panel'[p] = panel[p]
  BY <1>2, PanelLists
<1>5. /\ CallInv' /\ (\A p : Heading(calls', p) => p = o)
      /\ t.sel # <<>> => Heading(calls', o)
  BY <1>3, PanelCalls DEF IInv
<1>6. ASSUME NEW p \in offer
      PROVE  /\ Begun => /\ Followed(signals', p)
                         /\ \/ ToBegin(calls')
                            \/ LastTold(signals', p, Default(sess, p))
                            \/ Untold(signals', p) /\ panel'[p].def = Default(sess, p)
             /\ ~sess.missed /\ ~Behind(signals') /\ ~Heading(calls', p) =>
                  IF sess.sel[p] # NoName
                  THEN panel'[p].def # NoName /\ panel'[p].active = sess.sel[p]
                  ELSE Begun /\ Untold(signals', p) => panel'[p].combo = panel'[p].def
  <2>1. CASE p # o
    BY <1>4, <2>1, RestFacts
  <2>2. CASE p = o
    <3>1. panel'[o].def = panel[o].def
      BY <1>4
    <3>2. Begun => /\ Followed(signals', o)
                   /\ \/ LastTold(signals', o, Default(sess, o))
                      \/ Untold(signals', o) /\ panel'[o].def = Default(sess, o)
      BY <3>1, RestFacts
    <3>3. ASSUME ~sess.missed, ~Behind(signals'), ~Heading(calls', o)
          PROVE  IF sess.sel[o] # NoName
                 THEN panel'[o].def # NoName /\ panel'[o].active = sess.sel[o]
                 ELSE Begun /\ Untold(signals', o) => panel'[o].combo = panel'[o].def
      <4>1. t.sel = <<>>
        BY <1>5, <3>3
      <4>2. IF sess.sel[o] # NoName
            THEN panel[o].def # NoName /\ panel[o].active = sess.sel[o]
            ELSE Begun /\ Untold(signals, o) => panel[o].combo = panel[o].def
        BY <3>3, RestFacts
      <4>3. CASE panel[o].def = NoName
        <5>1. Begun => ~Untold(signals, o)
          <6>1. Default(sess, o) \in Items[o] /\ NoName \notin Items[o]
            BY DefaultIsItem, ItemFacts, Unmoved
          <6> QED
            BY <4>3, <6>1, RestFacts, TellingIsNot
        <5> QED
          BY <4>2, <4>3, <5>1
      <4>4. CASE panel[o].def # NoName
        <5>1. t.w.active = panel[o].active
          BY <1>2, <4>1, <4>4 DEF Ends
        <5>2. t.w.combo = panel[o].combo
          BY <1>2, <4>4, <5>1 DEF ListsInv, Faithful
        <5> QED
          BY <1>4, <3>1, <4>2, <5>1, <5>2
      <4> QED
        BY <4>3, <4>4
    <3> QED
      BY <2>2, <3>2, <3>3
  <2> QED
    BY <2>1, <2>2
<1>7. InTouch'
  BY <1>5, <1>6, RestKeeps
<1> QED
  BY <1>4, <1>7

\* A default that the list is given.
LEMMA DefaultHeard ==
  ASSUME IInv, InTouch, ListsInv, started = Nothing, AtRest,
         UNCHANGED <<offer, slaveVars, workerVars, inbox>>,
         signals # <<>>, signals' = Tail(signals), Head(signals).name = "Default",
         NEW o \in offer, Head(signals).opt = o, NEW t \in Settled(Items[o]), Panel(o, t),
         Head(signals).item # NoName, Defaulted(At(o), t, Head(signals).item)
  PROVE  ListsInv' /\ InTouch'
<1> DEFINE x == Head(signals).item
<1>1. At(o).w = panel[o] /\ At(o).sel = <<>>
  BY DEF At
<1>2. /\ Faithful(t.w) /\ t.w.def = x
      /\ Ends(t) \/ (/\ t.sel = <<>> /\ t.w.combo = x
                     /\ panel[o].def # NoName => t.w.active = panel[o].active)
  BY <1>1 DEF Defaulted
<1>3. t.sel # <<>> => Ends(t) /\ t.w.def # NoName
  BY <1>2
<1>4. /\ ListsInv' /\ panel'[o] = t.w
      /\ \A p \in offer \ {o} : panel'[p] = panel[p]
  BY <1>2, PanelLists
<1>5. /\ CallInv' /\ (\A p : Heading(calls', p) => p = o)
      /\ t.sel # <<>> => Heading(calls', o)
  BY <1>3, PanelCalls DEF IInv
<1>6. /\ signals \in Seq(SignalRecord) /\ ~GivenUp(Head(signals))
      /\ IsDefault(Head(signals), o) /\ \A p : p # o => ~IsDefault(Head(signals), p)
  BY Unmoved DEF GivenUp, IsDefault
<1>7. /\ \A p : Followed(signals, p) => Followed(signals', p)
      /\ Behind(signals') <=> Behind(signals)
  BY <1>6, HearsOfEnd
<1>8. ASSUME NEW p \in offer
      PROVE  /\ Begun => /\ Followed(signals', p)
                         /\ \/ ToBegin(calls')
                            \/ LastTold(signals', p, Default(sess, p))
                            \/ Untold(signals', p) /\ panel'[p].def = Default(sess, p)
             /\ ~sess.missed /\ ~Behind(signals') /\ ~Heading(calls', p) =>
                  IF sess.sel[p] # NoName
                  THEN panel'[p].def # NoName /\ panel'[p].active = sess.sel[p]
                  ELSE Begun /\ Untold(signals', p) => panel'[p].combo = panel'[p].def
  <2>1. CASE p # o
    <3>1. /\ Untold(signals', p) <=> Untold(signals, p)
          /\ \A y : LastTold(signals, p, y) => LastTold(signals', p, y)
      BY <1>6, <2>1, HearsOther
    <3> QED
      BY <1>4, <1>7, <2>1, <3>1, RestFacts
  <2>2. CASE p = o
    <3>1. ~Untold(signals, o)
      <4>1. 1 \in 1 .. Len(signals) /\ Head(signals) = signals[1]
        BY <1>6, Shorter
      <4> QED
        BY <1>6, <4>1 DEF Untold
    <3>2. ASSUME Begun
          PROVE  /\ Followed(signals', o)
                 /\ \/ LastTold(signals', o, Default(sess, o))
                    \/ Untold(signals', o) /\ panel'[o].def = Default(sess, o)
      <4>1. LastTold(signals, o, Default(sess, o)) /\ Followed(signals, o)
        BY <3>1, <3>2, RestFacts
      <4>2. \/ LastTold(signals', o, Default(sess, o))
            \/ x = Default(sess, o) /\ Untold(signals', o)
        BY <1>6, <4>1, HearsDefault
      <4> QED
        BY <1>2, <1>4, <1>7, <4>1, <4>2
    <3>3. ASSUME ~sess.missed, ~Behind(signals'), ~Heading(calls', o)
          PROVE  IF sess.sel[o] # NoName
                 THEN panel'[o].def # NoName /\ panel'[o].active = sess.sel[o]
                 ELSE Begun /\ Untold(signals', o) => panel'[o].combo = panel'[o].def
      <4>1. t.sel = <<>>
        BY <1>5, <3>3
      <4>2. /\ t.w.combo = x
            /\ panel[o].def # NoName => t.w.active = panel[o].active
        BY <1>2, <4>1 DEF Ends
      <4>3. sess.sel[o] # NoName => panel[o].def # NoName /\ panel[o].active = sess.sel[o]
        BY <1>7, <3>3, RestFacts
      <4> QED
        BY <1>2, <1>4, <4>2, <4>3
    <3> QED
      BY <2>2, <3>2, <3>3
  <2> QED
    BY <2>1, <2>2
<1>9. InTouch'
  BY <1>5, <1>7, <1>8, RestKeeps
<1> QED
  BY <1>4, <1>9

\* The parts that a greeter's step leaves.
LEMMA GreeterAtWork ==
  ASSUME IInv, AtWork, started = Nothing, ListsInv',
         UNCHANGED <<offer, slaveVars, workerVars, inbox>>,
         signals' = signals \/ (signals # <<>> /\ signals' = Tail(signals))
  PROVE  AtWork'
<1>1. UNCHANGED <<sess, slave, started, worker, dmrc>>
  BY DEF slaveVars, workerVars
<1>2. StageInv' /\ FinalInv' /\ ReadInv'
  <2>1. Nothing' = Nothing
    BY DEF Nothing
  <2> QED
    BY <1>1, <2>1 DEF AtWork, StageInv, FinalInv, ReadInv, Begun, HasSetup
<1>3. SoundInv'
  <2>1. signals' \in Seq(SoundSignal)
    BY HeadTailProperties DEF AtWork, SoundInv
  <2>2. SoundSignal' = SoundSignal /\ SoundRequest' = SoundRequest
    BY SameRows
  <2> QED
    BY <1>1, <2>1, <2>2 DEF AtWork, SoundInv, Rows, Sessions
<1> QED
  BY <1>2, <1>3 DEF AtWork

LEMMA PlainCallsOf ==
  /\ PlainCall(<<>>)
  /\ \A n, u : n \notin {"Select", "SelectUser"} => PlainCall(<<Call(n, u)>>)
  /\ \A c : PlainCall(ChooseCalls(c))
<1>1. PlainCall(<<>>)
  BY DEF PlainCall
<1>2. ASSUME NEW n, NEW u, n \notin {"Select", "SelectUser"}
      PROVE  PlainCall(<<Call(n, u)>>)
  <2> DEFINE m == Call(n, u)
             s == <<m>>
  <2>1. m.name = n
    BY DEF Call
  <2>2. Len(s) = 1 /\ s[1] = m
    OBVIOUS
  <2> HIDE DEF m, s
  <2>3. PlainCall(s)
    BY <1>2, <2>1, <2>2 DEF PlainCall, IsSelect
  <2> QED
    BY <2>3 DEF s, m
<1>3. ASSUME NEW c
      PROVE  PlainCall(ChooseCalls(c))
  <2> DEFINE a == Call("SelectUser", c)
             b == IF c = OtherUser THEN Call("BeginVerification", NoName)
                  ELSE Call("BeginVerificationForUser", c)
             s == <<a, b>>
  <2>1. a.name = "SelectUser" /\ IsBegin(b)
    BY DEF Call, IsBegin
  <2>2. Len(s) = 2 /\ s[1] = a /\ s[2] = b
    OBVIOUS
  <2>3. ChooseCalls(c) = s
    BY DEF ChooseCalls
  <2> HIDE DEF a, b, s
  <2>4. PlainCall(s)
    <3> SUFFICES ASSUME NEW i \in 1 .. Len(s)
                 PROVE  /\ ~IsSelect(s[i])
                        /\ s[i].name = "SelectUser" => i < Len(s) /\ IsBegin(s[i + 1])
      BY DEF PlainCall
    <3>1. i = 1 \/ i = 2
      BY <2>2
    <3> QED
      BY <2>1, <2>2, <3>1 DEF IsSelect, IsBegin
  <2> QED
    BY <2>3, <2>4
<1> QED
  BY <1>1, <1>2, <1>3

\* Steps of user and greeter that do not touch a list.
LEMMA Untouched ==
  ASSUME IInv, IInv', AtWork, InTouch, started = Nothing, AtRest,
         UNCHANGED <<offer, slaveVars, workerVars, inbox, panel>>, PlainCall(calls'),
         \/ signals' = signals
         \/ /\ signals # <<>> /\ signals' = Tail(signals)
            /\ Head(signals).name \notin {"Default", "Reset", "AuthenticationFailed"}
  PROVE  AtWork' /\ InTouch'
<1>1. calls' \in Seq(CallRecord)
  BY SameSets DEF IInv, QueueInv
<1>2. ListsInv' /\ InTouch'
  BY <1>1, ListsAlone DEF AtWork
<1> QED
  BY <1>2, GreeterAtWork

LEMMA UserShown ==
  ASSUME IInv, IInv', AtWork, InTouch, started = Nothing,
         UNCHANGED <<offer, slaveVars, workerVars, inbox>>, UserStep
  PROVE  AtWork' /\ InTouch'
<1>1. ListsInv /\ PanelInv /\ offer \in Offers
  BY DEF AtWork, IInv
<1>2. CASE ChooseUser \/ AnswerQuestion \/ DoCancel
  <2>1. AtRest /\ UNCHANGED <<panel, signals>>
    BY <1>2 DEF ChooseUser, AnswerQuestion, DoCancel
  <2>2. \/ \E c : calls' = ChooseCalls(c)
        \/ \E n, u : n \notin {"Select", "SelectUser"} /\ calls' = <<Call(n, u)>>
    BY <1>2 DEF ChooseUser, AnswerQuestion, DoCancel
  <2>3. PlainCall(calls')
    BY <2>2, PlainCallsOf
  <2> QED
    BY <2>1, <2>3, Untouched
<1>3. CASE PickItem
  <2>1. PICK o \in offer : \E x \in Items[o] :
          Offered(o) /\ panel[o].combo # x /\ Pick(o, x, Show(At(o), x))
    BY <1>3 DEF PickItem
  <2>2. PICK x \in Items[o] :
          Offered(o) /\ panel[o].combo # x /\ Pick(o, x, Show(At(o), x))
    BY <2>1
  <2> DEFINE t == Show(At(o), x)
  <2>3. /\ AtRest /\ panel[o].def # NoName /\ Panel(o, t) /\ UNCHANGED signals
    BY <2>2 DEF Offered, Pick
  <2>4. /\ At(o) \in Settled(Items[o]) /\ At(o) \in Handled(Items[o])
        /\ At(o).w = panel[o] /\ NoName \notin Items[o] /\ GoneRow \notin Items[o]
    BY <1>1, AtIsSettled, SettledIsHandled, ItemFacts
  <2>5. Ends(t) /\ Faithful(t.w) /\ t.w.def = panel[o].def
    BY <1>1, <2>2, <2>3, <2>4, PickedSpeaks DEF ListsInv
  <2>6. t \in Handled(Items[o]) /\ t.w.combo = x /\ t.w.active \in {panel[o].active, x}
    BY <2>4, Shows
  <2>7. t \in Settled(Items[o])
    <3>1. panel[o].active \in Items[o] \cup {NoName, GoneRow}
      BY <1>1 DEF PanelInv, WidgetOf
    <3> HIDE DEF t
    <3> QED
      BY <2>6, <3>1 DEF Handled, Settled, WidgetOf
  <2>8. Speaks(At(o), t)
    BY <2>3, <2>4, <2>5 DEF Speaks, Says
  <2> HIDE DEF t
  <2> QED
    BY <1>1, <2>3, <2>5, <2>7, <2>8, ListSpoken, GreeterAtWork
<1>4. CASE PickOther
  <2>1. PICK o \in offer \ {"session"} :
          Offered(o) /\ Pick(o, panel[o].def, ChooseOther(At(o)))
    BY <1>4 DEF PickOther
  <2> DEFINE t == ChooseOther(At(o))
  <2>2. /\ AtRest /\ panel[o].def # NoName /\ Panel(o, t) /\ UNCHANGED signals
    BY <2>1 DEF Offered, Pick
  <2>3. /\ At(o) \in Settled(Items[o]) /\ At(o).w = panel[o]
        /\ NoName \notin Items[o] /\ GoneRow \notin Items[o] /\ OtherRow \notin Items[o]
    BY <1>1, AtIsSettled, ItemFacts
  <2>4. Ends(t) /\ Faithful(t.w) /\ t.w.def = panel[o].def
    BY <1>1, <2>2, <2>3, OtherSpeaks DEF ListsInv
  <2>5. t \in Settled(Items[o])
    BY <2>2, <2>3, ChoosesOther
  <2>6. Speaks(At(o), t)
    BY <2>2, <2>3, <2>4 DEF Speaks, Says
  <2> HIDE DEF t
  <2> QED
    BY <1>1, <2>2, <2>4, <2>5, <2>6, ListSpoken, GreeterAtWork
<1>5. CASE DialogOk
  <2> DEFINE r(o, x) == SetCurrent(At(o), x)
             t(o, x) == [r(o, x) EXCEPT !.w.dialog = FALSE]
  <2>1. PICK o \in offer : \E x \in Items[o] : AtRest /\ Panel(o, t(o, x)) /\ UNCHANGED signals
    BY <1>5 DEF DialogOk
  <2>2. PICK x \in Items[o] : AtRest /\ Panel(o, t(o, x)) /\ UNCHANGED signals
    BY <2>1
  <2>3. /\ At(o) \in Settled(Items[o]) /\ At(o).w = panel[o]
        /\ NoName \notin Items[o] /\ GoneRow \notin Items[o]
    BY <1>1, AtIsSettled, ItemFacts
  <2>4. /\ Speaks(At(o), r(o, x)) /\ r(o, x) \in Settled(Items[o])
        /\ r(o, x).w.def = panel[o].def
    BY <1>1, <2>3, SetCurrentSpeaks DEF ListsInv
  <2> HIDE DEF r
  <2>5. t(o, x) \in Settled(Items[o])
    BY <2>4, ClosesDialog
  <2>6. /\ t(o, x).w.active = r(o, x).w.active /\ t(o, x).w.def = r(o, x).w.def
        /\ t(o, x).w.combo = r(o, x).w.combo /\ t(o, x).w.rows = r(o, x).w.rows
        /\ t(o, x).w.stale = r(o, x).w.stale /\ t(o, x).sel = r(o, x).sel
    BY <2>4 DEF Settled, WidgetOf
  <2> HIDE DEF t
  <2>7. Speaks(At(o), t(o, x))
    BY <2>4, <2>6 DEF Speaks, Says, Ends, Faithful
  <2> QED
    BY <1>1, <2>2, <2>4, <2>5, <2>6, <2>7, ListSpoken, GreeterAtWork
<1>6. CASE DialogCancelled
  <2>1. PICK o \in offer : AtRest /\ panel' = [panel EXCEPT ![o].dialog = FALSE]
    BY <1>6 DEF DialogCancelled
  <2>2. UNCHANGED <<calls, signals>> /\ AtRest
    BY <1>6 DEF DialogCancelled
  <2>3. \A p \in offer :
           /\ panel'[p].def = panel[p].def /\ panel'[p].active = panel[p].active
           /\ panel'[p].combo = panel[p].combo /\ panel'[p].rows = panel[p].rows
           /\ panel'[p].stale = panel[p].stale
    <3> TAKE p \in offer
    <3>1. /\ panel[p] \in WidgetOf(Items[p]) /\ p \in DOMAIN panel
          /\ panel = [q \in offer |-> panel[q]]
      BY <1>1 DEF PanelInv
    <3>2. panel'[p] = panel[p] \/ panel'[p] = [panel[p] EXCEPT !.dialog = FALSE]
      BY <2>1, <3>1
    <3> QED
      BY <3>1, <3>2 DEF WidgetOf
  <2>4. calls' \in Seq(CallRecord) /\ PlainCall(calls')
    BY <2>2, Unmoved, PlainCallsOf DEF AtRest
  <2> QED
    BY <1>1, <2>2, <2>3, <2>4, ListsAlone, GreeterAtWork
<1> QED
  BY <1>2, <1>3, <1>4, <1>5, <1>6 DEF UserStep

LEMMA GreeterShown ==
  ASSUME IInv, IInv', ListInv, AtWork, InTouch, started = Nothing,
         UNCHANGED <<offer, slaveVars, workerVars, inbox>>, GreeterStep
  PROVE  AtWork' /\ InTouch'
<1>1. ListsInv /\ PanelInv /\ offer \in Offers
  BY DEF AtWork, IInv
<1>2. CASE OnReady \/ OnQuery \/ OnUserAuthorized \/ OnSelectedUserChanged
  <2>1. /\ AtRest /\ UNCHANGED panel /\ signals # <<>> /\ signals' = Tail(signals)
        /\ Head(signals).name \notin {"Default", "Reset", "AuthenticationFailed"}
    BY <1>2 DEF OnReady, OnQuery, OnUserAuthorized, OnSelectedUserChanged, Dispatch
  <2>2. \/ \E c : calls' = ChooseCalls(c)
        \/ calls' = <<Call("StartSessionWhenReady", NoName)>>
        \/ calls' = <<>>
    BY <1>2 DEF OnReady, OnQuery, OnUserAuthorized, OnSelectedUserChanged, Dispatch, AtRest
  <2>3. PlainCall(calls')
    BY <2>2, PlainCallsOf
  <2> QED
    BY <2>1, <2>3, Untouched
<1>3. ASSUME PanelReset
      PROVE  ListsInv'
  <2>1. \A o \in offer : Faithful(panel'[o])
    <3> TAKE o \in offer
    <3>1. /\ At(o) \in Settled(Items[o]) /\ At(o).w = panel[o]
          /\ NoName \notin Items[o] /\ GoneRow \notin Items[o]
      BY <1>1, AtIsSettled, ItemFacts
    <3>2. /\ Faithful(SetDefaultItem(At(o), NoName).w)
          /\ Faithful(SetKeyboardLayout(At(o), NoName).w)
      BY <1>1, <3>1, DefaultGone DEF ListsInv
    <3>3. \/ panel'[o] = SetKeyboardLayout(At(o), NoName).w
          \/ panel'[o] = SetDefaultItem(At(o), NoName).w
      BY <1>3 DEF PanelReset
    <3> QED
      BY <3>2, <3>3
  <2> QED
    BY <2>1 DEF ListsInv, Faithful
<1>4. CASE OnReset \/ OnAuthenticationFailed
  <2>1. /\ AtRest /\ UNCHANGED calls /\ signals # <<>> /\ signals' = Tail(signals)
        /\ Head(signals).name \in {"Reset", "AuthenticationFailed"}
        /\ PanelReset \/ UNCHANGED panel
    BY <1>4 DEF OnReset, OnAuthenticationFailed, Dispatch
  <2>2. InTouch'
    BY <2>1, EndHeard
  <2>3. ListsInv'
    <3>1. UNCHANGED panel => ListsInv'
      BY <1>1 DEF ListsInv, Faithful
    <3> QED
      BY <1>3, <2>1, <3>1
  <2> QED
    BY <2>1, <2>2, <2>3, GreeterAtWork
<1>5. CASE RecentsNotified
  <2> DEFINE r(o) == Sync(At(o))
             t(o) == [r(o) EXCEPT !.w.stale = FALSE]
  <2>1. PICK o \in offer : AtRest /\ panel[o].stale /\ Panel(o, t(o)) /\ UNCHANGED signals
    BY <1>5 DEF RecentsNotified
  <2>2. /\ At(o) \in Settled(Items[o]) /\ At(o) \in Handled(Items[o])
        /\ At(o).w = panel[o] /\ At(o).sel = <<>>
        /\ NoName \notin Items[o] /\ GoneRow \notin Items[o] /\ panel[o].rows # <<>>
    BY <1>1, <2>1, AtIsSettled, SettledIsHandled, ItemFacts DEF ListsInv, Faithful, At
  <2>3. /\ Faithful(r(o).w) /\ r(o).w.def = panel[o].def
        /\ panel[o].def # NoName => Ends(r(o))
        /\ panel[o].def = NoName => r(o).sel = <<>>
    BY <2>2, SyncSays
  <2>4. r(o) \in Settled(Items[o])
    BY <2>2, Syncs
  <2> HIDE DEF r
  <2>5. t(o) \in Settled(Items[o])
    BY <2>4, HearsNothing
  <2>6. /\ t(o).w.active = r(o).w.active /\ t(o).w.def = r(o).w.def
        /\ t(o).w.combo = r(o).w.combo /\ ~t(o).w.stale /\ t(o).sel = r(o).sel
    BY <2>4 DEF Settled, WidgetOf
  <2> HIDE DEF t
  <2>7. Speaks(At(o), t(o))
    BY <2>2, <2>3, <2>6 DEF Speaks, Says, Ends, Faithful
  <2> QED
    BY <1>1, <2>1, <2>3, <2>5, <2>6, <2>7, ListSpoken, GreeterAtWork
<1>6. CASE OnDefaultChanged
  <2> DEFINE o == Head(signals).opt
             x == Head(signals).item
  <2>1. /\ AtRest /\ signals # <<>> /\ signals' = Tail(signals)
        /\ Head(signals).name = "Default"
        /\ Panel(o, CASE o = "language" -> SetDefaultLanguage(At(o), x)
                      [] o = "layout" -> SetKeyboardLayout(At(o), x)
                      [] o = "session" -> SetDefaultSession(At(o), x))
    BY <1>6 DEF OnDefaultChanged, Dispatch
  <2>2. o \in offer /\ x \in Rows(o)
    <3>1. Head(signals) \in SoundSignal
      BY <2>1, HeadTailProperties DEF AtWork, SoundInv
    <3>2. Head(signals) \in SignalRecord
      BY <3>1 DEF SoundSignal
    <3>3. o \in offer
      BY <2>1, <3>2 DEF SignalRecord
    <3> QED
      BY <2>1, <3>1, <3>3 DEF SoundSignal, IsDefault
  <2>3. /\ At(o) \in Settled(Items[o]) /\ At(o).w = panel[o] /\ x \in Items[o]
        /\ NoName \notin Items[o] /\ GoneRow \notin Items[o] /\ x # NoName
        /\ o \in {"language", "layout", "session"}
    BY <1>1, <2>2, AtIsSettled, RowFacts
  <2>4. o = "session" => Has(panel[o], x)
    BY <2>2 DEF ListInv, Rows, Sessions, Has
  <2> HIDE DEF o, x
  <2>5. /\ Defaulted(At(o), SetDefaultLanguage(At(o), x), x)
        /\ Defaulted(At(o), SetKeyboardLayout(At(o), x), x)
        /\ o = "session" => Defaulted(At(o), SetDefaultSession(At(o), x), x)
    BY <1>1, <2>2, <2>3, <2>4, DefaultsSpeak DEF ListsInv
  <2>6. /\ SetDefaultLanguage(At(o), x) \in Settled(Items[o])
        /\ SetKeyboardLayout(At(o), x) \in Settled(Items[o])
        /\ SetDefaultSession(At(o), x) \in Settled(Items[o])
    BY <2>3, SetsDefaultLanguage, SetsKeyboardLayout, SetsDefaultSession
  <2>7. PICK t \in Settled(Items[o]) : Panel(o, t) /\ Defaulted(At(o), t, x)
    BY <2>1, <2>3, <2>5, <2>6
  <2> QED
    BY <1>1, <2>1, <2>2, <2>3, <2>7, DefaultHeard, GreeterAtWork DEF o, x
<1> QED
  BY <1>2, <1>4, <1>5, <1>6 DEF GreeterStep

(* What a step of slave or worker leaves. *)

LEMMA CallsGoOn ==
  ASSUME IInv, CallInv, UNCHANGED <<offer, panel>>, calls # <<>>, calls' = Tail(calls)
  PROVE  /\ CallInv' /\ \A o : Heading(calls', o) => Heading(calls, o)
         /\ ~IsSelect(Head(calls)) => \A o : Heading(calls, o) => Heading(calls', o)
         /\ ~IsBegin(Head(calls)) => (ToBegin(calls) => ToBegin(calls'))
         /\ Head(calls).name = "SelectUser" => ToBegin(calls')
<1> DEFINE s == calls
           t == calls'
           n == Len(calls)
<1>1. /\ Head(s) = s[1] /\ n \in Nat /\ n >= 1 /\ Len(t) = n - 1
      /\ \A i \in 1 .. n - 1 : t[i] = s[i + 1]
      /\ s \in Seq(CallRecord) /\ t \in Seq(CallRecord)
  BY Unmoved, Shorter
<1>2. \A i \in 1 .. Len(t) : i + 1 \in 1 .. n /\ t[i] = s[i + 1]
  BY <1>1
<1>3. \A i \in 2 .. n : i - 1 \in 1 .. Len(t) /\ t[i - 1] = s[i]
  <2> TAKE i \in 2 .. n
  <2>1. i - 1 \in 1 .. Len(t) /\ i - 1 + 1 = i
    BY <1>1
  <2>2. t[i - 1] = s[i - 1 + 1]
    BY <1>1, <2>1
  <2> QED
    BY <2>1, <2>2
<1>4. t # <<>> <=> n # 1
  BY <1>1, EmptySeq
<1>5. n # 1 => t[Len(t)] = s[n]
  BY <1>1, <1>3
<1>6. s # <<>> /\ 1 \in 1 .. n
  BY <1>1
<1>7. \A o : Heading(t, o) <=> n # 1 /\ Heading(s, o)
  BY <1>4, <1>5, <1>6 DEF Heading, n
<1>8. ~IsSelect(Head(s)) => \A o : Heading(s, o) => Heading(t, o)
  BY <1>1, <1>7 DEF Heading, n
<1>9. /\ \A i \in 1 .. n : IsSelect(s[i]) => Heading(s, s[i].opt)
      /\ \A o \in offer : Heading(s, o) => s[n].item = panel[o].active /\ panel[o].def # NoName
      /\ \A i \in 1 .. n : s[i].name = "SelectUser" => i < n /\ IsBegin(s[i + 1])
  BY DEF CallInv, n
<1> HIDE DEF n
<1>10. \A i \in 1 .. Len(t) : IsSelect(t[i]) => Heading(t, t[i].opt)
  <2> TAKE i \in 1 .. Len(t)
  <2>1. i + 1 \in 1 .. n /\ t[i] = s[i + 1] /\ n # 1
    BY <1>1, <1>2
  <2> QED
    BY <1>7, <1>9, <2>1
<1>11. \A o \in offer : Heading(t, o) => t[Len(t)].item = panel'[o].active
                                         /\ panel'[o].def # NoName
  BY <1>5, <1>7, <1>9
<1>12. \A i \in 1 .. Len(t) : t[i].name = "SelectUser" => i < Len(t) /\ IsBegin(t[i + 1])
  <2> SUFFICES ASSUME NEW i \in 1 .. Len(t), t[i].name = "SelectUser"
               PROVE  i < Len(t) /\ IsBegin(t[i + 1])
    OBVIOUS
  <2>1. i + 1 \in 1 .. n /\ s[i + 1].name = "SelectUser"
    BY <1>2
  <2>2. i + 1 < n /\ IsBegin(s[i + 1 + 1])
    BY <1>9, <2>1
  <2>3. i + 1 \in 1 .. Len(t) /\ t[i + 1] = s[i + 1 + 1]
    BY <1>1, <2>2
  <2> QED
    BY <1>1, <2>2, <2>3
<1>13. CallInv'
  BY <1>10, <1>11, <1>12 DEF CallInv, Heading, IsSelect, IsBegin
<1>14. ASSUME ~IsBegin(Head(s)), ToBegin(s)
       PROVE  ToBegin(t)
  <2>1. PICK i \in 1 .. n : IsBegin(s[i])
    BY <1>14 DEF ToBegin, n
  <2>2. i \in 2 .. n
    BY <1>1, <1>14, <2>1
  <2>3. i - 1 \in 1 .. Len(t) /\ IsBegin(t[i - 1])
    BY <1>3, <2>1, <2>2
  <2> QED
    BY <2>3 DEF ToBegin
<1>15. ASSUME Head(s).name = "SelectUser"
       PROVE  ToBegin(t)
  <2>1. 1 < n /\ IsBegin(s[2])
    BY <1>1, <1>6, <1>9, <1>15
  <2>2. 2 \in 2 .. n
    BY <1>1, <2>1
  <2>3. 1 \in 1 .. Len(t) /\ IsBegin(t[1])
    BY <1>3, <2>1, <2>2
  <2> QED
    BY <2>3 DEF ToBegin
<1> QED
  BY <1>7, <1>8, <1>13, <1>14, <1>15

\* What the signals e of a step do to what is told of the defaults.
KeepsTold(e) ==
  \A o \in offer :
    \/ LastTold(e, o, Default(sess', o))
    \/ /\ Untold(e, o) /\ Begun
       /\ \/ ToBegin(calls')
          \/ Default(sess', o) = Default(sess, o) /\ (ToBegin(calls) => ToBegin(calls'))

LEMMA Talks ==
  ASSUME IInv, InTouch, UNCHANGED <<offer, greeterVars, started>>,
         NEW e \in Seq(SignalRecord), ~Behind(e), Tell(e),
         \/ calls' = calls
         \/ calls # <<>> /\ calls' = Tail(calls) /\ ~IsSelect(Head(calls)),
         sess'.sel = sess.sel, sess.missed => sess'.missed,
         started = Nothing /\ Begun' => KeepsTold(e)
  PROVE  InTouch'
<1> SUFFICES ASSUME started = Nothing
             PROVE  CallInv' /\ ToldInv' /\ KnownInv'
  BY DEF InTouch, Nothing
<1>1. CallInv /\ ToldInv /\ KnownInv /\ panel' = panel /\ Nothing' = Nothing
  BY DEF InTouch, greeterVars, Nothing
<1>2. CallInv' /\ \A o : Heading(calls, o) => Heading(calls', o)
  <2>1. CASE calls' = calls
    BY <1>1, <2>1 DEF CallInv, Heading, IsSelect, IsBegin
  <2>2. CASE calls' # calls
    BY <1>1, <2>2, CallsGoOn
  <2> QED
    BY <2>1, <2>2
<1>3. signals \in Seq(SignalRecord) /\ signals' = signals \o e
  BY Unmoved DEF Tell
<1>4. /\ \A o : Untold(signals', o) <=> Untold(signals, o) /\ Untold(e, o)
      /\ \A o, x : LastTold(e, o, x) => LastTold(signals', o, x)
      /\ \A o, x : LastTold(signals, o, x) /\ Untold(e, o) => LastTold(signals', o, x)
  BY <1>3, TellsMore
<1>5. /\ Behind(signals') <=> Behind(signals)
      /\ \A o : Followed(signals, o) \/ ~Untold(e, o) => Followed(signals', o)
  BY <1>3, StaysBehind
<1>6. ToldInv'
  <2> SUFFICES ASSUME Begun', NEW o \in offer
               PROVE  /\ ~ToBegin(calls') =>
                           \/ LastTold(signals', o, Default(sess', o))
                           \/ Untold(signals', o) /\ panel[o].def = Default(sess', o)
                      /\ Followed(signals', o)
    BY <1>1 DEF ToldInv, LastTold, Untold, Followed, ToBegin, IsBegin, IsDefault, GivenUp,
                Default
  <2>1. CASE LastTold(e, o, Default(sess', o))
    BY <1>4, <1>5, <2>1, TellingIsNot
  <2>2. CASE /\ Untold(e, o) /\ Begun
             /\ \/ ToBegin(calls')
                \/ Default(sess', o) = Default(sess, o) /\ (ToBegin(calls) => ToBegin(calls'))
    <3>1. /\ ~ToBegin(calls) =>
               \/ LastTold(signals, o, Default(sess, o))
               \/ Untold(signals, o) /\ panel[o].def = Default(sess, o)
          /\ Followed(signals, o)
      BY <1>1, <2>2 DEF ToldInv
    <3> QED
      BY <1>4, <1>5, <2>2, <3>1
  <2> QED
    BY <2>1, <2>2 DEF KeepsTold
<1>7. KnownInv'
  <2> SUFFICES ASSUME ~sess'.missed
               PROVE  IF Behind(signals') THEN sess.sel = Nothing
                      ELSE \A o \in offer : ~Heading(calls', o) =>
                             IF sess.sel[o] # NoName
                             THEN panel[o].def # NoName /\ panel[o].active = sess.sel[o]
                             ELSE Begun' /\ Untold(signals', o)
                                    => panel[o].combo = panel[o].def
    BY <1>1 DEF KnownInv, Behind, Heading, Untold, IsSelect, IsDefault, GivenUp
  <2>1. CASE Behind(signals')
    BY <1>1, <1>5, <2>1 DEF KnownInv
  <2>2. CASE ~Behind(signals')
    <3> SUFFICES ASSUME NEW o \in offer, ~Heading(calls', o)
                 PROVE  IF sess.sel[o] # NoName
                        THEN panel[o].def # NoName /\ panel[o].active = sess.sel[o]
                        ELSE Begun' /\ Untold(signals', o) => panel[o].combo = panel[o].def
      BY <2>2
    <3>1. IF sess.sel[o] # NoName
          THEN panel[o].def # NoName /\ panel[o].active = sess.sel[o]
          ELSE Begun /\ Untold(signals, o) => panel[o].combo = panel[o].def
      BY <1>1, <1>2, <1>5, <2>2 DEF KnownInv
    <3>2. Begun' /\ Untold(signals', o) => Begun /\ Untold(signals, o)
      BY <1>4, TellingIsNot DEF KeepsTold
    <3> QED
      BY <3>1, <3>2
  <2> QED
    BY <2>1, <2>2
<1> QED
  BY <1>2, <1>6, <1>7

\* Signals that say nothing of defaults and ends.
LEMMA PlainTalk ==
  /\ <<>> \in Seq(SoundSignal) /\ ~Behind(<<>>) /\ \A o : Untold(<<>>, o)
  /\ \A m \in SignalRecord : m.name \notin {"Default", "Reset", "AuthenticationFailed"} =>
       <<m>> \in Seq(SoundSignal) /\ ~Behind(<<m>>) /\ \A o : Untold(<<m>>, o)
<1>1. <<>> \in Seq(SoundSignal) /\ ~Behind(<<>>) /\ \A o : Untold(<<>>, o)
  BY DEF Behind, Untold
<1>2. ASSUME NEW m \in SignalRecord, m.name \notin {"Default", "Reset", "AuthenticationFailed"}
      PROVE  <<m>> \in Seq(SoundSignal) /\ ~Behind(<<m>>) /\ \A o : Untold(<<m>>, o)
  <2> DEFINE s == <<m>>
  <2>1. m \in SoundSignal /\ ~GivenUp(m) /\ \A o : ~IsDefault(m, o)
    BY <1>2 DEF SoundSignal, GivenUp, IsDefault
  <2>2. s \in Seq(SoundSignal) /\ Len(s) = 1 /\ s[1] = m
    BY <2>1
  <2> HIDE DEF s
  <2>3. ~Behind(s) /\ \A o : Untold(s, o)
    BY <2>1, <2>2 DEF Behind, Untold
  <2> QED
    BY <2>2, <2>3 DEF s
<1> QED
  BY <1>1, <1>2

LEMMA SaysNothing ==
  ASSUME IInv, UNCHANGED signals
  PROVE  Tell(<<>>)
BY Unmoved, ConcatEmptySeq DEF Tell

LEMMA SoundIsSignal ==
  ASSUME NEW e \in Seq(SoundSignal)
  PROVE  e \in Seq(SignalRecord)
<1>1. \A i \in 1 .. Len(e) : e[i] \in SoundSignal
  BY LenProperties
<1>2. \A i \in 1 .. Len(e) : e[i] \in SignalRecord
  BY <1>1 DEF SoundSignal
<1> QED
  BY <1>2, Narrower

LEMMA SoundLeft ==
  ASSUME IInv, AtWork, UNCHANGED offer, NEW e \in Seq(SoundSignal), Tell(e),
         Quiet \/ (inbox # <<>> /\ inbox' = Tail(inbox)),
         \A o \in offer : sess'.saved[o] \in Rows(o) \cup {NoName}
  PROVE  SoundInv'
<1>1. signals' \in Seq(SoundSignal)
  BY Joined DEF Tell, AtWork, SoundInv
<1>2. inbox \in Seq(SoundRequest)
  BY DEF AtWork, SoundInv
<1>3. inbox' \in Seq(SoundRequest)
  <2>1. CASE inbox # <<>> /\ inbox' = Tail(inbox)
    BY <1>2, <2>1, HeadTailProperties
  <2>2. CASE inbox' = inbox
    BY <1>2, <2>2
  <2>3. CASE \E m \in RequestRecord : m.name \notin {"Option", "Start"} /\ inbox' = Append(inbox, m)
    <3>1. PICK m \in RequestRecord : m.name \notin {"Option", "Start"} /\ inbox' = Append(inbox, m)
      BY <2>3
    <3>2. m \in SoundRequest
      BY <3>1 DEF SoundRequest, IsOption
    <3> QED
      BY <1>2, <3>1, <3>2, Longer
  <2> QED
    BY <2>1, <2>2, <2>3 DEF Quiet
<1>4. SoundSignal' = SoundSignal /\ SoundRequest' = SoundRequest
  BY SameRows
<1> QED
  BY <1>1, <1>3, <1>4 DEF SoundInv, Rows, Sessions

LEMMA ListsLeftAlone ==
  ASSUME AtWork, UNCHANGED <<offer, greeterVars>>
  PROVE  ListsInv'
BY DEF AtWork, ListsInv, greeterVars, Faithful

\* Steps that leave the worker.
LEMMA ReadLeft ==
  ASSUME IInv, AtWork, UNCHANGED <<offer, dmrc>>, worker'.made = worker.made,
         worker'.loading = worker.loading,
         worker.loading # <<>> => worker'.name = worker.name,
         sess'.saved \in {sess.saved, Nothing}
  PROVE  ReadInv'
<1>1. Nothing' = Nothing /\ \A o \in offer : Nothing[o] = NoName
  BY NothingIsTyped DEF Nothing
<1>2. worker.loading \in Seq(offer) /\ ReadInv
  BY Unmoved DEF WorkerOK, WorkerRecord, AtWork
<1>3. ~worker'.made => sess'.saved = Nothing'
  BY <1>1, <1>2 DEF ReadInv
<1> HIDE DEF Nothing
<1>4. ASSUME NEW i \in 1 .. Len(worker.loading)
      PROVE  /\ dmrc'[worker'.name][worker'.loading[i]] # NoName
             /\ worker'.loading[i] = "session" => i = 1 /\ sess'.saved["session"] = NoName
  <2>1. worker.loading # <<>> /\ worker.loading[i] \in offer
    BY <1>2, <1>4, LenProperties
  <2> QED
    BY <1>1, <1>2, <2>1 DEF ReadInv
<1> QED
  BY <1>3, <1>4 DEF ReadInv

LEMMA StageLeft ==
  ASSUME IInv, AtWork, UNCHANGED <<offer, worker>>, sess'.conn = sess.conn,
         sess'.made = sess.made, sess'.sel = sess.sel \/ sess.made,
         slave'.idle = "start" => slave.idle = "start",
         HasSetup(inbox') => HasSetup(inbox) \/ sess.conn
  PROVE  StageInv'
<1>1. StageInv /\ Nothing' = Nothing
  BY DEF AtWork, Nothing
<1>2. Begun' => Begun \/ sess.conn
  BY DEF Begun, HasSetup
<1> HIDE DEF Nothing
<1> QED
  BY <1>1, <1>2 DEF StageInv

\* A call that is dispatched.
LEMMA FinalCalled ==
  ASSUME IInv, AtWork, UNCHANGED <<offer, started>>, calls # <<>>, calls' = Tail(calls),
         worker'.state = worker.state, slave'.idle \in {slave.idle, "reset"}
  PROVE  FinalInv'
<1> SUFFICES ASSUME started # Nothing
             PROVE  /\ slave'.idle \in {"none", "reset"} /\ Len(calls') <= 1
                    /\ worker'.state \in {"opened", "started"} /\ calls' = <<>>
  BY DEF FinalInv, Nothing
<1>1. /\ slave.idle \in {"none", "reset"} /\ Len(calls) <= 1
      /\ worker.state \in {"opened", "started"}
  BY DEF AtWork, FinalInv
<1>2. Len(calls') = Len(calls) - 1 /\ Len(calls) >= 1 /\ calls' \in Seq(CallRecord)
      /\ Len(calls) \in Nat
  BY Unmoved, Shorter
<1> QED
  BY <1>1, <1>2, EmptySeq

\* A step of a conversation before its session.
LEMMA FinalNot ==
  ASSUME IInv, AtWork, worker.step \notin {"none", "start"}
  PROVE  started = Nothing
BY Unmoved DEF AtWork, FinalInv, StageInv, WorkerOK, WorkerRecord

(* The slave: the calls of the greeter. *)

LEMMA AsksNoSetup ==
  ASSUME IInv, NEW m \in Seq(RequestRecord), \A i \in 1 .. Len(m) : m[i].name # "Setup",
         Ask(m)
  PROVE  HasSetup(inbox') => HasSetup(inbox)
<1> SUFFICES ASSUME HasSetup(inbox')
             PROVE  HasSetup(inbox)
  OBVIOUS
<1>1. inbox \in Seq(RequestRecord)
  BY Unmoved
<1>2. CASE inbox' = inbox
  BY <1>2 DEF HasSetup
<1>3. CASE inbox' = inbox \o m
  <2> DEFINE t == inbox \o m
             n == Len(inbox)
  <2>1. /\ n \in Nat /\ \A i \in 1 .. n : t[i] = inbox[i]
        /\ \A i \in n + 1 .. Len(t) : i - n \in 1 .. Len(m) /\ t[i] = m[i - n]
        /\ Len(t) \in Nat
    BY <1>1, Joined, LenProperties
  <2> HIDE DEF t
  <2>2. PICK i \in 1 .. Len(t) : t[i].name = "Setup"
    BY <1>3 DEF HasSetup, t
  <2>3. i \notin n + 1 .. Len(t)
    BY <2>1, <2>2
  <2>4. i \in 1 .. n
    BY <2>1, <2>2, <2>3
  <2> QED
    BY <2>1, <2>2, <2>4 DEF HasSetup
<1> QED
  BY <1>2, <1>3 DEF Ask

LEMMA AsksOther ==
  ASSUME IInv, NEW n \in {"Authenticate", "Open", "Start"},
         NEW b \in BOOLEAN, Ask(IF b THEN <<Request(n, NoName)>> ELSE <<>>)
  PROVE  HasSetup(inbox') => HasSetup(inbox)
<1> DEFINE m == Request(n, NoName)
           s == <<m>>
           e == IF b THEN s ELSE <<>>
<1>1. m \in RequestRecord /\ m.name # "Setup"
  BY DEF Request, RequestRecord
<1> HIDE DEF m
<1>2. s \in Seq(RequestRecord) /\ \A i \in 1 .. Len(s) : s[i].name # "Setup"
  BY <1>1
<1> HIDE DEF s
<1>3. <<>> \in Seq(RequestRecord) /\ \A i \in 1 .. Len(<<>>) : <<>>[i].name # "Setup"
  OBVIOUS
<1>4. e \in Seq(RequestRecord) /\ \A i \in 1 .. Len(e) : e[i].name # "Setup"
  BY <1>2, <1>3
<1>5. Ask(e)
  BY DEF s, m
<1> HIDE DEF e
<1> QED
  BY <1>4, <1>5, AsksNoSetup

\* Nobody is asked to set up an account who has not been connected.
LEMMA BegunIsConnected ==
  ASSUME AtWork, UNCHANGED worker, HasSetup(inbox') => HasSetup(inbox) \/ sess.conn, Begun'
  PROVE  sess.conn
BY DEF AtWork, StageInv, Begun, HasSetup

LEMMA SlaveShown ==
  ASSUME IInv, AtWork, InTouch, UNCHANGED <<offer, greeterVars, started, worker, dmrc>>,
         calls # <<>>, calls' = Tail(calls), ~IsSelect(Head(calls)),
         NEW e \in Seq(SoundSignal), ~Behind(e), Tell(e), Quiet,
         sess'.sel = sess.sel, sess'.missed = sess.missed, sess'.conn = sess.conn,
         sess'.made = sess.made, sess'.saved \in {sess.saved, Nothing},
         slave'.idle \in {slave.idle, "reset"},
         HasSetup(inbox') => HasSetup(inbox) \/ sess.conn,
         started = Nothing /\ Begun' => KeepsTold(e)
  PROVE  AtWork' /\ InTouch'
<1>1. e \in Seq(SignalRecord)
  BY SoundIsSignal
<1>2. InTouch'
  BY <1>1, Talks
<1>3. ListsInv'
  BY ListsLeftAlone
<1>4. StageInv'
  BY StageLeft
<1>5. FinalInv'
  BY FinalCalled
<1>6. ReadInv'
  BY ReadLeft
<1>7. SoundInv'
  <2>1. \A o \in offer : sess'.saved[o] \in Rows(o) \cup {NoName}
    BY NothingIsTyped DEF AtWork, SoundInv
  <2> QED
    BY <2>1, SoundLeft
<1> QED
  BY <1>2, <1>3, <1>4, <1>5, <1>6, <1>7 DEF AtWork

LEMMA SelectUserShown ==
  ASSUME IInv, AtWork, InTouch, UNCHANGED <<offer, greeterVars>>, SelectUser
  PROVE  AtWork' /\ InTouch'
<1>1. /\ calls # <<>> /\ calls' = Tail(calls) /\ Head(calls).name = "SelectUser"
      /\ UNCHANGED <<sess, signals, slave, started, inbox, worker, dmrc, panel>>
  BY DEF SelectUser, Take, workerVars, greeterVars
<1>2. /\ sess'.sel = sess.sel /\ sess'.missed = sess.missed /\ sess'.conn = sess.conn
      /\ sess'.made = sess.made /\ sess'.saved \in {sess.saved, Nothing}
  BY <1>1
<1>3. started = Nothing => CallInv
  BY DEF InTouch
<1>4. started = Nothing => ToBegin(calls')
  BY <1>1, <1>3, CallsGoOn
<1>5. Begun' => Begun
  BY <1>1 DEF Begun, HasSetup
<1>6. Quiet /\ Tell(<<>>) /\ ~IsSelect(Head(calls)) /\ (HasSetup(inbox') => HasSetup(inbox))
  BY <1>1, SaysNothing DEF Quiet, IsSelect, HasSetup
<1> DEFINE e == <<>>
<1>7. e \in Seq(SoundSignal) /\ ~Behind(e) /\ Tell(e) /\ \A o : Untold(e, o)
  BY <1>6, PlainTalk
<1> HIDE DEF e
<1>8. started = Nothing /\ Begun' => KeepsTold(e)
  BY <1>4, <1>5, <1>7 DEF KeepsTold
<1> QED
  BY <1>1, <1>2, <1>6, <1>7, <1>8, SlaveShown

LEMMA BeginVerificationShown ==
  ASSUME IInv, AtWork, InTouch, UNCHANGED <<offer, greeterVars>>, BeginVerification
  PROVE  AtWork' /\ InTouch'
<1>1. /\ calls # <<>> /\ calls' = Tail(calls) /\ Head(calls).name = "BeginVerification"
      /\ Ask(IF TRUE THEN <<Request("Setup", NoName)>> ELSE <<>>)
      /\ Tell(IF sess.conn THEN DefaultsChanged(sess) ELSE <<>>)
      /\ UNCHANGED <<sess, slave, started, worker, dmrc>>
  BY DEF BeginVerification, Take, workerVars
<1>2. NoName \in Account
  BY DEF Account
<1>3. Quiet /\ (sess.conn \/ inbox' = inbox)
  BY <1>1, <1>2, AsksQuietly DEF Ask
<1>4. /\ HasSetup(inbox') => HasSetup(inbox) \/ sess.conn
      /\ ~IsSelect(Head(calls))
  BY <1>1, <1>3 DEF HasSetup, IsSelect
<1>5. Begun' => sess.conn
  BY <1>1, <1>4, BegunIsConnected
<1>6. /\ DefaultsChanged(sess) \in Seq(SoundSignal) /\ ~Behind(DefaultsChanged(sess))
      /\ \A o \in offer : LastTold(DefaultsChanged(sess), o, Default(sess, o))
  BY DefaultsTold DEF AtWork, SoundInv
<1> DEFINE e == IF sess.conn THEN DefaultsChanged(sess) ELSE <<>>
<1>7. e \in Seq(SoundSignal) /\ ~Behind(e) /\ Tell(e)
  BY <1>1, <1>6, PlainTalk
<1>8. Begun' => KeepsTold(e)
  BY <1>1, <1>5, <1>6 DEF KeepsTold, Default
<1> HIDE DEF e
<1> QED
  BY <1>1, <1>3, <1>4, <1>7, <1>8, SlaveShown

LEMMA BeginVerificationForUserShown ==
  ASSUME IInv, AtWork, InTouch, UNCHANGED <<offer, greeterVars>>, BeginVerificationForUser
  PROVE  AtWork' /\ InTouch'
<1> DEFINE u == Head(calls).user
           s == ForUser(sess, u)
<1>1. /\ calls # <<>> /\ calls' = Tail(calls)
      /\ Head(calls).name = "BeginVerificationForUser"
      /\ IF sess.conn
         THEN sess' = s /\ Tell(DefaultsChanged(s))
              /\ Ask(IF TRUE THEN <<Request("Setup", u)>> ELSE <<>>)
         ELSE UNCHANGED <<sess, signals, inbox>>
      /\ UNCHANGED <<slave, started, worker, dmrc>>
  BY DEF BeginVerificationForUser, Take, workerVars
<1>2. u \in Account
  <2>1. Head(calls) \in CallRecord
    BY <1>1, Unmoved, HeadTailProperties
  <2> QED
    BY <1>1, <2>1 DEF CallRecord, Account
<1>3. /\ s.sel = sess.sel /\ s.missed = sess.missed /\ s.conn = sess.conn
      /\ s.made = sess.made /\ s.saved = Nothing
  BY Unmoved DEF ForUser, SessionOK, SessionRecord
<1> HIDE DEF u, s
<1>4. Quiet
  BY <1>1, <1>2, AsksQuietly DEF Quiet
<1>5. /\ HasSetup(inbox') => HasSetup(inbox) \/ sess.conn
      /\ ~IsSelect(Head(calls))
  BY <1>1 DEF HasSetup, IsSelect
<1>6. Begun' => sess.conn
  BY <1>1, <1>5, BegunIsConnected
<1>7. /\ DefaultsChanged(s) \in Seq(SoundSignal) /\ ~Behind(DefaultsChanged(s))
      /\ \A o \in offer : LastTold(DefaultsChanged(s), o, Default(s, o))
  <2>1. \A o \in offer : s.saved[o] \in Rows(o) \cup {NoName}
    BY <1>3, NothingIsTyped
  <2> QED
    BY <2>1, DefaultsTold
<1> DEFINE e == IF sess.conn THEN DefaultsChanged(s) ELSE <<>>
<1>8. e \in Seq(SoundSignal) /\ ~Behind(e) /\ Tell(e)
  BY <1>1, <1>7, PlainTalk, SaysNothing
<1>9. Begun' => KeepsTold(e)
  BY <1>1, <1>6, <1>7 DEF KeepsTold
<1> HIDE DEF e
<1>10. /\ sess'.sel = sess.sel /\ sess'.missed = sess.missed /\ sess'.conn = sess.conn
       /\ sess'.made = sess.made /\ sess'.saved \in {sess.saved, Nothing}
  BY <1>1, <1>3
<1> QED
  BY <1>1, <1>4, <1>5, <1>8, <1>9, <1>10, SlaveShown

\* A call that says nothing and leaves the session.
LEMMA Silently ==
  ASSUME IInv, AtWork, InTouch,
         UNCHANGED <<offer, greeterVars, started, worker, dmrc, sess, signals>>,
         calls # <<>>, calls' = Tail(calls), ~IsSelect(Head(calls)), ~IsBegin(Head(calls)),
         Quiet, slave'.idle \in {slave.idle, "reset"}, HasSetup(inbox') => HasSetup(inbox)
  PROVE  AtWork' /\ InTouch'
<1> DEFINE e == <<>>
<1>1. e \in Seq(SoundSignal) /\ ~Behind(e) /\ Tell(e) /\ \A o : Untold(e, o)
  BY SaysNothing, PlainTalk
<1> HIDE DEF e
<1>2. started = Nothing /\ ToBegin(calls) => ToBegin(calls')
  BY CallsGoOn DEF InTouch, greeterVars
<1>3. Begun' => Begun
  BY DEF Begun, HasSetup
<1>4. started = Nothing /\ Begun' => KeepsTold(e)
  BY <1>1, <1>2, <1>3 DEF KeepsTold, Default
<1> QED
  BY <1>1, <1>4, SlaveShown

LEMMA CancelShown ==
  ASSUME IInv, AtWork, InTouch, UNCHANGED <<offer, greeterVars>>, Cancel
  PROVE  AtWork' /\ InTouch'
<1>1. /\ calls # <<>> /\ calls' = Tail(calls) /\ Head(calls).name = "Cancel"
      /\ slave' = QueueReset("reset")
      /\ UNCHANGED <<signals, sess, started, inbox, worker, dmrc>>
  BY DEF Cancel, Take, workerVars
<1>2. slave'.idle \in {slave.idle, "reset"}
  BY <1>1, Unmoved DEF QueueReset, SlaveRecord
<1> QED
  BY <1>1, <1>2, Silently DEF Quiet, IsSelect, IsBegin, HasSetup

LEMMA StartSessionWhenReadyShown ==
  ASSUME IInv, AtWork, InTouch, UNCHANGED <<offer, greeterVars>>, StartSessionWhenReady
  PROVE  AtWork' /\ InTouch'
<1>1. /\ calls # <<>> /\ calls' = Tail(calls) /\ Head(calls).name = "StartSessionWhenReady"
      /\ slave' = [slave EXCEPT !.ready = TRUE, !.waiting = FALSE]
      /\ Ask(IF slave.waiting THEN <<Request("Open", NoName)>> ELSE <<>>)
      /\ UNCHANGED <<signals, sess, started, worker, dmrc>>
  BY DEF StartSessionWhenReady, Take, workerVars
<1>2. slave'.idle = slave.idle /\ slave.waiting \in BOOLEAN
  BY <1>1, Unmoved DEF SlaveRecord
<1>3. Quiet /\ NoName \in Account
  BY <1>1, <1>2, AsksQuietly DEF Account
<1>4. HasSetup(inbox') => HasSetup(inbox)
  BY <1>1, <1>2, AsksOther
<1> QED
  BY <1>1, <1>2, <1>3, <1>4, Silently DEF IsSelect, IsBegin

(* The slave: the greeter's choices, the idle that begins a conversation, and the *)
(* one that starts the session. *)

LEMMA MovesOn ==
  ASSUME IInv, AtWork, InTouch, UNCHANGED <<offer, greeterVars, started>>,
         NEW e \in Seq(SoundSignal), ~Behind(e), Tell(e),
         \/ calls' = calls
         \/ calls # <<>> /\ calls' = Tail(calls) /\ ~IsSelect(Head(calls)),
         Quiet \/ (inbox # <<>> /\ inbox' = Tail(inbox)),
         sess'.sel = sess.sel, sess.missed => sess'.missed,
         \A o \in offer : sess'.saved[o] \in Rows(o) \cup {NoName},
         started = Nothing /\ Begun' => KeepsTold(e), StageInv', FinalInv', ReadInv'
  PROVE  AtWork' /\ InTouch'
<1>1. e \in Seq(SignalRecord)
  BY SoundIsSignal
<1>2. InTouch'
  BY <1>1, Talks
<1>3. ListsInv' /\ SoundInv'
  BY ListsLeftAlone, SoundLeft
<1> QED
  BY <1>2, <1>3 DEF AtWork

LEMMA MovesSilently ==
  ASSUME IInv, AtWork, InTouch, UNCHANGED <<offer, greeterVars, started, sess, signals>>,
         \/ calls' = calls
         \/ /\ calls # <<>> /\ calls' = Tail(calls)
            /\ ~IsSelect(Head(calls)) /\ ~IsBegin(Head(calls)),
         Quiet \/ (inbox # <<>> /\ inbox' = Tail(inbox)),
         Begun' => Begun, StageInv', FinalInv', ReadInv'
  PROVE  AtWork' /\ InTouch'
<1> DEFINE e == <<>>
<1>1. e \in Seq(SoundSignal) /\ ~Behind(e) /\ Tell(e) /\ \A o : Untold(e, o)
  BY SaysNothing, PlainTalk
<1> HIDE DEF e
<1>2. started = Nothing /\ ToBegin(calls) => ToBegin(calls')
  BY CallsGoOn DEF InTouch, greeterVars
<1>3. started = Nothing /\ Begun' => KeepsTold(e)
  BY <1>1, <1>2 DEF KeepsTold, Default
<1>4. \A o \in offer : sess'.saved[o] \in Rows(o) \cup {NoName}
  BY DEF AtWork, SoundInv
<1> QED
  BY <1>1, <1>3, <1>4, MovesOn

LEMMA AnswerQueryShown ==
  ASSUME IInv, AtWork, InTouch, UNCHANGED <<offer, greeterVars>>, AnswerQuery
  PROVE  AtWork' /\ InTouch'
<1>1. /\ calls # <<>> /\ calls' = Tail(calls) /\ Head(calls).name = "AnswerQuery"
      /\ \/ worker.step = "name?"
            /\ worker' = [worker EXCEPT !.step = "authenticate", !.known = Head(calls).user]
         \/ worker.step = "password?" /\ worker' = [worker EXCEPT !.step = "verify"]
         \/ worker' = worker
      /\ UNCHANGED <<signals, sess, slave, started, inbox, dmrc>>
  BY DEF AnswerQuery, Take
<1>2. /\ worker'.pc = worker.pc /\ worker'.state = worker.state
      /\ worker'.idle = worker.idle /\ worker'.name = worker.name
      /\ worker'.made = worker.made /\ worker'.loading = worker.loading
      /\ \/ worker.step \in {"name?", "password?"} /\ worker'.step \in {"authenticate", "verify"}
         \/ worker'.step = worker.step
  BY <1>1, Unmoved DEF WorkerOK, WorkerRecord
<1>3. Begun' => Begun
  BY <1>1, <1>2 DEF Begun, HasSetup
<1>4. StageInv'
  <2>1. StageInv /\ Nothing' = Nothing
    BY DEF AtWork, Nothing
  <2> HIDE DEF Nothing
  <2> QED
    BY <1>1, <1>2, <1>3, <2>1 DEF StageInv
<1>5. FinalInv' /\ ReadInv'
  BY <1>1, <1>2, FinalCalled, ReadLeft
<1> QED
  BY <1>1, <1>3, <1>4, <1>5, MovesSilently DEF Quiet, IsSelect, IsBegin

LEMMA ConversationStartedShown ==
  ASSUME IInv, BookInv, AtWork, InTouch, UNCHANGED <<offer, greeterVars>>,
         ConversationStarted
  PROVE  AtWork' /\ InTouch'
<1> DEFINE e == <<Signal("Ready", NoName)>>
<1>1. /\ worker.pc = "starting" /\ worker' = [worker EXCEPT !.pc = "up"]
      /\ sess' = [sess EXCEPT !.conn = TRUE] /\ Tell(e)
      /\ UNCHANGED <<calls, slave, started, inbox, dmrc>>
  BY DEF ConversationStarted
<1>2. /\ worker'.pc = "up" /\ worker'.state = worker.state /\ worker'.idle = worker.idle
      /\ worker'.step = worker.step /\ worker'.name = worker.name
      /\ worker'.made = worker.made /\ worker'.loading = worker.loading
  BY <1>1, Unmoved DEF WorkerOK, WorkerRecord
<1>3. /\ sess'.sel = sess.sel /\ sess'.missed = sess.missed /\ sess'.saved = sess.saved
      /\ sess'.made = sess.made /\ sess'.conn = TRUE
  BY <1>1, Unmoved DEF SessionOK, SessionRecord
<1>4. ~sess.conn /\ StageInv /\ Nothing' = Nothing
  BY <1>1 DEF BookInv, AtWork, Nothing
<1>5. ~Begun /\ (Begun' => Begun) /\ sess.made
  BY <1>1, <1>2, <1>4 DEF Begun, HasSetup, StageInv
<1> HIDE DEF Nothing
<1>6. StageInv'
  BY <1>1, <1>2, <1>3, <1>4, <1>5 DEF StageInv
<1>7. FinalInv'
  BY <1>1, <1>2, <1>4 DEF AtWork, FinalInv
<1>8. ReadInv'
  BY <1>1, <1>2, <1>3, ReadLeft
<1>9. e \in Seq(SoundSignal) /\ ~Behind(e)
  <2>1. Signal("Ready", NoName) \in SignalRecord /\ Signal("Ready", NoName).name = "Ready"
    BY DEF Signal, SignalRecord
  <2> QED
    BY <2>1, PlainTalk
<1>10. \A o \in offer : sess'.saved[o] \in Rows(o) \cup {NoName}
  BY <1>3 DEF AtWork, SoundInv
<1> HIDE DEF e
<1> QED
  BY <1>1, <1>3, <1>5, <1>6, <1>7, <1>8, <1>9, <1>10, MovesOn DEF Quiet

\* A session that is destroyed, and the one that may follow it.
LEMMA Over ==
  ASSUME IInv, AtWork, UNCHANGED <<offer, greeterVars>>, inbox' = <<>>,
         \/ sess' = NoSession /\ worker' = NoWorker
         \/ sess' = NewSession /\ worker' = NewWorker,
         slave'.idle # "start", NEW e \in Seq(SoundSignal), Tell(e)
  PROVE  /\ ~Begun' /\ sess'.sel = Nothing /\ ListsInv' /\ StageInv' /\ ReadInv' /\ SoundInv'
         /\ worker'.state = "none" /\ worker'.step = "none" /\ ~worker'.idle
<1>1. /\ worker'.state = "none" /\ worker'.step = "none" /\ ~worker'.made
      /\ worker'.loading = <<>> /\ ~worker'.idle
      /\ worker'.pc = "none" \/ (worker'.pc = "starting" /\ sess'.made)
      /\ sess'.sel = Nothing /\ sess'.saved = Nothing /\ ~sess'.conn
  BY DEF NoWorker, NewWorker, NoSession, NewSession
<1>2. Nothing' = Nothing /\ \A o \in offer : Nothing[o] = NoName
  BY NothingIsTyped DEF Nothing
<1> HIDE DEF Nothing
<1>3. ~HasSetup(inbox')
  BY DEF HasSetup
<1>4. ~Begun'
  BY <1>1, <1>3 DEF Begun, HasSetup
<1>5. StageInv'
  BY <1>1, <1>2, <1>4 DEF StageInv
<1>6. ReadInv'
  BY <1>1, <1>2 DEF ReadInv
<1>7. SoundInv'
  <2>1. signals' \in Seq(SoundSignal)
    BY Joined DEF Tell, AtWork, SoundInv
  <2>2. inbox' \in Seq(SoundRequest)
    OBVIOUS
  <2>3. SoundSignal' = SoundSignal /\ SoundRequest' = SoundRequest
    BY SameRows
  <2> QED
    BY <1>1, <1>2, <2>1, <2>2, <2>3 DEF SoundInv, Rows, Sessions
<1> QED
  BY <1>1, <1>4, <1>5, <1>6, <1>7, ListsLeftAlone

LEMMA GiveUpShown ==
  ASSUME IInv, AtWork, InTouch, UNCHANGED <<offer, greeterVars>>,
         worker.step \in {"verify", "open"},
         NEW k \in {"reset", "authFailed"}, GiveUp(k)
  PROVE  AtWork' /\ InTouch'
<1> DEFINE e == <<>>
<1>1. /\ sess' = NoSession /\ worker' = NoWorker /\ inbox' = <<>>
      /\ slave' = QueueReset(k) /\ UNCHANGED <<calls, signals, started>>
  BY DEF GiveUp
<1>2. slave.idle # "start"
  BY DEF AtWork, StageInv
<1>3. slave'.idle # "start"
  BY <1>1, <1>2, Unmoved DEF QueueReset, SlaveRecord
<1>4. e \in Seq(SoundSignal) /\ Tell(e)
  BY <1>1, SaysNothing, PlainTalk
<1> HIDE DEF e
<1>5. /\ ~Begun' /\ sess'.sel = Nothing /\ ListsInv' /\ StageInv' /\ ReadInv' /\ SoundInv'
  BY <1>1, <1>3, <1>4, Over
<1>6. started = Nothing
  BY FinalNot
<1>7. Nothing' = Nothing /\ \A o \in offer : Nothing[o] = NoName
  BY NothingIsTyped DEF Nothing
<1> HIDE DEF Nothing
<1>8. FinalInv'
  BY <1>1, <1>6, <1>7 DEF FinalInv
<1>9. InTouch'
  <2>1. CallInv' /\ ToldInv'
    BY <1>1, <1>5, <1>6 DEF InTouch, CallInv, ToldInv, Heading, IsSelect, IsBegin, greeterVars
  <2>2. KnownInv'
    BY <1>5, <1>7 DEF KnownInv
  <2> QED
    BY <2>1, <2>2 DEF InTouch
<1> QED
  BY <1>5, <1>8, <1>9 DEF AtWork

LEMMA IdleResetShown ==
  ASSUME IInv, AtWork, InTouch, UNCHANGED <<offer, greeterVars>>, IdleReset
  PROVE  AtWork' /\ InTouch'
<1> DEFINE m == Signal(IF slave.idle = "reset" THEN "Reset" ELSE "AuthenticationFailed", NoName)
           e == <<m>>
<1>1. /\ slave.idle \in {"reset", "authFailed"}
      /\ slave' = [slave EXCEPT !.idle = "none", !.convs = @ + 1]
      /\ Tell(e) /\ sess' = NewSession /\ worker' = NewWorker /\ inbox' = <<>>
      /\ UNCHANGED <<calls, started>>
  BY DEF IdleReset
<1>2. slave'.idle = "none"
  BY <1>1, Unmoved DEF SlaveRecord
<1>3. m \in SoundSignal /\ GivenUp(m) /\ m \in SignalRecord
  BY DEF Signal, SoundSignal, SignalRecord, GivenUp, IsDefault
<1> HIDE DEF m
<1>4. e \in Seq(SoundSignal) /\ Len(e) = 1 /\ e[1] = m /\ e \in Seq(SignalRecord)
  BY <1>3
<1> HIDE DEF e
<1>5. /\ ~Begun' /\ sess'.sel = Nothing /\ ListsInv' /\ StageInv' /\ ReadInv' /\ SoundInv'
      /\ worker'.state = "none" /\ worker'.step = "none" /\ ~worker'.idle
  BY <1>1, <1>2, <1>4, Over
<1>6. Nothing' = Nothing
  BY DEF Nothing
<1> HIDE DEF Nothing
<1>7. FinalInv'
  BY <1>1, <1>2, <1>5, <1>6 DEF FinalInv, AtWork
<1>8. Behind(signals')
  <2>1. signals \in Seq(SignalRecord) /\ signals' = signals \o e
    BY <1>1, Unmoved DEF Tell
  <2>2. /\ Len(signals) \in Nat /\ Len(signals \o e) = Len(signals) + 1
        /\ (signals \o e)[Len(signals) + 1] = m
    BY <1>4, <2>1, Joined
  <2> DEFINE n == Len(signals) + 1
  <2>3. n \in 1 .. Len(signals') /\ signals'[n] = m
    BY <2>1, <2>2
  <2> QED
    BY <1>3, <2>3 DEF Behind
<1>9. InTouch'
  <2>1. started = Nothing => CallInv' /\ ToldInv'
    BY <1>1, <1>5 DEF InTouch, CallInv, ToldInv, Heading, IsSelect, IsBegin, greeterVars
  <2>2. KnownInv'
    BY <1>5, <1>6, <1>8 DEF KnownInv, Behind, GivenUp
  <2> QED
    BY <1>1, <1>6, <2>1, <2>2 DEF InTouch
<1> QED
  BY <1>5, <1>7, <1>9 DEF AtWork

LEMMA IdleStartShown ==
  ASSUME IInv, AtWork, InTouch, UNCHANGED <<offer, greeterVars>>, offer # {}, IdleStart
  PROVE  AtWork' /\ InTouch'
<1> DEFINE m == Request("Start", NoName)
           s == <<m>>
<1>1. /\ slave.idle = "start" /\ slave' = [slave EXCEPT !.idle = "none"]
      /\ started' = [o \in offer |-> NameOf(sess, o)] /\ Ask(s)
      /\ calls' = IF calls = <<>> THEN <<>> ELSE <<Head(calls)>>
      /\ signals' = <<>> /\ sess' = [sess EXCEPT !.missed = @ \/ calls # <<>>]
      /\ UNCHANGED <<worker, dmrc>>
  BY DEF IdleStart, workerVars
<1>2. slave'.idle = "none"
  BY <1>1, Unmoved DEF SlaveRecord
<1>3. /\ sess'.conn = sess.conn /\ sess'.made = sess.made /\ sess'.sel = sess.sel
      /\ sess'.saved = sess.saved
  BY <1>1, Unmoved DEF SessionOK, SessionRecord
<1>4. started' # Nothing /\ Nothing' = Nothing
  <2>1. PICK o \in offer : TRUE
    OBVIOUS
  <2>2. NameOf(sess, o) \in Items[o] /\ NoName \notin Items[o]
    BY Unmoved, DefaultIsItem, RowFacts
  <2>3. started'[o] = NameOf(sess, o) /\ Nothing[o] = NoName
    BY <1>1 DEF Nothing
  <2> QED
    BY <2>2, <2>3 DEF Nothing
<1>5. worker.state = "opened"
  BY <1>1 DEF AtWork, StageInv
<1>6. Len(calls') <= 1
  <2> DEFINE q == <<Head(calls)>>
             t == calls'
  <2>1. Len(q) = 1
    OBVIOUS
  <2> HIDE DEF q
  <2>2. t = <<>> \/ t = q
    BY <1>1 DEF q
  <2> HIDE DEF t
  <2>3. Len(t) <= 1
    <3>1. CASE t = <<>>
      <4>1. Len(t) = 0
        BY <3>1
      <4> QED
        BY <4>1
    <3>2. CASE t = q
      <4>1. Len(t) = 1
        BY <2>1, <3>2
      <4> QED
        BY <4>1
    <3> QED
      BY <2>2, <3>1, <3>2
  <2> QED
    BY <2>3 DEF t
<1>7. m \in RequestRecord /\ m.name = "Start"
  BY DEF Request, RequestRecord
<1> HIDE DEF m
<1>8. /\ s \in Seq(RequestRecord) /\ \A i \in 1 .. Len(s) : s[i].name # "Setup"
      /\ s \in Seq(SoundRequest)
  <2>1. m \in SoundRequest
    BY <1>7 DEF SoundRequest, IsOption
  <2> QED
    BY <1>7, <2>1
<1> HIDE DEF s
<1>9. HasSetup(inbox') => HasSetup(inbox)
  BY <1>1, <1>8, AsksNoSetup
<1>10. StageInv'
  BY <1>1, <1>2, <1>3, <1>9, StageLeft
<1>11. FinalInv'
  BY <1>1, <1>2, <1>5, <1>6 DEF FinalInv
<1>12. ReadInv'
  BY <1>1, <1>3, ReadLeft
<1>13. SoundInv'
  <2>1. inbox' \in Seq(SoundRequest)
    BY <1>1, <1>8, Joined DEF Ask, AtWork, SoundInv
  <2>2. SoundSignal' = SoundSignal /\ SoundRequest' = SoundRequest
    BY SameRows
  <2>3. signals' \in Seq(SoundSignal)
    BY <1>1
  <2> QED
    BY <1>3, <2>1, <2>2, <2>3 DEF AtWork, SoundInv, Rows, Sessions
<1>14. InTouch'
  BY <1>4 DEF InTouch
<1> QED
  BY <1>10, <1>11, <1>12, <1>13, <1>14, ListsLeftAlone DEF AtWork

\* A choice that reaches the slave is what the list shows by then, or another is
\* behind it.
LEMMA SelectOptionShown ==
  ASSUME IInv, ListInv, AtWork, InTouch, UNCHANGED <<offer, greeterVars>>, SelectOption
  PROVE  AtWork' /\ InTouch'
<1> DEFINE c == Head(calls)
           o == c.opt
           x == c.item
           b == sess.missed \/ ~sess.conn \/ GreeterBehind
           s == [sess EXCEPT !.sel[o] = x, !.missed = b]
           n == Len(calls)
<1>1. /\ calls # <<>> /\ calls' = Tail(calls) /\ c.name = "Select"
      /\ IF sess.made
         THEN /\ sess' = s
              /\ \E f \in BOOLEAN :
                   Ask(<<[name |-> "Option", opt |-> o, item |-> NameOf(s, o), failsafe |-> f]>>)
         ELSE UNCHANGED <<sess, inbox>>
      /\ UNCHANGED <<signals, slave, started, worker, dmrc>>
  BY DEF SelectOption, Take, workerVars, IsFailsafe
<1>2. /\ calls \in Seq(CallRecord) /\ n \in Nat /\ n >= 1 /\ c = calls[1] /\ Len(calls') = n - 1
      /\ \A i \in 1 .. n - 1 : calls'[i] = calls[i + 1]
  BY <1>1, Unmoved, Shorter
<1>3. o \in offer /\ x \in Items[o] /\ x # NoName /\ x \in Rows(o)
  <2>1. c \in CallRecord
    BY <1>1, Unmoved, HeadTailProperties
  <2>2. o \in offer /\ x \in Items[o]
    BY <1>1, <2>1 DEF CallRecord
  <2>3. o = "session" => x \in Sessions
    <3>1. ASSUME o = "session"
          PROVE  x \in Sessions
      <4>1. calls \in Seq(SoundCall)
        BY <2>2, <3>1 DEF ListInv
      <4>2. c \in SoundCall
        BY <1>1, <4>1, HeadTailProperties
      <4> QED
        BY <1>1, <3>1, <4>2 DEF SoundCall
    <3> QED
      BY <3>1
  <2> QED
    BY <2>2, <2>3, RowFacts DEF Rows
<1> HIDE DEF o, x, b
<1>4. /\ s.sel = [sess.sel EXCEPT ![o] = x] /\ s.missed = b /\ s.saved = sess.saved
      /\ s.conn = sess.conn /\ s.made = sess.made
      /\ s.sel[o] = x /\ \A p \in offer \ {o} : s.sel[p] = sess.sel[p]
  BY <1>3, Unmoved DEF SessionOK, SessionRecord
<1> HIDE DEF s, c
<1>5. NameOf(s, o) = x
  BY <1>3, <1>4 DEF NameOf
<1>6. PICK f \in BOOLEAN : sess.made =>
         Ask(<<[name |-> "Option", opt |-> o, item |-> x, failsafe |-> f]>>)
  BY <1>1, <1>5
<1> DEFINE m == [name |-> "Option", opt |-> o, item |-> x, failsafe |-> f]
           q == <<m>>
<1>7. m \in RequestRecord /\ m \in SoundRequest /\ m.name # "Setup"
  <2>1. m \in RequestRecord /\ m.name = "Option"
    BY <1>3 DEF RequestRecord
  <2>2. \A p \in offer : IsOption(m, p) => m.item \in Rows(p)
    BY <1>3 DEF IsOption
  <2> QED
    BY <2>1, <2>2 DEF SoundRequest
<1>8. sess.made => Ask(q)
  BY <1>6
<1> HIDE DEF m
<1>9. /\ q \in Seq(RequestRecord) /\ \A i \in 1 .. Len(q) : q[i].name # "Setup"
      /\ q \in Seq(SoundRequest)
  BY <1>7
<1> HIDE DEF q
<1>10. HasSetup(inbox') => HasSetup(inbox)
  BY <1>1, <1>8, <1>9, AsksNoSetup DEF HasSetup
<1>11. /\ sess'.conn = sess.conn /\ sess'.made = sess.made /\ sess'.saved = sess.saved
       /\ sess'.sel = sess.sel \/ sess.made
  BY <1>1, <1>4
<1>12. StageInv'
  BY <1>1, <1>10, <1>11, StageLeft
<1>13. FinalInv'
  BY <1>1, FinalCalled
<1>14. ReadInv'
  BY <1>1, <1>11, ReadLeft
<1>15. SoundInv'
  <2>1. inbox' \in Seq(SoundRequest)
    <3>1. inbox \in Seq(SoundRequest)
      BY DEF AtWork, SoundInv
    <3>2. inbox' = inbox \/ inbox' = inbox \o q
      BY <1>1, <1>8 DEF Ask
    <3> QED
      BY <1>9, <3>1, <3>2, Joined
  <2>2. SoundSignal' = SoundSignal /\ SoundRequest' = SoundRequest
    BY SameRows
  <2> QED
    BY <1>1, <1>11, <2>1, <2>2 DEF AtWork, SoundInv, Rows, Sessions
<1>16. InTouch'
  <2> SUFFICES ASSUME started = Nothing
               PROVE  CallInv' /\ ToldInv' /\ KnownInv'
    BY <1>1 DEF InTouch, Nothing
  <2>1. CallInv /\ ToldInv /\ KnownInv /\ panel' = panel
    BY DEF InTouch, greeterVars
  <2>2. /\ CallInv' /\ \A p : Heading(calls', p) => Heading(calls, p)
        /\ ToBegin(calls) => ToBegin(calls')
    BY <1>1, <2>1, CallsGoOn DEF IsBegin, c
  <2>3. Begun' => Begun
    BY <1>1, <1>10 DEF Begun, HasSetup
  <2>4. \A p : Default(sess', p) = Default(sess, p)
    BY <1>11 DEF Default
  <2>5. ToldInv'
    <3> SUFFICES ASSUME Begun, NEW p \in offer
                 PROVE  /\ ~ToBegin(calls') =>
                             \/ LastTold(signals, p, Default(sess, p))
                             \/ Untold(signals, p) /\ panel[p].def = Default(sess, p)
                        /\ Followed(signals, p)
      BY <1>1, <2>1, <2>3, <2>4 DEF ToldInv, LastTold, Untold, Followed, ToBegin, IsBegin,
                                    IsDefault, GivenUp
    <3> QED
      BY <2>1, <2>2 DEF ToldInv
  <2>6. KnownInv'
    <3> SUFFICES ASSUME ~sess'.missed
                 PROVE  IF Behind(signals) THEN sess'.sel = Nothing
                        ELSE \A p \in offer : ~Heading(calls', p) =>
                               IF sess'.sel[p] # NoName
                               THEN panel[p].def # NoName /\ panel[p].active = sess'.sel[p]
                               ELSE Begun' /\ Untold(signals, p)
                                      => panel[p].combo = panel[p].def
      BY <1>1, <2>1 DEF KnownInv, Nothing, Behind, Heading, Untold, IsSelect, IsDefault, GivenUp
    <3>1. CASE sess.made
      <4>1. /\ sess' = s /\ ~sess.missed /\ ~Behind(signals)
        BY <1>1, <1>4, <3>1 DEF b, GreeterBehind, Behind, GivenUp
      <4>2. Heading(calls, o)
        <5>1. 1 \in 1 .. Len(calls) /\ IsSelect(calls[1]) /\ calls[1].opt = o
          BY <1>1, <1>2 DEF IsSelect, o
        <5> QED
          BY <2>1, <5>1 DEF CallInv
      <4>3. ASSUME NEW p \in offer, p # o, ~Heading(calls', p)
            PROVE  IF sess'.sel[p] # NoName
                   THEN panel[p].def # NoName /\ panel[p].active = sess'.sel[p]
                   ELSE Begun' /\ Untold(signals, p) => panel[p].combo = panel[p].def
        <5>1. ~Heading(calls, p)
          BY <4>2, <4>3 DEF Heading
        <5> QED
          BY <1>4, <2>1, <2>3, <4>1, <4>3, <5>1 DEF KnownInv
      <4>4. ASSUME ~Heading(calls', o)
            PROVE  panel[o].def # NoName /\ panel[o].active = x
        <5>1. n = 1
          <6> SUFFICES ASSUME n # 1
                       PROVE  FALSE
            OBVIOUS
          <6>1. n - 1 \in 1 .. n - 1 /\ n - 1 + 1 = n
            BY <1>2
          <6>2. calls'[n - 1] = calls[n - 1 + 1]
            BY <1>2, <6>1
          <6>3. calls'[Len(calls')] = calls[n] /\ calls' # <<>>
            BY <1>2, <6>1, <6>2
          <6> QED
            BY <4>2, <4>4, <6>3 DEF Heading, n
        <5>2. calls[Len(calls)] = c
          BY <1>2, <5>1
        <5> QED
          BY <1>3, <2>1, <4>2, <5>2 DEF CallInv, x
      <4> QED
        BY <1>3, <1>4, <4>1, <4>3, <4>4
    <3>2. CASE ~sess.made
      <4>1. sess' = sess /\ sess.sel = Nothing /\ ~Begun
        BY <1>1, <3>2 DEF AtWork, StageInv
      <4>2. \A p \in offer : sess'.sel[p] = NoName
        BY <4>1, NothingIsTyped
      <4> QED
        BY <2>3, <4>1, <4>2
    <3> QED
      BY <3>1, <3>2
  <2> QED
    BY <2>2, <2>5, <2>6
<1> QED
  BY <1>12, <1>13, <1>14, <1>15, <1>16, ListsLeftAlone DEF AtWork

(* The worker: plain steps. *)

LEMMA FinalFree ==
  ASSUME UNCHANGED <<offer, started>>, started = Nothing
  PROVE  FinalInv'
BY DEF FinalInv, Nothing

\* Steps of the worker of which the slave hears nothing.
LEMMA WorksSilently ==
  ASSUME IInv, AtWork, InTouch,
         UNCHANGED <<offer, greeterVars, started, sess, signals, calls>>, Begun,
         Quiet \/ (inbox # <<>> /\ inbox' = Tail(inbox)),
         StageInv', FinalInv', ReadInv'
  PROVE  AtWork' /\ InTouch'
BY MovesSilently

LEMMA OnRequestShown ==
  ASSUME IInv, AtWork, InTouch, UNCHANGED <<offer, greeterVars>>, OnRequest
  PROVE  AtWork' /\ InTouch'
<1> DEFINE m == Head(inbox)
<1>1. /\ inbox # <<>> /\ inbox' = Tail(inbox) /\ m.name # "Option" /\ m \in RequestRecord
      /\ worker.step = "none" /\ UNCHANGED <<calls, signals, sess, slave, started, dmrc>>
  BY Requested DEF OnRequest, Listening, slaveVars
<1>2. m.name \in {"Setup", "Authenticate", "Open", "Start"}
  BY <1>1 DEF RequestRecord
<1>3. \/ worker' = worker
      \/ worker.state = Needs[m.name] /\ \E n : worker' = [worker EXCEPT !.idle = TRUE, !.name = n]
  <2>1. CASE worker.state # Needs[m.name]
    BY <2>1 DEF OnRequest
  <2>2. CASE worker.state = Needs[m.name]
    <3>1. PICK n : n = IF m.name = "Setup" THEN m.user ELSE worker.name
      OBVIOUS
    <3>2. worker' = [worker EXCEPT !.idle = TRUE, !.name = n]
      BY <2>2, <3>1 DEF OnRequest
    <3> QED
      BY <2>2, <3>2
  <2> QED
    BY <2>1, <2>2
<1>4. m.name # "Setup" => Needs[m.name] # "none"
  BY <1>2 DEF Needs
<1>5. /\ worker'.pc = worker.pc /\ worker'.state = worker.state /\ worker'.step = "none"
      /\ worker'.made = worker.made /\ worker'.loading = worker.loading
      /\ worker.loading = <<>>
      /\ worker'.idle => worker.idle \/ m.name = "Setup" \/ worker.state # "none"
  <2>1. worker.loading = <<>>
    BY <1>1, Unmoved DEF WorkerOK
  <2> HIDE DEF m
  <2> QED
    BY <1>1, <1>3, <1>4, <2>1, Unmoved DEF WorkerOK, WorkerRecord
<1>6. m.name = "Setup" => HasSetup(inbox)
  <2>1. /\ m = inbox[1] /\ 1 \in 1 .. Len(inbox)
    BY <1>1, Unmoved, Shorter
  <2> QED
    BY <2>1 DEF HasSetup
<1> HIDE DEF m
<1>7. HasSetup(inbox') => HasSetup(inbox)
  <2> DEFINE n == Len(inbox)
  <2>1. /\ n \in Nat /\ Len(inbox') = n - 1
        /\ \A i \in 1 .. n - 1 : inbox'[i] = inbox[i + 1]
    BY <1>1, Unmoved, Shorter
  <2>2. \A i \in 1 .. Len(inbox') : i + 1 \in 1 .. n /\ inbox'[i] = inbox[i + 1]
    BY <2>1
  <2> QED
    BY <2>2 DEF HasSetup
<1>8. Begun' => Begun
  BY <1>5, <1>6, <1>7 DEF Begun, HasSetup
<1>9. StageInv'
  <2>1. StageInv /\ Nothing' = Nothing
    BY DEF AtWork, Nothing
  <2> HIDE DEF Nothing
  <2> QED
    BY <1>1, <1>5, <1>8, <2>1 DEF StageInv
<1>10. FinalInv'
  BY <1>1, <1>5 DEF AtWork, FinalInv, Nothing
<1>11. ReadInv'
  BY <1>1, <1>5, ReadLeft
<1> QED
  BY <1>1, <1>8, <1>9, <1>10, <1>11, MovesSilently

LEMMA LoadsInOrder ==
  ASSUME NEW u \in Account
  PROVE  \A i \in 1 .. Len(Loads(u)) :
           /\ dmrc[u][Loads(u)[i]] # NoName
           /\ Loads(u)[i] = "session" => i = 1
<1> DEFINE h(o) == Only(o, u # NoName /\ dmrc[u][o] # NoName)
           a == h("session")
           b == h("language")
           c == h("layout")
           d == a \o b
           e == d \o c
<1>1. ASSUME NEW o
      PROVE  /\ h(o) \in Seq(offer) /\ Len(h(o)) \in {0, 1}
             /\ \A i \in 1 .. Len(h(o)) : h(o)[i] = o /\ dmrc[u][o] # NoName
  <2>1. CASE o \in offer /\ (u # NoName /\ dmrc[u][o] # NoName)
    <3> DEFINE q == <<o>>
    <3>1. h(o) = q
      BY <2>1 DEF Only
    <3>2. q \in Seq(offer) /\ Len(q) = 1 /\ q[1] = o
      BY <2>1
    <3> HIDE DEF q
    <3>3. Len(q) \in {0, 1} /\ \A i \in 1 .. Len(q) : q[i] = o
      BY <3>2
    <3> QED
      BY <2>1, <3>1, <3>2, <3>3
  <2>2. CASE ~(o \in offer /\ (u # NoName /\ dmrc[u][o] # NoName))
    <3>1. <<>> \in Seq(offer) /\ Len(<<>>) = 0
      OBVIOUS
    <3> QED
      BY <2>2, <3>1 DEF Only
  <2> QED
    BY <2>1, <2>2
<1>2. Loads(u) = e
  BY DEF Loads
<1>3. /\ a \in Seq(offer) /\ Len(a) \in {0, 1}
      /\ \A i \in 1 .. Len(a) : a[i] = "session" /\ dmrc[u]["session"] # NoName
      /\ b \in Seq(offer) /\ Len(b) \in {0, 1}
      /\ \A i \in 1 .. Len(b) : b[i] = "language" /\ dmrc[u]["language"] # NoName
      /\ c \in Seq(offer) /\ Len(c) \in {0, 1}
      /\ \A i \in 1 .. Len(c) : c[i] = "layout" /\ dmrc[u]["layout"] # NoName
  BY <1>1
<1> HIDE DEF a, b, c, h
<1>4. /\ d \in Seq(offer) /\ Len(d) = Len(a) + Len(b)
      /\ \A i \in 1 .. Len(a) : d[i] = a[i]
      /\ \A i \in Len(a) + 1 .. Len(d) : i - Len(a) \in 1 .. Len(b) /\ d[i] = b[i - Len(a)]
  BY <1>3, Joined
<1> HIDE DEF d
<1>5. /\ e \in Seq(offer) /\ Len(e) = Len(d) + Len(c)
      /\ \A i \in 1 .. Len(d) : e[i] = d[i]
      /\ \A i \in Len(d) + 1 .. Len(e) : i - Len(d) \in 1 .. Len(c) /\ e[i] = c[i - Len(d)]
  <2>1. c \in Seq(offer) /\ d \in Seq(offer)
    BY <1>3, <1>4
  <2> QED
    BY <2>1, Joined
<1> HIDE DEF e
<1>6. /\ \A i \in 1 .. Len(a) : e[i] = "session" /\ dmrc[u]["session"] # NoName
      /\ \A i \in Len(a) + 1 .. Len(d) : e[i] = "language" /\ dmrc[u]["language"] # NoName
      /\ \A i \in Len(d) + 1 .. Len(e) : e[i] = "layout" /\ dmrc[u]["layout"] # NoName
  <2>1. \A i \in 1 .. Len(d) : e[i] = d[i]
    BY <1>5
  <2>2. \A i \in 1 .. Len(a) : i \in 1 .. Len(d) /\ d[i] = "session"
                               /\ dmrc[u]["session"] # NoName
    BY <1>3, <1>4
  <2>3. \A i \in Len(a) + 1 .. Len(d) : i \in 1 .. Len(d) /\ d[i] = "language"
                                        /\ dmrc[u]["language"] # NoName
    BY <1>3, <1>4
  <2>4. \A i \in Len(d) + 1 .. Len(e) : e[i] = "layout" /\ dmrc[u]["layout"] # NoName
    BY <1>3, <1>5
  <2> QED
    BY <2>1, <2>2, <2>3, <2>4
<1>7. \A i \in 1 .. Len(e) : i \in 1 .. Len(a) \/ i \in Len(a) + 1 .. Len(d)
                               \/ i \in Len(d) + 1 .. Len(e)
  BY <1>3, <1>4, <1>5
<1>8. ASSUME NEW i \in 1 .. Len(e)
      PROVE  dmrc[u][e[i]] # NoName /\ (e[i] = "session" => i = 1)
  <2>1. CASE i \in 1 .. Len(a)
    BY <1>3, <1>6, <2>1
  <2>2. CASE i \in Len(a) + 1 .. Len(d)
    BY <1>6, <2>2
  <2>3. CASE i \in Len(d) + 1 .. Len(e)
    BY <1>6, <2>3
  <2> QED
    BY <1>7, <2>1, <2>2, <2>3
<1> QED
  BY <1>2, <1>8

LEMMA StateChangeIdleShown ==
  ASSUME IInv, BookInv, AtWork, InTouch, UNCHANGED <<offer, greeterVars>>, StateChangeIdle
  PROVE  AtWork' /\ InTouch'
<1>1. /\ worker.idle /\ worker.step = "none" /\ worker.loading = <<>>
      /\ worker.state \in {"none", "setup", "authenticated", "opened"}
      /\ UNCHANGED <<calls, signals, sess, slave, started, inbox, dmrc>>
  BY Unmoved DEF StateChangeIdle, Listening, WorkerOK, WorkerRecord, slaveVars
<1> DEFINE l == Loads(worker.name)
           z == Nothing
<1>2. \/ /\ worker.state = "none"
         /\ worker' = [worker EXCEPT !.idle = FALSE, !.step = "setup", !.known = worker.name,
                                     !.made = TRUE, !.settings = z, !.loading = l]
      \/ /\ worker.state = "setup"
         /\ worker' = [worker EXCEPT !.idle = FALSE, !.step = "authenticate"]
      \/ /\ worker.state = "authenticated"
         /\ worker' = [worker EXCEPT !.idle = FALSE, !.step = "open"]
      \/ /\ worker.state = "opened"
         /\ worker' = [worker EXCEPT !.idle = FALSE, !.step = "start"]
  BY <1>1 DEF StateChangeIdle
<1> HIDE DEF l, z
<1>3. /\ worker'.pc = worker.pc /\ worker'.state = worker.state /\ worker'.name = worker.name
      /\ \/ /\ worker.state = "none" /\ worker'.step = "setup"
            /\ worker'.made /\ worker'.loading = l
         \/ /\ \/ worker.state = "setup" /\ worker'.step = "authenticate"
               \/ worker.state = "authenticated" /\ worker'.step = "open"
               \/ worker.state = "opened" /\ worker'.step = "start"
            /\ worker'.made = worker.made /\ worker'.loading = worker.loading
  BY <1>2, Unmoved DEF WorkerOK, WorkerRecord
<1>4. Begun
  BY <1>1 DEF Begun
<1>5. StageInv'
  <2>1. StageInv /\ Nothing' = Nothing
    BY DEF AtWork, Nothing
  <2> HIDE DEF Nothing
  <2> QED
    BY <1>1, <1>3, <1>4, <2>1 DEF StageInv
<1>6. FinalInv'
  BY <1>1, <1>3 DEF AtWork, FinalInv, Nothing
<1>7. ReadInv'
  <2>1. CASE worker.state = "none"
    <3>1. ~worker.made
      BY <1>1, <2>1 DEF BookInv, MadeInv
    <3>2. sess.saved = Nothing
      BY <3>1 DEF AtWork, ReadInv
    <3>3. worker.name \in Account
      BY Unmoved DEF WorkerOK, WorkerRecord
    <3>4. /\ l \in Seq(offer)
          /\ \A i \in 1 .. Len(l) :
               dmrc[worker.name][l[i]] # NoName /\ (l[i] = "session" => i = 1)
      BY <3>3, LoadsInOrder, LoadsTyped DEF l
    <3>5. \A i \in 1 .. Len(l) : l[i] = "session" => sess.saved["session"] = NoName
      <4>1. \A i \in 1 .. Len(l) : l[i] \in offer
        BY <3>4, LenProperties
      <4> QED
        BY <3>2, <4>1, NothingIsTyped
    <3>6. worker'.made /\ worker'.loading = l
      BY <1>3, <2>1
    <3> QED
      BY <1>1, <1>3, <3>4, <3>5, <3>6 DEF ReadInv
  <2>2. CASE worker.state # "none"
    <3>1. worker'.made = worker.made /\ worker'.loading = worker.loading
      BY <1>3, <2>2
    <3> QED
      BY <1>1, <1>3, <3>1, ReadLeft
  <2> QED
    BY <2>1, <2>2
<1> QED
  BY <1>1, <1>4, <1>5, <1>6, <1>7, WorksSilently DEF Quiet

LEMMA SetupCompleteShown ==
  ASSUME IInv, AtWork, InTouch, UNCHANGED <<offer, greeterVars>>, SetupComplete
  PROVE  AtWork' /\ InTouch'
<1>1. /\ worker.step = "setup" /\ worker.loading = <<>>
      /\ worker' = [worker EXCEPT !.step = "none", !.state = "setup"]
      /\ Ask(IF TRUE THEN <<Request("Authenticate", NoName)>> ELSE <<>>)
      /\ UNCHANGED <<calls, signals, sess, slave, started, dmrc>>
  BY DEF SetupComplete, Doing, slaveVars
<1>2. NoName \in Account
  BY DEF Account
<1>3. Quiet
  BY <1>1, <1>2, AsksQuietly
<1>4. /\ worker'.pc = worker.pc /\ worker'.state = "setup" /\ worker'.step = "none"
      /\ worker'.name = worker.name /\ worker'.made = worker.made
      /\ worker'.loading = worker.loading
  BY <1>1, Unmoved DEF WorkerOK, WorkerRecord
<1>5. Begun /\ started = Nothing
  BY <1>1, FinalNot DEF Begun
<1>6. StageInv'
  <2>1. StageInv /\ Nothing' = Nothing
    BY DEF AtWork, Nothing
  <2> HIDE DEF Nothing
  <2> QED
    BY <1>1, <1>4, <1>5, <2>1 DEF StageInv
<1>7. FinalInv' /\ ReadInv'
  BY <1>1, <1>4, <1>5, FinalFree, ReadLeft
<1> QED
  BY <1>1, <1>3, <1>5, <1>6, <1>7, WorksSilently

LEMMA PamAcceptsShown ==
  ASSUME IInv, AtWork, InTouch, UNCHANGED <<offer, greeterVars>>, PamAccepts
  PROVE  AtWork' /\ InTouch'
<1>1. /\ worker.step = "verify" /\ worker' = [worker EXCEPT !.step = "verified"]
      /\ UNCHANGED <<calls, signals, sess, slave, started, inbox, dmrc>>
  BY DEF PamAccepts, Doing, slaveVars
<1>2. /\ worker'.pc = worker.pc /\ worker'.state = worker.state /\ worker'.step = "verified"
      /\ worker'.name = worker.name /\ worker'.made = worker.made
      /\ worker'.loading = worker.loading
  BY <1>1, Unmoved DEF WorkerOK, WorkerRecord
<1>3. Begun /\ started = Nothing
  BY <1>1, FinalNot DEF Begun
<1>4. StageInv'
  <2>1. StageInv /\ Nothing' = Nothing
    BY DEF AtWork, Nothing
  <2> HIDE DEF Nothing
  <2> QED
    BY <1>1, <1>2, <1>3, <2>1 DEF StageInv
<1>5. FinalInv' /\ ReadInv'
  BY <1>1, <1>2, <1>3, FinalFree, ReadLeft
<1> QED
  BY <1>1, <1>3, <1>4, <1>5, WorksSilently DEF Quiet

LEMMA OpenedShown ==
  ASSUME IInv, AtWork, InTouch, UNCHANGED <<offer, greeterVars>>, Opened
  PROVE  AtWork' /\ InTouch'
<1>1. /\ worker.step = "open" /\ worker' = [worker EXCEPT !.step = "none", !.state = "opened"]
      /\ UNCHANGED <<calls, signals, sess, started, inbox, dmrc>>
  BY DEF Opened, Doing
<1>2. /\ worker'.pc = worker.pc /\ worker'.state = "opened" /\ worker'.step = "none"
      /\ worker'.name = worker.name /\ worker'.made = worker.made
      /\ worker'.loading = worker.loading
  BY <1>1, Unmoved DEF WorkerOK, WorkerRecord
<1>3. Begun /\ started = Nothing
  BY <1>1, FinalNot DEF Begun
<1>4. StageInv'
  <2>1. StageInv /\ Nothing' = Nothing
    BY DEF AtWork, Nothing
  <2> HIDE DEF Nothing
  <2> QED
    BY <1>1, <1>2, <1>3, <2>1 DEF StageInv
<1>5. FinalInv' /\ ReadInv'
  BY <1>1, <1>2, <1>3, FinalFree, ReadLeft
<1> QED
  BY <1>1, <1>3, <1>4, <1>5, WorksSilently DEF Quiet

LEMMA StartSessionShown ==
  ASSUME IInv, OrderInv, BookInv, AtWork, InTouch, UNCHANGED <<offer, greeterVars>>,
         offer # {}, StartSession
  PROVE  AtWork' /\ InTouch'
<1>1. /\ worker.step = "start" /\ worker.loading = <<>>
      /\ worker' = [worker EXCEPT !.step = "none", !.state = "started"]
      /\ UNCHANGED <<calls, signals, sess, slave, started, inbox>>
  BY DEF StartSession, Doing, slaveVars
<1>2. /\ worker'.pc = worker.pc /\ worker'.state = "started" /\ worker'.step = "none"
      /\ worker'.made = worker.made /\ worker'.loading = <<>>
  BY <1>1, Unmoved DEF WorkerOK, WorkerRecord
<1>3. Begun /\ started # Nothing
  BY <1>1 DEF Begun, OrderInv, Launching
<1>4. /\ slave.idle \in {"none", "reset"} /\ Len(calls) <= 1
      /\ slave.idle = "reset" => calls = <<>>
  BY <1>1, <1>3 DEF AtWork, FinalInv
<1>5. StageInv'
  <2>1. StageInv /\ Nothing' = Nothing
    BY DEF AtWork, Nothing
  <2> HIDE DEF Nothing
  <2> QED
    BY <1>1, <1>2, <1>3, <1>4, <2>1 DEF StageInv
<1>6. FinalInv'
  BY <1>1, <1>2, <1>4 DEF FinalInv
<1>7. ReadInv'
  <2>1. worker.made
    BY <1>1 DEF BookInv, MadeInv
  <2> QED
    BY <1>2, <2>1 DEF ReadInv
<1> QED
  BY <1>1, <1>3, <1>5, <1>6, <1>7, WorksSilently DEF Quiet

\* Steps of the worker of which the greeter is told, but not of a default.
LEMMA WorksAloud ==
  ASSUME IInv, AtWork, InTouch, UNCHANGED <<offer, greeterVars, started, sess, calls>>,
         Begun, NEW m \in SignalRecord,
         m.name \notin {"Default", "Reset", "AuthenticationFailed"}, Tell(<<m>>),
         Quiet, StageInv', FinalInv', ReadInv'
  PROVE  AtWork' /\ InTouch'
<1> DEFINE e == <<m>>
<1>1. e \in Seq(SoundSignal) /\ ~Behind(e) /\ Tell(e) /\ \A o : Untold(e, o)
  BY PlainTalk
<1> HIDE DEF e
<1>2. KeepsTold(e)
  BY <1>1 DEF KeepsTold, Default
<1>3. \A o \in offer : sess'.saved[o] \in Rows(o) \cup {NoName}
  BY DEF AtWork, SoundInv
<1> QED
  BY <1>1, <1>2, <1>3, MovesOn

LEMMA AskQuestionShown ==
  ASSUME IInv, AtWork, InTouch, UNCHANGED <<offer, greeterVars>>, AskQuestion
  PROVE  AtWork' /\ InTouch'
<1>1. /\ worker.step = "authenticate"
      /\ UNCHANGED <<calls, sess, slave, started, inbox, dmrc>>
      /\ \E w \in {"name", "password"} :
           /\ worker' = [worker EXCEPT !.step = IF w = "name" THEN "name?" ELSE "password?"]
           /\ Tell(<<Signal("Query", w)>>)
  BY DEF AskQuestion, Doing, slaveVars
<1>2. PICK w \in {"name", "password"} :
        /\ worker' = [worker EXCEPT !.step = IF w = "name" THEN "name?" ELSE "password?"]
        /\ Tell(<<Signal("Query", w)>>)
  BY <1>1
<1>3. /\ worker'.pc = worker.pc /\ worker'.state = worker.state
      /\ worker'.step \in {"name?", "password?"}
      /\ worker'.name = worker.name /\ worker'.made = worker.made
      /\ worker'.loading = worker.loading
  BY <1>2, Unmoved DEF WorkerOK, WorkerRecord
<1>4. Begun /\ started = Nothing
  BY <1>1, FinalNot DEF Begun
<1>5. StageInv'
  <2>1. StageInv /\ Nothing' = Nothing
    BY DEF AtWork, Nothing
  <2> HIDE DEF Nothing
  <2> QED
    BY <1>1, <1>3, <1>4, <2>1 DEF StageInv
<1>6. FinalInv' /\ ReadInv'
  BY <1>1, <1>3, <1>4, FinalFree, ReadLeft
<1> DEFINE m == Signal("Query", w)
<1>7. m \in SignalRecord /\ m.name \notin {"Default", "Reset", "AuthenticationFailed"}
  BY DEF Signal, SignalRecord
<1>8. Tell(<<m>>) /\ Quiet
  BY <1>1, <1>2 DEF Quiet
<1> HIDE DEF m
<1> QED
  BY <1>1, <1>4, <1>5, <1>6, <1>7, <1>8, WorksAloud

LEMMA AuthorizedShown ==
  ASSUME IInv, AtWork, InTouch, UNCHANGED <<offer, greeterVars>>, Authorized
  PROVE  AtWork' /\ InTouch'
<1> DEFINE m == Signal("UserAuthorized", NoName)
<1>1. /\ worker.step = "verified"
      /\ worker' = [worker EXCEPT !.step = "none", !.state = "authenticated"]
      /\ slave' = [slave EXCEPT !.waiting = ~slave.ready] /\ Tell(<<m>>)
      /\ Ask(IF slave.ready THEN <<Request("Open", NoName)>> ELSE <<>>)
      /\ UNCHANGED <<calls, sess, started, dmrc>>
  BY DEF Authorized, Doing
<1>2. slave.ready \in BOOLEAN /\ slave'.idle = slave.idle /\ NoName \in Account
  BY <1>1, Unmoved DEF SlaveRecord, Account
<1>3. Quiet
  BY <1>1, <1>2, AsksQuietly
<1>4. /\ worker'.pc = worker.pc /\ worker'.state = "authenticated" /\ worker'.step = "none"
      /\ worker'.name = worker.name /\ worker'.made = worker.made
      /\ worker'.loading = worker.loading
  BY <1>1, Unmoved DEF WorkerOK, WorkerRecord
<1>5. Begun /\ started = Nothing
  BY <1>1, FinalNot DEF Begun
<1>6. StageInv'
  <2>1. StageInv /\ Nothing' = Nothing
    BY DEF AtWork, Nothing
  <2> HIDE DEF Nothing
  <2> QED
    BY <1>1, <1>2, <1>4, <1>5, <2>1 DEF StageInv
<1>7. FinalInv' /\ ReadInv'
  BY <1>1, <1>4, <1>5, FinalFree, ReadLeft
<1>8. m \in SignalRecord /\ m.name \notin {"Default", "Reset", "AuthenticationFailed"}
  BY DEF Signal, SignalRecord
<1> HIDE DEF m
<1> QED
  BY <1>1, <1>3, <1>5, <1>6, <1>7, <1>8, WorksAloud

\* The account that PAM names: its defaults are those of the system until they are
\* read.
LEMMA UpdateUsernameShown ==
  ASSUME IInv, BookInv, AtWork, InTouch, UNCHANGED <<offer, greeterVars>>, UpdateUsername
  PROVE  AtWork' /\ InTouch'
<1> DEFINE u == worker.known
           s == ForUser(sess, u)
           m == Signal("SelectedUserChanged", u)
           a == <<m>>
           b == DefaultsChanged(s)
           e == a \o b
<1>1. /\ worker.step = "authenticate" /\ sess' = s /\ Tell(e)
      /\ UNCHANGED <<calls, slave, started, inbox, dmrc>>
  BY DEF UpdateUsername, UsernameChanged, Doing
<1>2. PICK l : l = IF worker.settings = Nothing THEN Loads(u) ELSE <<>>
  OBVIOUS
<1>3. worker' = [worker EXCEPT !.name = u, !.loading = l]
  BY <1>2 DEF UpdateUsername
<1>4. /\ worker'.pc = worker.pc /\ worker'.state = worker.state /\ worker'.step = worker.step
      /\ worker'.name = u /\ worker'.made = worker.made /\ worker'.loading = l
  BY <1>3, Unmoved DEF WorkerOK, WorkerRecord
<1>5. /\ s.sel = sess.sel /\ s.missed = sess.missed /\ s.conn = sess.conn
      /\ s.made = sess.made /\ s.saved = Nothing
  BY Unmoved DEF ForUser, SessionOK, SessionRecord
<1>6. u \in Account
  BY Unmoved DEF WorkerOK, WorkerRecord
<1> HIDE DEF s, u
<1>7. Begun /\ started = Nothing
  BY <1>1, FinalNot DEF Begun
<1>8. m \in SignalRecord /\ m.name \notin {"Default", "Reset", "AuthenticationFailed"}
  BY <1>6 DEF Signal, SignalRecord
<1> HIDE DEF m
<1>9. a \in Seq(SoundSignal) /\ ~Behind(a)
  BY <1>8, PlainTalk
<1>10. \A o \in offer : s.saved[o] \in Rows(o) \cup {NoName}
  BY <1>5, NothingIsTyped
<1>11. /\ b \in Seq(SoundSignal) /\ ~Behind(b)
       /\ \A o \in offer : LastTold(b, o, Default(s, o))
  BY <1>10, DefaultsTold
<1> HIDE DEF a, b
<1>12. e \in Seq(SoundSignal) /\ ~Behind(e)
  BY <1>9, <1>11, Joined, StaysBehind
<1>13. \A o \in offer : LastTold(e, o, Default(s, o))
  BY <1>9, <1>11, TellsMore
<1> HIDE DEF e
<1>14. KeepsTold(e)
  BY <1>1, <1>13 DEF KeepsTold
<1>15. StageInv'
  <2>1. StageInv /\ Nothing' = Nothing
    BY DEF AtWork, Nothing
  <2> HIDE DEF Nothing
  <2> QED
    BY <1>1, <1>4, <1>5, <1>7, <2>1 DEF StageInv
<1>16. FinalInv'
  BY <1>1, <1>7, FinalFree
<1>17. ReadInv'
  <2>1. worker.made /\ Nothing' = Nothing
    BY <1>1 DEF BookInv, MadeInv, Nothing
  <2>2. /\ l \in Seq(offer)
        /\ \A i \in 1 .. Len(l) : dmrc[u][l[i]] # NoName /\ (l[i] = "session" => i = 1)
    <3>1. CASE l = Loads(u)
      BY <1>6, <3>1, LoadsInOrder, LoadsTyped
    <3>2. CASE l = <<>>
      BY <3>2
    <3> QED
      BY <1>2, <3>1, <3>2
  <2>3. \A i \in 1 .. Len(l) : l[i] = "session" => sess'.saved["session"] = NoName
    <3>1. \A i \in 1 .. Len(l) : l[i] \in offer
      BY <2>2, LenProperties
    <3> QED
      BY <1>1, <1>5, <3>1, NothingIsTyped
  <2> QED
    BY <1>1, <1>4, <2>1, <2>2, <2>3 DEF ReadInv
<1> QED
  BY <1>1, <1>5, <1>7, <1>10, <1>12, <1>14, <1>15, <1>16, <1>17, MovesOn DEF Quiet

(* The worker: a setting that is read or set. *)

\* handle_saved_*_name_read tells of a default that differs, and of no other.
LEMMA SavedTold ==
  ASSUME IInv, AtWork, UNCHANGED <<offer, calls>>, Begun, NEW o \in offer, NEW x, x # NoName,
         Valid(o, x) => x \in Rows(o), ~Valid(o, x) => sess.saved[o] = NoName,
         SavedRead(o, x)
  PROVE  /\ \E e \in Seq(SoundSignal) : ~Behind(e) /\ Tell(e) /\ KeepsTold(e)
         /\ sess'.sel = sess.sel /\ sess'.missed = sess.missed /\ sess'.conn = sess.conn
         /\ sess'.made = sess.made
         /\ \A p \in offer : sess'.saved[p] \in Rows(p) \cup {NoName}
<1>1. /\ SessionOK(sess) /\ sess.saved \in [offer -> Values]
      /\ \A p \in offer : sess.saved[p] \in Rows(p) \cup {NoName}
  BY Unmoved DEF SessionOK, SessionRecord, AtWork, SoundInv
<1>2. ASSUME UNCHANGED signals, sess'.saved = sess.saved
      PROVE  \E e \in Seq(SoundSignal) : ~Behind(e) /\ Tell(e) /\ KeepsTold(e)
  <2> DEFINE e == <<>>
  <2>1. e \in Seq(SoundSignal) /\ ~Behind(e) /\ Tell(e) /\ \A p : Untold(e, p)
    BY <1>2, PlainTalk, SaysNothing
  <2> HIDE DEF e
  <2>2. KeepsTold(e)
    BY <1>2, <2>1 DEF KeepsTold, Default
  <2> QED
    BY <2>1, <2>2
<1>3. CASE ~Valid(o, x)
  <2> DEFINE f == [sess.saved EXCEPT ![o] = NoName]
  <2>1. f = sess.saved
    BY <1>1, <1>3
  <2>2. sess' = [sess EXCEPT !.saved = f] /\ UNCHANGED signals
    BY <1>3 DEF SavedRead
  <2> HIDE DEF f
  <2>3. sess' = sess
    BY <1>1, <2>1, <2>2 DEF SessionOK, SessionRecord
  <2> QED
    BY <1>1, <1>2, <2>2, <2>3
<1>4. CASE Valid(o, x) /\ x = Default(sess, o)
  <2>1. UNCHANGED <<sess, signals>>
    BY <1>4 DEF SavedRead
  <2> QED
    BY <1>1, <1>2, <2>1
<1>5. CASE Valid(o, x) /\ x # Default(sess, o)
  <2> DEFINE f == [sess.saved EXCEPT ![o] = x]
             m == DefaultIs(o, x)
             e == <<m>>
  <2>1. sess' = [sess EXCEPT !.saved = f] /\ Tell(e)
    BY <1>5 DEF SavedRead
  <2>2. f[o] = x /\ \A p \in offer \ {o} : f[p] = sess.saved[p]
    BY <1>1
  <2>3. /\ m \in SoundSignal /\ m.item = x /\ ~GivenUp(m)
        /\ \A p : IsDefault(m, p) <=> p = o
    <3>1. x \in Rows(o) /\ x \in Choice(o)
      BY <1>5, RowFacts DEF Choice
    <3>2. m \in SignalRecord /\ m.name = "Default" /\ m.opt = o /\ m.item = x
      BY <3>1 DEF DefaultIs, SignalRecord
    <3> HIDE DEF m
    <3> QED
      BY <3>1, <3>2 DEF SoundSignal, IsDefault, GivenUp
  <2> HIDE DEF f, m
  <2>4. e \in Seq(SoundSignal) /\ Len(e) = 1 /\ e[1] = m
    BY <2>3
  <2> HIDE DEF e
  <2>5. /\ sess'.saved = f /\ sess'.sel = sess.sel /\ sess'.missed = sess.missed
        /\ sess'.conn = sess.conn /\ sess'.made = sess.made
    BY <1>1, <2>1 DEF SessionOK, SessionRecord
  <2>6. ~Behind(e) /\ LastTold(e, o, x) /\ \A p \in offer \ {o} : Untold(e, p)
    BY <2>3, <2>4 DEF Behind, LastTold, Untold
  <2>7. Default(sess', o) = x /\ \A p \in offer \ {o} : Default(sess', p) = Default(sess, p)
    BY <2>2, <2>5 DEF Default
  <2>8. KeepsTold(e)
    BY <2>6, <2>7 DEF KeepsTold
  <2>9. \A p \in offer : sess'.saved[p] \in Rows(p) \cup {NoName}
    BY <1>1, <1>5, <2>2, <2>5
  <2> QED
    BY <2>1, <2>4, <2>5, <2>6, <2>8, <2>9
<1> QED
  BY <1>3, <1>4, <1>5

\* The panel's list decides which sessions there are.
LEMMA ValidIsRow ==
  ASSUME IInv, ListInv, NEW o \in offer, NEW x
  PROVE  /\ o # "session" => Valid(o, x)
         /\ o = "session" => (Valid(o, x) <=> x \in Rows(o))
<1>1. CASE o # "session"
  BY <1>1 DEF Valid
<1>2. CASE o = "session"
  <2>1. panel["session"].rows = Recent["session"]
    BY <1>2 DEF ListInv
  <2>2. Valid(o, x) <=> x \in Rows(o)
    BY <1>2, <2>1 DEF Valid, Rows, Sessions
  <2> QED
    BY <1>2, <2>2
<1> QED
  BY <1>1, <1>2

LEMMA OnSetOptionShown ==
  ASSUME IInv, ListInv, AtWork, InTouch, UNCHANGED <<offer, greeterVars>>, OnSetOption,
         BookInv
  PROVE  AtWork' /\ InTouch'
<1> DEFINE m == Head(inbox)
           o == m.opt
           x == m.item
<1>1. /\ inbox # <<>> /\ inbox' = Tail(inbox) /\ m.name = "Option"
      /\ worker.step = "none" /\ worker.pc = "up" /\ worker.loading = <<>>
      /\ UNCHANGED <<calls, slave, started, dmrc>>
  BY Unmoved DEF OnSetOption, Listening, WorkerOK
<1>2. o \in offer /\ x \in Rows(o) /\ x # NoName
  <2>1. m \in SoundRequest
    BY <1>1, HeadTailProperties DEF AtWork, SoundInv
  <2>2. m \in RequestRecord
    BY <2>1 DEF SoundRequest
  <2>3. o \in offer
    BY <1>1, <2>2 DEF RequestRecord
  <2> QED
    BY <1>1, <2>1, <2>3, RowFacts DEF SoundRequest, IsOption
<1>3. HasSetup(inbox') => HasSetup(inbox)
  <2> DEFINE n == Len(inbox)
  <2>1. /\ n \in Nat /\ Len(inbox') = n - 1
        /\ \A i \in 1 .. n - 1 : inbox'[i] = inbox[i + 1]
    BY <1>1, Unmoved, Shorter
  <2>2. \A i \in 1 .. Len(inbox') : i + 1 \in 1 .. n /\ inbox'[i] = inbox[i + 1]
    BY <2>1
  <2> QED
    BY <2>2 DEF HasSetup
<1>4. /\ worker'.pc = worker.pc /\ worker'.state = worker.state /\ worker'.step = "none"
      /\ worker'.idle = worker.idle /\ worker'.made = worker.made
      /\ worker'.loading = worker.loading
  <2>1. CASE ~worker.made
    <3>1. worker' = worker
      BY <2>1 DEF OnSetOption
    <3> QED
      BY <1>1, <3>1
  <2>2. CASE worker.made
    <3> DEFINE f == [worker.settings EXCEPT ![o] = x]
    <3>1. PICK b : b = IF o = "session" THEN m.failsafe ELSE worker.failsafe
      OBVIOUS
    <3>2. worker' = [worker EXCEPT !.settings = f, !.failsafe = b]
      BY <2>2, <3>1 DEF OnSetOption
    <3> HIDE DEF f, o, x, m
    <3> QED
      BY <1>1, <3>2, Unmoved DEF WorkerOK, WorkerRecord
  <2> QED
    BY <2>1, <2>2
<1>5. Begun' => Begun
  BY <1>1, <1>3, <1>4 DEF Begun, HasSetup
<1>6. FinalInv'
  BY <1>1, <1>4 DEF AtWork, FinalInv, Nothing
<1>7. CASE worker.made /\ worker.settings[o] # x
  <2>1. SavedRead(o, x)
    BY <1>7 DEF OnSetOption
  <2> HIDE DEF o, x, m
  <2>2. Begun
    BY <1>7 DEF BookInv, MadeInv, Begun
  <2>3. Valid(o, x)
    BY <1>2, ValidIsRow
  <2>4. /\ \E e \in Seq(SoundSignal) : ~Behind(e) /\ Tell(e) /\ KeepsTold(e)
        /\ sess'.sel = sess.sel /\ sess'.missed = sess.missed /\ sess'.conn = sess.conn
        /\ sess'.made = sess.made
        /\ \A p \in offer : sess'.saved[p] \in Rows(p) \cup {NoName}
    BY <1>1, <1>2, <2>1, <2>2, <2>3, SavedTold
  <2>5. StageInv'
    <3>1. StageInv /\ Nothing' = Nothing
      BY DEF AtWork, Nothing
    <3> HIDE DEF Nothing
    <3> QED
      BY <1>1, <1>4, <1>5, <2>4, <3>1 DEF StageInv
  <2>6. ReadInv'
    BY <1>1, <1>4, <1>7 DEF ReadInv
  <2>7. PICK e \in Seq(SoundSignal) : ~Behind(e) /\ Tell(e) /\ KeepsTold(e)
    BY <2>4
  <2> QED
    BY <1>1, <1>6, <2>4, <2>5, <2>6, <2>7, MovesOn
<1>8. CASE ~(worker.made /\ worker.settings[o] # x)
  <2>1. UNCHANGED signals /\ (sess' = sess \/ sess' = [sess EXCEPT !.missed = TRUE])
    BY <1>8 DEF OnSetOption
  <2>2. /\ sess'.sel = sess.sel /\ (sess.missed => sess'.missed) /\ sess'.conn = sess.conn
        /\ sess'.made = sess.made /\ sess'.saved = sess.saved
    BY <2>1, Unmoved DEF SessionOK, SessionRecord
  <2> HIDE DEF o, x, m
  <2>3. StageInv'
    <3>1. StageInv /\ Nothing' = Nothing
      BY DEF AtWork, Nothing
    <3> HIDE DEF Nothing
    <3> QED
      BY <1>1, <1>4, <1>5, <2>2, <3>1 DEF StageInv
  <2>4. ReadInv'
    BY <1>1, <1>4, <2>2, ReadLeft
  <2> DEFINE e == <<>>
  <2>5. e \in Seq(SoundSignal) /\ ~Behind(e) /\ Tell(e) /\ \A p : Untold(e, p)
    BY <2>1, PlainTalk, SaysNothing
  <2> HIDE DEF e
  <2>6. Begun' => KeepsTold(e)
    BY <1>1, <1>5, <2>2, <2>5 DEF KeepsTold, Default
  <2>7. \A p \in offer : sess'.saved[p] \in Rows(p) \cup {NoName}
    BY <2>2 DEF AtWork, SoundInv
  <2> QED
    BY <1>1, <1>6, <2>2, <2>3, <2>4, <2>5, <2>6, <2>7, MovesOn
<1> QED
  BY <1>7, <1>8

LEMMA LoadSettingShown ==
  ASSUME IInv, ListInv, BookInv, AtWork, InTouch, UNCHANGED <<offer, greeterVars>>,
         LoadSetting
  PROVE  AtWork' /\ InTouch'
<1> DEFINE s == worker.loading
           o == Head(s)
           l == Tail(s)
           x == dmrc[worker.name][o]
           f == [worker.settings EXCEPT ![o] = x]
<1>1. /\ s # <<>> /\ SavedRead(o, x)
      /\ worker' = [worker EXCEPT !.loading = l, !.settings = f, !.failsafe = FALSE]
      /\ UNCHANGED <<calls, slave, started, inbox, dmrc>>
  BY DEF LoadSetting
<1> HIDE DEF f
<1>2. /\ s \in Seq(offer) /\ worker.name \in User \ {NoName}
      /\ worker.step \in {"setup", "authenticate"}
  BY <1>1, Unmoved DEF WorkerOK, WorkerRecord
<1>3. /\ Len(s) \in Nat /\ Len(l) = Len(s) - 1 /\ Len(s) >= 1 /\ o = s[1]
      /\ \A i \in 1 .. Len(s) - 1 : l[i] = s[i + 1]
      /\ o \in offer /\ l \in Seq(offer)
  BY <1>1, <1>2, Shorter, HeadTailProperties
<1>4. /\ \A i \in 1 .. Len(s) :
           /\ dmrc[worker.name][s[i]] # NoName
           /\ s[i] = "session" => i = 1 /\ sess.saved["session"] = NoName
  BY DEF AtWork, ReadInv
<1>5. x # NoName /\ (o = "session" => sess.saved["session"] = NoName)
  <2>1. 1 \in 1 .. Len(s)
    BY <1>3
  <2> QED
    BY <1>3, <1>4, <2>1
<1>6. o # "session" => x \in Rows(o)
  <2>1. dmrc[worker.name][o] \in Written(o)
    BY <1>2, <1>3 DEF IInv, DmrcInv
  <2> QED
    BY <1>5, <2>1 DEF Written, Choice, Rows
<1>7. /\ worker'.pc = worker.pc /\ worker'.state = worker.state /\ worker'.step = worker.step
      /\ worker'.idle = worker.idle /\ worker'.name = worker.name
      /\ worker'.made = worker.made /\ worker'.loading = l
  BY <1>1, Unmoved DEF WorkerOK, WorkerRecord
<1> HIDE DEF x, o, l, s
<1>8. Begun /\ started = Nothing /\ worker.made
  BY <1>2, FinalNot DEF Begun, BookInv, MadeInv
<1>9. /\ Valid(o, x) => x \in Rows(o)
      /\ ~Valid(o, x) => sess.saved[o] = NoName
  BY <1>3, <1>5, <1>6, ValidIsRow
<1>10. /\ \E e \in Seq(SoundSignal) : ~Behind(e) /\ Tell(e) /\ KeepsTold(e)
       /\ sess'.sel = sess.sel /\ sess'.missed = sess.missed /\ sess'.conn = sess.conn
       /\ sess'.made = sess.made
       /\ \A p \in offer : sess'.saved[p] \in Rows(p) \cup {NoName}
  BY <1>1, <1>3, <1>5, <1>8, <1>9, SavedTold
<1>11. StageInv'
  <2>1. StageInv /\ Nothing' = Nothing
    BY DEF AtWork, Nothing
  <2> HIDE DEF Nothing
  <2> QED
    BY <1>1, <1>7, <1>8, <1>10, <2>1 DEF StageInv
<1>12. FinalInv'
  BY <1>1, <1>8, FinalFree
<1>13. ReadInv'
  <2>1. ASSUME NEW i \in 1 .. Len(l)
        PROVE  dmrc[worker.name][l[i]] # NoName /\ l[i] # "session"
    <3>1. i + 1 \in 1 .. Len(s) /\ l[i] = s[i + 1] /\ i + 1 # 1
      BY <1>3, <2>1
    <3> QED
      BY <1>4, <3>1
  <2> QED
    BY <1>1, <1>7, <1>8, <2>1 DEF ReadInv
<1>14. PICK e \in Seq(SoundSignal) : ~Behind(e) /\ Tell(e) /\ KeepsTold(e)
  BY <1>10
<1> QED
  BY <1>1, <1>10, <1>11, <1>12, <1>13, <1>14, MovesOn DEF Quiet

LEMMA ShownInitially ==
  ASSUME Init
  PROVE  ShownInv
<1>1. IInv
  BY Initially
<1>2. /\ calls = <<>> /\ signals = <<>> /\ inbox = <<>> /\ sess = NewSession
      /\ worker = NewWorker /\ started = Nothing /\ slave.idle = "none"
  BY DEF Init
<1>3. /\ ~sess.conn /\ sess.made /\ sess.sel = Nothing /\ sess.saved = Nothing
  BY <1>2 DEF NewSession
<1>4. /\ worker.pc = "starting" /\ worker.state = "none" /\ worker.step = "none"
      /\ ~worker.made /\ ~worker.idle /\ worker.loading = <<>>
  BY <1>2 DEF NewWorker, NoWorker
<1>5. \A o \in offer : Nothing[o] = NoName
  BY DEF Nothing
<1>6. ListsInv
  <2>1. \A o \in offer : panel[o].def = NoName /\ ~panel[o].stale
    BY DEF Init, NewWidget
  <2> QED
    BY <2>1 DEF ListsInv, Faithful
<1>7. ~Begun
  BY <1>2, <1>4 DEF Begun, HasSetup
<1> HIDE DEF Nothing
<1>8. StageInv /\ FinalInv /\ ReadInv
  BY <1>2, <1>3, <1>4, <1>7 DEF StageInv, FinalInv, ReadInv
<1>9. SoundInv
  <2>1. signals \in Seq(SoundSignal) /\ inbox \in Seq(SoundRequest)
    BY <1>2
  <2> QED
    BY <1>3, <1>5, <2>1 DEF SoundInv
<1>10. CallInv /\ ToldInv /\ KnownInv
  BY <1>2, <1>3, <1>5, <1>7 DEF CallInv, ToldInv, KnownInv, Heading
<1> QED
  BY <1>6, <1>8, <1>9, <1>10 DEF ShownInv, AtWork, InTouch

LEMMA ShownSteps ==
  ASSUME IInv, IInv', ChoiceInv, ShownInv, [Next]_vars
  PROVE  ShownInv'
<1> SUFFICES ASSUME offer' # {}
             PROVE  AtWork' /\ InTouch'
  BY DEF ShownInv
<1>1. UNCHANGED offer
  BY DEF Next, vars
<1>2. AtWork /\ InTouch /\ offer # {} /\ ListInv /\ BookInv /\ OrderInv
  BY <1>1 DEF ShownInv, ChoiceInv
<1>3. CASE UNCHANGED vars
  <2>1. UNCHANGED <<offer, greeterVars, calls, signals, sess, slave, started, inbox, worker, dmrc>>
    BY <1>3 DEF vars, slaveVars, workerVars
  <2>2. StageInv'
    BY <1>2, <2>1, StageLeft DEF HasSetup
  <2>3. FinalInv' /\ ReadInv'
    BY <1>2, <2>1, ReadLeft DEF AtWork, FinalInv, Nothing
  <2>4. Begun' => Begun
    BY <2>1 DEF Begun, HasSetup
  <2> QED
    BY <1>2, <2>1, <2>2, <2>3, <2>4, MovesSilently DEF Quiet
<1>4. CASE Next
  <2>1. CASE /\ started = Nothing /\ (UserStep \/ GreeterStep)
             /\ UNCHANGED <<slaveVars, workerVars, inbox>>
    BY <1>1, <1>2, <2>1, UserShown, GreeterShown
  <2>2. CASE /\ ConversationStarted \/ FromGreeter \/ IdleReset \/ IdleStart \/ WorkerStep
             /\ UNCHANGED greeterVars
    <3>1. CASE FromGreeter
      BY <1>1, <1>2, <2>2, <3>1, SelectUserShown, BeginVerificationShown,
         BeginVerificationForUserShown, AnswerQueryShown, CancelShown,
         StartSessionWhenReadyShown, SelectOptionShown DEF FromGreeter
    <3>2. CASE PamRefuses \/ OpenFails
      BY <1>1, <1>2, <2>2, <3>2, GiveUpShown DEF PamRefuses, OpenFails, Doing
    <3>3. CASE WorkerStep /\ ~(PamRefuses \/ OpenFails)
      BY <1>1, <1>2, <2>2, <3>3, OnRequestShown, OnSetOptionShown, StateChangeIdleShown,
         LoadSettingShown, SetupCompleteShown, UpdateUsernameShown, AskQuestionShown,
         PamAcceptsShown, AuthorizedShown, OpenedShown, StartSessionShown DEF WorkerStep
    <3>4. CASE ConversationStarted \/ IdleReset \/ IdleStart
      BY <1>1, <1>2, <2>2, <3>4, ConversationStartedShown, IdleResetShown, IdleStartShown
    <3> QED
      BY <2>2, <3>1, <3>2, <3>3, <3>4
  <2> QED
    BY <1>4, <2>1, <2>2 DEF Next
<1> QED
  BY <1>3, <1>4

\* What the panel shows and what the slave knows differ by the calls and signals
\* that are under way.
THEOREM ShownAlways == Spec => []ShownInv
<1>1. Init => ShownInv
  BY ShownInitially
<1>2. IInv /\ IInv' /\ ChoiceInv /\ ShownInv /\ [Next]_vars => ShownInv'
  BY ShownSteps
<1> QED
  BY <1>1, <1>2, Invariant, ChoiceAlways, PTL DEF Spec

LEMMA OnlyIdleStarts ==
  ASSUME [Next]_vars, started' # started
  PROVE  IdleStart
<1>1. Next
  BY DEF vars, slaveVars
<1>2. ~UNCHANGED slaveVars
  BY DEF slaveVars
<1>3. ConversationStarted \/ FromGreeter \/ IdleReset \/ IdleStart \/ WorkerStep
  BY <1>1, <1>2 DEF Next
<1>4. ~FromGreeter
  BY DEF FromGreeter, SelectUser, BeginVerification, BeginVerificationForUser, AnswerQuery,
         Cancel, StartSessionWhenReady, SelectOption
<1>5. ~ConversationStarted /\ ~IdleReset
  BY DEF ConversationStarted, IdleReset
<1>6. ~WorkerStep
  BY <1>2 DEF WorkerStep, OnRequest, OnSetOption, StateChangeIdle, LoadSetting, SetupComplete,
              UpdateUsername, AskQuestion, PamAccepts, PamRefuses, Authorized, Opened,
              OpenFails, StartSession, GiveUp
<1> QED
  BY <1>3, <1>4, <1>5, <1>6

LEMMA StartsAsShown ==
  ASSUME IInv, ShownInv, IdleStart, calls = <<>>, signals = <<>>, ~sess.missed,
         NEW o \in offer, panel[o].def # NoName
  PROVE  NameOf(sess, o) = panel[o].combo
<1>1. AtWork /\ InTouch
  BY DEF ShownInv
<1>2. slave.idle = "start" /\ worker.state = "opened" /\ Begun
  BY <1>1 DEF IdleStart, AtWork, StageInv, Begun
<1>3. started = Nothing
  BY <1>1, <1>2 DEF AtWork, FinalInv
<1>4. ToldInv /\ KnownInv
  BY <1>1, <1>3 DEF InTouch
<1>5. /\ ~ToBegin(calls) /\ Untold(signals, o) /\ ~Behind(signals) /\ ~Heading(calls, o)
      /\ \A x : ~LastTold(signals, o, x)
  BY DEF ToBegin, Untold, Behind, Heading, LastTold
<1>6. panel[o].def = Default(sess, o)
  BY <1>2, <1>4, <1>5 DEF ToldInv
<1>7. IF sess.sel[o] # NoName THEN panel[o].active = sess.sel[o]
      ELSE panel[o].combo = panel[o].def
  BY <1>2, <1>4, <1>5 DEF KnownInv
<1>8. CASE sess.sel[o] # NoName
  <2>1. sess.sel[o] \in Items[o]
    BY <1>8, Unmoved DEF SessionOK, Choice
  <2>2. panel[o].active \notin {NoName, GoneRow}
    BY <1>7, <1>8, <2>1, RowFacts
  <2>3. Faithful(panel[o])
    BY <1>1 DEF AtWork, ListsInv
  <2> QED
    BY <1>7, <1>8, <2>2, <2>3 DEF Faithful, NameOf
<1>9. CASE sess.sel[o] = NoName
  BY <1>6, <1>7, <1>9 DEF NameOf
<1> QED
  BY <1>8, <1>9

\* The session is started with what the panel shows (get_session_name and its two
\* like against the rows of the option widgets), when no call or signal is under
\* way: the default that the slave would take is the default of the list, and the
\* row that is shown is that default or the last choice the slave was told of.
THEOREM StartedAsShown_Holds == Spec => StartedAsShown
<1> DEFINE Shown ==
      started' # started /\ calls = <<>> /\ signals = <<>> /\ ~sess.missed =>
        \A o \in offer : panel[o].def # NoName => started'[o] = panel[o].combo
<1>1. IInv /\ ShownInv /\ [Next]_vars => Shown
  <2> SUFFICES ASSUME IInv, ShownInv, [Next]_vars, started' # started, calls = <<>>,
                      signals = <<>>, ~sess.missed,
                      NEW o \in offer, panel[o].def # NoName
               PROVE  started'[o] = panel[o].combo
    OBVIOUS
  <2>1. IdleStart
    BY OnlyIdleStarts
  <2>2. started'[o] = NameOf(sess, o)
    BY <2>1 DEF IdleStart
  <2> QED
    BY <2>1, <2>2, StartsAsShown
<1>2. Spec => [][Shown]_vars
  <2> HIDE DEF Shown
  <2> QED
    BY <1>1, Invariant, ShownAlways, PTL DEF Spec
<1> QED
  BY <1>2 DEF StartedAsShown
=============================================================================
