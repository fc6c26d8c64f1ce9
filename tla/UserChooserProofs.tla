-------------------------- MODULE UserChooserProofs --------------------------
(***************************************************************************)
(* Theorems about UserChooser, for any accounts and any bounds.  The        *)
(* operators of the module take the state s = [c |-> the list, w |-> the    *)
(* window] through one call; Calm is what each of the window's calls leaves *)
(* when it returns, also in the middle of a slide, and each lemma takes one *)
(* operator from it to it.                                                  *)
(***************************************************************************)
EXTENDS UserChooser, SequenceTheorems, TLAPS

State == [c : ChooserRecord, w : WindowRecord]

\* The references to rows are to rows that exist.
RowsOK(s) ==
  /\ s.c.visible \subseteq s.c.rows
  /\ s.c.active \in s.c.rows \cup {NoUser}
  /\ ~s.c.held => s.c.active = NoUser

\* Nobody is chosen; somebody is, and the window has heard of it.
Open(s) == ~s.c.held /\ ~s.c.emit /\ s.c.visible = s.c.rows
Chose(s) ==
  /\ s.c.held /\ ~s.c.emit
  /\ s.c.visible = s.c.rows \cap {s.c.active}
  /\ s.c.active # NoUser => s.w.begun = s.c.active /\ s.w.mode # "selection"

\* The state of the list, by the slide it is in.  A shrink slide in a list that
\* has shrunk is the one that ends in the failed assertion.
Slides(s) ==
  /\ s.c.slide = "none" =>
       \/ s.c.state = "grown" /\ Open(s)
       \/ s.c.state = "shrunk" /\ Chose(s)
  /\ s.c.slide = "grow" => s.c.state = "growing" /\ Open(s)
  /\ s.c.slide = "shrink" =>
       \/ s.c.state = "shrinking" /\ s.c.held /\ s.c.emit
       \/ s.c.state = "shrunk" /\ s.c.held /\ ~s.c.emit

\* Before the accounts are loaded, and as long as the window begins its
\* conversations without a name, the list is not shown and nobody is chosen.
Hidden(s) ==
  /\ ~s.c.shown => s.c.slide = "none" /\ s.c.state = "grown"
  /\ ~s.c.shown /\ s.w.loaded => s.w.disabled
  /\ s.w.disabled => s.c.rows \cap User = {}
  /\ s.c.shown => s.w.loaded
  /\ s.c.shown /\ s.w.disabled => s.w.timed

Calm(s) ==
  /\ s \in State
  /\ RowsOK(s)
  /\ s.c.crashed \/ Slides(s)
  /\ Hidden(s)

\* What the calls of the list leave alone.
Frame(s, t) ==
  /\ t.c.rows = s.c.rows /\ t.c.shown = s.c.shown
  /\ t.w.loaded = s.w.loaded /\ t.w.disabled = s.w.disabled /\ t.w.timed = s.w.timed

-----------------------------------------------------------------------------
(* The window hears of a choice. *)

LEMMA Chooses ==
  ASSUME NEW s \in State, NEW i \in Item
  PROVE  LET t == ChooseUser(s, i)
         IN  /\ t \in State /\ t.c = s.c /\ Frame(s, t)
             /\ t.w.begun = i /\ t.w.mode # "selection"
<1> DEFINE m == IF i = AutoItem THEN "timed" ELSE "auth"
           v == [s.w EXCEPT !.mode = m]
           x == [v EXCEPT !.begun = i]
           t == [s EXCEPT !.w = x]
<1>1. s.c \in ChooserRecord /\ s.w \in WindowRecord
  BY DEF State
<1>2. /\ x \in WindowRecord /\ x.begun = i /\ x.mode # "selection"
      /\ x.loaded = s.w.loaded /\ x.disabled = s.w.disabled /\ x.timed = s.w.timed
  BY <1>1 DEF WindowRecord
<1>3. ChooseUser(s, i) = t
  BY DEF ChooseUser, State
<1> HIDE DEF x
<1>4. t \in State /\ t.c = s.c /\ t.w = x
  BY <1>1, <1>2 DEF State
<1> QED
  BY <1>2, <1>3, <1>4 DEF Frame

-----------------------------------------------------------------------------
(* The ends of the slides. *)

\* The end of a shrink slide, or of the call for a list that is too small for one:
\* it has shrunk, and the window has heard who was chosen.
LEMMA ShrinkEnds ==
  ASSUME NEW s \in State, RowsOK(s), s.c.state = "shrinking", s.c.emit
  PROVE  LET t == OnShrinkComplete(s)
         IN  /\ t \in State /\ RowsOK(t) /\ Frame(s, t)
             /\ t.c.state = "shrunk" /\ t.c.held = s.c.held /\ ~t.c.emit
             /\ t.c.active = s.c.active
             /\ t.c.slide = s.c.slide /\ t.c.crashed = s.c.crashed
             /\ s.c.held => Chose(t)
<1> DEFINE c == [Shrunk(s.c) EXCEPT !.emit = FALSE]
           u == [s EXCEPT !.c = c]
<1>1. s.c \in ChooserRecord /\ s.w \in WindowRecord
  BY DEF State
<1>2. /\ c \in ChooserRecord
      /\ c.rows = s.c.rows /\ c.visible = s.c.rows \cap {s.c.active}
      /\ c.state = "shrunk" /\ c.held = s.c.held /\ ~c.emit /\ c.active = s.c.active
      /\ c.slide = s.c.slide /\ c.shown = s.c.shown /\ c.crashed = s.c.crashed
  BY <1>1 DEF Shrunk, ShowInactive, ChooserRecord, RowsOK
<1>3. OnShrinkComplete(s) = OnUserChosen(u)
  BY DEF OnShrinkComplete
<1> HIDE DEF c
<1>4. u \in State /\ u.c = c /\ u.w = s.w
  BY <1>1, <1>2 DEF State
<1> HIDE DEF u
<1>5. CASE c.active = NoUser
  BY <1>1, <1>2, <1>3, <1>4, <1>5 DEF RowsOK, Chose, Frame, OnUserChosen
<1>6. CASE c.active # NoUser
  <2>1. c.active \in Item
    BY <1>2, <1>6 DEF ChooserRecord
  <2>2. OnShrinkComplete(s) = ChooseUser(u, c.active)
    BY <1>3, <1>4, <1>6 DEF OnUserChosen
  <2> DEFINE t == ChooseUser(u, c.active)
  <2>3. /\ t \in State /\ t.c = u.c /\ Frame(u, t)
        /\ t.w.begun = c.active /\ t.w.mode # "selection"
    BY <1>4, <2>1, Chooses
  <2> QED
    BY <1>2, <1>4, <2>2, <2>3 DEF RowsOK, Chose, Frame
<1> QED
  BY <1>5, <1>6

\* What is left as it is when only the state or the slide changes.
Like(s, t) ==
  /\ t.w = s.w /\ t.c.rows = s.c.rows /\ t.c.visible = s.c.visible
  /\ t.c.held = s.c.held /\ t.c.active = s.c.active /\ t.c.emit = s.c.emit
  /\ t.c.shown = s.c.shown

Slid(s, slide) == [s EXCEPT !.c.slide = slide]
In(s, state) == [s EXCEPT !.c.state = state]

LEMMA LikeFacts ==
  ASSUME NEW s \in State, NEW t \in State, Like(s, t)
  PROVE  /\ Frame(s, t)
         /\ RowsOK(s) => RowsOK(t)
         /\ Open(s) => Open(t)
         /\ Chose(s) => Chose(t)
  BY DEF Like, Frame, RowsOK, Open, Chose

LEMMA SlideSet ==
  ASSUME NEW s \in State, NEW slide \in {"none", "grow", "shrink"}
  PROVE  LET t == Slid(s, slide)
         IN  /\ t \in State /\ Like(s, t) /\ t.c.slide = slide
             /\ t.c.state = s.c.state /\ t.c.crashed = s.c.crashed
<1> DEFINE c == [s.c EXCEPT !.slide = slide]
<1>1. s.c \in ChooserRecord /\ s.w \in WindowRecord
  BY DEF State
<1>2. /\ c \in ChooserRecord /\ c.slide = slide
      /\ c.rows = s.c.rows /\ c.visible = s.c.visible /\ c.held = s.c.held
      /\ c.active = s.c.active /\ c.emit = s.c.emit /\ c.shown = s.c.shown
      /\ c.state = s.c.state /\ c.crashed = s.c.crashed
  BY <1>1 DEF ChooserRecord
<1>3. Slid(s, slide) = [s EXCEPT !.c = c]
  BY DEF State, Slid
<1> HIDE DEF c
<1>4. [s EXCEPT !.c = c] \in State /\ [s EXCEPT !.c = c].c = c /\ [s EXCEPT !.c = c].w = s.w
  BY <1>1, <1>2 DEF State
<1> QED
  BY <1>2, <1>3, <1>4 DEF Like

LEMMA StateSet ==
  ASSUME NEW s \in State, NEW state \in {"grown", "growing", "shrunk", "shrinking"}
  PROVE  LET t == In(s, state)
         IN  /\ t \in State /\ Like(s, t) /\ t.c.state = state
             /\ t.c.slide = s.c.slide /\ t.c.crashed = s.c.crashed
<1> DEFINE c == [s.c EXCEPT !.state = state]
<1>1. s.c \in ChooserRecord /\ s.w \in WindowRecord
  BY DEF State
<1>2. /\ c \in ChooserRecord /\ c.state = state
      /\ c.rows = s.c.rows /\ c.visible = s.c.visible /\ c.held = s.c.held
      /\ c.active = s.c.active /\ c.emit = s.c.emit /\ c.shown = s.c.shown
      /\ c.slide = s.c.slide /\ c.crashed = s.c.crashed
  BY <1>1 DEF ChooserRecord
<1>3. In(s, state) = [s EXCEPT !.c = c]
  BY DEF State, In
<1> HIDE DEF c
<1>4. [s EXCEPT !.c = c] \in State /\ [s EXCEPT !.c = c].c = c /\ [s EXCEPT !.c = c].w = s.w
  BY <1>1, <1>2 DEF State
<1> QED
  BY <1>2, <1>3, <1>4 DEF Like

LEMMA Aborts ==
  ASSUME NEW s \in State
  PROVE  Abort(s) \in State /\ Like(s, Abort(s)) /\ Abort(s).c.crashed
         /\ Abort(s).c.slide = s.c.slide
<1> DEFINE c == [s.c EXCEPT !.crashed = TRUE]
<1>1. s.c \in ChooserRecord /\ s.w \in WindowRecord
  BY DEF State
<1>2. /\ c \in ChooserRecord /\ c.crashed /\ c.slide = s.c.slide
      /\ c.rows = s.c.rows /\ c.visible = s.c.visible /\ c.held = s.c.held
      /\ c.active = s.c.active /\ c.emit = s.c.emit /\ c.shown = s.c.shown
  BY <1>1 DEF ChooserRecord
<1>3. Abort(s) = [s EXCEPT !.c = c]
  BY DEF State, Abort
<1> HIDE DEF c
<1>4. [s EXCEPT !.c = c] \in State /\ [s EXCEPT !.c = c].c = c /\ [s EXCEPT !.c = c].w = s.w
  BY <1>1, <1>2 DEF State
<1> QED
  BY <1>2, <1>3, <1>4 DEF Like

\* The end of a grow slide: it has grown.
LEMMA GrowEnds ==
  ASSUME NEW s \in State, s.c.state = "growing"
  PROVE  LET t == OnGrowComplete(s)
         IN  /\ t \in State /\ Like(s, t)
             /\ t.c.state = "grown"
             /\ t.c.slide = s.c.slide /\ t.c.crashed = s.c.crashed
<1>1. OnGrowComplete(s) = In(s, "grown")
  BY DEF OnGrowComplete, In
<1> QED
  BY <1>1, StateSet

-----------------------------------------------------------------------------
(* A slide is stopped: by its timer, or inside a call that goes on. *)

LEMMA NoSlideStops ==
  ASSUME NEW s \in State, s.c.slide = "none"
  PROVE  StopSliding(s) = s
  BY DEF StopSliding

LEMMA GrowStops ==
  ASSUME NEW s \in State, s.c.slide = "grow", s.c.state = "growing"
  PROVE  LET t == StopSliding(s)
         IN  /\ t \in State /\ Like(s, t)
             /\ t.c.state = "grown" /\ t.c.slide = "none" /\ t.c.crashed = s.c.crashed
<1> DEFINE u == OnGrowComplete(s)
<1>1. StopSliding(s) = Slid(u, "none")
  BY DEF StopSliding, Done, Slid
<1>2. /\ u \in State /\ Like(s, u) /\ u.c.state = "grown" /\ u.c.crashed = s.c.crashed
  BY GrowEnds
<1> HIDE DEF u
<1> QED
  BY <1>1, <1>2, SlideSet DEF Like

LEMMA ShrinkStops ==
  ASSUME NEW s \in State, RowsOK(s), s.c.slide = "shrink", s.c.state = "shrinking",
         s.c.emit
  PROVE  LET t == StopSliding(s)
         IN  /\ t \in State /\ RowsOK(t) /\ Frame(s, t)
             /\ t.c.state = "shrunk" /\ t.c.slide = "none" /\ t.c.crashed = s.c.crashed
             /\ t.c.held = s.c.held /\ ~t.c.emit /\ t.c.active = s.c.active
             /\ s.c.held => Chose(t)
<1> DEFINE u == OnShrinkComplete(s)
<1>1. StopSliding(s) = Slid(u, "none")
  BY DEF StopSliding, Done, Slid
<1>2. /\ u \in State /\ RowsOK(u) /\ Frame(s, u)
      /\ u.c.state = "shrunk" /\ u.c.crashed = s.c.crashed
      /\ u.c.held = s.c.held /\ ~u.c.emit /\ u.c.active = s.c.active
      /\ s.c.held => Chose(u)
  BY ShrinkEnds
<1> HIDE DEF u
<1> DEFINE t == Slid(u, "none")
<1>3. /\ t \in State /\ Like(u, t) /\ t.c.slide = "none"
      /\ t.c.state = u.c.state /\ t.c.crashed = u.c.crashed
  BY <1>2, SlideSet
<1> HIDE DEF t
<1>4. RowsOK(t) /\ Frame(u, t) /\ (Chose(u) => Chose(t))
  BY <1>2, <1>3, LikeFacts
<1> QED
  BY <1>1, <1>2, <1>3, <1>4 DEF Like, Frame, t

\* The slide of a list that has shrunk before it ends.
LEMMA DoomedStops ==
  ASSUME NEW s \in State, s.c.slide = "shrink", s.c.state # "shrinking"
  PROVE  LET t == StopSliding(s)
         IN  t \in State /\ Like(s, t) /\ t.c.slide = "none" /\ t.c.crashed
<1> DEFINE u == Abort(s)
<1>1. StopSliding(s) = Slid(u, "none")
  BY DEF StopSliding, Done, OnShrinkComplete, Slid
<1>2. u \in State /\ Like(s, u) /\ u.c.crashed
  BY Aborts
<1> HIDE DEF u
<1> QED
  BY <1>1, <1>2, SlideSet DEF Like

\* Whatever a call does to a list that has aborted, it has aborted.
LEMMA GrowEndsAborted ==
  ASSUME NEW s \in State, s.c.crashed
  PROVE  LET t == OnGrowComplete(s) IN t \in State /\ Like(s, t) /\ t.c.crashed
<1>1. OnGrowComplete(s) = Abort(s) \/ OnGrowComplete(s) = In(s, "grown")
  BY DEF OnGrowComplete, In
<1> QED
  BY <1>1, Aborts, StateSet

-----------------------------------------------------------------------------
(* The list shrinks to the item that was chosen, and grows when it is taken back. *)

\* A list in which an item was just chosen shrinks; what it did before was to rest,
\* to grow, or to shrink to another item.
LEMMA Shrinks ==
  ASSUME NEW s \in State, NEW atOnce \in BOOLEAN,
         RowsOK(s), s.c.shown, s.c.held, s.c.emit, ~s.c.crashed,
         \/ s.c.slide = "none"
         \/ s.c.slide = "grow" /\ s.c.state = "growing"
         \/ s.c.slide = "shrink" /\ s.c.state # "growing"
  PROVE  LET t == Shrink(s, atOnce)
         IN  /\ t \in State /\ RowsOK(t) /\ Frame(s, t)
             /\ t.c.crashed \/ Slides(t)
             /\ s.c.slide = "none" => ~t.c.crashed
<1> DEFINE r == IF s.c.state = "growing" THEN StopSliding(s) ELSE s
           u == In(r, "shrinking")
<1>1. /\ r \in State /\ Like(s, r) /\ r.c.slide \in {"none", "shrink"} /\ ~r.c.crashed
      /\ s.c.slide = "none" => r.c.slide = "none"
  <2>1. CASE s.c.state = "growing" /\ s.c.slide = "grow"
    BY <2>1, GrowStops
  <2>2. CASE ~(s.c.state = "growing" /\ s.c.slide = "grow")
    BY <2>2, NoSlideStops DEF Like
  <2> QED
    BY <2>1, <2>2
<1> HIDE DEF r
<1>2. /\ u \in State /\ Like(r, u) /\ u.c.state = "shrinking"
      /\ u.c.slide = r.c.slide /\ ~u.c.crashed
  BY <1>1, StateSet
<1> HIDE DEF u
<1>3. RowsOK(u) /\ Frame(s, u) /\ u.c.shown /\ u.c.held /\ u.c.emit
  BY <1>1, <1>2, LikeFacts DEF Like, Frame
<1>4. Shrink(s, atOnce) = StartShrink(u, atOnce)
  BY <1>3 DEF Shrink, u, r, In
<1> DEFINE e == OnShrinkComplete(u)
<1>5. /\ e \in State /\ RowsOK(e) /\ Frame(u, e) /\ Chose(e) /\ e.c.state = "shrunk"
      /\ e.c.slide = u.c.slide /\ ~e.c.crashed
  BY <1>2, <1>3, ShrinkEnds
<1>6. CASE RowsInView(u.c) <= 1
  <2>1. Shrink(s, atOnce) = e
    BY <1>4, <1>6 DEF StartShrink
  <2> HIDE DEF e
  <2> QED
    BY <1>1, <1>2, <1>3, <1>5, <2>1 DEF Slides, Chose, Frame
<1>7. CASE ~(RowsInView(u.c) <= 1)
  <2>1. Shrink(s, atOnce) = SlideToHeight(u, "shrink", atOnce)
    BY <1>4, <1>7 DEF StartShrink
  <2>2. CASE u.c.slide = "none"
    <3>1. StopSliding(u) = u
      BY <1>2, <2>2, NoSlideStops
    <3>2. CASE atOnce
      <4>1. Shrink(s, atOnce) = e
        BY <2>1, <3>1, <3>2 DEF SlideToHeight, Done
      <4> HIDE DEF e
      <4> QED
        BY <1>3, <1>5, <2>2, <4>1 DEF Slides, Frame
    <3>3. CASE ~atOnce
      <4> DEFINE t == Slid(u, "shrink")
      <4>1. Shrink(s, atOnce) = t
        BY <2>1, <3>1, <3>3 DEF SlideToHeight, Slid
      <4>2. /\ t \in State /\ Like(u, t) /\ ~t.c.crashed
            /\ t.c.slide = "shrink" /\ t.c.state = "shrinking"
        BY <1>2, SlideSet
      <4> HIDE DEF t
      <4>3. RowsOK(t) /\ Frame(u, t)
        BY <1>2, <1>3, <4>2, LikeFacts
      <4> QED
        BY <1>3, <4>1, <4>2, <4>3 DEF Slides, Frame, Like
    <3> QED
      BY <3>2, <3>3
  <2>3. CASE u.c.slide = "shrink"
    <3> DEFINE v == StopSliding(u)
    <3>1. /\ v \in State /\ RowsOK(v) /\ Frame(u, v)
          /\ v.c.state = "shrunk" /\ v.c.slide = "none" /\ v.c.held /\ ~v.c.emit
      BY <1>2, <1>3, <2>3, ShrinkStops
    <3>2. Shrink(s, atOnce) = IF atOnce THEN Done(v, "shrink") ELSE Slid(v, "shrink")
      BY <2>1 DEF SlideToHeight, Slid
    <3> HIDE DEF v
    <3>3. CASE atOnce
      <4>1. Shrink(s, atOnce) = Abort(v)
        BY <3>1, <3>2, <3>3 DEF Done, OnShrinkComplete
      <4>2. Abort(v) \in State /\ Like(v, Abort(v)) /\ Abort(v).c.crashed
        BY <3>1, Aborts
      <4>3. RowsOK(Abort(v)) /\ Frame(v, Abort(v))
        BY <3>1, <4>2, LikeFacts
      <4> QED
        BY <1>1, <1>2, <1>3, <2>3, <3>1, <4>1, <4>2, <4>3 DEF Frame
    <3>4. CASE ~atOnce
      <4> DEFINE t == Slid(v, "shrink")
      <4>1. t \in State /\ Like(v, t) /\ t.c.slide = "shrink" /\ t.c.state = "shrunk"
        BY <3>1, SlideSet
      <4>2. Shrink(s, atOnce) = t
        BY <3>2, <3>4
      <4> HIDE DEF t
      <4>3. RowsOK(t) /\ Frame(v, t)
        BY <3>1, <4>1, LikeFacts
      <4>4. Frame(s, t)
        BY <1>3, <3>1, <4>3 DEF Frame
      <4>5. Slides(t)
        BY <3>1, <4>1 DEF Slides, Like
      <4> QED
        BY <1>1, <1>2, <2>3, <4>1, <4>2, <4>3, <4>4, <4>5
    <3> QED
      BY <3>3, <3>4
  <2> QED
    BY <1>1, <1>2, <2>2, <2>3
<1> QED
  BY <1>6, <1>7

\* All rows are shown.
LEMMA RowsShown ==
  ASSUME NEW s \in State
  PROVE  LET t == [s EXCEPT !.c = ShowInactive(s.c, TRUE)]
         IN  /\ t \in State /\ Frame(s, t)
             /\ RowsOK(s) => RowsOK(t)
             /\ t.c.visible = t.c.rows /\ t.c.state = s.c.state /\ t.c.slide = s.c.slide
             /\ t.c.held = s.c.held /\ t.c.emit = s.c.emit /\ t.c.crashed = s.c.crashed
<1> DEFINE c == ShowInactive(s.c, TRUE)
<1>1. s.c \in ChooserRecord /\ s.w \in WindowRecord
  BY DEF State
<1>2. /\ c \in ChooserRecord /\ c.visible = c.rows
      /\ c.rows = s.c.rows /\ c.held = s.c.held /\ c.active = s.c.active
      /\ c.emit = s.c.emit /\ c.shown = s.c.shown /\ c.state = s.c.state
      /\ c.slide = s.c.slide /\ c.crashed = s.c.crashed
  BY <1>1 DEF ChooserRecord, ShowInactive
<1> HIDE DEF c
<1>3. [s EXCEPT !.c = c] \in State /\ [s EXCEPT !.c = c].c = c /\ [s EXCEPT !.c = c].w = s.w
  BY <1>1, <1>2 DEF State
<1> QED
  BY <1>2, <1>3 DEF Frame, RowsOK, c

\* A list whose choice was just taken back grows.
LEMMA Grows ==
  ASSUME NEW s \in State, NEW atOnce \in BOOLEAN,
         RowsOK(s), s.c.shown, ~s.c.held, ~s.c.crashed,
         \/ s.c.slide = "none" /\ s.c.state = "shrunk" /\ ~s.c.emit
         \/ s.c.slide = "shrink" /\ s.c.state = "shrunk" /\ ~s.c.emit
         \/ s.c.slide = "shrink" /\ s.c.state = "shrinking" /\ s.c.emit
  PROVE  LET t == Grow(s, atOnce)
         IN  /\ t \in State /\ RowsOK(t) /\ Frame(s, t) /\ ~t.c.held
             /\ t.c.crashed \/ Slides(t)
<1> DEFINE r == IF s.c.state = "shrinking" THEN StopSliding(s) ELSE s
           u == In(r, "growing")
           w == [u EXCEPT !.c = ShowInactive(u.c, TRUE)]
           v == StopSliding(w)
<1>1. /\ r \in State /\ RowsOK(r) /\ Frame(s, r) /\ r.c.slide \in {"none", "shrink"}
      /\ ~r.c.crashed /\ ~r.c.held /\ ~r.c.emit
  <2>1. CASE s.c.state = "shrinking"
    BY <2>1, ShrinkStops
  <2>2. CASE s.c.state # "shrinking"
    BY <2>2 DEF Frame
  <2> QED
    BY <2>1, <2>2
<1> HIDE DEF r
<1>2. /\ u \in State /\ Like(r, u) /\ u.c.state = "growing"
      /\ u.c.slide = r.c.slide /\ ~u.c.crashed
  BY <1>1, StateSet
<1> HIDE DEF u
<1>3. RowsOK(u) /\ Frame(r, u) /\ ~u.c.held /\ ~u.c.emit
  BY <1>1, <1>2, LikeFacts DEF Like
<1>4. /\ w \in State /\ RowsOK(w) /\ Frame(u, w) /\ w.c.visible = w.c.rows
      /\ w.c.state = "growing" /\ w.c.slide = r.c.slide
      /\ ~w.c.held /\ ~w.c.emit /\ ~w.c.crashed
  BY <1>2, <1>3, RowsShown
<1>5. Grow(s, atOnce) = SlideToHeight(w, "grow", atOnce)
  <2>1. u.c.shown
    BY <1>1, <1>3 DEF Frame
  <2> QED
    BY <2>1 DEF Grow, StartGrow, u, r, In
<1> HIDE DEF w
<1>6. Frame(s, w)
  BY <1>1, <1>3, <1>4 DEF Frame
<1>7. Grow(s, atOnce) = IF atOnce THEN OnGrowComplete(v) ELSE Slid(v, "grow")
  BY <1>5 DEF SlideToHeight, Slid, Done
<1>8. CASE r.c.slide = "none"
  <2>1. v = w
    BY <1>4, <1>8, NoSlideStops
  <2>2. CASE atOnce
    <3> DEFINE t == OnGrowComplete(w)
    <3>1. /\ t \in State /\ Like(w, t) /\ t.c.state = "grown" /\ t.c.slide = "none"
      BY <1>4, <1>8, GrowEnds
    <3>2. Grow(s, atOnce) = t
      BY <1>7, <2>1, <2>2
    <3> HIDE DEF t
    <3>3. RowsOK(t) /\ Frame(w, t)
      BY <1>4, <3>1, LikeFacts
    <3> QED
      BY <1>4, <1>6, <3>1, <3>2, <3>3 DEF Like, Slides, Open, Frame
  <2>3. CASE ~atOnce
    <3> DEFINE t == Slid(w, "grow")
    <3>1. t \in State /\ Like(w, t) /\ t.c.state = "growing" /\ t.c.slide = "grow"
      BY <1>4, SlideSet
    <3>2. Grow(s, atOnce) = t
      BY <1>7, <2>1, <2>3
    <3> HIDE DEF t
    <3>3. RowsOK(t) /\ Frame(w, t)
      BY <1>4, <3>1, LikeFacts
    <3> QED
      BY <1>4, <1>6, <3>1, <3>2, <3>3 DEF Like, Slides, Open, Frame
  <2> QED
    BY <2>2, <2>3
<1>9. CASE r.c.slide = "shrink"
  <2>1. v \in State /\ Like(w, v) /\ v.c.crashed
    BY <1>4, <1>9, DoomedStops
  <2> HIDE DEF v
  <2> DEFINE t == Grow(s, atOnce)
  <2>2. t \in State /\ Like(v, t) /\ t.c.crashed
    BY <1>7, <2>1, GrowEndsAborted, SlideSet
  <2> HIDE DEF t
  <2>3. Frame(w, v) /\ RowsOK(v)
    BY <1>4, <2>1, LikeFacts
  <2>4. Frame(v, t) /\ RowsOK(t)
    BY <2>1, <2>2, <2>3, LikeFacts
  <2> QED
    BY <1>4, <1>6, <2>1, <2>2, <2>3, <2>4 DEF Like, Frame, t
<1> QED
  BY <1>1, <1>8, <1>9

-----------------------------------------------------------------------------
(* The calls of the list. *)

LEMMA ListSet ==
  ASSUME NEW s \in State, NEW c \in ChooserRecord
  PROVE  LET t == [s EXCEPT !.c = c] IN t \in State /\ t.c = c /\ t.w = s.w
  BY DEF State

LEMMA WindowSet ==
  ASSUME NEW s \in State, NEW w \in WindowRecord
  PROVE  LET t == [s EXCEPT !.w = w] IN t \in State /\ t.c = s.c /\ t.w = w
  BY DEF State

\* What a call of the list leaves when it returns.
LEMMA CalmAfter ==
  ASSUME NEW s \in State, NEW t \in State, Calm(s), s.c.shown, Frame(s, t),
         RowsOK(t), t.c.crashed \/ Slides(t)
  PROVE  Calm(t)
  BY DEF Calm, Hidden, Frame

\* An item is chosen.
LEMMA Activates ==
  ASSUME NEW s \in State, NEW i \in Item \cup {NoUser}, NEW atOnce \in BOOLEAN,
         Calm(s), ~s.c.crashed, s.c.shown \/ i \notin s.c.visible
  PROVE  LET t == Activate(s, i, atOnce)
         IN  /\ t \in State /\ Calm(t) /\ Frame(s, t)
             /\ s.c.slide = "none" => ~t.c.crashed
<1> DEFINE u == [s EXCEPT !.c.held = TRUE, !.c.active = i, !.c.emit = TRUE]
           c == [s.c EXCEPT !.held = TRUE, !.active = i, !.emit = TRUE]
<1>1. s.c \in ChooserRecord /\ s.w \in WindowRecord
  BY DEF State
<1>2. CASE Activate(s, i, atOnce) = s
  BY <1>2 DEF Frame
<1>3. CASE Activate(s, i, atOnce) # s
  <2>1. i \in s.c.visible /\ Activate(s, i, atOnce) = Shrink(u, atOnce)
    BY <1>3 DEF Activate, ActivateSelected, ActivateFromRow
  <2>2. i \in s.c.rows /\ i \in Item
    BY <1>1, <2>1 DEF Calm, RowsOK, ChooserRecord
  <2>3. /\ c \in ChooserRecord /\ c.held /\ c.emit /\ c.active = i
        /\ c.rows = s.c.rows /\ c.visible = s.c.visible /\ c.state = s.c.state
        /\ c.slide = s.c.slide /\ c.shown = s.c.shown /\ c.crashed = s.c.crashed
    BY <1>1, <2>2 DEF ChooserRecord
  <2>4. u = [s EXCEPT !.c = c]
    <3> DEFINE c1 == [s.c EXCEPT !.held = TRUE]
               c2 == [c1 EXCEPT !.active = i]
               c3 == [c2 EXCEPT !.emit = TRUE]
               u1 == [s EXCEPT !.c.held = TRUE]
               u2 == [u1 EXCEPT !.c.active = i]
               u3 == [u2 EXCEPT !.c.emit = TRUE]
    <3>1. u = u3 /\ c = c3
      BY Zenon
    <3> HIDE DEF u, c
    <3>2. u1 = [s EXCEPT !.c = c1]
      BY DEF State
    <3> HIDE DEF c1, u1
    <3>3. u1.c = c1 /\ u2 = [s EXCEPT !.c = c2]
      BY <3>2 DEF State
    <3> HIDE DEF c2, u2
    <3>4. u2.c = c2 /\ u3 = [s EXCEPT !.c = c3]
      BY <3>3 DEF State
    <3> QED
      BY <3>1, <3>4
  <2> HIDE DEF c, u
  <2>5. u \in State /\ u.c = c /\ u.w = s.w
    BY <2>3, <2>4, ListSet
  <2>6. RowsOK(u) /\ u.c.shown /\ Frame(s, u)
    BY <2>1, <2>2, <2>3, <2>5 DEF Calm, RowsOK, Frame
  <2>7. \/ u.c.slide = "none"
        \/ u.c.slide = "grow" /\ u.c.state = "growing"
        \/ u.c.slide = "shrink" /\ u.c.state # "growing"
    BY <1>1, <2>3, <2>5 DEF Calm, Slides, ChooserRecord
  <2> DEFINE t == Shrink(u, atOnce)
  <2>8. /\ t \in State /\ RowsOK(t) /\ Frame(u, t)
        /\ t.c.crashed \/ Slides(t)
        /\ u.c.slide = "none" => ~t.c.crashed
    BY <2>3, <2>5, <2>6, <2>7, Shrinks
  <2> HIDE DEF t
  <2>9. Frame(s, t)
    BY <2>6, <2>8 DEF Frame
  <2>10. Calm(t)
    BY <2>3, <2>5, <2>6, <2>8, <2>9, CalmAfter
  <2> QED
    BY <2>1, <2>3, <2>5, <2>8, <2>9, <2>10 DEF t
<1> QED
  BY <1>2, <1>3

\* The choice is taken back.
LEMMA Deactivates ==
  ASSUME NEW s \in State, NEW atOnce \in BOOLEAN, Calm(s), ~s.c.crashed
  PROVE  LET t == Deactivate(s, atOnce)
         IN  t \in State /\ Calm(t) /\ Frame(s, t) /\ ~t.c.held
<1> DEFINE u == [s EXCEPT !.c.held = FALSE, !.c.active = NoUser]
           c == [s.c EXCEPT !.held = FALSE, !.active = NoUser]
<1>1. s.c \in ChooserRecord /\ s.w \in WindowRecord
  BY DEF State
<1>2. CASE ~s.c.held
  BY <1>2 DEF Deactivate, Frame
<1>3. CASE s.c.held
  <2>1. Deactivate(s, atOnce) = Grow(u, atOnce)
    BY <1>3 DEF Deactivate
  <2>2. /\ c \in ChooserRecord /\ ~c.held /\ c.active = NoUser
        /\ c.rows = s.c.rows /\ c.visible = s.c.visible /\ c.state = s.c.state
        /\ c.slide = s.c.slide /\ c.shown = s.c.shown /\ c.crashed = s.c.crashed
        /\ c.emit = s.c.emit
    BY <1>1 DEF ChooserRecord
  <2>3. u = [s EXCEPT !.c = c]
    BY <1>1 DEF State, ChooserRecord
  <2> HIDE DEF c
  <2>4. u \in State /\ u.c = c /\ u.w = s.w
    BY <2>2, <2>3, ListSet
  <2> HIDE DEF u
  <2>5. /\ s.c.shown
        /\ \/ s.c.slide = "none" /\ s.c.state = "shrunk" /\ ~s.c.emit
           \/ s.c.slide = "shrink" /\ s.c.state = "shrunk" /\ ~s.c.emit
           \/ s.c.slide = "shrink" /\ s.c.state = "shrinking" /\ s.c.emit
    BY <1>1, <1>3 DEF Calm, Slides, Open, Chose, Hidden, ChooserRecord
  <2>6. RowsOK(u) /\ Frame(s, u)
    BY <2>2, <2>4 DEF Calm, RowsOK, Frame
  <2> DEFINE t == Grow(u, atOnce)
  <2>7. t \in State /\ RowsOK(t) /\ Frame(u, t) /\ ~t.c.held /\ (t.c.crashed \/ Slides(t))
    BY <2>2, <2>4, <2>5, <2>6, Grows
  <2> HIDE DEF t
  <2>8. Frame(s, t)
    BY <2>6, <2>7 DEF Frame
  <2>9. Calm(t)
    BY <2>5, <2>7, <2>8, CalmAfter
  <2> QED
    BY <2>1, <2>7, <2>8, <2>9 DEF t
<1> QED
  BY <1>2, <1>3

\* Rows are added.
LEMMA Adds ==
  ASSUME NEW s \in State, NEW us \in SUBSET Item, Calm(s), ~s.c.crashed,
         s.w.disabled => us \cap User = {}
  PROVE  LET t == AddItems(s, us)
         IN  /\ t \in State /\ Calm(t) /\ t.w = s.w
             /\ t.c.shown = s.c.shown /\ t.c.crashed = s.c.crashed
             /\ t.c.slide = s.c.slide
<1> DEFINE vs == IF s.c.held THEN {} ELSE us
           c == [s.c EXCEPT !.rows = @ \cup us, !.visible = @ \cup vs]
           t == AddItems(s, us)
<1>1. s.c \in ChooserRecord /\ s.w \in WindowRecord
  BY DEF State
<1>2. /\ c \in ChooserRecord /\ c.held = s.c.held /\ c.active = s.c.active
      /\ c.rows = s.c.rows \cup us /\ c.visible = s.c.visible \cup vs
      /\ c.state = s.c.state /\ c.emit = s.c.emit
      /\ c.slide = s.c.slide /\ c.shown = s.c.shown /\ c.crashed = s.c.crashed
  BY <1>1 DEF ChooserRecord
<1>3. t = [s EXCEPT !.c = c]
  BY <1>1 DEF State, ChooserRecord, AddItems
<1> HIDE DEF c
<1>4. t \in State /\ t.c = c /\ t.w = s.w
  BY <1>2, <1>3, ListSet
<1> HIDE DEF t
<1>5. RowsOK(t)
  BY <1>2, <1>4 DEF Calm, RowsOK
<1>6. Slides(t)
  <2>1. NoUser \notin Item
    BY NamesAssumption DEF Item
  <2>2. ~s.c.held => (Open(s) => Open(t))
    BY <1>2, <1>4 DEF Open
  <2>3. ASSUME Chose(s) PROVE Chose(t)
    <3>1. c.held /\ ~c.emit /\ c.active = s.c.active /\ c.visible = s.c.visible
      BY <1>2, <2>3 DEF Chose
    <3>2. s.c.visible = s.c.rows \cap {s.c.active} /\ s.c.active \in s.c.rows \cup {NoUser}
      BY <2>3 DEF Chose, Calm, RowsOK
    <3>3. s.c.rows \cap {s.c.active} = c.rows \cap {s.c.active}
      BY <1>2, <2>1, <3>2
    <3>4. c.active # NoUser => s.w.begun = c.active /\ s.w.mode # "selection"
      BY <2>3, <3>1 DEF Chose
    <3> QED
      BY <1>4, <3>1, <3>2, <3>3, <3>4 DEF Chose
  <2> QED
    BY <1>2, <1>4, <2>2, <2>3 DEF Calm, Slides, Open
<1>7. Hidden(t)
  BY <1>2, <1>4 DEF Calm, Hidden
<1> QED
  BY <1>2, <1>4, <1>5, <1>6, <1>7 DEF Calm, t

\* A row is removed.
LEMMA Removes ==
  ASSUME NEW s \in State, NEW i \in Item, Calm(s), ~s.c.crashed
  PROVE  Calm([s EXCEPT !.c = RemoveItem(s.c, i)])
<1> DEFINE c == RemoveItem(s.c, i)
           t == [s EXCEPT !.c = c]
<1>1. s.c \in ChooserRecord /\ s.w \in WindowRecord
  BY DEF State
<1>2. /\ c \in ChooserRecord /\ c.held = s.c.held
      /\ c.active = (IF s.c.active = i THEN NoUser ELSE s.c.active)
      /\ c.rows = s.c.rows \ {i} /\ c.visible = s.c.visible \ {i}
      /\ c.state = s.c.state /\ c.emit = s.c.emit
      /\ c.slide = s.c.slide /\ c.shown = s.c.shown /\ c.crashed = s.c.crashed
  BY <1>1 DEF ChooserRecord, RemoveItem
<1> HIDE DEF c
<1>3. t \in State /\ t.c = c /\ t.w = s.w
  BY <1>2, ListSet
<1> HIDE DEF t
<1>4. NoUser \notin s.c.rows /\ s.c.rows \subseteq Item
  BY <1>1, NamesAssumption DEF Item, ChooserRecord
<1>5. RowsOK(t) /\ Hidden(t)
  BY <1>2, <1>3 DEF Calm, RowsOK, Hidden
<1>6. Slides(t)
  <2>1. Open(s) => Open(t)
    BY <1>2, <1>3 DEF Open
  <2>2. ASSUME Chose(s) PROVE Chose(t)
    <3>1. t.c.held /\ ~t.c.emit /\ s.c.visible = s.c.rows \cap {s.c.active}
      BY <1>2, <1>3, <2>2 DEF Chose
    <3>2. t.c.active # NoUser => t.w.begun = t.c.active /\ t.w.mode # "selection"
      BY <1>2, <1>3, <2>2 DEF Chose
    <3>3. CASE s.c.active = i
      <4>1. c.active = NoUser /\ c.visible = {} /\ NoUser \notin c.rows
        BY <1>2, <1>4, <3>1, <3>3
      <4> QED
        BY <1>3, <3>1, <3>2, <4>1 DEF Chose
    <3>4. CASE s.c.active # i
      <4>1. c.active = s.c.active /\ c.visible = c.rows \cap {s.c.active}
        BY <1>2, <3>1, <3>4
      <4> QED
        BY <1>3, <3>1, <3>2, <4>1 DEF Chose
    <3> QED
      BY <3>3, <3>4
  <2> QED
    BY <1>2, <1>3, <2>1, <2>2 DEF Calm, Slides
<1> QED
  BY <1>3, <1>5, <1>6 DEF Calm, t, c

-----------------------------------------------------------------------------
(* The calls of the window. *)

\* The window may change what it keeps of the login; a choice that it has heard of
\* stays the one it has begun.
LEMMA WindowCalm ==
  ASSUME NEW s \in State, NEW w \in WindowRecord, Calm(s),
         w.loaded = s.w.loaded, w.disabled = s.w.disabled, s.w.timed => w.timed,
         ~s.c.crashed /\ s.c.slide = "none" /\ s.c.held =>
            /\ w.begun = s.w.begun \/ w.begun = s.c.active
            /\ w.mode = s.w.mode \/ w.mode # "selection"
  PROVE  LET t == [s EXCEPT !.w = w]
         IN  t \in State /\ Calm(t) /\ t.c = s.c /\ t.w = w
<1> DEFINE t == [s EXCEPT !.w = w]
<1>1. t \in State /\ t.c = s.c /\ t.w = w
  BY WindowSet
<1> HIDE DEF t
<1>2. RowsOK(t) /\ Hidden(t)
  BY <1>1 DEF Calm, RowsOK, Hidden
<1>3. Open(s) => Open(t)
  BY <1>1 DEF Open
<1>4. ~s.c.crashed /\ s.c.slide = "none" /\ Chose(s) => Chose(t)
  BY <1>1 DEF Chose
<1>5. s.c.crashed \/ Slides(t)
  BY <1>1, <1>3, <1>4 DEF Calm, Slides
<1> QED
  BY <1>1, <1>2, <1>5 DEF Calm, t

\* When it begins without a name, nobody is chosen.
LEMMA NobodyChosen ==
  ASSUME NEW s \in State, Calm(s), CanJump(s.w)
  PROVE  s.c.crashed \/ ~s.c.held
  BY DEF Calm, CanJump, Hidden, Slides, Open

LEMMA Jumps ==
  ASSUME NEW s \in State, Calm(s), CanJump(s.w)
  PROVE  LET t == Jump(s) IN t \in State /\ Calm(t) /\ Frame(s, t)
<1> DEFINE v == [s.w EXCEPT !.mode = "auth"]
           w == [v EXCEPT !.begun = OtherItem]
<1>1. s.c \in ChooserRecord /\ s.w \in WindowRecord
  BY DEF State
<1>2. /\ w \in WindowRecord
      /\ w.loaded = s.w.loaded /\ w.disabled = s.w.disabled /\ w.timed = s.w.timed
  BY <1>1 DEF WindowRecord, Item
<1>3. Jump(s) = [s EXCEPT !.w = w]
  BY DEF Jump, State
<1> HIDE DEF w
<1>4. s.c.crashed \/ ~s.c.held
  BY NobodyChosen
<1>5. LET t == [s EXCEPT !.w = w] IN t \in State /\ Calm(t) /\ t.c = s.c /\ t.w = w
  BY <1>2, <1>4, WindowCalm
<1> QED
  BY <1>2, <1>3, <1>5 DEF Frame

LEMMA Resets ==
  ASSUME NEW s \in State, NEW mode \in {"selection", "auth"}, NEW atOnce \in BOOLEAN,
         Calm(s), ~s.c.crashed
  PROVE  LET t == ResetDialog(s, mode, atOnce)
         IN  t \in State /\ Calm(t) /\ Frame(s, t)
<1> DEFINE r == IF mode = "selection" THEN Deactivate(s, atOnce) ELSE s
<1>1. r \in State /\ Calm(r) /\ Frame(s, r) /\ (mode = "selection" => ~r.c.held)
  BY Deactivates DEF Frame
<1>2. ResetDialog(s, mode, atOnce) =
        IF CanJump(s.w) THEN Jump(r) ELSE [r EXCEPT !.w.mode = mode]
  BY DEF ResetDialog
<1> HIDE DEF r
<1>3. CASE CanJump(s.w)
  <2>1. CanJump(r.w)
    BY <1>1, <1>3 DEF CanJump, Frame
  <2>2. LET t == Jump(r) IN t \in State /\ Calm(t) /\ Frame(r, t)
    BY <1>1, <2>1, Jumps
  <2> QED
    BY <1>1, <1>2, <1>3, <2>2 DEF Frame
<1>4. CASE ~CanJump(s.w)
  <2> DEFINE w == [r.w EXCEPT !.mode = mode]
  <2>1. r.c \in ChooserRecord /\ r.w \in WindowRecord
    BY <1>1 DEF State
  <2>2. /\ w \in WindowRecord /\ w.mode = mode /\ w.begun = r.w.begun
        /\ w.loaded = r.w.loaded /\ w.disabled = r.w.disabled /\ w.timed = r.w.timed
    BY <2>1 DEF WindowRecord
  <2>3. [r EXCEPT !.w.mode = mode] = [r EXCEPT !.w = w]
    BY <1>1 DEF State
  <2> HIDE DEF w
  <2> DEFINE t == [r EXCEPT !.w = w]
  <2>4. t \in State /\ Calm(t) /\ t.c = r.c /\ t.w = w
    BY <1>1, <2>2, WindowCalm
  <2>5. ResetDialog(s, mode, atOnce) = t
    BY <1>2, <1>4, <2>3
  <2> HIDE DEF t
  <2>6. Frame(r, t)
    BY <2>2, <2>4 DEF Frame
  <2> QED
    BY <1>1, <2>4, <2>5, <2>6 DEF Frame
<1> QED
  BY <1>3, <1>4

LEMMA TimedLoginCalm ==
  ASSUME NEW s \in State, NEW atOnce \in BOOLEAN,
         Calm(s), ~s.c.crashed, s.w.loaded, s.w.timed
  PROVE  LET t == RequestTimedLogin(s, atOnce) IN t \in State /\ Calm(t)
<1> DEFINE c == [s.c EXCEPT !.shown = TRUE]
           r == [s EXCEPT !.c = c]
           u == IF r.w.mode = "selection" THEN r ELSE ResetDialog(r, "selection", atOnce)
           v == IF u.c.crashed \/ u.w.auto THEN u ELSE Activate(u, AutoItem, atOnce)
           w == [v.w EXCEPT !.auto = TRUE]
<1>1. s.c \in ChooserRecord /\ s.w \in WindowRecord
  BY DEF State
<1>2. /\ c \in ChooserRecord /\ c.shown
      /\ c.rows = s.c.rows /\ c.visible = s.c.visible /\ c.held = s.c.held
      /\ c.active = s.c.active /\ c.emit = s.c.emit /\ c.state = s.c.state
      /\ c.slide = s.c.slide /\ c.crashed = s.c.crashed
  BY <1>1 DEF ChooserRecord
<1>3. [s EXCEPT !.c.shown = TRUE] = r
  BY DEF State
<1>4. RequestTimedLogin(s, atOnce) = [v EXCEPT !.w.auto = TRUE]
  BY <1>3 DEF RequestTimedLogin
<1> HIDE DEF c
<1>5. r \in State /\ r.c = c /\ r.w = s.w
  BY <1>2, ListSet
<1> HIDE DEF r
<1>6. Calm(r)
  <2>1. RowsOK(r) /\ Hidden(r)
    BY <1>2, <1>5 DEF Calm, RowsOK, Hidden
  <2>2. Slides(r)
    BY <1>2, <1>5 DEF Calm, Slides, Open, Chose
  <2> QED
    BY <1>5, <2>1, <2>2 DEF Calm
<1>7. u \in State /\ Calm(u) /\ u.c.shown
  BY <1>2, <1>5, <1>6, Resets DEF Frame
<1> HIDE DEF u
<1>8. v \in State /\ Calm(v)
  BY <1>7, Activates DEF Item
<1> HIDE DEF v
<1>9. v.w \in WindowRecord
  BY <1>8 DEF State
<1>10. /\ w \in WindowRecord /\ w.mode = v.w.mode /\ w.begun = v.w.begun
       /\ w.loaded = v.w.loaded /\ w.disabled = v.w.disabled /\ w.timed = v.w.timed
  BY <1>9 DEF WindowRecord
<1>11. [v EXCEPT !.w.auto = TRUE] = [v EXCEPT !.w = w]
  BY <1>8 DEF State
<1> HIDE DEF w
<1>12. LET t == [v EXCEPT !.w = w] IN t \in State /\ Calm(t)
  BY <1>8, <1>10, WindowCalm
<1> QED
  BY <1>4, <1>11, <1>12

LEMMA LoadedCalm ==
  ASSUME NEW s \in State, NEW atOnce \in BOOLEAN,
         Calm(s), ~s.c.crashed, ~s.w.loaded
  PROVE  LET t == OnUsersLoaded(s, atOnce) IN t \in State /\ Calm(t)
<1> DEFINE c == [s.c EXCEPT !.shown = TRUE]
           w == [s.w EXCEPT !.loaded = TRUE]
           q == [s EXCEPT !.w = w]
           r == [q EXCEPT !.c = c]
           t == IF s.w.disabled THEN q ELSE Activate(r, s.w.username, atOnce)
<1>1. s.c \in ChooserRecord /\ s.w \in WindowRecord
  BY DEF State
<1>2. /\ c \in ChooserRecord /\ c.shown
      /\ c.rows = s.c.rows /\ c.visible = s.c.visible /\ c.held = s.c.held
      /\ c.active = s.c.active /\ c.emit = s.c.emit /\ c.state = s.c.state
      /\ c.slide = s.c.slide /\ c.crashed = s.c.crashed
  BY <1>1 DEF ChooserRecord
<1>3. /\ w \in WindowRecord /\ w.loaded /\ w.disabled = s.w.disabled /\ w.timed = s.w.timed
  BY <1>1 DEF WindowRecord
<1>4. s.w.username \in Item \cup {NoUser}
  BY <1>1 DEF WindowRecord, Item
<1>5. OnUsersLoaded(s, atOnce) =
        IF t.w.timed /\ ~t.w.auto THEN RequestTimedLogin(t, atOnce)
        ELSE IF CanJump(t.w) THEN Jump(t) ELSE t
  <2>1. [s EXCEPT !.w.loaded = TRUE] = q
    BY DEF State
  <2>2. [s EXCEPT !.c.shown = TRUE, !.w.loaded = TRUE] = r
    BY DEF State
  <2> QED
    BY <2>1, <2>2 DEF OnUsersLoaded
<1> HIDE DEF c, w
<1>6. q \in State /\ q.c = s.c /\ q.w = w
  BY <1>3, WindowSet
<1> HIDE DEF q
<1>7. r \in State /\ r.c = c /\ r.w = w
  BY <1>2, <1>6, ListSet
<1> HIDE DEF r
<1>8. s.c.slide = "none" /\ s.c.state = "grown" /\ Open(s)
  BY DEF Calm, Hidden, Slides, Chose
<1>9. s.w.disabled => Calm(q)
  BY <1>3, <1>6, <1>8 DEF Calm, RowsOK, Hidden, Slides, Open
<1>10. ~s.w.disabled => Calm(r)
  BY <1>2, <1>3, <1>7, <1>8 DEF Calm, RowsOK, Hidden, Slides, Open
<1>11. t \in State /\ Calm(t) /\ ~t.c.crashed /\ t.w.loaded
  <2>1. CASE s.w.disabled
    BY <1>3, <1>6, <1>9, <2>1
  <2>2. CASE ~s.w.disabled
    <3>1. LET a == Activate(r, s.w.username, atOnce)
          IN  a \in State /\ Calm(a) /\ Frame(r, a) /\ ~a.c.crashed
      BY <1>2, <1>4, <1>7, <1>8, <1>10, <2>2, Activates
    <3> QED
      BY <1>3, <1>7, <2>2, <3>1 DEF Frame
  <2> QED
    BY <2>1, <2>2
<1> HIDE DEF t
<1> QED
  BY <1>5, <1>11, TimedLoginCalm, Jumps

-----------------------------------------------------------------------------
(* The invariant. *)

\* Between two callbacks of its main loop the greeter is calm.
IInv ==
  /\ Calm(Here)
  /\ signals \in Seq(Signals)
  /\ slave \in [open : BOOLEAN, starts : 0 .. MaxStarts, select : User \cup {NoUser},
                timed : BOOLEAN]
  /\ accounts \in [new : SUBSET User, news : 0 .. MaxNews]

LEMMA InitCalm == Init => IInv
<1> SUFFICES ASSUME Init PROVE IInv
  OBVIOUS
<1>1. Here \in State /\ Here.c = chooser /\ Here.w = window
  BY DEF Init, Here, State, ChooserRecord, WindowRecord, Item
<1>2. RowsOK(Here) /\ Slides(Here) /\ Hidden(Here)
  BY <1>1, NamesAssumption DEF Init, RowsOK, Slides, Open, Hidden
<1> QED
  BY <1>1, <1>2, BoundsAssumption DEF Init, IInv, Calm

LEMMA HereNow == Calm(Here) => Here \in State /\ Here.c = chooser /\ Here.w = window
  BY DEF Calm, Here

LEMMA HereNext ==
  ASSUME NEW t \in State, Calm(t), Becomes(t)
  PROVE  Calm(Here')
<1>1. Here' = t
  BY DEF Here, Becomes, State
<1> QED
  BY <1>1

\* The timer of the slide.
LEMMA StopsCalm ==
  ASSUME NEW s \in State, Calm(s), ~s.c.crashed, s.c.slide # "none"
  PROVE  LET t == StopSliding(s) IN t \in State /\ Calm(t)
<1> DEFINE t == StopSliding(s)
<1>1. s.c \in ChooserRecord
  BY DEF State
<1>2. s.c.shown /\ RowsOK(s) /\ Slides(s)
  BY DEF Calm, Hidden
<1>3. CASE s.c.slide = "grow"
  <2>1. /\ t \in State /\ Like(s, t)
        /\ t.c.state = "grown" /\ t.c.slide = "none"
    BY <1>2, <1>3, GrowStops DEF Slides
  <2> HIDE DEF t
  <2>2. Frame(s, t) /\ RowsOK(t) /\ Open(t)
    BY <1>2, <1>3, <2>1, LikeFacts DEF Slides
  <2>3. Calm(t)
    BY <1>2, <2>1, <2>2, CalmAfter DEF Slides
  <2> QED
    BY <2>1, <2>3 DEF t
<1>4. CASE s.c.slide = "shrink" /\ s.c.state = "shrinking"
  <2>1. /\ t \in State /\ RowsOK(t) /\ Frame(s, t) /\ Chose(t)
        /\ t.c.state = "shrunk" /\ t.c.slide = "none"
    BY <1>2, <1>4, ShrinkStops DEF Slides
  <2> HIDE DEF t
  <2>2. Calm(t)
    BY <1>2, <2>1, CalmAfter DEF Slides
  <2> QED
    BY <2>1, <2>2 DEF t
<1>5. CASE s.c.slide = "shrink" /\ s.c.state # "shrinking"
  <2>1. t \in State /\ Like(s, t) /\ t.c.crashed
    BY <1>5, DoomedStops
  <2> HIDE DEF t
  <2>2. Frame(s, t) /\ RowsOK(t)
    BY <1>2, <2>1, LikeFacts
  <2>3. Calm(t)
    BY <1>2, <2>1, <2>2, CalmAfter
  <2> QED
    BY <2>1, <2>3 DEF t
<1> QED
  BY <1>1, <1>3, <1>4, <1>5 DEF ChooserRecord

\* Ready: a choice is begun again, or the conversation without a name.
LEMMA ReadyCalm ==
  ASSUME NEW s \in State, Calm(s), ~s.c.crashed
  PROVE  /\ LET t == OnUserChosen(s) IN t \in State /\ Calm(t)
         /\ CanJump(s.w) =>
              LET t == [s EXCEPT !.w.begun = OtherItem] IN t \in State /\ Calm(t)
<1>1. s.c \in ChooserRecord /\ s.w \in WindowRecord
  BY DEF State
<1>2. ASSUME s.c.active # NoUser
      PROVE  LET t == ChooseUser(s, s.c.active) IN t \in State /\ Calm(t)
  <2> DEFINE m == IF s.c.active = AutoItem THEN "timed" ELSE "auth"
             v == [s.w EXCEPT !.mode = m]
             w == [v EXCEPT !.begun = s.c.active]
  <2>1. /\ w \in WindowRecord /\ w.begun = s.c.active /\ w.mode # "selection"
        /\ w.loaded = s.w.loaded /\ w.disabled = s.w.disabled /\ w.timed = s.w.timed
    BY <1>1, <1>2 DEF WindowRecord, ChooserRecord
  <2>2. ChooseUser(s, s.c.active) = [s EXCEPT !.w = w]
    BY DEF ChooseUser, State
  <2> HIDE DEF w
  <2>3. LET t == [s EXCEPT !.w = w] IN t \in State /\ Calm(t)
    BY <2>1, WindowCalm
  <2> QED
    BY <2>2, <2>3
<1>3. ASSUME CanJump(s.w)
      PROVE  LET t == [s EXCEPT !.w.begun = OtherItem] IN t \in State /\ Calm(t)
  <2> DEFINE w == [s.w EXCEPT !.begun = OtherItem]
  <2>1. /\ w \in WindowRecord
        /\ w.loaded = s.w.loaded /\ w.disabled = s.w.disabled /\ w.timed = s.w.timed
    BY <1>1 DEF WindowRecord, Item
  <2>2. [s EXCEPT !.w.begun = OtherItem] = [s EXCEPT !.w = w]
    BY DEF State
  <2> HIDE DEF w
  <2>3. ~s.c.held
    BY <1>3, NobodyChosen
  <2>4. LET t == [s EXCEPT !.w = w] IN t \in State /\ Calm(t)
    BY <2>1, <2>3, WindowCalm
  <2> QED
    BY <2>2, <2>4
<1> QED
  BY <1>2, <1>3 DEF OnUserChosen

\* SelectUser: the user is remembered, and chosen if the list is loaded.
LEMMA SelectCalm ==
  ASSUME NEW s \in State, NEW i \in User \cup {NoUser}, NEW atOnce \in BOOLEAN,
         Calm(s), ~s.c.crashed
  PROVE  LET r == [s EXCEPT !.w.username = i]
             t == IF s.w.loaded THEN Activate(r, i, atOnce) ELSE r
         IN  t \in State /\ Calm(t)
<1> DEFINE w == [s.w EXCEPT !.username = i]
           r == [s EXCEPT !.w = w]
<1>1. s.c \in ChooserRecord /\ s.w \in WindowRecord
  BY DEF State
<1>2. /\ w \in WindowRecord /\ w.mode = s.w.mode /\ w.begun = s.w.begun
      /\ w.loaded = s.w.loaded /\ w.disabled = s.w.disabled /\ w.timed = s.w.timed
  BY <1>1 DEF WindowRecord
<1>3. [s EXCEPT !.w.username = i] = r
  BY DEF State
<1> HIDE DEF w
<1>4. r \in State /\ Calm(r) /\ r.c = s.c
  BY <1>2, WindowCalm
<1> HIDE DEF r
<1>5. s.w.loaded => s.c.shown \/ i \notin s.c.visible
  <2>1. i \notin Item \ User
    BY NamesAssumption DEF Item
  <2> QED
    BY <1>1, <2>1, NamesAssumption DEF Calm, Hidden, RowsOK, ChooserRecord, Item
<1> QED
  BY <1>3, <1>4, <1>5, Activates DEF Item

\* RequestTimedLogin: the item is listed at once, and chosen if the list is loaded.
LEMMA RequestedCalm ==
  ASSUME NEW s \in State, NEW atOnce \in BOOLEAN, Calm(s), ~s.c.crashed
  PROVE  LET r == [AddItems(s, {AutoItem} \ s.c.rows) EXCEPT !.w.timed = TRUE]
             t == IF s.w.loaded THEN RequestTimedLogin(r, atOnce) ELSE r
         IN  t \in State /\ Calm(t)
<1> DEFINE a == AddItems(s, {AutoItem} \ s.c.rows)
           w == [a.w EXCEPT !.timed = TRUE]
           r == [a EXCEPT !.w = w]
<1>1. a \in State /\ Calm(a) /\ a.w = s.w /\ ~a.c.crashed
  BY NamesAssumption, Adds DEF Item
<1> HIDE DEF a
<1>2. a.w \in WindowRecord
  BY <1>1 DEF State
<1>3. /\ w \in WindowRecord /\ w.mode = a.w.mode /\ w.begun = a.w.begun
      /\ w.loaded = a.w.loaded /\ w.disabled = a.w.disabled /\ w.timed
  BY <1>2 DEF WindowRecord
<1>4. [a EXCEPT !.w.timed = TRUE] = r
  BY <1>1 DEF State
<1> HIDE DEF w
<1>5. r \in State /\ Calm(r) /\ r.w = w /\ r.c = a.c
  BY <1>1, <1>3, WindowCalm
<1> HIDE DEF r
<1>6. s.w.loaded =>
        LET t == RequestTimedLogin(r, atOnce) IN t \in State /\ Calm(t)
  BY <1>1, <1>3, <1>5, TimedLoginCalm
<1> QED
  BY <1>4, <1>5, <1>6 DEF a

-----------------------------------------------------------------------------
(* The steps. *)

\* Every step of the greeter leaves it calm.
LEMMA GreeterStepCalm == IInv /\ GreeterStep => Calm(Here')
<1> SUFFICES ASSUME IInv, GreeterStep PROVE Calm(Here')
  OBVIOUS
<1>1. /\ Here \in State /\ Here.c = chooser /\ Here.w = window /\ Calm(Here)
      /\ chooser \in ChooserRecord /\ window \in WindowRecord
  BY HereNow DEF IInv, State
<1>2. Up
  BY DEF GreeterStep, Click, SlideEnds, UsersLoaded, OnUserAdded, OnUserRemoved, OnReady,
         OnSelectUser, OnTimedLoginRequested, OnAuthenticationFailed, OnReset, Dispatch
<1>3. ~Here.c.crashed
  BY <1>1, <1>2 DEF Up
<1>4. CASE Click
  <2>1. PICK i \in chooser.visible, atOnce \in BOOLEAN :
          Becomes(ActivateSelected(Here, i, atOnce))
    BY <1>4 DEF Click
  <2>2. /\ i \in Item /\ Here.c.shown
        /\ Activate(Here, i, atOnce) = ActivateSelected(Here, i, atOnce)
    BY <1>1, <1>4 DEF Click, Activate, ChooserRecord
  <2>3. LET t == Activate(Here, i, atOnce) IN t \in State /\ Calm(t)
    BY <1>1, <1>3, <2>2, Activates
  <2> QED
    BY <2>1, <2>2, <2>3, HereNext
<1>5. CASE SlideEnds
  BY <1>1, <1>3, <1>5, StopsCalm, HereNext DEF SlideEnds
<1>6. CASE UsersLoaded
  <2>1. PICK us \in SUBSET accounts.new, atOnce \in BOOLEAN :
          Becomes(OnUsersLoaded(AddItems(Here, IF window.disabled THEN {} ELSE us), atOnce))
    BY <1>6 DEF UsersLoaded
  <2> DEFINE listed == IF window.disabled THEN {} ELSE us
             a == AddItems(Here, listed)
  <2>2. listed \in SUBSET Item /\ (Here.w.disabled => listed \cap User = {})
    BY <1>1 DEF IInv, Item
  <2> HIDE DEF listed
  <2>3. a \in State /\ Calm(a) /\ a.w = Here.w /\ ~a.c.crashed
    BY <1>1, <1>3, <2>2, Adds
  <2>4. ~a.w.loaded
    BY <1>1, <1>6, <2>3 DEF UsersLoaded
  <2>5. LET t == OnUsersLoaded(a, atOnce) IN t \in State /\ Calm(t)
    BY <2>3, <2>4, LoadedCalm
  <2> QED
    BY <2>1, <2>5, HereNext DEF listed
<1>7. CASE OnUserAdded
  <2>1. PICK u \in accounts.new : Becomes(AddItems(Here, {u}))
    BY <1>7 DEF OnUserAdded
  <2>2. {u} \in SUBSET Item /\ ~Here.w.disabled
    BY <1>1, <1>7 DEF IInv, Item, OnUserAdded
  <2>3. LET t == AddItems(Here, {u}) IN t \in State /\ Calm(t)
    BY <1>1, <1>3, <2>2, Adds
  <2> QED
    BY <2>1, <2>3, HereNext
<1>8. CASE OnUserRemoved
  <2>1. PICK u \in chooser.rows \cap User : chooser' = RemoveItem(chooser, u)
    BY <1>8 DEF OnUserRemoved
  <2> DEFINE c == RemoveItem(chooser, u)
             t == [Here EXCEPT !.c = c]
  <2>2. u \in Item
    BY DEF Item
  <2>3. Calm(t)
    BY <1>1, <1>3, <2>2, Removes
  <2>4. Here' = t
    BY <1>8, <2>1 DEF OnUserRemoved, Here
  <2> QED
    BY <2>3, <2>4
<1>9. CASE OnReady
  <2>1. \/ Becomes(OnUserChosen(Here))
        \/ CanJump(Here.w) /\ Becomes([Here EXCEPT !.w.begun = OtherItem])
        \/ Becomes(Here)
    BY <1>1, <1>9 DEF OnReady
  <2> QED
    BY <1>1, <1>3, <2>1, ReadyCalm, HereNext
<1>10. CASE OnSelectUser
  <2>1. PICK atOnce \in BOOLEAN :
          LET s == [Here EXCEPT !.w.username = slave.select]
          IN Becomes(IF window.loaded THEN Activate(s, slave.select, atOnce) ELSE s)
    BY <1>10 DEF OnSelectUser
  <2>2. slave.select \in User \cup {NoUser}
    BY DEF IInv
  <2>3. LET r == [Here EXCEPT !.w.username = slave.select]
            t == IF window.loaded THEN Activate(r, slave.select, atOnce) ELSE r
        IN  t \in State /\ Calm(t)
    BY <1>1, <1>3, <2>2, SelectCalm
  <2> QED
    BY <2>1, <2>3, HereNext
<1>11. CASE OnTimedLoginRequested
  <2>1. PICK atOnce \in BOOLEAN :
          LET s == [AddItems(Here, {AutoItem} \ chooser.rows) EXCEPT !.w.timed = TRUE]
          IN Becomes(IF window.loaded THEN RequestTimedLogin(s, atOnce) ELSE s)
    BY <1>11 DEF OnTimedLoginRequested
  <2>2. LET r == [AddItems(Here, {AutoItem} \ chooser.rows) EXCEPT !.w.timed = TRUE]
            t == IF window.loaded THEN RequestTimedLogin(r, atOnce) ELSE r
        IN  t \in State /\ Calm(t)
    BY <1>1, <1>3, RequestedCalm
  <2> QED
    BY <2>1, <2>2, HereNext
<1>12. CASE OnAuthenticationFailed
  BY <1>1, <1>3, <1>12, Resets, HereNext DEF OnAuthenticationFailed
<1>13. CASE OnReset
  BY <1>1, <1>3, <1>13, Resets, HereNext DEF OnReset
<1> QED
  BY <1>4, <1>5, <1>6, <1>7, <1>8, <1>9, <1>10, <1>11, <1>12, <1>13 DEF GreeterStep

LEMMA GreeterKeeps == IInv /\ GreeterStep => IInv'
<1> SUFFICES ASSUME IInv, GreeterStep PROVE IInv'
  OBVIOUS
<1>1. Calm(Here)'
  BY GreeterStepCalm
<1>2. slave' = slave
  BY DEF GreeterStep, Click, SlideEnds, UsersLoaded, OnUserAdded, OnUserRemoved, OnReady,
         OnSelectUser, OnTimedLoginRequested, OnAuthenticationFailed, OnReset, Dispatch
<1>3. signals' \in Seq(Signals)
  <2>1. signals' = signals \/ (signals # <<>> /\ signals' = Tail(signals))
    BY DEF GreeterStep, Click, SlideEnds, UsersLoaded, OnUserAdded, OnUserRemoved, OnReady,
           OnSelectUser, OnTimedLoginRequested, OnAuthenticationFailed, OnReset, Dispatch
  <2>2. signals \in Seq(Signals)
    BY DEF IInv
  <2> QED
    BY <2>1, <2>2, HeadTailProperties
<1>4. accounts' \in [new : SUBSET User, news : 0 .. MaxNews]
  <2>1. CASE UsersLoaded
    BY <2>1 DEF IInv, UsersLoaded
  <2>2. CASE OnUserAdded
    BY <2>2 DEF IInv, OnUserAdded
  <2>3. CASE OnUserRemoved
    BY <2>3, BoundsAssumption DEF IInv, OnUserRemoved
  <2>4. CASE ~(UsersLoaded \/ OnUserAdded \/ OnUserRemoved)
    <3>1. accounts' = accounts
      BY <2>4 DEF GreeterStep, Click, SlideEnds, OnReady, OnSelectUser,
                  OnTimedLoginRequested, OnAuthenticationFailed, OnReset, Dispatch
    <3> QED
      BY <3>1 DEF IInv
  <2> QED
    BY <2>1, <2>2, <2>3, <2>4
<1> QED
  BY <1>1, <1>2, <1>3, <1>4 DEF IInv

LEMMA SlaveKeeps == IInv /\ (ConversationStarts \/ ConversationEnds) => IInv'
<1> SUFFICES ASSUME IInv, ConversationStarts \/ ConversationEnds PROVE IInv'
  OBVIOUS
<1>1. Here' = Here /\ accounts' = accounts
  BY DEF ConversationStarts, ConversationEnds, Here
<1>2. CASE ConversationStarts
  <2> DEFINE more == IF slave.select # NoUser /\ slave.starts = 0 THEN <<"SelectUser">>
                     ELSE IF slave.timed THEN <<"TimedLoginRequested">> ELSE <<>>
  <2>1. <<"Ready">> \in Seq(Signals) /\ more \in Seq(Signals)
    <3>1. "Ready" \in Signals /\ "SelectUser" \in Signals /\ "TimedLoginRequested" \in Signals
      BY DEF Signals
    <3>2. <<>> \in Seq(Signals) /\ \A x \in Signals : <<x>> \in Seq(Signals)
      OBVIOUS
    <3> QED
      BY <3>1, <3>2
  <2>2. signals' = signals \o <<"Ready">> \o more
    BY <1>2 DEF ConversationStarts
  <2> HIDE DEF more
  <2>3. signals' \in Seq(Signals)
    BY <2>1, <2>2 DEF IInv
  <2>4. slave' \in [open : BOOLEAN, starts : 0 .. MaxStarts, select : User \cup {NoUser},
                    timed : BOOLEAN]
    <3> DEFINE n == slave.starts + 1
    <3>1. slave.starts \in 0 .. MaxStarts /\ slave.starts < MaxStarts
      BY <1>2 DEF IInv, ConversationStarts
    <3>2. n \in 0 .. MaxStarts
      BY <3>1, BoundsAssumption
    <3>3. slave' = [slave EXCEPT !.open = TRUE, !.starts = n]
      BY <1>2 DEF ConversationStarts
    <3> HIDE DEF n
    <3> QED
      BY <3>2, <3>3 DEF IInv
  <2> QED
    BY <1>1, <2>3, <2>4 DEF IInv
<1>3. CASE ConversationEnds
  <2>1. signals' \in Seq(Signals)
    BY <1>3 DEF IInv, ConversationEnds, Signals
  <2>2. slave' \in [open : BOOLEAN, starts : 0 .. MaxStarts, select : User \cup {NoUser},
                    timed : BOOLEAN]
    BY <1>3 DEF IInv, ConversationEnds
  <2> QED
    BY <1>1, <2>1, <2>2 DEF IInv
<1> QED
  BY <1>2, <1>3

LEMMA Invariance == IInv /\ [Next]_vars => IInv'
<1> SUFFICES ASSUME IInv, [Next]_vars PROVE IInv'
  OBVIOUS
<1>1. CASE UNCHANGED vars
  BY <1>1 DEF vars, IInv, Here
<1> QED
  BY <1>1, GreeterKeeps, SlaveKeeps DEF Next

-----------------------------------------------------------------------------
(* The theorems. *)

\* The invariant implies what the runs check.
LEMMA CalmTypes == IInv => TypeOK
<1> SUFFICES ASSUME IInv PROVE TypeOK
  OBVIOUS
<1>1. Here \in State /\ Here.c = chooser /\ Here.w = window /\ Calm(Here)
  BY HereNow DEF IInv
<1>2. chooser \in ChooserRecord /\ window \in WindowRecord
  BY <1>1 DEF State
<1>3. chooser.emit => chooser.held \/ chooser.crashed
  BY <1>1, <1>2 DEF Calm, Slides, Open, Chose, ChooserRecord
<1> QED
  BY <1>1, <1>2, <1>3 DEF IInv, TypeOK, Calm, RowsOK

LEMMA CalmSettled == IInv => Settled
<1> SUFFICES ASSUME IInv PROVE Settled
  OBVIOUS
<1>1. Here.c = chooser /\ Here.w = window /\ Calm(Here)
  BY HereNow DEF IInv
<1> QED
  BY <1>1 DEF Settled, Up, Calm, Slides, Open, Chose

\* The list and the window are of their types, and the list's reference to the active
\* row is never to a row that was removed (mdm_chooser_widget_remove_item).
THEOREM TypeCorrect == Spec => []TypeOK
<1> QED
  BY InitCalm, Invariance, CalmTypes, PTL DEF Spec

\* Between two slides the list and the conversation agree, whatever accounts there
\* are and whatever the slave sends during the slides.
THEOREM ListSettled == Spec => []Settled
<1> QED
  BY InitCalm, Invariance, CalmSettled, PTL DEF Spec
=============================================================================
