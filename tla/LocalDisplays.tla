---------------------------- MODULE LocalDisplays ----------------------------
(***************************************************************************)
(* The local displays of the daemon: MdmLocalDisplayFactory, the MdmDisplay *)
(* objects it makes, the MdmDisplayStore that owns them, and the           *)
(* MdmSlaveProxy that runs one slave process for each.  The daemon is one   *)
(* GLib main loop, so a callback with everything it calls is one action;    *)
(* the slave processes end on their own.                                    *)
(*                                                                         *)
(* A "static" display is the login screen; a "transient" one stands for     *)
(* the transient, guest, user-switch and product displays, whose finish()   *)
(* is the same.                                                             *)
(***************************************************************************)
EXTENDS Integers, FiniteSets

CONSTANTS
  StaticDisplay,     \* MdmStaticDisplay objects that may ever be made (a bound)
  TransientDisplay,  \* transient objects that may ever be made (a bound)
  MaxFailures        \* MAX_DISPLAY_FAILURES

ASSUME DisplayAssumption ==
  /\ IsFiniteSet(StaticDisplay) /\ IsFiniteSet(TransientDisplay)
  /\ StaticDisplay \cap TransientDisplay = {}
ASSUME MaxFailuresAssumption == MaxFailures \in Nat

Display == StaticDisplay \cup TransientDisplay

VARIABLES
  disp,         \* the fields of each MdmDisplay, with its slave proxy
  store,        \* MdmDisplayStore: the displays it holds the reference of
  reserved,     \* factory->priv->displays: the X display numbers taken
  numFailures,  \* factory->priv->num_failures
  started,      \* mdm_local_display_factory_start has run
  granted       \* history: displays whose slave was given a timed login

vars == <<disp, store, reserved, numFailures, started, granted>>

\* MdmDisplayStatus as far as it is ever set; "absent": not constructed yet.
Statuses == {"absent", "UNMANAGED", "PREPARED", "FAILED"}

\* "none": slave_proxy is NULL;  "unspawned": the fork failed, nothing to watch;
\* "running";  "zombie": ended, child_watch not dispatched;  "reaped": pid -1.
Proxies == {"none", "unspawned", "running", "zombie", "reaped"}
Spawns == {"running", "unspawned"}

Record == [status : Statuses, number : Nat, proxy : Proxies,
           idle : BOOLEAN,    \* finish_idle_id # 0
           timed : BOOLEAN]   \* enable_timed_login

Absent == [status |-> "absent", number |-> 0, proxy |-> "none",
           idle |-> FALSE, timed |-> FALSE]

Made(d) == disp[d].status # "absent"
GaveUp == numFailures > MaxFailures

\* At most one number is reserved per display, so a free one is in this range.
Numbers == 0 .. Cardinality(Display)

(***************************************************************************)
(* take_next_display_number: zero if it is free, else the first hole.       *)
(***************************************************************************)
NextNumber_OfStoredOnly(n) ==   \* mutant: numbers of failed displays are free
  /\ n \notin {disp[d].number : d \in store}
  /\ \A m \in 0 .. n - 1 : m \in {disp[d].number : d \in store}

NextNumber(n) ==
  /\ n \notin reserved
  /\ \A m \in 0 .. n - 1 : m \in reserved

(***************************************************************************)
(* A display constructed, stored and managed: real_manage prepares it and   *)
(* starts the slave.  Nothing looks at whether the fork succeeded (p).      *)
(***************************************************************************)
Managed(d, n, p) ==
  [status |-> "PREPARED", number |-> n, proxy |-> p,
   idle |-> FALSE, timed |-> (d \in StaticDisplay)]

\* mutants: the id of finish_idle is not cleared; the number is forgotten.
Unmanaged_IdleLeft(r, short) ==
  [status |-> IF short THEN "FAILED" ELSE "UNMANAGED", number |-> r.number,
   proxy |-> "none", idle |-> r.idle, timed |-> FALSE]
Unmanaged_NumberCleared(r, short) ==
  [status |-> IF short THEN "FAILED" ELSE "UNMANAGED", number |-> -1,
   proxy |-> "none", idle |-> FALSE, timed |-> FALSE]

\* mdm_display_real_unmanage: stop the slave, then FAILED if it lasted < 3 s.
Unmanaged(r, short) ==
  [status |-> IF short THEN "FAILED" ELSE "UNMANAGED", number |-> r.number,
   proxy |-> "none", idle |-> FALSE, timed |-> FALSE]

Restarted_NotManaged(r, p) == Unmanaged(r, FALSE)   \* mutant: only unmanaged

\* A static display managed again: it keeps its number, not its timed login.
Restarted(r, p) ==
  [status |-> "PREPARED", number |-> r.number, proxy |-> p,
   idle |-> FALSE, timed |-> FALSE]

TooMany_OffByOne(k) == k >= MaxFailures   \* mutant

\* The test of num_failures, just counted, against MAX_DISPLAY_FAILURES.
TooMany(k) == k > MaxFailures

Init ==
  /\ disp = [d \in Display |-> Absent]
  /\ store = {}
  /\ reserved = {}
  /\ numFailures = 0
  /\ started = FALSE
  /\ granted = {}

-----------------------------------------------------------------------------
\* mdm_local_display_factory_start -> create_display.
Start(d) ==
  \E n \in Numbers, p \in Spawns :
    /\ ~started
    /\ ~Made(d)
    /\ NextNumber(n)
    /\ started' = TRUE
    /\ disp' = [disp EXCEPT ![d] = Managed(d, n, p)]
    /\ store' = store \cup {d}
    /\ reserved' = reserved \cup {n}
    /\ UNCHANGED <<numFailures, granted>>

\* CreateTransientDisplay, StartGuestSession, SwitchToUser, CreateProductDisplay.
CreateTransient(d) ==
  \E n \in Numbers, p \in Spawns :
    /\ ~Made(d)
    /\ NextNumber(n)
    /\ disp' = [disp EXCEPT ![d] = Managed(d, n, p)]
    /\ store' = store \cup {d}
    /\ reserved' = reserved \cup {n}
    /\ UNCHANGED <<numFailures, started, granted>>

\* The slave asks GetTimedLoginDetails while it runs.
GetTimedLoginDetails(d) ==
  /\ disp[d].proxy = "running"
  /\ disp[d].timed
  /\ granted' = granted \cup {d}
  /\ UNCHANGED <<disp, store, reserved, numFailures, started>>

\* The slave process exits or is killed.
SlaveEnds(d) ==
  /\ disp[d].proxy = "running"
  /\ disp' = [disp EXCEPT ![d].proxy = "zombie"]
  /\ UNCHANGED <<store, reserved, numFailures, started, granted>>

\* child_watch -> slave_exited / slave_died -> queue_finish.
ChildWatch(d) ==
  /\ disp[d].proxy = "zombie"
  /\ disp' = [disp EXCEPT ![d].proxy = "reaped", ![d].idle = TRUE]
  /\ UNCHANGED <<store, reserved, numFailures, started, granted>>

\* finish_idle on a transient display: finish, then unmanage; nobody listens.
FinishTransient(d) ==
  \E short \in BOOLEAN :
    /\ disp[d].idle
    /\ disp' = [disp EXCEPT ![d] = Unmanaged(@, short)]
    /\ UNCHANGED <<store, reserved, numFailures, started, granted>>

\* finish_idle on a static display that lasted: unmanage, then manage again.
RestartStatic(d) ==
  \E p \in Spawns :
    /\ disp[d].idle
    /\ disp' = [disp EXCEPT ![d] = Restarted(@, p)]
    /\ UNCHANGED <<store, reserved, numFailures, started, granted>>

\* The FAILED branch of on_static_display_status_changed, from inside unmanage:
\* drop the display, keep its number, and make another unless it is one too many.
FailStatic(d) ==
  /\ disp[d].idle
  /\ numFailures' = numFailures + 1
  /\ \/ /\ TooMany(numFailures')
        /\ disp' = [disp EXCEPT ![d] = Unmanaged(@, TRUE)]
        /\ store' = store \ {d}
        /\ UNCHANGED reserved
     \/ /\ ~TooMany(numFailures')
        /\ \E e \in StaticDisplay, n \in Numbers, p \in Spawns :
             /\ ~Made(e)
             /\ NextNumber(n)
             /\ disp' = [disp EXCEPT ![d] = Unmanaged(@, TRUE),
                                     ![e] = Managed(e, n, p)]
             /\ store' = (store \ {d}) \cup {e}
             /\ reserved' = reserved \cup {n}
  /\ UNCHANGED <<started, granted>>

Next ==
  \/ \E d \in StaticDisplay :
       Start(d) \/ RestartStatic(d) \/ FailStatic(d) \/ GetTimedLoginDetails(d)
  \/ \E d \in TransientDisplay : CreateTransient(d) \/ FinishTransient(d)
  \/ \E d \in Display : SlaveEnds(d) \/ ChildWatch(d)

Spec == Init /\ [][Next]_vars

-----------------------------------------------------------------------------
\* Every field holds a value the code can put there.
TypeOK ==
  /\ disp \in [Display -> Record]
  /\ store \subseteq Display
  /\ reserved \subseteq Nat
  /\ numFailures \in Nat
  /\ started \in BOOLEAN
  /\ granted \subseteq StaticDisplay

\* No X display number is ever handed out twice: a number stays reserved even
\* after its display failed ("so that it doesn't get reused"), so no later
\* display can collide with a server that may still hold it.
NumbersDistinct ==
  \A d, e \in Display :
    Made(d) /\ Made(e) /\ d # e => disp[d].number # disp[e].number

\* The login screen: as long as the factory has not given up there is exactly
\* one static display in the store, and after it gave up there is none.
OneLoginDisplay ==
  IF started /\ ~GaveUp
    THEN \E d \in StaticDisplay : store \cap StaticDisplay = {d}
    ELSE store \cap StaticDisplay = {}

\* A callback that would run on a finalized display: a slave being watched or a
\* finish_idle queued for a display whose last reference the store gave up.
NoCallbackOnDropped ==
  \A d \in Display :
    disp[d].idle \/ disp[d].proxy \in {"running", "zombie"} => d \in store

\* A managed display has a slave, or its finish_idle is on its way, unless the
\* fork of its slave failed: no display is forgotten between the callbacks.
Supervised ==
  \A d \in Display :
    disp[d].status = "PREPARED" =>
      \/ disp[d].proxy \in {"running", "zombie", "unspawned"}
      \/ disp[d].proxy = "reaped" /\ disp[d].idle
=============================================================================
