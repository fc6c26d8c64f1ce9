---------------------------- MODULE GuestDisplays ----------------------------
(***************************************************************************)
(* The displays of the daemon with guest sessions.  For one of those the    *)
(* daemon makes the account with a script and removes it with another, and  *)
(* its main loop waits for the script.  Slaves end meanwhile; but so that   *)
(* g_spawn_sync can wait, SIGCHLD has its default action, and what GLib     *)
(* hears of them then depends on its version.                               *)
(***************************************************************************)
EXTENDS LocalDisplays

VARIABLES
  guests,    \* the displays that are MdmGuestDisplays
  shown,     \* those of them whose session ConsoleKit has registered
  account,   \* the guest account exists
  script,    \* what the main loop waits for: a script, for a display
  unheard,   \* displays whose slave has ended and of which GLib has not heard
  raced      \* history: a guest display was made beside one that was not found

guestVars == <<guests, shown, account, script, unheard, raced>>
allVars == <<vars, guestVars>>

NoScript == "none"

ASSUME ScriptAssumption == TransientDisplay \cap {NoScript, "setup"} = {}

\* Types of the variables.
GuestTypeOK ==
  /\ TypeOK
  /\ shown \subseteq guests /\ guests \subseteq TransientDisplay
  /\ account \in BOOLEAN /\ raced \in BOOLEAN
  /\ script \in {NoScript, "setup"} \cup guests
  /\ unheard \subseteq Display

GuestInit ==
  /\ Init
  /\ guests = {} /\ shown = {} /\ account = FALSE
  /\ script = NoScript /\ unheard = {} /\ raced = FALSE

\* The main loop waits for no script.
Free == script = NoScript

-----------------------------------------------------------------------------
(***************************************************************************)
(* The main loop of the daemon, when it is free.                            *)
(***************************************************************************)
Dispatch == Free /\ UNCHANGED guestVars

HearsOf(d) == Dispatch /\ d \notin unheard /\ ChildWatch(d)
Renew(d) == Dispatch /\ (RestartStatic(d) \/ FailStatic(d))
Finish(d) == Dispatch /\ d \notin guests /\ FinishTransient(d)

\* SwitchToUser, for a user who has no session to switch to or when ConsoleKit
\* does not switch; CreateTransientDisplay; CreateProductDisplay.
SwitchToUser(d) == Dispatch /\ CreateTransient(d)

Daemon ==
  \/ \E d \in StaticDisplay :
       Renew(d) \/ (Dispatch /\ (Start(d) \/ GetTimedLoginDetails(d)))
  \/ \E d \in TransientDisplay : Finish(d) \/ SwitchToUser(d)
  \/ \E d \in Display : HearsOf(d)

-----------------------------------------------------------------------------
(***************************************************************************)
(* Slaves.                                                                  *)
(***************************************************************************)
\* With a SIGCHLD that it gets, GLib looks at all the children it watches.
SlaveOfDisplayEnds(d) ==
  /\ SlaveEnds(d)
  /\ shown' = shown \ {d}
  /\ IF Free THEN unheard' = {} ELSE unheard' \in {unheard, unheard \cup {d}}
  /\ UNCHANGED <<guests, account, script, raced>>

\* The slave of a guest display has logged the guest in, at once and by itself.
GuestLoggedIn(d) ==
  /\ d \in guests /\ disp[d].proxy = "running" /\ account
  /\ shown' = shown \cup {d}
  /\ UNCHANGED <<vars, guests, account, script, unheard, raced>>

-----------------------------------------------------------------------------
(***************************************************************************)
(* Guest sessions.                                                          *)
(***************************************************************************)
\* switch_to_guest_display: there is an account, ConsoleKit (ck) knows a session
\* of it and activates that.
SwitchToGuest_Never(ck) == FALSE   \* mutant: it does not look for one

SwitchToGuest(ck) == account /\ ck /\ shown # {}

\* StartGuestSession, when there is none to switch to.
StartGuestSession ==
  /\ Free
  /\ \E ck \in BOOLEAN :
       /\ ~SwitchToGuest(ck)
       /\ raced' = (raced \/ \E d \in guests :
                      disp[d].status = "PREPARED" /\ ~(ck /\ d \in shown))
  /\ script' = "setup"
  /\ UNCHANGED <<vars, guests, shown, account, unheard>>

\* The setup script has failed, or has printed the name of the account.
GuestAccountSetUp ==
  /\ script = "setup"
  /\ script' = NoScript
  /\ \/ account' \in {account, TRUE} /\ UNCHANGED <<vars, guests>>
     \/ /\ account' = TRUE
        /\ \E d \in TransientDisplay : CreateTransient(d) /\ guests' = guests \cup {d}
  /\ UNCHANGED <<shown, unheard, raced>>

\* mdm_guest_display_finish begins with the cleanup script,
GuestFinishes(d) ==
  /\ Free
  /\ d \in guests /\ disp[d].idle
  /\ script' = d
  /\ UNCHANGED <<vars, guests, shown, account, unheard, raced>>

\* and finishes the display when it has ended, whether it succeeded or not.
GuestCleanedUp ==
  /\ script \in guests
  /\ FinishTransient(script)
  /\ script' = NoScript
  /\ account' \in {account, FALSE}
  /\ UNCHANGED <<guests, shown, unheard, raced>>

-----------------------------------------------------------------------------
Guest ==
  \/ StartGuestSession \/ GuestAccountSetUp
  \/ \E d \in TransientDisplay : GuestFinishes(d)
  \/ GuestCleanedUp

Slave == \E d \in Display : SlaveOfDisplayEnds(d) \/ GuestLoggedIn(d)

GuestNext == Daemon \/ Slave \/ Guest

GuestSpec == GuestInit /\ [][GuestNext]_allVars

\* Scripts end, and the main loop has its turn between them, however often guest
\* sessions are asked for.
FairGuestSpec ==
  /\ GuestSpec
  /\ WF_allVars(GuestAccountSetUp \/ GuestCleanedUp)
  /\ SF_allVars(\/ \E d \in Display : HearsOf(d)
                \/ \E d \in StaticDisplay : Renew(d))

-----------------------------------------------------------------------------
\* No guest is left without an account: it stays while a guest session runs,
\* unless a guest display was made beside another whose session ConsoleKit did not
\* show: it was not open yet, or over and not cleaned up, or the call failed.
AccountKept == shown # {} => account \/ raced

\* After the slave of the login display ends, a login display runs again, unless
\* the factory gave up, the fork failed, or the end came while a script ran and no
\* other child has ended since.
LoginComesBack ==
  \A d \in StaticDisplay :
    disp[d].proxy = "zombie" ~>
      \/ GaveUp
      \/ d \in unheard
      \/ \E e \in store \cap StaticDisplay :
           disp[e].proxy \in {"running", "unspawned"}
===============================================================================
