------------------------------ MODULE UserManager ------------------------------
(***************************************************************************)
(* The user manager of the greeter and the user list that follows it.       *)
(*                                                                         *)
(* The users come from AccountsService or, when it does not answer, from    *)
(* the passwd file, which a thread reads; more of them from the sessions of *)
(* the seat and from ck-history.  All of it runs at once: D-Bus replies and *)
(* signals, a child's output, a thread and timers, in one main loop whose   *)
(* idles run last.                                                          *)
(***************************************************************************)
EXTENDS Naturals

CONSTANTS
  Name,          \* user names
  Excluded,      \* exclude_usernames, "mdm", and the ids below minimal_uid
  Included,      \* include_usernames
  Seen,          \* the users whom sessions and ck-history name
  Network,       \* accounts that the name service knows and the file does not
  IncludeAll,    \* include_all
  SlowJobs,      \* a reload may take longer than RELOAD_PASSWD_THROTTLE_SECS
  MaxJobs,       \* reloads of the file that are under way at once (a bound)
  MaxSessions,   \* sessions that are asked about (a bound)
  MaxSignals,    \* UserAdded and UserDeleted,
  MaxChanges     \* and changes of the files with them (bounds)

ASSUME NamesAssumption ==
  /\ Excluded \subseteq Name /\ Included \subseteq Name
  /\ Seen \subseteq Name /\ Network \subseteq Name
  /\ IncludeAll \in BOOLEAN /\ SlowJobs \in BOOLEAN
ASSUME BoundsAssumption ==
  /\ MaxJobs \in Nat \ {0} /\ MaxSessions \in Nat
  /\ MaxSignals \in 0 .. MaxChanges /\ MaxChanges \in Nat

VARIABLES
  list,       \* what the manager and the list of the greeter hold
  seat,       \* seat.state: "unloaded", "session", "id", "loaded"
  proxy,      \* seat.proxy # NULL
  queued,     \* load_id
  accounts,   \* accounts_proxy # NULL
  listing,    \* listing_cached_users
  getting,    \* get_sessions_call: "none", "asked", "twice", "failed"
  asking,     \* new_sessions: how many of a user's wait for answers
  history,    \* ck-history: its pid, the watch of its output, the watchdog
  lines,      \* the users ck-history has still to name
  pending,    \* load_passwd_pending
  jobs,       \* the reloads
  monitors,   \* the files are monitored
  event,      \* a change of a monitored file is not noticed yet
  timer,      \* reload_passwd_id
  file,       \* /etc/passwd and /etc/shells
  crashed,    \* an assertion has failed, or NULL was used
  sessions, changes   \* (bound the model)

seats == <<seat, proxy, queued>>
calls == <<accounts, listing, getting, asking>>
output == <<history, lines>>
local == <<pending, jobs, monitors, event, timer>>
world == <<file, crashed, sessions, changes>>
vars == <<list, seats, calls, output, local, world>>

\* Where a new user is: waiting for its properties, for the manager to be
\* loaded, for FindUserByName, or for nothing any more.
Stage == {"props", "wait", "find", "stuck"}
Kind == {"path", "local"}   \* with an object path, from a passwd entry
Job == 1 .. MaxJobs
NoHistory == [pid |-> FALSE, watch |-> FALSE, dog |-> FALSE]
NoJob == [stage |-> "free", new |-> {}, added |-> {}, removed |-> {}]
NoList ==
  [users |-> [n \in Name |-> "no"],    \* users_by_name
   paths |-> {},                       \* users_by_object_path
   loading |-> [c \in Name \X Stage |-> 0],   \* new_users
   loaded |-> FALSE,                   \* is_loaded
   ready |-> FALSE,                    \* priv->loaded of the user chooser
   idle |-> FALSE,                     \* add_users_idle_id
   toAdd |-> {},                       \* users_to_add
   rows |-> [n \in Name |-> 0]]        \* the rows a user has in the list

Lists ==
  [users : [Name -> Kind \cup {"no"}], paths : SUBSET Name,
   loading : [Name \X Stage -> Nat], loaded : BOOLEAN,
   ready : BOOLEAN, idle : BOOLEAN, toAdd : SUBSET Name, rows : [Name -> Nat]]

Jobs == [stage : {"free", "queued", "read", "done"}, new : SUBSET Name,
         added : SUBSET Name, removed : SUBSET (Name \X Kind)]

\* Types of the variables.
TypeOK ==
  /\ list \in Lists
  /\ seat \in {"unloaded", "session", "id", "loaded"}
  /\ proxy \in BOOLEAN /\ queued \in BOOLEAN
  /\ accounts \in BOOLEAN /\ listing \in BOOLEAN
  /\ getting \in {"none", "asked", "twice", "failed"}
  /\ asking \in [Name -> 0 .. MaxSessions]
  /\ history \in [pid : BOOLEAN, watch : BOOLEAN, dog : BOOLEAN]
  /\ lines \subseteq Seen
  /\ pending \in BOOLEAN
  /\ jobs \in [Job -> Jobs]
  /\ monitors \in BOOLEAN /\ event \in BOOLEAN /\ timer \in BOOLEAN
  /\ file \in [Name -> {"absent", "shell", "nologin"}]
  /\ crashed \in BOOLEAN
  /\ sessions \in 0 .. MaxSessions /\ changes \in 0 .. MaxChanges

Init ==
  /\ list = NoList
  /\ seat = "unloaded" /\ proxy = FALSE
  /\ queued = TRUE   \* mdm_user_manager_queue_load of the user chooser
  /\ accounts = TRUE /\ listing = FALSE
  /\ getting = "none" /\ asking = [n \in Name |-> 0]
  /\ history = NoHistory /\ lines = Seen
  /\ pending = FALSE /\ jobs = [j \in Job |-> NoJob]
  /\ monitors = FALSE /\ event = FALSE /\ timer = FALSE
  /\ file \in [Name -> {"absent", "shell"}]
  /\ \A n \in Network : file[n] = "absent"
  /\ crashed = FALSE /\ sessions = 0 /\ changes = 0

HasEntry(n) == n \in Network \/ file[n] # "absent"   \* getpwnam

-----------------------------------------------------------------------------
(***************************************************************************)
(* The user chooser: its rows follow the signals of the manager.            *)
(***************************************************************************)
\* Signals before the first users are in the list are dropped.
OnUserAdded(l, n) == IF l.ready THEN l.rows[n] + 1 ELSE l.rows[n]

OnUserRemoved(l, n) ==
  IF l.ready /\ l.rows[n] > 0 THEN l.rows[n] - 1 ELSE l.rows[n]

\* The users of this moment, to be added by an idle.
OnIsLoaded(l) ==
  [l EXCEPT !.toAdd = {n \in Name : l.users[n] # "no"}, !.idle = TRUE]

-----------------------------------------------------------------------------
(***************************************************************************)
(* The tables of the manager.                                               *)
(* What is done for one user after the other is done for a set of them.     *)
(***************************************************************************)
\* Every n of ns: a user of that name is replaced; its path, if it had one, is not.
AddUser(l, ns, kind) ==
  [l EXCEPT !.users = [n \in Name |-> IF n \in ns THEN kind ELSE l.users[n]],
            !.paths = IF kind = "path" THEN @ \cup ns ELSE @,
            !.rows = [n \in Name |-> IF l.loaded /\ n \in ns
                                     THEN OnUserAdded(l, n) ELSE l.rows[n]]]

\* Every <<n, kind>> of us.
RemoveUser(l, us) ==
  LET ns == {n \in Name : \E kind \in Kind : <<n, kind>> \in us}
  IN [l EXCEPT !.users = [n \in Name |-> IF n \in ns THEN "no" ELSE l.users[n]],
               !.paths = {n \in @ : <<n, "path">> \notin us},
               !.rows = [n \in Name |-> IF l.loaded /\ n \in ns
                                        THEN OnUserRemoved(l, n) ELSE l.rows[n]]]

\* The entries of users_by_name for ns.
Entries(l, ns) == {<<n, l.users[n]>> : n \in {m \in ns : l.users[m] # "no"}}

SetLoaded(l) == IF l.loaded THEN l ELSE OnIsLoaded([l EXCEPT !.loaded = TRUE])

Create(l, ns, stage) ==
  [l EXCEPT !.loading = [c \in Name \X Stage |->
     IF c[1] \in ns /\ c[2] = stage THEN l.loading[c] + 1 ELSE l.loading[c]]]
Leave(l, n, stage) ==
  [l EXCEPT !.loading = [l.loading EXCEPT ![<<n, stage>>] = @ - 1]]
Moved(l, n, from, to) == Create(Leave(l, n, from), {n}, to)
NobodyNew(l) == \A n \in Name, s \in Stage : l.loading[<<n, s>>] = 0

\* on_new_user_loaded for every n of ns, which are no new users any more: they have
\* their names now.  An excluded one leaves before it is added.
Known(l, ns, kind) ==
  LET kept == ns \ Excluded
  IN AddUser(RemoveUser(l, Entries(l, kept)), kept, kind)

OnNewUserLoaded(l, n, kind, stage) ==
  LET known == Known(Leave(l, n, stage), {n}, kind)
  IN IF n \notin Excluded /\ NobodyNew(known) THEN SetLoaded(known) ELSE known

\* What happens to a user that is not looked for in the accounts service.
FetchLocally_Twice(l, n, stage) ==   \* mutant: the handler stays connected
  IF HasEntry(n)
  THEN OnNewUserLoaded(OnNewUserLoaded(l, n, "local", stage), n, "local", stage)
  ELSE Moved(l, n, stage, "stuck")

FetchLocally(l, n, stage) ==
  IF HasEntry(n) THEN OnNewUserLoaded(l, n, "local", stage)
  ELSE Moved(l, n, stage, "stuck")

AddNewUserForObjectPath(l, ns) == Create(l, ns \ l.paths, "props")

GetUser_Waits(l, n, hasAccounts) ==   \* mutant: it does not look at is_loaded
  IF l.users[n] # "no" THEN l
  ELSE IF hasAccounts THEN Create(l, {n}, "wait")
  ELSE FetchLocally(Create(l, {n}, "find"), n, "find")

GetUser(l, n, hasAccounts) ==
  IF l.users[n] # "no" THEN l
  ELSE IF hasAccounts THEN Create(l, {n}, IF l.loaded THEN "find" ELSE "wait")
  ELSE FetchLocally(Create(l, {n}, "find"), n, "find")

\* The requests that waited, at a time when the manager is loaded; without the
\* accounts service those for one user end as the first of them does.
OnManagerReady(l, hasAccounts) ==
  LET waiting == {n \in Name : l.loading[<<n, "wait">>] > 0}
      here == {n \in waiting : HasEntry(n)}
      asked == [l EXCEPT !.loading = [c \in Name \X Stage |->
                  CASE c[2] = "wait" -> 0
                    [] c[2] = "find" /\ hasAccounts -> l.loading[c] + l.loading[<<c[1], "wait">>]
                    [] c[2] = "stuck" /\ ~hasAccounts /\ c[1] \in waiting \ here ->
                         l.loading[c] + 1
                    [] OTHER -> l.loading[c]]]
  IN IF hasAccounts THEN asked ELSE Known(asked, here, "local")

\* maybe_set_is_loaded, at the end of a handler: the user chooser is told first,
\* then the requests that wait.  (When on_new_user_loaded sets is_loaded there is
\* no new user, so no request.)
MaybeSetIsLoaded(l) ==
  IF \/ l.loaded
     \/ history'.pid
     \/ pending'
     \/ getting' # "none"
     \/ listing'
     \/ seat' \notin {"loaded", "unloaded"}
  THEN l
  ELSE OnManagerReady(SetLoaded(l), accounts')

Up == ~crashed

\* Nothing is left of the process.
Crash ==
  /\ crashed' = TRUE
  /\ list' = NoList
  /\ seat' = "unloaded" /\ proxy' = FALSE /\ queued' = FALSE
  /\ accounts' = FALSE /\ listing' = FALSE
  /\ getting' = "none" /\ asking' = [n \in Name |-> 0]
  /\ history' = NoHistory /\ lines' = {}
  /\ pending' = FALSE /\ jobs' = [j \in Job |-> NoJob]
  /\ monitors' = FALSE /\ event' = FALSE /\ timer' = FALSE
  /\ UNCHANGED <<file, sessions, changes>>

-----------------------------------------------------------------------------
(***************************************************************************)
(* The seat: its session, its id, its proxy; then its sessions and history. *)
(***************************************************************************)
\* A second call overwrites get_sessions_call.
LoadSessions ==
  getting' = IF ~proxy' THEN getting
             ELSE IF getting = "asked" THEN "twice" ELSE "asked"

\* Without the seat's id, or when it cannot be spawned, there is none.
LoadCkHistory(hasSeat) ==
  \/ hasSeat /\ history' = [pid |-> TRUE, watch |-> TRUE, dog |-> TRUE]
  \/ UNCHANGED history

UnloadSeat == seat' = "unloaded" /\ proxy' = FALSE

LoadIdle ==
  /\ Up /\ queued
  /\ queued' = FALSE /\ seat' = "session" /\ listing' = TRUE
  /\ UNCHANGED <<list, proxy, accounts, getting, asking, output, local, world>>

OnGetCurrentSessionFinished ==
  /\ Up /\ seat = "session"
  /\ UNCHANGED <<queued, calls, output, local, world>>
  /\ \/ seat' = "id" /\ UNCHANGED <<list, proxy>>
     \/ UnloadSeat /\ list' = MaybeSetIsLoaded(list)

\* With the seat's id its proxy is made at once, if ConsoleKit is there.
OnGetSeatIdFinished ==
  /\ Up /\ seat = "id"
  /\ \/ /\ seat' = "loaded" /\ proxy' = TRUE
        /\ LoadSessions
        /\ LoadCkHistory(TRUE)
     \/ UnloadSeat /\ UNCHANGED <<getting, history>>
  /\ UNCHANGED <<queued, accounts, listing, asking, lines, local, world>>
  /\ list' = MaybeSetIsLoaded(list)

\* ConsoleKit is gone, and with the proxy the call it had not answered.
OnSeatProxyDestroy ==
  /\ Up /\ proxy
  /\ proxy' = FALSE
  /\ getting' = IF getting = "none" THEN "none" ELSE "failed"
  /\ UNCHANGED <<list, seat, queued, accounts, listing, asking, output, local, world>>

-----------------------------------------------------------------------------
(***************************************************************************)
(* Sessions of the seat.                                                    *)
(***************************************************************************)
LoadNewSession(n) ==
  /\ sessions < MaxSessions
  /\ sessions' = sessions + 1
  /\ asking' = [asking EXCEPT ![n] = @ + 1]

\* A failed GetSessions leaves get_sessions_call.
OnGetSessionsFinished ==
  /\ Up /\ getting = "asked"
  /\ UNCHANGED <<seats, accounts, listing, output, local, file, crashed, changes>>
  /\ \/ getting' = "failed" /\ UNCHANGED <<list, asking, sessions>>
     \/ /\ getting' = "none"
        /\ \/ \E n \in Seen : LoadNewSession(n)
           \/ UNCHANGED <<asking, sessions>>
        /\ list' = MaybeSetIsLoaded(list)

\* g_assert (manager->priv->get_sessions_call == call)
OnFirstGetSessionsFinished == Up /\ getting = "twice" /\ Crash

SeatSessionAdded ==
  /\ Up /\ proxy
  /\ \E n \in Seen : LoadNewSession(n)
  /\ UNCHANGED <<list, seats, accounts, listing, getting, output, local, file,
                 crashed, changes>>

\* A session that is asked about is dropped.
UnloadNewSession(n) ==
  /\ asking[n] > 0
  /\ asking' = [asking EXCEPT ![n] = @ - 1]

\* It has no proxy, GetUnixUser or GetX11Display fails, or it is on no display
\* of this seat.
NewSessionFails ==
  /\ Up
  /\ \E n \in Name : UnloadNewSession(n)
  /\ UNCHANGED <<list, seats, accounts, listing, getting, output, local, world>>

\* The session ended before its calls were answered.  (One that was added already
\* leaves its user's sessions, which the list does not depend on.)
SeatSessionRemoved ==
  /\ Up /\ proxy
  /\ \E n \in Name : UnloadNewSession(n)
  /\ UNCHANGED <<list, seats, accounts, listing, getting, output, local, world>>

\* GetUnixUser and GetX11Display are answered; maybe_add_new_session: the user
\* of the session is wanted in the list.
AddNewSession ==
  /\ Up
  /\ \E n \in Name :
       /\ UnloadNewSession(n)
       /\ IF HasEntry(n) /\ n \notin Excluded
          THEN /\ list' = GetUser(list, n, accounts)
               /\ seat' = "loaded"
          ELSE UNCHANGED <<list, seat>>
  /\ UNCHANGED <<proxy, queued, accounts, listing, getting, output, local, world>>

-----------------------------------------------------------------------------
(***************************************************************************)
(* ck-history.                                                              *)
(***************************************************************************)
CkHistoryLine ==
  /\ Up /\ history.watch
  /\ \E n \in lines :
       /\ lines' = lines \ {n}
       /\ list' = IF n \in Excluded THEN list ELSE GetUser(list, n, accounts)
  /\ UNCHANGED <<seats, calls, history, local, world>>

CkHistoryEnds_Silent ==   \* mutant: the end of the output is not looked at
  /\ Up /\ history.watch
  /\ history' = NoHistory
  /\ UNCHANGED <<list, seats, calls, lines, local, world>>

CkHistoryEnds ==
  /\ Up /\ history.watch
  /\ history' = NoHistory
  /\ UNCHANGED <<seats, calls, lines, local, world>>
  /\ list' = MaybeSetIsLoaded(list)

\* After a second it is killed; the end of its output is still to come.
CkHistoryWatchdog ==
  /\ Up /\ history.dog
  /\ history' = [history EXCEPT !.pid = FALSE, !.dog = FALSE]
  /\ UNCHANGED <<list, seats, calls, lines, local, world>>

-----------------------------------------------------------------------------
(***************************************************************************)
(* AccountsService.                                                         *)
(***************************************************************************)
\* mdm_user_manager_get_user for the users who are always in the list.
IncludedUsers(l) ==
  Create(l, {n \in Included : l.users[n] = "no"}, IF l.loaded THEN "find" ELSE "wait")

\* ListCachedUsers is answered.  The manager may be loaded before its users are.
OnListCachedUsersFinished ==
  /\ Up /\ listing /\ accounts
  /\ listing' = FALSE
  /\ UNCHANGED <<seats, accounts, getting, asking, output, local, world>>
  /\ \E cached \in SUBSET Name :
       list' = IncludedUsers(AddNewUserForObjectPath(MaybeSetIsLoaded(list), cached))

ScheduleReload ==
  /\ \E j \in Job :
       /\ jobs[j].stage = "free"
       /\ \A i \in 1 .. j - 1 : jobs[i].stage # "free"
       /\ jobs' = [jobs EXCEPT ![j].stage = "queued"]
  /\ pending' = TRUE

\* It is not: load_users_manually.  With the proxy go the calls made on it.
\* g_assert (manager->priv->ck_history_id == 0)
OnListCachedUsersFails ==
  /\ Up /\ listing
  /\ IF history.watch
     THEN Crash
     ELSE /\ listing' = FALSE /\ accounts' = FALSE
          /\ list' = [list EXCEPT !.loading =
                [c \in Name \X Stage |->
                   CASE c[2] = "find" -> 0
                     [] c[2] = "stuck" -> @[c] + @[<<c[1], "find">>]
                     [] OTHER -> @[c]]]
          /\ UNCHANGED <<seats, asking, lines, monitors, event, timer, world>>
          /\ LoadSessions
          /\ LoadCkHistory(seat = "loaded")
          /\ ScheduleReload

\* UserAdded.
OnNewUserInAccountsService ==
  /\ Up /\ accounts /\ changes < MaxSignals
  /\ changes' = changes + 1
  /\ \E n \in Name : list' = AddNewUserForObjectPath(list, {n})
  /\ UNCHANGED <<seats, calls, output, local, file, crashed, sessions>>

\* UserDeleted.  A user whose path is not known is NULL for remove_user.
OnUserRemovedInAccountsService ==
  /\ Up /\ accounts /\ changes < MaxSignals
  /\ \E n \in Name :
       IF n \in list.paths
       THEN /\ list' = RemoveUser(list, {<<n, "path">>})
            /\ changes' = changes + 1
            /\ UNCHANGED <<seats, calls, output, local, file, crashed, sessions>>
       ELSE Crash

\* GetAll of a user; on_get_all_finished.
OnUserProperties ==
  /\ Up
  /\ \E n \in Name :
       /\ list.loading[<<n, "props">>] > 0
       /\ \/ list' = OnNewUserLoaded(list, n, "path", "props")
          \/ list' = Moved(list, n, "props", "stuck")
  /\ UNCHANGED <<seats, calls, output, local, world>>

OnFindUserByNameFinished ==
  /\ Up /\ accounts
  /\ \E n \in Name :
       /\ list.loading[<<n, "find">>] > 0
       /\ \/ list' = Moved(list, n, "find", "props")
          \/ list' = FetchLocally(list, n, "find")
  /\ UNCHANGED <<seats, calls, output, local, world>>

-----------------------------------------------------------------------------
(***************************************************************************)
(* The passwd file.  A job's thread reads users_by_name twice, with the      *)
(* look-ups of every name in between, while the main loop changes it.        *)
(***************************************************************************)
Listed == {n \in Name : list.users[n] # "no"}

Wanted ==
  {n \in Included : HasEntry(n)} \cup
  (IF IncludeAll THEN {n \in Name \ Excluded : file[n] = "shell"} ELSE {})

\* Users who are in the list stay while they have an entry.
ReloadReads(j) ==
  /\ Up /\ jobs[j].stage = "queued"
  /\ jobs' = [jobs EXCEPT ![j].stage = "read",
                          ![j].new = {n \in Listed : HasEntry(n)} \cup Wanted]
  /\ UNCHANGED <<list, seats, calls, output, pending, monitors, event, timer, world>>

ReloadCompares(j) ==
  /\ Up /\ jobs[j].stage = "read"
  /\ jobs' = [jobs EXCEPT ![j].stage = "done",
                ![j].added = jobs[j].new \ Listed,
                ![j].removed = Entries(list, Name \ jobs[j].new)]
  /\ UNCHANGED <<list, seats, calls, output, pending, monitors, event, timer, world>>

\* monitor_local_users: from the first reload on, if nothing else has set
\* is_loaded before it.
MonitorLocalUsers == monitors' = (monitors \/ (IncludeAll /\ ~list.loaded))

ReloadPasswdJobDone(j) ==
  LET known == RemoveUser(AddUser(list, jobs[j].added, "local"), jobs[j].removed)
  IN /\ Up /\ jobs[j].stage = "done"
     /\ jobs' = [jobs EXCEPT ![j] = NoJob]
     /\ pending' = FALSE
     /\ MonitorLocalUsers
     /\ UNCHANGED <<seats, calls, output, event, timer, world>>
     /\ list' = MaybeSetIsLoaded(known)

\* An account comes or goes, or its shell does.
FilesChange ==
  /\ Up /\ changes < MaxChanges
  /\ \E n \in Name \ Network, e \in {"absent", "shell", "nologin"} :
       e # file[n] /\ file' = [file EXCEPT ![n] = e]
  /\ changes' = changes + 1
  /\ event' = (event \/ monitors)
  /\ UNCHANGED <<list, seats, calls, output, pending, jobs, monitors, timer,
                 crashed, sessions>>

OnFileChanged_Busy ==   \* mutant: no second reload while one is under way
  /\ Up /\ event
  /\ event' = FALSE /\ timer' = (timer \/ ~pending)
  /\ UNCHANGED <<list, seats, calls, output, pending, jobs, monitors, world>>

\* The throttle starts again with every event.
OnFileChanged ==
  /\ Up /\ event
  /\ event' = FALSE /\ timer' = TRUE
  /\ UNCHANGED <<list, seats, calls, output, pending, jobs, monitors, world>>

ReloadPasswdIdle ==
  /\ Up /\ timer
  /\ SlowJobs \/ \A j \in Job : jobs[j].stage = "free"
  /\ timer' = FALSE
  /\ ScheduleReload
  /\ UNCHANGED <<list, seats, calls, output, monitors, event, world>>

-----------------------------------------------------------------------------
(***************************************************************************)
(* The idle of the user chooser, a user at a time (50 in the code).         *)
(***************************************************************************)
AddUsers ==
  /\ Up /\ list.idle
  /\ \/ /\ list.toAdd = {}
        /\ list' = [list EXCEPT !.ready = TRUE, !.idle = FALSE]
     \/ \E n \in list.toAdd :
          list' = [list EXCEPT !.ready = TRUE,
                               !.toAdd = @ \ {n},
                               !.rows[n] = @ + 1,
                               !.idle = (list.toAdd # {n})]
  /\ UNCHANGED <<seats, calls, output, local, world>>

-----------------------------------------------------------------------------
Seats ==
  \/ LoadIdle \/ OnGetCurrentSessionFinished \/ OnGetSeatIdFinished
  \/ OnSeatProxyDestroy

Sessions ==
  \/ OnGetSessionsFinished \/ OnFirstGetSessionsFinished
  \/ SeatSessionAdded \/ SeatSessionRemoved \/ NewSessionFails
  \/ AddNewSession

History == CkHistoryLine \/ CkHistoryEnds \/ CkHistoryWatchdog

Accounts ==
  \/ OnListCachedUsersFinished \/ OnListCachedUsersFails
  \/ OnNewUserInAccountsService \/ OnUserRemovedInAccountsService
  \/ OnUserProperties \/ OnFindUserByNameFinished

Reloads ==
  \/ \E j \in Job : ReloadReads(j) \/ ReloadCompares(j) \/ ReloadPasswdJobDone(j)
  \/ FilesChange \/ OnFileChanged \/ ReloadPasswdIdle

Next == Seats \/ Sessions \/ History \/ Accounts \/ Reloads \/ AddUsers
Spec == Init /\ [][Next]_vars

\* D-Bus calls are answered or time out, except GetAll, which has no time limit;
\* a child that was killed ends; threads, timers and idles have their turn.
FairSpec ==
  /\ Spec
  /\ WF_vars(LoadIdle)
  /\ WF_vars(OnGetCurrentSessionFinished)
  /\ WF_vars(OnGetSeatIdFinished)
  /\ WF_vars(OnGetSessionsFinished \/ OnFirstGetSessionsFinished)
  /\ WF_vars(OnListCachedUsersFinished \/ OnListCachedUsersFails)
  /\ WF_vars(CkHistoryWatchdog)
  /\ WF_vars(~history.dog /\ CkHistoryEnds)
  /\ \A j \in Job :
       WF_vars(ReloadReads(j) \/ ReloadCompares(j) \/ ReloadPasswdJobDone(j))
  /\ WF_vars(OnFileChanged)
  /\ WF_vars(ReloadPasswdIdle)
  /\ WF_vars(AddUsers)

-----------------------------------------------------------------------------
(***************************************************************************)
(* Properties.                                                              *)
(***************************************************************************)
\* A request that waits for the manager to be loaded is never forgotten: the two
\* places that set is_loaded leave none, and none waits for it afterwards.
NobodyWaits == list.loaded => \A n \in Name : list.loading[<<n, "wait">>] = 0

\* The greeter gets its user list, whatever the accounts service, ConsoleKit,
\* ck-history and the passwd file do, except that GetSessions fails (it leaves
\* get_sessions_call) or the greeter aborts.
Loads == <>(list.ready \/ getting = "failed" \/ crashed)

\* The list holds the users of the passwd file, and no user without an account.
Followed ==
  \A n \in Name :
    /\ file[n] = "shell" /\ n \notin Excluded => n \in Listed
    /\ ~HasEntry(n) => n \notin Listed

\* A change of the monitored files gets into the list, in spite of the throttle
\* and of a reload that is under way (and ends before the throttle does).
FileFollowed == event ~> Followed \/ crashed
==============================================================================
