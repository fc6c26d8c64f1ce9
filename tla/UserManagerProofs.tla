------------------------- MODULE UserManagerProofs -------------------------
(***************************************************************************)
(* Theorems about UserManager, for any users, any users that are excluded   *)
(* or included, any reloads, sessions and changes.  Most steps change the   *)
(* list by the operations of its tables, so what each of these keeps of a   *)
(* list is a lemma of its own.                                              *)
(***************************************************************************)
EXTENDS UserManager, TLAPS

\* What every operation keeps: a list of its type in which nobody waits for a
\* manager that is loaded.
Sound(l) ==
  /\ l \in Lists
  /\ l.loaded => \A n \in Name : l.loading[<<n, "wait">>] = 0

\* A user's sessions that wait for answers were asked about.
Asked == \A n \in Name : asking[n] <= sessions

UInv == TypeOK /\ NobodyWaits /\ Asked

-----------------------------------------------------------------------------
(***************************************************************************)
(* The operations of the tables.                                            *)
(***************************************************************************)
LEMMA LoadingChanges ==
  ASSUME NEW l \in Lists, NEW f \in [Name \X Stage -> Nat]
  PROVE  /\ [l EXCEPT !.loading = f] \in Lists
         /\ [l EXCEPT !.loading = f].loading = f
         /\ [l EXCEPT !.loading = f].loaded = l.loaded
BY DEF Lists

LEMMA AddsUser ==
  ASSUME NEW l \in Lists, NEW ns \in SUBSET Name, NEW kind \in Kind
  PROVE  /\ AddUser(l, ns, kind) \in Lists
         /\ AddUser(l, ns, kind).loading = l.loading
         /\ AddUser(l, ns, kind).loaded = l.loaded
<1> DEFINE u == [n \in Name |-> IF n \in ns THEN kind ELSE l.users[n]]
           p == IF kind = "path" THEN l.paths \cup ns ELSE l.paths
           r == [n \in Name |-> IF l.loaded /\ n \in ns
                                THEN OnUserAdded(l, n) ELSE l.rows[n]]
           k == [l EXCEPT !.users = u, !.paths = p, !.rows = r]
<1>1. u \in [Name -> Kind \cup {"no"}] /\ p \in SUBSET Name
  BY DEF Lists
<1>2. \A n \in Name : OnUserAdded(l, n) \in Nat /\ l.rows[n] \in Nat
  BY DEF Lists, OnUserAdded
<1>3. r \in [Name -> Nat]
  BY <1>2
<1>4. AddUser(l, ns, kind) = k
  BY DEF AddUser
<1> HIDE DEF u, p, r
<1>5. k \in Lists /\ k.loading = l.loading /\ k.loaded = l.loaded
  BY <1>1, <1>3 DEF Lists
<1> HIDE DEF k
<1> QED
  BY <1>4, <1>5

LEMMA RemovesUser ==
  ASSUME NEW l \in Lists, NEW us
  PROVE  /\ RemoveUser(l, us) \in Lists
         /\ RemoveUser(l, us).loading = l.loading
         /\ RemoveUser(l, us).loaded = l.loaded
<1> DEFINE ns == {n \in Name : \E kind \in Kind : <<n, kind>> \in us}
           u == [n \in Name |-> IF n \in ns THEN "no" ELSE l.users[n]]
           p == {n \in l.paths : <<n, "path">> \notin us}
           r == [n \in Name |-> IF l.loaded /\ n \in ns
                                THEN OnUserRemoved(l, n) ELSE l.rows[n]]
           k == [l EXCEPT !.users = u, !.paths = p, !.rows = r]
<1>1. p \in SUBSET Name
  BY DEF Lists
<1>2. \A n \in Name : /\ OnUserRemoved(l, n) \in Nat /\ l.rows[n] \in Nat
                      /\ l.users[n] \in Kind \cup {"no"}
  BY DEF Lists, OnUserRemoved
<1>3. u \in [Name -> Kind \cup {"no"}] /\ r \in [Name -> Nat]
  BY <1>2
<1>4. RemoveUser(l, us) = k
  BY DEF RemoveUser
<1> HIDE DEF u, p, r
<1>5. k \in Lists /\ k.loading = l.loading /\ k.loaded = l.loaded
  BY <1>1, <1>3 DEF Lists
<1> HIDE DEF k
<1> QED
  BY <1>4, <1>5

LEMMA EntriesTyped ==
  ASSUME NEW l \in Lists, NEW ns \in SUBSET Name
  PROVE  Entries(l, ns) \in SUBSET (Name \X Kind)
BY DEF Entries, Lists

LEMMA KnownKeeps ==
  ASSUME NEW l \in Lists, NEW ns \in SUBSET Name, NEW kind \in Kind
  PROVE  /\ Known(l, ns, kind) \in Lists
         /\ Known(l, ns, kind).loading = l.loading
         /\ Known(l, ns, kind).loaded = l.loaded
BY AddsUser, RemovesUser DEF Known

LEMMA SetsLoaded ==
  ASSUME NEW l \in Lists
  PROVE  /\ SetLoaded(l) \in Lists
         /\ SetLoaded(l).loading = l.loading
         /\ SetLoaded(l).loaded
BY DEF SetLoaded, OnIsLoaded, Lists

LEMMA Creates ==
  ASSUME NEW l \in Lists, NEW ns \in SUBSET Name, NEW stage \in Stage
  PROVE  /\ Create(l, ns, stage) \in Lists
         /\ Create(l, ns, stage).loaded = l.loaded
         /\ \A n \in ns :
              Create(l, ns, stage).loading[<<n, stage>>] = l.loading[<<n, stage>>] + 1
         /\ \A n \in Name, s \in Stage : n \notin ns \/ s # stage =>
              Create(l, ns, stage).loading[<<n, s>>] = l.loading[<<n, s>>]
<1> DEFINE f == [c \in Name \X Stage |->
                   IF c[1] \in ns /\ c[2] = stage THEN l.loading[c] + 1 ELSE l.loading[c]]
<1>1. f \in [Name \X Stage -> Nat]
  BY DEF Lists
<1>2. Create(l, ns, stage) = [l EXCEPT !.loading = f]
  BY DEF Create
<1>3. /\ \A n \in ns : f[<<n, stage>>] = l.loading[<<n, stage>>] + 1
      /\ \A n \in Name, s \in Stage :
           n \notin ns \/ s # stage => f[<<n, s>>] = l.loading[<<n, s>>]
  OBVIOUS
<1> HIDE DEF f
<1>4. [l EXCEPT !.loading = f] \in Lists /\ [l EXCEPT !.loading = f].loading = f
      /\ [l EXCEPT !.loading = f].loaded = l.loaded
  BY <1>1, LoadingChanges
<1> QED
  BY <1>2, <1>3, <1>4

LEMMA Leaves ==
  ASSUME NEW l \in Lists, NEW n \in Name, NEW stage \in Stage,
         l.loading[<<n, stage>>] > 0
  PROVE  /\ Leave(l, n, stage) \in Lists
         /\ Leave(l, n, stage).loaded = l.loaded
         /\ \A m \in Name, s \in Stage : m # n \/ s # stage =>
              Leave(l, n, stage).loading[<<m, s>>] = l.loading[<<m, s>>]
<1> DEFINE f == [l.loading EXCEPT ![<<n, stage>>] = @ - 1]
<1>1. l.loading \in [Name \X Stage -> Nat] /\ <<n, stage>> \in Name \X Stage
  BY DEF Lists
<1>2. l.loading[<<n, stage>>] - 1 \in Nat
  BY <1>1
<1>3. f \in [Name \X Stage -> Nat]
  BY <1>1, <1>2
<1>4. \A m \in Name, s \in Stage :
        m # n \/ s # stage => f[<<m, s>>] = l.loading[<<m, s>>]
  BY <1>1
<1>5. Leave(l, n, stage) = [l EXCEPT !.loading = f]
  BY DEF Leave
<1> HIDE DEF f
<1>6. [l EXCEPT !.loading = f] \in Lists /\ [l EXCEPT !.loading = f].loading = f
      /\ [l EXCEPT !.loading = f].loaded = l.loaded
  BY <1>3, LoadingChanges
<1> QED
  BY <1>4, <1>5, <1>6

\* Only for a manager that is loaded may a request not wait.
LEMMA CreatesSound ==
  ASSUME NEW l, Sound(l), NEW ns \in SUBSET Name, NEW stage \in Stage,
         stage = "wait" => ~l.loaded
  PROVE  Sound(Create(l, ns, stage))
<1>1. "wait" \in Stage /\ l \in Lists
  BY DEF Stage, Sound
<1>2. ASSUME NEW n \in Name, l.loaded
      PROVE  Create(l, ns, stage).loading[<<n, "wait">>] = 0
  <2>1. l.loading[<<n, "wait">>] = 0
    BY <1>2 DEF Sound
  <2> QED
    BY <1>1, <1>2, <2>1, Creates
<1>3. Create(l, ns, stage) \in Lists /\ Create(l, ns, stage).loaded = l.loaded
  BY <1>1, Creates
<1> QED
  BY <1>2, <1>3 DEF Sound

LEMMA LeavesSound ==
  ASSUME NEW l, Sound(l), NEW n \in Name, NEW stage \in Stage,
         l.loading[<<n, stage>>] > 0
  PROVE  Sound(Leave(l, n, stage))
<1>1. "wait" \in Stage
  BY DEF Stage
<1>2. \A m \in Name : l.loaded => l.loading[<<m, "wait">>] = 0
  BY DEF Sound
<1>5. l \in Lists
  BY DEF Sound
<1>3. Leave(l, n, stage) \in Lists /\ Leave(l, n, stage).loaded = l.loaded
  BY Leaves DEF Sound
<1>4. \A m \in Name : l.loaded => Leave(l, n, stage).loading[<<m, "wait">>] = 0
  <2> SUFFICES ASSUME NEW m \in Name, l.loaded
               PROVE  Leave(l, n, stage).loading[<<m, "wait">>] = 0
    OBVIOUS
  <2>1. m # n \/ stage # "wait"
    BY <1>2
  <2> QED
    BY <1>1, <1>2, <1>5, <2>1, Leaves
<1> QED
  BY <1>3, <1>4 DEF Sound

LEMMA Moves ==
  ASSUME NEW l, Sound(l), NEW n \in Name,
         NEW from \in Stage, NEW to \in Stage \ {"wait"},
         l.loading[<<n, from>>] > 0
  PROVE  Sound(Moved(l, n, from, to))
BY LeavesSound, CreatesSound DEF Moved

\* A new user that is loaded leaves: with the last of them the manager is loaded.
LEMMA NewUserLoaded ==
  ASSUME NEW l, Sound(l), NEW n \in Name, NEW kind \in Kind,
         NEW stage \in Stage, l.loading[<<n, stage>>] > 0
  PROVE  Sound(OnNewUserLoaded(l, n, kind, stage))
<1> DEFINE left == Leave(l, n, stage)
           known == Known(left, {n}, kind)
<1>1. Sound(left)
  BY LeavesSound
<1>2. known \in Lists /\ known.loading = left.loading /\ known.loaded = left.loaded
  BY <1>1, KnownKeeps DEF Sound
<1>3. OnNewUserLoaded(l, n, kind, stage) \in {known, SetLoaded(known)}
  BY DEF OnNewUserLoaded
<1>4. CASE OnNewUserLoaded(l, n, kind, stage) = known
  BY <1>1, <1>2, <1>4 DEF Sound
<1>5. CASE n \notin Excluded /\ NobodyNew(known)
  <2>1. /\ SetLoaded(known) \in Lists
        /\ SetLoaded(known).loading = known.loading
    BY <1>2, SetsLoaded
  <2>2. \A m \in Name : known.loading[<<m, "wait">>] = 0
    BY <1>5 DEF NobodyNew, Stage
  <2> QED
    BY <1>5, <2>1, <2>2 DEF OnNewUserLoaded, Sound
<1> QED
  BY <1>4, <1>5 DEF OnNewUserLoaded

LEMMA FetchesLocally ==
  ASSUME NEW l, Sound(l), NEW n \in Name, NEW stage \in Stage \ {"wait", "stuck"},
         l.loading[<<n, stage>>] > 0
  PROVE  Sound(FetchLocally(l, n, stage))
BY NewUserLoaded, Moves DEF FetchLocally, Stage, Kind

LEMMA GetsUser ==
  ASSUME NEW l, Sound(l), NEW n \in Name, NEW hasAccounts \in BOOLEAN
  PROVE  Sound(GetUser(l, n, hasAccounts))
<1>1. Sound(Create(l, {n}, "find"))
  BY CreatesSound DEF Stage
<1>2. Create(l, {n}, "find").loading[<<n, "find">>] > 0
  <2>1. "find" \in Stage /\ <<n, "find">> \in Name \X Stage
    BY DEF Stage
  <2>2. l.loading[<<n, "find">>] \in Nat
    BY <2>1 DEF Sound, Lists
  <2>3. l \in Lists
    BY DEF Sound
  <2> QED
    BY <2>1, <2>2, <2>3, Creates
<1>3. Sound(FetchLocally(Create(l, {n}, "find"), n, "find"))
  BY <1>1, <1>2, FetchesLocally DEF Stage
<1>4. ~l.loaded => Sound(Create(l, {n}, "wait"))
  BY CreatesSound DEF Stage
<1> QED
  BY <1>1, <1>3, <1>4 DEF GetUser

\* The requests that waited have been made or answered.
LEMMA ManagerReady ==
  ASSUME NEW l \in Lists, NEW hasAccounts \in BOOLEAN
  PROVE  Sound(OnManagerReady(l, hasAccounts))
<1> DEFINE waiting == {n \in Name : l.loading[<<n, "wait">>] > 0}
           here == {n \in waiting : HasEntry(n)}
           asked == [l EXCEPT !.loading = [c \in Name \X Stage |->
                  CASE c[2] = "wait" -> 0
                    [] c[2] = "find" /\ hasAccounts -> l.loading[c] + l.loading[<<c[1], "wait">>]
                    [] c[2] = "stuck" /\ ~hasAccounts /\ c[1] \in waiting \ here ->
                         l.loading[c] + 1
                    [] OTHER -> l.loading[c]]]
<1>1. \A c \in Name \X Stage : l.loading[c] \in Nat /\ l.loading[<<c[1], "wait">>] \in Nat
  BY DEF Lists, Stage
<1> DEFINE f == [c \in Name \X Stage |->
                  CASE c[2] = "wait" -> 0
                    [] c[2] = "find" /\ hasAccounts -> l.loading[c] + l.loading[<<c[1], "wait">>]
                    [] c[2] = "stuck" /\ ~hasAccounts /\ c[1] \in waiting \ here ->
                         l.loading[c] + 1
                    [] OTHER -> l.loading[c]]
<1>6. f \in [Name \X Stage -> Nat]
  BY <1>1
<1>7. \A n \in Name : f[<<n, "wait">>] = 0
  BY DEF Stage
<1>8. asked = [l EXCEPT !.loading = f]
  OBVIOUS
<1>2. asked \in Lists /\ asked.loading = f
  <2> HIDE DEF f, asked
  <2> QED
    BY <1>6, <1>8, LoadingChanges
<1>3. \A n \in Name : asked.loading[<<n, "wait">>] = 0
  BY <1>2, <1>7
<1>4. /\ Known(asked, here, "local") \in Lists
      /\ Known(asked, here, "local").loading = asked.loading
  BY <1>2, KnownKeeps DEF Kind
<1>5. OnManagerReady(l, hasAccounts) =
        IF hasAccounts THEN asked ELSE Known(asked, here, "local")
  BY DEF OnManagerReady
<1> HIDE DEF asked, here
<1> QED
  BY <1>2, <1>3, <1>4, <1>5 DEF Sound

LEMMA MaybeSetsLoaded ==
  ASSUME NEW l, Sound(l), accounts' \in BOOLEAN
  PROVE  Sound(MaybeSetIsLoaded(l))
BY SetsLoaded, ManagerReady DEF MaybeSetIsLoaded, Sound

-----------------------------------------------------------------------------
(***************************************************************************)
(* The steps.                                                               *)
(***************************************************************************)
LEMMA Nothing ==
  /\ NoList \in Lists /\ ~NoList.loaded
  /\ NoHistory \in [pid : BOOLEAN, watch : BOOLEAN, dog : BOOLEAN]
  /\ NoJob \in Jobs
<1>1. [c \in Name \X Stage |-> 0] \in [Name \X Stage -> Nat]
  OBVIOUS
<1> QED
  BY <1>1 DEF NoList, Lists, NoHistory, NoJob, Jobs

LEMMA InitUInv == Init => UInv
<1> SUFFICES ASSUME Init PROVE UInv
  OBVIOUS
<1>1. jobs \in [Job -> Jobs]
  BY Nothing DEF Init
<1>2. /\ file \in [Name -> {"absent", "shell", "nologin"}]
      /\ asking \in [Name -> 0 .. MaxSessions]
      /\ sessions \in 0 .. MaxSessions /\ changes \in 0 .. MaxChanges
  BY BoundsAssumption DEF Init
<1>3. TypeOK
  BY <1>1, <1>2, Nothing DEF Init, TypeOK
<1> QED
  BY <1>3, Nothing DEF Init, UInv, NobodyWaits, Asked

\* What is left of the process has nothing to wait for.
LEMMA CrashStep == UInv /\ Crash => UInv'
<1> SUFFICES ASSUME UInv, Crash PROVE UInv'
  OBVIOUS
<1>1. jobs' \in [Job -> Jobs]
  BY Nothing DEF Crash
<1>2. asking' \in [Name -> 0 .. MaxSessions]
  BY BoundsAssumption DEF Crash
<1>3. TypeOK'
  BY <1>1, <1>2, Nothing DEF Crash, UInv, TypeOK
<1> QED
  BY <1>3, Nothing DEF UInv, TypeOK, Crash, NobodyWaits, Asked

LEMMA UInvSound == UInv <=> TypeOK /\ Sound(list) /\ Asked
BY DEF UInv, TypeOK, NobodyWaits, Sound

LEMMA LoadsHistory ==
  ASSUME TypeOK, NEW hasSeat, LoadCkHistory(hasSeat)
  PROVE  history' \in [pid : BOOLEAN, watch : BOOLEAN, dog : BOOLEAN]
<1>1. history \in [pid : BOOLEAN, watch : BOOLEAN, dog : BOOLEAN]
  BY DEF TypeOK
<1>2. CASE UNCHANGED history
  BY <1>1, <1>2
<1>3. CASE history' = [pid |-> TRUE, watch |-> TRUE, dog |-> TRUE]
  BY <1>3
<1> QED
  BY <1>2, <1>3 DEF LoadCkHistory

LEMMA SeatsStep == UInv /\ Seats => UInv'
<1> SUFFICES ASSUME UInv, Seats PROVE UInv'
  OBVIOUS
<1>1. TypeOK /\ Sound(list) /\ Asked
  BY UInvSound
<1>2. accounts' \in BOOLEAN /\ asking' = asking /\ sessions' = sessions
  BY <1>1 DEF TypeOK, Seats, LoadIdle, OnGetCurrentSessionFinished,
       OnGetSeatIdFinished, OnSeatProxyDestroy, calls, world
<1>3. Sound(list')
  BY <1>1, <1>2, MaybeSetsLoaded DEF Seats, LoadIdle, OnGetCurrentSessionFinished,
       OnGetSeatIdFinished, OnSeatProxyDestroy
<1>4. CASE LoadIdle \/ OnGetCurrentSessionFinished \/ OnSeatProxyDestroy
  <2>1. TypeOK'
    <3>1. list' \in Lists
      BY <1>3 DEF Sound
    <3>2. CASE LoadIdle
      BY <1>1, <3>1, <3>2 DEF TypeOK, LoadIdle, output, local, world
    <3>3. CASE OnGetCurrentSessionFinished
      <4>1. seat' \in {"unloaded", "id"} /\ proxy' \in BOOLEAN
        BY <1>1, <3>3 DEF OnGetCurrentSessionFinished, UnloadSeat, TypeOK
      <4>2. UNCHANGED <<queued, calls, output, local, world>>
        BY <3>3 DEF OnGetCurrentSessionFinished
      <4> QED
        BY <1>1, <3>1, <4>1, <4>2 DEF TypeOK, calls, output, local, world
    <3>4. CASE OnSeatProxyDestroy
      <4>1. getting' \in {"none", "failed"} /\ proxy' \in BOOLEAN
        BY <3>4 DEF OnSeatProxyDestroy
      <4>2. UNCHANGED <<seat, queued, accounts, listing, asking, output, local, world>>
        BY <3>4 DEF OnSeatProxyDestroy
      <4> QED
        BY <1>1, <3>1, <4>1, <4>2 DEF TypeOK, output, local, world
    <3> QED
      BY <1>4, <3>2, <3>3, <3>4
  <2> QED
    BY <1>1, <1>2, <1>3, <2>1 DEF UInv, Asked, NobodyWaits, Sound
<1>5. CASE OnGetSeatIdFinished
  <2>1. history' \in [pid : BOOLEAN, watch : BOOLEAN, dog : BOOLEAN]
    <3>1. history \in [pid : BOOLEAN, watch : BOOLEAN, dog : BOOLEAN]
      BY <1>1 DEF TypeOK
    <3>2. LoadCkHistory(TRUE) \/ UNCHANGED history
      BY <1>5 DEF OnGetSeatIdFinished
    <3> QED
      BY <1>1, <3>1, <3>2, LoadsHistory
  <2>2. getting' \in {"none", "asked", "twice", "failed"}
    BY <1>1, <1>5 DEF TypeOK, OnGetSeatIdFinished, LoadSessions
  <2>3. TypeOK'
    BY <1>1, <1>3, <1>5, <2>1, <2>2 DEF TypeOK, Sound, OnGetSeatIdFinished,
         UnloadSeat, local, world
  <2> QED
    BY <1>1, <1>2, <1>3, <2>3 DEF UInv, Asked, NobodyWaits, Sound
<1> QED
  BY <1>4, <1>5 DEF Seats

\* A session that is asked about is one more, one that is dropped one less.
LEMMA Asks ==
  ASSUME TypeOK, Asked, NEW n \in Name,
         LoadNewSession(n) \/ (UnloadNewSession(n) /\ sessions' = sessions)
  PROVE  /\ Asked' /\ sessions' \in 0 .. MaxSessions
         /\ asking' \in [Name -> 0 .. MaxSessions]
BY BoundsAssumption DEF TypeOK, Asked, LoadNewSession, UnloadNewSession

LEMMA SessionsStep == UInv /\ Sessions => UInv'
<1> SUFFICES ASSUME UInv, Sessions PROVE UInv'
  OBVIOUS
<1>1. TypeOK /\ Sound(list) /\ Asked
  BY UInvSound
<1>2. CASE OnFirstGetSessionsFinished
  BY <1>2, CrashStep DEF OnFirstGetSessionsFinished
<1>3. CASE OnGetSessionsFinished
  <2>1. Sound(list')
    BY <1>1, <1>3, MaybeSetsLoaded DEF OnGetSessionsFinished, TypeOK
  <2>2. /\ Asked' /\ sessions' \in 0 .. MaxSessions
        /\ asking' \in [Name -> 0 .. MaxSessions]
    <3>1. CASE UNCHANGED <<asking, sessions>>
      BY <1>1, <3>1 DEF Asked, TypeOK
    <3>2. CASE \E n \in Seen : LoadNewSession(n)
      BY <1>1, <3>2, Asks, NamesAssumption
    <3> QED
      BY <1>3, <3>1, <3>2 DEF OnGetSessionsFinished
  <2>3. TypeOK'
    BY <1>1, <1>3, <2>1, <2>2 DEF OnGetSessionsFinished, TypeOK, Sound,
         seats, output, local
  <2> QED
    BY <2>1, <2>2, <2>3 DEF UInv, NobodyWaits, Sound
<1>4. CASE SeatSessionAdded \/ SeatSessionRemoved \/ NewSessionFails
  <2>1. PICK n \in Name : LoadNewSession(n) \/ (UnloadNewSession(n) /\ sessions' = sessions)
    BY <1>4, NamesAssumption
       DEF SeatSessionAdded, SeatSessionRemoved, NewSessionFails, world
  <2>2. /\ Asked' /\ sessions' \in 0 .. MaxSessions
        /\ asking' \in [Name -> 0 .. MaxSessions]
    BY <1>1, <2>1, Asks
  <2>3. TypeOK' /\ list' = list
    BY <1>1, <1>4, <2>2 DEF TypeOK, SeatSessionAdded, SeatSessionRemoved,
         NewSessionFails, seats, calls, output, local, world
  <2> QED
    BY <1>1, <2>2, <2>3 DEF UInv, NobodyWaits, Sound
<1>5. CASE AddNewSession
  <2>1. PICK n \in Name :
          /\ UnloadNewSession(n) /\ sessions' = sessions
          /\ \/ list' = GetUser(list, n, accounts) /\ seat' = "loaded"
             \/ UNCHANGED <<list, seat>>
    BY <1>5 DEF AddNewSession, world
  <2>2. /\ Asked' /\ sessions' \in 0 .. MaxSessions
        /\ asking' \in [Name -> 0 .. MaxSessions]
    BY <1>1, <2>1, Asks
  <2>3. Sound(list')
    BY <1>1, <2>1, GetsUser DEF TypeOK
  <2>4. TypeOK'
    BY <1>1, <1>5, <2>1, <2>2, <2>3 DEF TypeOK, Sound, AddNewSession,
         output, local, world
  <2> QED
    BY <2>2, <2>3, <2>4 DEF UInv, NobodyWaits, Sound
<1> QED
  BY <1>2, <1>3, <1>4, <1>5 DEF Sessions

LEMMA HistoryStep == UInv /\ History => UInv'
<1> SUFFICES ASSUME UInv, History PROVE UInv'
  OBVIOUS
<1>1. TypeOK /\ Sound(list) /\ Asked
  BY UInvSound
<1>2. lines \subseteq Name
  BY <1>1, NamesAssumption DEF TypeOK
<1>3. accounts' = accounts /\ accounts \in BOOLEAN /\ asking' = asking /\ sessions' = sessions
  BY <1>1 DEF TypeOK, History, CkHistoryLine, CkHistoryEnds, CkHistoryWatchdog,
       calls, world
<1>4. Sound(list')
  BY <1>1, <1>2, <1>3, MaybeSetsLoaded, GetsUser
     DEF History, CkHistoryLine, CkHistoryEnds, CkHistoryWatchdog
<1>6. history' \in [pid : BOOLEAN, watch : BOOLEAN, dog : BOOLEAN]
  BY <1>1, Nothing DEF TypeOK, History, CkHistoryLine, CkHistoryEnds, CkHistoryWatchdog
<1>5. TypeOK'
  BY <1>1, <1>4, <1>6 DEF TypeOK, Sound, History, CkHistoryLine, CkHistoryEnds,
       CkHistoryWatchdog, seats, calls, output, local, world
<1> QED
  BY <1>1, <1>3, <1>4, <1>5 DEF UInv, Asked, NobodyWaits, Sound

\* A reload is scheduled: the first job that is free.
LEMMA Schedules ==
  ASSUME TypeOK, ScheduleReload
  PROVE  /\ pending' \in BOOLEAN
         /\ jobs' \in [Job -> Jobs]
BY DEF TypeOK, ScheduleReload, Jobs

LEMMA AccountsFail == UInv /\ OnListCachedUsersFails => UInv'
<1> SUFFICES ASSUME UInv, OnListCachedUsersFails PROVE UInv'
  OBVIOUS
<1>1. TypeOK /\ Sound(list) /\ Asked
  BY UInvSound
<1>2. CASE Crash
  BY <1>2, CrashStep
<1>3. CASE ~Crash
  <2> DEFINE f == [c \in Name \X Stage |->
                     CASE c[2] = "find" -> 0
                       [] c[2] = "stuck" -> list.loading[c] + list.loading[<<c[1], "find">>]
                       [] OTHER -> list.loading[c]]
  <2>1. list' = [list EXCEPT !.loading = f]
    BY <1>3 DEF OnListCachedUsersFails
  <2>2. \A c \in Name \X Stage :
          list.loading[c] \in Nat /\ list.loading[<<c[1], "find">>] \in Nat
    BY <1>1 DEF Sound, Lists, Stage
  <2>3. f \in [Name \X Stage -> Nat]
    BY <2>2
  <2>4. \A n \in Name : f[<<n, "wait">>] = list.loading[<<n, "wait">>]
    BY DEF Stage
  <2>5. Sound(list')
    <3> HIDE DEF f
    <3>1. /\ [list EXCEPT !.loading = f] \in Lists
          /\ [list EXCEPT !.loading = f].loading = f
          /\ [list EXCEPT !.loading = f].loaded = list.loaded
      BY <1>1, <2>3, LoadingChanges DEF Sound
    <3> QED
      BY <1>1, <2>1, <2>4, <3>1 DEF Sound
  <2>6. history' \in [pid : BOOLEAN, watch : BOOLEAN, dog : BOOLEAN]
    <3>1. LoadCkHistory(seat = "loaded")
      BY <1>3 DEF OnListCachedUsersFails
    <3> QED
      BY <1>1, <3>1, LoadsHistory
  <2>7. getting' \in {"none", "asked", "twice", "failed"}
    BY <1>1, <1>3 DEF TypeOK, OnListCachedUsersFails, LoadSessions
  <2>8. ScheduleReload /\ UNCHANGED <<seats, asking, lines, monitors, event, timer, world>>
        /\ listing' \in BOOLEAN /\ accounts' \in BOOLEAN
    BY <1>3 DEF OnListCachedUsersFails
  <2>9. TypeOK'
    <3>1. list' \in Lists
      BY <2>5 DEF Sound
    <3>2. pending' \in BOOLEAN /\ jobs' \in [Job -> Jobs]
      BY <1>1, <2>8, Schedules
    <3> QED
      BY <1>1, <2>6, <2>7, <2>8, <3>1, <3>2 DEF TypeOK, seats, world
  <2> QED
    BY <1>1, <2>5, <2>8, <2>9 DEF UInv, Asked, NobodyWaits, Sound, world
<1> QED
  BY <1>2, <1>3

LEMMA AccountsStep == UInv /\ Accounts => UInv'
<1> SUFFICES ASSUME UInv, Accounts PROVE UInv'
  OBVIOUS
<1>1. TypeOK /\ Sound(list) /\ Asked
  BY UInvSound
<1>2. CASE OnListCachedUsersFails
  BY <1>2, AccountsFail
<1>3. CASE OnUserRemovedInAccountsService /\ Crash
  BY <1>3, CrashStep
<1>4. CASE OnListCachedUsersFinished
  <2>1. /\ "props" \in Stage /\ "find" \in Stage /\ "wait" \in Stage
    BY DEF Stage
  <2>2. PICK cached \in SUBSET Name :
          list' = IncludedUsers(AddNewUserForObjectPath(MaybeSetIsLoaded(list), cached))
    BY <1>4 DEF OnListCachedUsersFinished
  <2> DEFINE l == MaybeSetIsLoaded(list)
             k == AddNewUserForObjectPath(l, cached)
  <2>3. Sound(l)
    BY <1>1, <1>4, MaybeSetsLoaded DEF OnListCachedUsersFinished, TypeOK
  <2>4. Sound(k)
    <3> HIDE DEF l
    <3>1. cached \ l.paths \in SUBSET Name
      OBVIOUS
    <3> QED
      BY <2>1, <2>3, <3>1, CreatesSound DEF AddNewUserForObjectPath
  <2>5. Sound(list')
    <3> HIDE DEF k
    <3>1. {n \in Included : k.users[n] = "no"} \in SUBSET Name
      BY NamesAssumption
    <3>2. (IF k.loaded THEN "find" ELSE "wait") \in Stage
      BY <2>1
    <3>3. Sound(IncludedUsers(k))
      BY <2>4, <3>1, <3>2, CreatesSound DEF IncludedUsers
    <3> QED
      BY <2>2, <3>3 DEF k
  <2>7. list' \in Lists
    BY <2>5 DEF Sound
  <2>8. /\ listing' \in BOOLEAN
        /\ UNCHANGED <<seats, accounts, getting, asking, output, local, world>>
    BY <1>4 DEF OnListCachedUsersFinished
  <2>6. TypeOK' /\ UNCHANGED <<asking, sessions>>
    BY <1>1, <2>7, <2>8 DEF TypeOK, seats, output, local, world
  <2> QED
    BY <1>1, <2>5, <2>6 DEF UInv, Asked, NobodyWaits, Sound
<1>5. CASE OnNewUserInAccountsService
  <2>1. Sound(list')
    <3>1. PICK n \in Name : list' = AddNewUserForObjectPath(list, {n})
      BY <1>5 DEF OnNewUserInAccountsService
    <3>2. {n} \ list.paths \in SUBSET Name /\ "props" \in Stage
      BY DEF Stage
    <3> QED
      BY <1>1, <3>1, <3>2, CreatesSound DEF AddNewUserForObjectPath
  <2>2. changes' \in 0 .. MaxChanges
    BY <1>1, <1>5, BoundsAssumption DEF OnNewUserInAccountsService, TypeOK
  <2>3. TypeOK' /\ UNCHANGED <<asking, sessions>>
    BY <1>1, <1>5, <2>1, <2>2 DEF OnNewUserInAccountsService, TypeOK, Sound,
         seats, calls, output, local
  <2> QED
    BY <1>1, <2>1, <2>3 DEF UInv, Asked, NobodyWaits, Sound
<1>6. CASE OnUserRemovedInAccountsService /\ ~Crash
  <2>1. PICK n \in Name : /\ list' = RemoveUser(list, {<<n, "path">>})
                          /\ changes' = changes + 1
                          /\ UNCHANGED <<seats, calls, output, local, file, crashed, sessions>>
    BY <1>6 DEF OnUserRemovedInAccountsService
  <2>2. Sound(list')
    BY <1>1, <2>1, RemovesUser DEF Sound
  <2>3. changes' \in 0 .. MaxChanges
    BY <1>1, <1>6, <2>1, BoundsAssumption DEF OnUserRemovedInAccountsService, TypeOK
  <2>4. TypeOK' /\ UNCHANGED <<asking, sessions>>
    BY <1>1, <2>1, <2>2, <2>3 DEF TypeOK, Sound, seats, calls, output, local
  <2> QED
    BY <1>1, <2>2, <2>4 DEF UInv, Asked, NobodyWaits, Sound
<1>7. CASE OnUserProperties \/ OnFindUserByNameFinished
  <2>1. PICK n \in Name, stage \in {"props", "find"}, to \in {"props", "stuck"} :
          /\ list.loading[<<n, stage>>] > 0
          /\ list' \in {OnNewUserLoaded(list, n, "path", stage), Moved(list, n, stage, to),
                        FetchLocally(list, n, stage)}
    BY <1>7 DEF OnUserProperties, OnFindUserByNameFinished
  <2>2. /\ stage \in Stage \ {"wait", "stuck"} /\ to \in Stage \ {"wait"}
        /\ "path" \in Kind
    BY DEF Stage, Kind
  <2>3. Sound(list')
    BY <1>1, <2>1, <2>2, NewUserLoaded, Moves, FetchesLocally
  <2>4. TypeOK' /\ UNCHANGED <<asking, sessions>>
    BY <1>1, <1>7, <2>3 DEF TypeOK, Sound, OnUserProperties, OnFindUserByNameFinished,
         seats, calls, output, local, world
  <2> QED
    BY <1>1, <2>3, <2>4 DEF UInv, Asked, NobodyWaits, Sound
<1> QED
  BY <1>2, <1>3, <1>4, <1>5, <1>6, <1>7 DEF Accounts

LEMMA ReloadsStep == UInv /\ Reloads => UInv'
<1> SUFFICES ASSUME UInv, Reloads PROVE UInv'
  OBVIOUS
<1>1. TypeOK /\ Sound(list) /\ Asked
  BY UInvSound
<1>2. ASSUME NEW j \in Job, ReloadReads(j) \/ ReloadCompares(j) PROVE UInv'
  <2> DEFINE new == {n \in Listed : HasEntry(n)} \cup Wanted
             added == jobs[j].new \ Listed
             removed == Entries(list, Name \ jobs[j].new)
  <2>1. jobs[j] \in Jobs
    BY <1>1 DEF TypeOK
  <2>2. /\ new \in SUBSET Name /\ added \in SUBSET Name
        /\ removed \in SUBSET (Name \X Kind)
    BY <1>1, <2>1, EntriesTyped, NamesAssumption DEF Listed, Wanted, Jobs, Sound
  <2>3. /\ [jobs[j] EXCEPT !.stage = "read", !.new = new] \in Jobs
        /\ [jobs[j] EXCEPT !.stage = "done", !.added = added, !.removed = removed] \in Jobs
    <3> HIDE DEF new, added, removed
    <3> QED
      BY <2>1, <2>2 DEF Jobs
  <2>4. /\ \/ jobs' = [jobs EXCEPT ![j] = [jobs[j] EXCEPT !.stage = "read", !.new = new]]
           \/ jobs' = [jobs EXCEPT ![j] = [jobs[j] EXCEPT !.stage = "done",
                                             !.added = added, !.removed = removed]]
        /\ UNCHANGED <<list, seats, calls, output, pending, monitors, event, timer, world>>
    BY <1>2 DEF ReloadReads, ReloadCompares
  <2>5. jobs' \in [Job -> Jobs]
    <3> HIDE DEF new, added, removed
    <3> QED
      BY <1>1, <2>3, <2>4 DEF TypeOK
  <2>6. UNCHANGED <<list, seats, calls, output, pending, monitors, event, timer, world>>
    BY <2>4
  <2>7. TypeOK' /\ UNCHANGED <<list, asking, sessions>>
    BY <1>1, <2>5, <2>6 DEF TypeOK, seats, calls, output, world
  <2> QED
    BY <1>1, <2>7 DEF UInv, Asked, NobodyWaits, Sound
<1>3. ASSUME NEW j \in Job, ReloadPasswdJobDone(j) PROVE UInv'
  <2> DEFINE added == AddUser(list, jobs[j].added, "local")
             known == RemoveUser(added, jobs[j].removed)
  <2>1. jobs[j] \in Jobs
    BY <1>1 DEF TypeOK
  <2>2. added \in Lists /\ added.loading = list.loading /\ added.loaded = list.loaded
    BY <1>1, <2>1, AddsUser DEF Sound, Jobs, Kind
  <2>3. known \in Lists /\ known.loading = added.loading /\ known.loaded = added.loaded
    <3> HIDE DEF added
    <3> QED
      BY <2>2, RemovesUser
  <2>4. Sound(known)
    BY <1>1, <2>2, <2>3 DEF Sound
  <2>5. /\ list' = MaybeSetIsLoaded(known) /\ jobs' = [jobs EXCEPT ![j] = NoJob]
        /\ pending' \in BOOLEAN /\ MonitorLocalUsers
        /\ UNCHANGED <<seats, calls, output, event, timer, world>>
    BY <1>3 DEF ReloadPasswdJobDone
  <2> HIDE DEF known
  <2>6. accounts' \in BOOLEAN
    BY <1>1, <2>5 DEF TypeOK, calls
  <2>7. Sound(list')
    BY <2>4, <2>5, <2>6, MaybeSetsLoaded
  <2>8. list' \in Lists /\ jobs' \in [Job -> Jobs]
    BY <1>1, <2>5, <2>7, Nothing DEF Sound, TypeOK
  <2>9. monitors' \in BOOLEAN
    BY <1>1, <2>5 DEF MonitorLocalUsers, TypeOK
  <2>10. TypeOK' /\ UNCHANGED <<asking, sessions>>
    BY <1>1, <2>5, <2>8, <2>9 DEF TypeOK, seats, calls, output, world
  <2> QED
    BY <1>1, <2>7, <2>10 DEF UInv, Asked, NobodyWaits, Sound
<1>4. CASE FilesChange
  <2>1. changes' \in 0 .. MaxChanges
    BY <1>1, <1>4, BoundsAssumption DEF FilesChange, TypeOK
  <2>2. file' \in [Name -> {"absent", "shell", "nologin"}] /\ event' \in BOOLEAN
    BY <1>1, <1>4 DEF FilesChange, TypeOK
  <2>3. UNCHANGED <<list, seats, calls, output, pending, jobs, monitors, timer,
                    crashed, sessions>>
    BY <1>4 DEF FilesChange
  <2>4. TypeOK' /\ UNCHANGED <<list, asking, sessions>>
    BY <1>1, <2>1, <2>2, <2>3 DEF TypeOK, seats, calls, output
  <2> QED
    BY <1>1, <2>4 DEF UInv, Asked, NobodyWaits, Sound
<1>5. CASE OnFileChanged
  <2>2. /\ event' \in BOOLEAN /\ timer' \in BOOLEAN
        /\ UNCHANGED <<list, seats, calls, output, pending, jobs, monitors, world>>
    BY <1>5 DEF OnFileChanged
  <2>1. TypeOK' /\ UNCHANGED <<list, asking, sessions>>
    BY <1>1, <2>2 DEF TypeOK, seats, calls, output, world
  <2> QED
    BY <1>1, <2>1 DEF UInv, Asked, NobodyWaits, Sound
<1>6. CASE ReloadPasswdIdle
  <2>1. /\ timer' \in BOOLEAN /\ ScheduleReload
        /\ UNCHANGED <<list, seats, calls, output, monitors, event, world>>
    BY <1>6 DEF ReloadPasswdIdle
  <2>2. pending' \in BOOLEAN /\ jobs' \in [Job -> Jobs]
    BY <1>1, <2>1, Schedules
  <2>3. TypeOK' /\ UNCHANGED <<list, asking, sessions>>
    BY <1>1, <2>1, <2>2 DEF TypeOK, seats, calls, output, world
  <2> QED
    BY <1>1, <2>3 DEF UInv, Asked, NobodyWaits, Sound
<1> QED
  BY <1>2, <1>3, <1>4, <1>5, <1>6 DEF Reloads

LEMMA AddUsersStep == UInv /\ AddUsers => UInv'
<1> SUFFICES ASSUME UInv, AddUsers PROVE UInv'
  OBVIOUS
<1>1. TypeOK /\ Sound(list) /\ Asked
  BY UInvSound
<1>2. /\ list' \in Lists /\ list'.loading = list.loading /\ list'.loaded = list.loaded
  <2>1. list \in Lists
    BY <1>1 DEF Sound
  <2>2. CASE list' = [list EXCEPT !.ready = TRUE, !.idle = FALSE]
    BY <2>1, <2>2 DEF Lists
  <2>3. ASSUME NEW n \in list.toAdd,
               list' = [list EXCEPT !.ready = TRUE, !.toAdd = @ \ {n},
                                    !.rows[n] = @ + 1, !.idle = (list.toAdd # {n})]
        PROVE  /\ list' \in Lists /\ list'.loading = list.loading
               /\ list'.loaded = list.loaded
    <3> DEFINE r == [list.rows EXCEPT ![n] = @ + 1]
               t == list.toAdd \ {n}
    <3>1. r \in [Name -> Nat] /\ t \in SUBSET Name
      BY <2>1 DEF Lists
    <3>2. list' = [list EXCEPT !.ready = TRUE, !.toAdd = t, !.rows = r,
                               !.idle = (list.toAdd # {n})]
      BY <2>3
    <3> HIDE DEF r, t
    <3> QED
      BY <2>1, <3>1, <3>2 DEF Lists
  <2> QED
    BY <2>2, <2>3 DEF AddUsers
<1>4. UNCHANGED <<seats, calls, output, local, world>>
  BY DEF AddUsers
<1>3. TypeOK' /\ UNCHANGED <<asking, sessions>>
  BY <1>1, <1>2, <1>4 DEF TypeOK, seats, calls, output, local, world
<1> QED
  BY <1>1, <1>2, <1>3 DEF UInv, Asked, NobodyWaits, Sound

LEMMA UInvStep == UInv /\ [Next]_vars => UInv'
<1> SUFFICES ASSUME UInv, [Next]_vars PROVE UInv'
  OBVIOUS
<1>1. CASE UNCHANGED vars
  BY <1>1 DEF UInv, TypeOK, NobodyWaits, Asked, vars, seats, calls, output, local, world
<1> QED
  BY <1>1, SeatsStep, SessionsStep, HistoryStep, AccountsStep, ReloadsStep, AddUsersStep
     DEF Next

\* Whatever answers, fails, ends or changes, and in whatever order, what the
\* manager and the list of the greeter hold has its type: no user is in a table,
\* in a row or among the new ones a negative number of times.
THEOREM UsersTyped == Spec => []TypeOK
<1>1. UInv => TypeOK
  BY DEF UInv
<1> QED
  BY <1>1, InitUInv, UInvStep, PTL DEF Spec

\* A request for a user that waits for the manager to be loaded is made when it
\* is: on_user_manager_maybe_ready_for_request misses none.
THEOREM NobodyWaits_Holds == Spec => []NobodyWaits
<1>1. UInv => NobodyWaits
  BY DEF UInv
<1> QED
  BY <1>1, InitUInv, UInvStep, PTL DEF Spec
=============================================================================
