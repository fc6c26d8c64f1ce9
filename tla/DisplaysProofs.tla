-------------------------- MODULE DisplaysProofs --------------------------
(***************************************************************************)
(* Theorems about LocalDisplays, for every number of displays and every     *)
(* MAX_DISPLAY_FAILURES, and then about GuestDisplays.  The safety          *)
(* properties of the local displays are conjuncts of, or follow from, one   *)
(* inductive invariant, IInv.  Every step with guest sessions is a step of  *)
(* LocalDisplays or changes none of its variables, so all of that holds     *)
(* with guests too; it is used to prove that a guest keeps the account.     *)
(***************************************************************************)
EXTENDS GuestDisplays, FiniteSetTheorems, TLAPS

\* A display's number was reserved when it was made, and stays so.
NumbersReserved == \A d \in Display : Made(d) => disp[d].number \in reserved

\* The fields of one display fit together: a finish_idle is only queued by the
\* child watch of a managed display, and only a managed display has a slave.
Coherent(r) ==
  /\ r.idle => r.status = "PREPARED" /\ r.proxy = "reaped"
  /\ r.proxy # "none" => r.status = "PREPARED"
  /\ r.status = "PREPARED" => r.proxy # "none"
  /\ r.proxy = "reaped" => r.idle
  /\ r.timed => r.status = "PREPARED"

FieldsCoherent == \A d \in Display : Coherent(disp[d])

\* The store holds every display that was made but the static ones that failed.
StoreExact ==
  /\ \A d \in StaticDisplay : d \in store <=> disp[d].status = "PREPARED"
  /\ \A d \in TransientDisplay : d \in store <=> Made(d)

\* Before start there is no login display and no failure.
QuietBeforeStart == ~started => numFailures = 0 /\ store \cap StaticDisplay = {}

IInv ==
  /\ TypeOK
  /\ NumbersReserved
  /\ NumbersDistinct
  /\ FieldsCoherent
  /\ StoreExact
  /\ QuietBeforeStart
  /\ OneLoginDisplay

-----------------------------------------------------------------------------
\* The record a display is given when it is managed is a record of its fields.
LEMMA ManagedType ==
  ASSUME NEW d \in Display, NEW n \in Numbers, NEW p \in Spawns
  PROVE  /\ Managed(d, n, p) \in Record
         /\ Coherent(Managed(d, n, p))
         /\ Managed(d, n, p).status = "PREPARED"
         /\ Managed(d, n, p).number = n
  BY DEF Managed, Record, Coherent, Numbers, Spawns, Proxies, Statuses

\* What unmanage does to the fields: no slave, no finish_idle, the same number.
LEMMA UnmanagedType ==
  ASSUME NEW r \in Record, NEW short \in BOOLEAN
  PROVE  /\ Unmanaged(r, short) \in Record
         /\ Coherent(Unmanaged(r, short))
         /\ Unmanaged(r, short).status = IF short THEN "FAILED" ELSE "UNMANAGED"
         /\ Unmanaged(r, short).number = r.number
  BY DEF Unmanaged, Record, Coherent, Proxies, Statuses

\* A static display managed again.
LEMMA RestartedType ==
  ASSUME NEW r \in Record, NEW p \in Spawns
  PROVE  /\ Restarted(r, p) \in Record
         /\ Coherent(Restarted(r, p))
         /\ Restarted(r, p).status = "PREPARED"
         /\ Restarted(r, p).number = r.number
  BY DEF Restarted, Record, Coherent, Spawns, Proxies, Statuses

-----------------------------------------------------------------------------
\* Before the daemon has made a display the invariant holds.
LEMMA InitIInv == Init => IInv
<1> SUFFICES ASSUME Init PROVE IInv
  OBVIOUS
<1>1. Absent \in Record /\ Coherent(Absent)
  BY DEF Absent, Record, Coherent, Statuses, Proxies
<1>2. TypeOK
  BY <1>1 DEF Init, TypeOK
<1>3. \A d \in Display : disp[d] = Absent
  BY DEF Init
<1>4. \A d \in Display : ~Made(d) /\ disp[d].status # "PREPARED"
  BY <1>3 DEF Made, Absent
<1>5. NumbersReserved /\ NumbersDistinct
  BY <1>4 DEF NumbersReserved, NumbersDistinct
<1>6. FieldsCoherent
  BY <1>1, <1>3 DEF FieldsCoherent
<1>7. StoreExact
  BY <1>4 DEF StoreExact, Init, Display
<1>8. QuietBeforeStart /\ OneLoginDisplay
  BY DEF Init, QuietBeforeStart, OneLoginDisplay
<1> QED
  BY <1>2, <1>5, <1>6, <1>7, <1>8 DEF IInv

\* Making a display on a number that is free disturbs no other display.
LEMMA MakeStep ==
  ASSUME IInv, NEW d \in Display, NEW n \in Numbers, NEW p \in Spawns,
         ~Made(d), NextNumber(n),
         disp' = [disp EXCEPT ![d] = Managed(d, n, p)],
         store' = store \cup {d},
         reserved' = reserved \cup {n}
  PROVE  /\ disp' \in [Display -> Record]
         /\ store' \subseteq Display
         /\ reserved' \subseteq Nat
         /\ NumbersReserved' /\ NumbersDistinct' /\ FieldsCoherent' /\ StoreExact'
<1>1. /\ disp \in [Display -> Record] /\ store \subseteq Display /\ reserved \subseteq Nat
  BY DEF IInv, TypeOK
<1>2. \A e \in Display : disp'[e] = IF e = d THEN Managed(d, n, p) ELSE disp[e]
  BY <1>1
<1>3. n \in Nat /\ n \notin reserved
  BY DEF Numbers, NextNumber
<1>4. \A e \in Display : Made(e)' <=> e = d \/ Made(e)
  BY <1>2, ManagedType DEF Made
<1>5. disp' \in [Display -> Record] /\ store' \subseteq Display /\ reserved' \subseteq Nat
  BY <1>1, <1>3, ManagedType
<1>6. NumbersReserved'
  BY <1>2, <1>4, ManagedType DEF IInv, NumbersReserved
<1>7. NumbersDistinct'
  BY <1>2, <1>3, <1>4, ManagedType DEF IInv, NumbersDistinct, NumbersReserved
<1>8. FieldsCoherent'
  BY <1>2, ManagedType DEF IInv, FieldsCoherent
<1>9. StoreExact'
  BY <1>2, <1>4, ManagedType DEF IInv, StoreExact, Display
<1> QED
  BY <1>5, <1>6, <1>7, <1>8, <1>9

\* Changing the slave side of one display, and neither its number nor whether
\* it is managed, disturbs nothing.
LEMMA SlaveStep ==
  ASSUME IInv, NEW d \in Display, NEW r \in Record, Coherent(r),
         disp[d].status = "PREPARED", r.number = disp[d].number,
         \/ r.status = "PREPARED"
         \/ d \in TransientDisplay /\ r.status # "absent",
         disp' = [disp EXCEPT ![d] = r],
         UNCHANGED <<store, reserved, numFailures, started>>,
         granted' \subseteq StaticDisplay
  PROVE  IInv'
<1>1. /\ disp \in [Display -> Record]
  BY DEF IInv, TypeOK
<1>2. \A e \in Display : disp'[e] = IF e = d THEN r ELSE disp[e]
  BY <1>1
<1>3. \A e \in Display : Made(e)' <=> Made(e)
  BY <1>2 DEF Made
<1>4. TypeOK'
  BY <1>1 DEF IInv, TypeOK
<1>5. NumbersReserved' /\ NumbersDistinct' /\ FieldsCoherent'
  BY <1>2, <1>3 DEF IInv, NumbersReserved, NumbersDistinct, FieldsCoherent
<1>6. StoreExact'
  BY <1>2, <1>3, DisplayAssumption DEF IInv, StoreExact, Display
<1>7. QuietBeforeStart' /\ OneLoginDisplay'
  BY DEF IInv, QuietBeforeStart, OneLoginDisplay, GaveUp
<1> QED
  BY <1>4, <1>5, <1>6, <1>7 DEF IInv

-----------------------------------------------------------------------------
\* The first login display.
LEMMA StartStep ==
  ASSUME IInv, NEW d \in StaticDisplay, Start(d)
  PROVE  IInv'
<1> USE DEF Display
<1>1. PICK n \in Numbers, p \in Spawns :
        /\ ~started /\ ~Made(d) /\ NextNumber(n)
        /\ started' = TRUE
        /\ disp' = [disp EXCEPT ![d] = Managed(d, n, p)]
        /\ store' = store \cup {d} /\ reserved' = reserved \cup {n}
        /\ UNCHANGED <<numFailures, granted>>
  BY DEF Start
<1>2. /\ disp' \in [Display -> Record] /\ store' \subseteq Display /\ reserved' \subseteq Nat
      /\ NumbersReserved' /\ NumbersDistinct' /\ FieldsCoherent' /\ StoreExact'
  BY <1>1, MakeStep
<1>3. numFailures = 0 /\ store \cap StaticDisplay = {}
  BY <1>1 DEF IInv, QuietBeforeStart
<1>4. QuietBeforeStart'
  BY <1>1 DEF QuietBeforeStart
<1>5. OneLoginDisplay'
  <2>1. ~GaveUp'
    BY <1>1, <1>3, MaxFailuresAssumption DEF GaveUp
  <2>2. store' \cap StaticDisplay = {d}
    BY <1>1, <1>3
  <2> QED
    BY <2>1, <2>2, <1>1 DEF OneLoginDisplay
<1>6. TypeOK'
  BY <1>1, <1>2 DEF IInv, TypeOK
<1> QED
  BY <1>2, <1>4, <1>5, <1>6 DEF IInv

\* Another display of the factory leaves the login display alone.
LEMMA CreateTransientStep ==
  ASSUME IInv, NEW d \in TransientDisplay, CreateTransient(d)
  PROVE  IInv'
<1> USE DEF Display
<1>1. PICK n \in Numbers, p \in Spawns :
        /\ ~Made(d) /\ NextNumber(n)
        /\ disp' = [disp EXCEPT ![d] = Managed(d, n, p)]
        /\ store' = store \cup {d} /\ reserved' = reserved \cup {n}
        /\ UNCHANGED <<numFailures, started, granted>>
  BY DEF CreateTransient
<1>2. /\ disp' \in [Display -> Record] /\ store' \subseteq Display /\ reserved' \subseteq Nat
      /\ NumbersReserved' /\ NumbersDistinct' /\ FieldsCoherent' /\ StoreExact'
  BY <1>1, MakeStep
<1>3. store' \cap StaticDisplay = store \cap StaticDisplay
  BY <1>1, DisplayAssumption
<1>4. QuietBeforeStart' /\ OneLoginDisplay'
  BY <1>1, <1>3 DEF IInv, QuietBeforeStart, OneLoginDisplay, GaveUp
<1>5. TypeOK'
  BY <1>1, <1>2 DEF IInv, TypeOK
<1> QED
  BY <1>2, <1>4, <1>5 DEF IInv

\* The callbacks of the slave proxy, and the end of a transient display.
LEMMA CallbackStep ==
  ASSUME IInv, NEW d \in Display,
         \/ d \in StaticDisplay /\ RestartStatic(d)
         \/ d \in StaticDisplay /\ GetTimedLoginDetails(d)
         \/ d \in TransientDisplay /\ FinishTransient(d)
         \/ SlaveEnds(d)
         \/ ChildWatch(d)
  PROVE  IInv'
<1>1. disp \in [Display -> Record] /\ disp[d] \in Record /\ Coherent(disp[d])
  BY DEF IInv, TypeOK, FieldsCoherent
<1>2. granted \subseteq StaticDisplay
  BY DEF IInv, TypeOK
<1>3. CASE d \in StaticDisplay /\ RestartStatic(d)
  <2>1. PICK p \in Spawns :
          /\ disp[d].idle
          /\ disp' = [disp EXCEPT ![d] = Restarted(disp[d], p)]
          /\ UNCHANGED <<store, reserved, numFailures, started, granted>>
    BY <1>1, <1>3 DEF RestartStatic
  <2>2. disp[d].status = "PREPARED"
    BY <2>1, <1>1 DEF Coherent
  <2> QED
    BY <2>1, <2>2, <1>1, <1>2, RestartedType, SlaveStep
<1>4. CASE d \in StaticDisplay /\ GetTimedLoginDetails(d)
  <2>1. disp[d].status = "PREPARED"
    BY <1>1, <1>4 DEF GetTimedLoginDetails, Coherent
  <2>2. disp' = [disp EXCEPT ![d] = disp[d]]
    BY <1>1, <1>4 DEF GetTimedLoginDetails
  <2>3. granted' \subseteq StaticDisplay
    BY <1>2, <1>4 DEF GetTimedLoginDetails
  <2>4. UNCHANGED <<store, reserved, numFailures, started>>
    BY <1>4 DEF GetTimedLoginDetails
  <2> QED
    BY <2>1, <2>2, <2>3, <2>4, <1>1, SlaveStep
<1>5. CASE d \in TransientDisplay /\ FinishTransient(d)
  <2>1. PICK short \in BOOLEAN :
          /\ disp[d].idle
          /\ disp' = [disp EXCEPT ![d] = Unmanaged(disp[d], short)]
          /\ UNCHANGED <<store, reserved, numFailures, started, granted>>
    BY <1>1, <1>5 DEF FinishTransient
  <2>2. disp[d].status = "PREPARED"
    BY <2>1, <1>1 DEF Coherent
  <2>3. Unmanaged(disp[d], short).status # "absent"
    BY <1>1, UnmanagedType
  <2> QED
    BY <2>1, <2>2, <2>3, <1>1, <1>2, <1>5, UnmanagedType, SlaveStep
<1>6. CASE SlaveEnds(d)
  <2> DEFINE r == [disp[d] EXCEPT !.proxy = "zombie"]
  <2>1. /\ disp[d].proxy = "running" /\ disp' = [disp EXCEPT ![d] = r]
        /\ UNCHANGED <<store, reserved, numFailures, started, granted>>
    BY <1>1, <1>6 DEF SlaveEnds
  <2>2. r \in Record /\ r.status = disp[d].status /\ r.number = disp[d].number
    BY <1>1 DEF Record, Proxies
  <2>3. disp[d].status = "PREPARED"
    BY <2>1, <1>1 DEF Coherent
  <2>4. Coherent(r)
    BY <2>1, <2>3, <1>1 DEF Coherent, Record
  <2> QED
    BY <2>1, <2>2, <2>3, <2>4, <1>2, SlaveStep
<1>7. CASE ChildWatch(d)
  <2> DEFINE r == [disp[d] EXCEPT !.proxy = "reaped", !.idle = TRUE]
  <2>1. /\ disp[d].proxy = "zombie" /\ disp' = [disp EXCEPT ![d] = r]
        /\ UNCHANGED <<store, reserved, numFailures, started, granted>>
    BY <1>1, <1>7 DEF ChildWatch
  <2>2. r \in Record /\ r.status = disp[d].status /\ r.number = disp[d].number
    BY <1>1 DEF Record, Proxies
  <2>3. disp[d].status = "PREPARED"
    BY <2>1, <1>1 DEF Coherent
  <2>4. Coherent(r)
    BY <2>1, <2>3, <1>1 DEF Coherent, Record
  <2> QED
    BY <2>1, <2>2, <2>3, <2>4, <1>2, SlaveStep
<1> QED
  BY <1>3, <1>4, <1>5, <1>6, <1>7

\* A login display that failed: dropped, and replaced unless it is one too many.
LEMMA FailStaticStep ==
  ASSUME IInv, NEW d \in StaticDisplay, FailStatic(d)
  PROVE  IInv'
<1> USE DEF Display
<1>1. /\ disp \in [Display -> Record] /\ disp[d] \in Record
      /\ store \subseteq Display /\ reserved \subseteq Nat
      /\ numFailures \in Nat /\ numFailures' = numFailures + 1
      /\ UNCHANGED <<started, granted>>
  BY DEF IInv, TypeOK, FailStatic
<1>2. disp[d].status = "PREPARED" /\ d \in store
  BY DEF IInv, FieldsCoherent, Coherent, StoreExact, FailStatic
<1>3. started /\ ~GaveUp /\ store \cap StaticDisplay = {d}
  BY <1>2 DEF IInv, OneLoginDisplay
<1> DEFINE f == Unmanaged(disp[d], TRUE)
<1>4. /\ f \in Record /\ Coherent(f) /\ f.status = "FAILED"
      /\ f.number = disp[d].number
  BY <1>1, UnmanagedType
<1>5. CASE /\ numFailures' > MaxFailures
           /\ disp' = [disp EXCEPT ![d] = f]
           /\ store' = store \ {d}
           /\ UNCHANGED reserved
  <2> HIDE DEF f
  <2>1. \A e \in Display : disp'[e] = IF e = d THEN f ELSE disp[e]
    BY <1>1, <1>5
  <2>2. \A e \in Display : Made(e)' <=> Made(e)
    BY <2>1, <1>2, <1>4 DEF Made
  <2>3. TypeOK'
    BY <1>1, <1>4, <1>5 DEF IInv, TypeOK
  <2>4. NumbersReserved' /\ NumbersDistinct' /\ FieldsCoherent'
    BY <2>1, <2>2, <1>4, <1>5
       DEF IInv, NumbersReserved, NumbersDistinct, FieldsCoherent
  <2>5. StoreExact'
    BY <2>1, <2>2, <1>4, <1>5, DisplayAssumption DEF IInv, StoreExact
  <2>6. QuietBeforeStart' /\ OneLoginDisplay'
    BY <1>1, <1>3, <1>5 DEF QuietBeforeStart, OneLoginDisplay, GaveUp
  <2> QED
    BY <2>3, <2>4, <2>5, <2>6 DEF IInv
<1>6. CASE /\ numFailures' <= MaxFailures
           /\ \E e \in StaticDisplay, n \in Numbers, p \in Spawns :
                /\ ~Made(e) /\ NextNumber(n)
                /\ disp' = [disp EXCEPT ![d] = f, ![e] = Managed(e, n, p)]
                /\ store' = (store \ {d}) \cup {e}
                /\ reserved' = reserved \cup {n}
  <2>1. PICK e \in StaticDisplay, n \in Numbers, p \in Spawns :
          /\ ~Made(e) /\ NextNumber(n)
          /\ disp' = [disp EXCEPT ![d] = f, ![e] = Managed(e, n, p)]
          /\ store' = (store \ {d}) \cup {e}
          /\ reserved' = reserved \cup {n}
    BY <1>6
  <2> DEFINE g == Managed(e, n, p)
  <2>2. e # d
    BY <2>1, <1>2 DEF Made
  <2>3. g \in Record /\ Coherent(g) /\ g.status = "PREPARED" /\ g.number = n
    BY ManagedType
  <2>4. n \in Nat /\ n \notin reserved
    BY <2>1 DEF Numbers, NextNumber
  <2> HIDE DEF f, g
  <2>5. /\ \A x \in Display :
             disp'[x] = IF x = e THEN g ELSE IF x = d THEN f ELSE disp[x]
        /\ disp' \in [Display -> Record]
    BY <2>1, <2>3, <1>1, <1>4 DEF g
  <2>6. \A x \in Display : Made(x)' <=> x = e \/ Made(x)
    BY <2>5, <2>3, <1>2, <1>4 DEF Made
  <2>7. TypeOK'
    BY <1>1, <2>1, <2>4, <2>5 DEF IInv, TypeOK
  <2>8. NumbersReserved'
    BY <2>1, <2>3, <2>5, <2>6, <1>2, <1>4 DEF IInv, NumbersReserved, Made
  <2>9. NumbersDistinct'
    <3> SUFFICES ASSUME NEW x \in Display, NEW y \in Display,
                        Made(x)', Made(y)', x # y
                 PROVE  disp'[x].number # disp'[y].number
      BY DEF NumbersDistinct
    <3>1. \A z \in Display : Made(z)' /\ z # e =>
             /\ disp'[z].number = disp[z].number
             /\ disp[z].number \in reserved /\ Made(z)
      BY <2>5, <2>6, <1>2, <1>4 DEF IInv, NumbersReserved, Made
    <3>2. disp'[e].number = n
      BY <2>3, <2>5
    <3> QED
      BY <3>1, <3>2, <2>4 DEF IInv, NumbersDistinct
  <2>10. FieldsCoherent'
    BY <2>3, <2>5, <1>4 DEF IInv, FieldsCoherent
  <2>11. StoreExact'
    BY <2>1, <2>2, <2>3, <2>5, <2>6, <1>4, DisplayAssumption DEF IInv, StoreExact
  <2>12. QuietBeforeStart'
    BY <1>1, <1>3 DEF QuietBeforeStart
  <2>13. OneLoginDisplay'
    <3>1. store' \cap StaticDisplay = {e}
      BY <2>1, <1>3
    <3>2. started' /\ ~GaveUp'
      BY <1>1, <1>3, <1>6, MaxFailuresAssumption DEF GaveUp
    <3> QED
      BY <3>1, <3>2 DEF OneLoginDisplay
  <2> QED
    BY <2>7, <2>8, <2>9, <2>10, <2>11, <2>12, <2>13 DEF IInv
<1> QED
  <2>1. TooMany(numFailures') <=> numFailures' > MaxFailures
    BY DEF TooMany
  <2>2. ~TooMany(numFailures') <=> numFailures' <= MaxFailures
    BY <1>1, MaxFailuresAssumption DEF TooMany
  <2> HIDE DEF f, TooMany, Display
  <2> QED
    BY <2>1, <2>2, <1>5, <1>6 DEF FailStatic, f

\* Every step keeps the invariant.
LEMMA StepIInv == IInv /\ [Next]_vars => IInv'
<1> SUFFICES ASSUME IInv, [Next]_vars PROVE IInv'
  OBVIOUS
<1>1. ASSUME NEW d \in StaticDisplay, Start(d) PROVE IInv'
  BY <1>1, StartStep
<1>2. ASSUME NEW d \in StaticDisplay, FailStatic(d) PROVE IInv'
  BY <1>2, FailStaticStep
<1>3. ASSUME NEW d \in StaticDisplay, RestartStatic(d) \/ GetTimedLoginDetails(d)
      PROVE IInv'
  BY <1>3, CallbackStep DEF Display
<1>4. ASSUME NEW d \in TransientDisplay, CreateTransient(d) PROVE IInv'
  BY <1>4, CreateTransientStep
<1>5. ASSUME NEW d \in TransientDisplay, FinishTransient(d) PROVE IInv'
  BY <1>5, CallbackStep DEF Display
<1>6. ASSUME NEW d \in Display, SlaveEnds(d) \/ ChildWatch(d) PROVE IInv'
  BY <1>6, CallbackStep
<1>7. CASE UNCHANGED vars
  BY <1>7 DEF vars, IInv, TypeOK, NumbersReserved, NumbersDistinct, FieldsCoherent,
              StoreExact, QuietBeforeStart, OneLoginDisplay, Made, GaveUp, Coherent
<1> QED
  BY <1>1, <1>2, <1>3, <1>4, <1>5, <1>6, <1>7 DEF Next

\* The invariant gives what the runs check.
LEMMA IInvImplies ==
  IInv => NoCallbackOnDropped /\ Supervised
<1> SUFFICES ASSUME IInv PROVE NoCallbackOnDropped /\ Supervised
  OBVIOUS
<1>1. \A d \in Display : Coherent(disp[d]) /\ disp[d].proxy \in Proxies
  BY DEF IInv, FieldsCoherent, TypeOK, Record
<1>2. \A d \in Display : disp[d].status = "PREPARED" => d \in store
  BY DEF IInv, StoreExact, Display, Made
<1>3. NoCallbackOnDropped
  BY <1>1, <1>2 DEF Coherent, NoCallbackOnDropped
<1>4. Supervised
  BY <1>1 DEF Coherent, Supervised, Proxies
<1> QED
  BY <1>3, <1>4

\* The invariant holds in every reachable state.
THEOREM Invariant == Spec => []IInv
  BY InitIInv, StepIInv, PTL DEF Spec

\* Every field of every display keeps its type, for any number of displays.
THEOREM TypeCorrect == Spec => []TypeOK
<1>1. IInv => TypeOK
  BY DEF IInv
<1> QED
  BY <1>1, Invariant, PTL

\* Two displays of the factory never share an X display number: numbers of
\* displays that failed are not handed out again (take_next_display_number).
THEOREM DisplayNumbersDistinct == Spec => []NumbersDistinct
<1>1. IInv => NumbersDistinct
  BY DEF IInv
<1> QED
  BY <1>1, Invariant, PTL

\* Until it gives up after MAX_DISPLAY_FAILURES the factory keeps exactly one
\* login display, through every restart and every failure.
THEOREM ExactlyOneLoginDisplay == Spec => []OneLoginDisplay
<1>1. IInv => OneLoginDisplay
  BY DEF IInv
<1> QED
  BY <1>1, Invariant, PTL

\* No child watch and no finish_idle is left pointing at a display that the
\* store gave up: neither callback can run on a finalized object.
THEOREM CallbacksOnLiveDisplays == Spec => [](NoCallbackOnDropped /\ Supervised)
  BY IInvImplies, Invariant, PTL
-----------------------------------------------------------------------------
(* The timed login.  The flag is cleared by every restart and no display is  *)
(* made again, so a display is a grant at most; and the login displays ever   *)
(* made are the first one and one for each failure counted.                  *)

LoginDisplaysMade == {d \in StaticDisplay : Made(d)}

GrantedInv ==
  /\ granted \subseteq LoginDisplaysMade
  /\ Cardinality(LoginDisplaysMade) <= numFailures + 1
  /\ ~started => LoginDisplaysMade = {}

\* There are finitely many login displays.
LEMMA FinitelyMade == IsFiniteSet(LoginDisplaysMade)
  BY FS_Subset, DisplayAssumption DEF LoginDisplaysMade

LEMMA InitGranted == Init => GrantedInv
<1> SUFFICES ASSUME Init PROVE GrantedInv
  OBVIOUS
<1>1. LoginDisplaysMade = {}
  BY DEF Init, LoginDisplaysMade, Made, Absent, Display
<1> QED
  BY <1>1, FS_EmptySet DEF Init, GrantedInv

\* A step that makes no login display and counts no failure.
LEMMA GrantedSame ==
  ASSUME GrantedInv, UNCHANGED <<numFailures, started>>,
         \A d \in StaticDisplay : Made(d)' <=> Made(d),
         granted' \subseteq LoginDisplaysMade
  PROVE  GrantedInv'
<1>1. LoginDisplaysMade' = LoginDisplaysMade
  BY DEF LoginDisplaysMade
<1> QED
  BY <1>1 DEF GrantedInv

\* A step of one display, which was made before it and still is after it.
LEMMA GrantedByOthers ==
  ASSUME IInv, GrantedInv, UNCHANGED <<numFailures, started, granted>>,
         NEW d \in Display, NEW r,
         disp' = [disp EXCEPT ![d] = r],
         d \in StaticDisplay => disp[d].status # "absent" /\ r.status # "absent"
  PROVE  GrantedInv'
<1>1. \A e \in Display : disp'[e] = IF e = d THEN r ELSE disp[e]
  BY DEF IInv, TypeOK
<1>2. \A e \in StaticDisplay : Made(e)' <=> Made(e)
  BY <1>1 DEF Made, Display
<1>3. granted' \subseteq LoginDisplaysMade
  BY DEF GrantedInv
<1> QED
  BY <1>2, <1>3, GrantedSame

\* A step that makes login display e: the first one, or for a failure counted.
LEMMA GrantedOneMore ==
  ASSUME GrantedInv, numFailures \in Nat, NEW e \in StaticDisplay,
         \A d \in StaticDisplay : Made(d)' <=> d = e \/ Made(d),
         granted' = granted, started',
         (~started /\ numFailures' = numFailures) \/ numFailures' = numFailures + 1
  PROVE  GrantedInv'
<1>1. LoginDisplaysMade' = LoginDisplaysMade \cup {e}
  BY DEF LoginDisplaysMade
<1> DEFINE c == Cardinality(LoginDisplaysMade)
           more == Cardinality(LoginDisplaysMade \cup {e})
<1>2. c \in Nat /\ more \in Nat /\ more <= c + 1
  <2>1. IsFiniteSet(LoginDisplaysMade \cup {e}) /\ more \in {c, c + 1}
    BY FinitelyMade, FS_AddElement
  <2>2. c \in Nat /\ more \in Nat
    BY <2>1, FinitelyMade, FS_CardinalityType
  <2> HIDE DEF c, more
  <2> QED
    BY <2>1, <2>2
<1>3. more <= numFailures' + 1
  <2>1. CASE ~started /\ numFailures' = numFailures
    <3>1. c = 0
      BY <2>1, FS_EmptySet DEF GrantedInv
    <3> HIDE DEF c, more
    <3> QED
      BY <1>2, <2>1, <3>1
  <2>2. CASE numFailures' = numFailures + 1
    <3>1. c <= numFailures + 1
      BY DEF GrantedInv
    <3> HIDE DEF c, more
    <3> QED
      BY <1>2, <2>2, <3>1
  <2> QED
    BY <2>1, <2>2
<1>4. granted' \subseteq LoginDisplaysMade \cup {e}
  BY DEF GrantedInv
<1> QED
  BY <1>1, <1>3, <1>4 DEF GrantedInv

\* Every step keeps it.
LEMMA GrantedStep == IInv /\ GrantedInv /\ [Next]_vars => GrantedInv'
<1> SUFFICES ASSUME IInv, GrantedInv, [Next]_vars PROVE GrantedInv'
  OBVIOUS
<1>0. /\ disp \in [Display -> Record] /\ numFailures \in Nat
      /\ StaticDisplay \subseteq Display /\ granted \subseteq LoginDisplaysMade
  BY DEF IInv, TypeOK, Display, GrantedInv
<1>1. ASSUME NEW d \in StaticDisplay, Start(d) PROVE GrantedInv'
  <2>1. PICK n \in Numbers, p \in Spawns : disp' = [disp EXCEPT ![d] = Managed(d, n, p)]
    BY <1>1 DEF Start
  <2>2. \A e \in StaticDisplay : Made(e)' <=> e = d \/ Made(e)
    BY <1>0, <2>1, ManagedType DEF Made
  <2>3. ~started /\ started' /\ UNCHANGED <<numFailures, granted>>
    BY <1>1 DEF Start
  <2> QED
    BY <1>0, <2>2, <2>3, GrantedOneMore
<1>2. ASSUME NEW d \in StaticDisplay, FailStatic(d) PROVE GrantedInv'
  <2>1. disp[d].status = "PREPARED"
    BY <1>2 DEF IInv, FieldsCoherent, Coherent, FailStatic, Display
  <2>2. started /\ numFailures' = numFailures + 1 /\ UNCHANGED <<started, granted>>
    BY <1>2, <2>1 DEF IInv, OneLoginDisplay, StoreExact, FailStatic
  <2> DEFINE f == Unmanaged(disp[d], TRUE)
  <2>3. f.status = "FAILED"
    BY <1>0, UnmanagedType
  <2>4. \/ disp' = [disp EXCEPT ![d] = f]
        \/ \E e \in StaticDisplay, n \in Numbers, p \in Spawns :
             ~Made(e) /\ disp' = [disp EXCEPT ![d] = f, ![e] = Managed(e, n, p)]
    BY <1>0, <1>2 DEF FailStatic
  <2> HIDE DEF f
  <2>5. CASE disp' = [disp EXCEPT ![d] = f]
    <3>1. \A e \in StaticDisplay : Made(e)' <=> Made(e)
      BY <1>0, <2>1, <2>3, <2>5 DEF Made
    <3>2. LoginDisplaysMade' = LoginDisplaysMade
      BY <3>1 DEF LoginDisplaysMade
    <3>3. Cardinality(LoginDisplaysMade) \in Nat
      BY FinitelyMade, FS_CardinalityType
    <3> QED
      BY <1>0, <2>2, <3>2, <3>3 DEF GrantedInv
  <2>6. CASE \E e \in StaticDisplay, n \in Numbers, p \in Spawns :
               ~Made(e) /\ disp' = [disp EXCEPT ![d] = f, ![e] = Managed(e, n, p)]
    <3>1. PICK e \in StaticDisplay, n \in Numbers, p \in Spawns :
            ~Made(e) /\ disp' = [disp EXCEPT ![d] = f, ![e] = Managed(e, n, p)]
      BY <2>6
    <3>2. Managed(e, n, p).status = "PREPARED"
      BY <1>0, ManagedType
    <3>3. \A x \in StaticDisplay : Made(x)' <=> x = e \/ Made(x)
      BY <1>0, <2>1, <2>3, <3>1, <3>2 DEF Made
    <3> QED
      BY <1>0, <2>2, <3>3, GrantedOneMore
  <2> QED
    BY <2>4, <2>5, <2>6
<1>3. ASSUME NEW d \in StaticDisplay, RestartStatic(d) PROVE GrantedInv'
  <2>1. PICK p \in Spawns : disp' = [disp EXCEPT ![d] = Restarted(disp[d], p)]
    BY <1>0, <1>3 DEF RestartStatic
  <2>2. disp[d].status = "PREPARED" /\ UNCHANGED <<numFailures, started, granted>>
    BY <1>3 DEF IInv, FieldsCoherent, Coherent, RestartStatic, Display
  <2>3. Restarted(disp[d], p).status = "PREPARED"
    BY <1>0, RestartedType
  <2> QED
    BY <1>0, <2>1, <2>2, <2>3, GrantedByOthers
<1>4. ASSUME NEW d \in StaticDisplay, GetTimedLoginDetails(d) PROVE GrantedInv'
  <2>1. d \in LoginDisplaysMade
    BY <1>0, <1>4
       DEF IInv, FieldsCoherent, Coherent, GetTimedLoginDetails, LoginDisplaysMade, Made
  <2>2. granted' \subseteq LoginDisplaysMade /\ UNCHANGED <<disp, numFailures, started>>
    BY <1>0, <1>4, <2>1 DEF GetTimedLoginDetails
  <2> QED
    BY <2>2, GrantedSame DEF Made
<1>5. ASSUME NEW d \in TransientDisplay, CreateTransient(d) \/ FinishTransient(d)
      PROVE  GrantedInv'
  <2>1. d \in Display /\ d \notin StaticDisplay
    BY DisplayAssumption DEF Display
  <2>2. \E r : disp' = [disp EXCEPT ![d] = r]
    BY <1>5 DEF CreateTransient, FinishTransient
  <2>3. UNCHANGED <<numFailures, started, granted>>
    BY <1>5 DEF CreateTransient, FinishTransient
  <2> QED
    BY <2>1, <2>2, <2>3, GrantedByOthers
<1>6. ASSUME NEW d \in Display, SlaveEnds(d) \/ ChildWatch(d) PROVE GrantedInv'
  <2>1. PICK r \in {[disp[d] EXCEPT !.proxy = "zombie"],
                    [disp[d] EXCEPT !.proxy = "reaped", !.idle = TRUE]} :
          disp' = [disp EXCEPT ![d] = r]
    BY <1>0, <1>6 DEF SlaveEnds, ChildWatch
  <2>2. disp[d].status = "PREPARED" /\ UNCHANGED <<numFailures, started, granted>>
    BY <1>6 DEF IInv, FieldsCoherent, Coherent, SlaveEnds, ChildWatch
  <2>3. r.status = disp[d].status
    BY <1>0 DEF Record
  <2> QED
    BY <2>1, <2>2, <2>3, GrantedByOthers
<1>7. CASE UNCHANGED vars
  BY <1>0, <1>7, GrantedSame DEF vars, Made
<1> QED
  BY <1>1, <1>2, <1>3, <1>4, <1>5, <1>6, <1>7 DEF Next

\* Of "Only allow timed/automatic login once" this is what the code keeps: the login
\* screen is told to log a user in by itself once, and once more for each failure.
TimedLoginPerFailure == Cardinality(granted) <= numFailures + 1

\* So it is, for any displays and any MAX_DISPLAY_FAILURES.
THEOREM TimedLoginPerFailure_Holds == Spec => []TimedLoginPerFailure
<1>1. ASSUME IInv, GrantedInv PROVE TimedLoginPerFailure
  <2>1. IsFiniteSet(LoginDisplaysMade) /\ granted \subseteq LoginDisplaysMade
    BY <1>1, FinitelyMade DEF GrantedInv
  <2>2. /\ Cardinality(granted) <= Cardinality(LoginDisplaysMade)
        /\ Cardinality(granted) \in Nat /\ Cardinality(LoginDisplaysMade) \in Nat
    BY <2>1, FS_Subset, FS_CardinalityType
  <2> QED
    BY <1>1, <2>2 DEF GrantedInv, TimedLoginPerFailure, IInv, TypeOK
<1> QED
  BY <1>1, InitIInv, StepIInv, InitGranted, GrantedStep, PTL DEF Spec

-----------------------------------------------------------------------------
(***************************************************************************)
(* Guest sessions.                                                          *)
(***************************************************************************)
Prepared(d) == disp[d].status = "PREPARED"

\* A registered session is the session of a running slave.
ShownRun == \A d \in shown : disp[d].proxy = "running"

\* Guest displays were made; one whose cleanup script runs has its finish_idle.
GuestsMade ==
  /\ \A d \in guests : Made(d)
  /\ script \in guests => disp[script].idle

\* Without a race there is one guest display at a time, and none in setup.
OneGuest ==
  ~raced =>
    /\ \A d, e \in guests : Prepared(d) /\ Prepared(e) => d = e
    /\ script = "setup" => \A d \in guests : ~Prepared(d)

GInv ==
  /\ GuestTypeOK
  /\ ShownRun
  /\ GuestsMade
  /\ OneGuest
  /\ AccountKept

-----------------------------------------------------------------------------
\* Every step with guest sessions is a step of the local displays, or none.
LEMMA StepRefines == GuestTypeOK /\ [GuestNext]_allVars => [Next]_vars
<1> SUFFICES ASSUME GuestTypeOK, [GuestNext]_allVars PROVE [Next]_vars
  OBVIOUS
<1>1. CASE Daemon
  BY <1>1 DEF Daemon, Renew, Finish, SwitchToUser, HearsOf, Dispatch, Next
<1>2. CASE Slave
  BY <1>2 DEF Slave, SlaveOfDisplayEnds, GuestLoggedIn, Next
<1>3. CASE Guest
  <2>1. CASE StartGuestSession
    BY <2>1 DEF StartGuestSession
  <2>2. CASE GuestAccountSetUp
    BY <2>2 DEF GuestAccountSetUp, Next
  <2>3. ASSUME NEW d \in TransientDisplay, GuestFinishes(d) PROVE UNCHANGED vars
    BY <2>3 DEF GuestFinishes
  <2>4. CASE GuestCleanedUp
    <3>1. script \in TransientDisplay /\ FinishTransient(script)
      BY <2>4 DEF GuestCleanedUp, GuestTypeOK
    <3> QED
      BY <3>1 DEF Next
  <2> QED
    BY <1>3, <2>1, <2>2, <2>3, <2>4 DEF Guest
<1>4. CASE UNCHANGED allVars
  BY <1>4 DEF allVars
<1> QED
  BY <1>1, <1>2, <1>3, <1>4 DEF GuestNext
\* What the daemon does by itself leaves every guest display as it is, but for a
\* finish_idle that its child watch queues.
LEMMA DaemonStep ==
  ASSUME IInv, GuestTypeOK, GuestsMade, Daemon, NEW g \in guests
  PROVE  /\ disp'[g].status = disp[g].status
         /\ disp[g].proxy = "running" => disp'[g].proxy = "running"
         /\ UNCHANGED guestVars /\ Free
<1> USE DEF Daemon, Dispatch, Renew, Finish, SwitchToUser, HearsOf
<1>1. g \in TransientDisplay /\ g \in Display /\ g \notin StaticDisplay /\ Made(g)
  BY DisplayAssumption DEF GuestTypeOK, GuestsMade, Display
<1>2. disp \in [Display -> Record]
  BY DEF IInv, TypeOK
<1>3. ASSUME NEW d \in StaticDisplay, RestartStatic(d) \/ FailStatic(d)
      PROVE  disp'[g] = disp[g]
  BY <1>1, <1>2, <1>3 DEF RestartStatic, FailStatic
<1>4. ASSUME NEW d \in StaticDisplay, Start(d) \/ GetTimedLoginDetails(d)
      PROVE  disp'[g] = disp[g]
  BY <1>1, <1>2, <1>4 DEF Start, GetTimedLoginDetails
<1>5. ASSUME NEW d \in TransientDisplay, d \notin guests, FinishTransient(d)
      PROVE  disp'[g] = disp[g]
  BY <1>1, <1>2, <1>5 DEF FinishTransient
<1>6. ASSUME NEW d \in TransientDisplay, CreateTransient(d)
      PROVE  disp'[g] = disp[g]
  BY <1>1, <1>2, <1>6 DEF CreateTransient
<1>7. ASSUME NEW d \in Display, ChildWatch(d)
      PROVE  /\ disp'[g].status = disp[g].status
             /\ disp[g].proxy = "running" => disp'[g].proxy = "running"
  BY <1>1, <1>2, <1>7 DEF ChildWatch, Record
<1> QED
  BY <1>3, <1>4, <1>5, <1>6, <1>7

\* The initial states have no guest.
LEMMA InitGInv == GuestInit => GInv
<1> SUFFICES ASSUME GuestInit PROVE GInv
  OBVIOUS
<1>1. TypeOK
  BY InitIInv DEF GuestInit, IInv
<1> QED
  BY <1>1 DEF GuestInit, GInv, GuestTypeOK, ShownRun, GuestsMade, OneGuest, AccountKept,
              NoScript
\* The daemon's own steps.
LEMMA DaemonKeeps ==
  ASSUME IInv, IInv', GInv, Daemon
  PROVE  GInv'
<1>1. UNCHANGED guestVars /\ Free
  BY DEF Daemon, Renew, Finish, SwitchToUser, HearsOf, Dispatch
<1>2. \A g \in guests : disp'[g].status = disp[g].status
  BY DaemonStep DEF GInv
<1>3. \A g \in guests : disp[g].proxy = "running" => disp'[g].proxy = "running"
  BY DaemonStep DEF GInv
<1>4. GuestTypeOK' /\ ShownRun' /\ AccountKept'
  BY <1>1, <1>3 DEF GInv, IInv, GuestTypeOK, ShownRun, AccountKept, guestVars
<1>5. GuestsMade'
  <2>1. script \notin guests
    BY <1>1, ScriptAssumption DEF Free, GInv, GuestTypeOK
  <2> QED
    BY <1>1, <1>2, <2>1 DEF GInv, GuestsMade, Made, guestVars
<1>6. OneGuest'
  BY <1>1, <1>2 DEF GInv, OneGuest, Prepared, guestVars
<1> QED
  BY <1>4, <1>5, <1>6 DEF GInv

\* The slaves' steps.
LEMMA SlaveKeeps ==
  ASSUME IInv, IInv', GInv, NEW d \in Display, SlaveOfDisplayEnds(d) \/ GuestLoggedIn(d)
  PROVE  GInv'
<1>1. disp \in [Display -> Record] /\ guests \subseteq Display
  BY DEF IInv, TypeOK, GInv, GuestTypeOK, Display
<1>2. CASE SlaveOfDisplayEnds(d)
  <2>1. /\ disp' = [disp EXCEPT ![d].proxy = "zombie"]
        /\ shown' = shown \ {d} /\ unheard' \in {{}, unheard, unheard \cup {d}}
        /\ UNCHANGED <<guests, account, script, raced>>
    BY <1>2 DEF SlaveOfDisplayEnds, SlaveEnds
  <2>2. \A g \in Display : /\ disp'[g].status = disp[g].status
                          /\ disp'[g].idle = disp[g].idle
                          /\ g # d => disp'[g] = disp[g]
    BY <1>1, <2>1 DEF Record
  <2>3. GuestTypeOK' /\ AccountKept'
    BY <2>1 DEF GInv, IInv, GuestTypeOK, AccountKept
  <2>4. ShownRun'
    BY <1>1, <2>1, <2>2 DEF GInv, ShownRun, GuestTypeOK
  <2>5. GuestsMade' /\ OneGuest'
    BY <1>1, <2>1, <2>2 DEF GInv, GuestsMade, OneGuest, Made, Prepared
  <2> QED
    BY <2>3, <2>4, <2>5 DEF GInv
<1>3. CASE GuestLoggedIn(d)
  <2>1. /\ d \in guests /\ disp[d].proxy = "running" /\ account
        /\ shown' = shown \cup {d}
        /\ UNCHANGED <<vars, guests, account, script, unheard, raced>>
    BY <1>3 DEF GuestLoggedIn
  <2> QED
    BY <2>1 DEF vars, GInv, IInv, GuestTypeOK, ShownRun, GuestsMade, OneGuest, AccountKept,
                Prepared, Made
<1> QED
  BY <1>2, <1>3

\* A guest session is asked for: if no race is noted, no guest display is up.
LEMMA StartKeeps ==
  ASSUME IInv, IInv', GInv, StartGuestSession
  PROVE  GInv'
<1>1. /\ script' = "setup"
      /\ UNCHANGED <<vars, guests, shown, account, unheard>>
  BY DEF StartGuestSession
<1>2. PICK ck \in BOOLEAN :
        /\ ~SwitchToGuest(ck)
        /\ raced' = (raced \/ \E d \in guests :
                       disp[d].status = "PREPARED" /\ ~(ck /\ d \in shown))
  BY DEF StartGuestSession
<1>3. ASSUME ~raced' PROVE ~raced /\ \A d \in guests : ~Prepared(d)
  <2>1. ~raced /\ \A d \in guests : Prepared(d) => ck /\ d \in shown
    BY <1>2, <1>3 DEF Prepared
  <2>2. ASSUME NEW d \in guests, Prepared(d) PROVE FALSE
    <3>1. ck /\ shown # {}
      BY <2>1, <2>2
    <3>2. account
      BY <2>1, <3>1 DEF GInv, AccountKept
    <3> QED
      BY <1>2, <3>1, <3>2 DEF SwitchToGuest
  <2> QED
    BY <2>1, <2>2
<1>4. GuestTypeOK' /\ ShownRun'
  BY <1>1, <1>2 DEF GInv, IInv, GuestTypeOK, ShownRun, vars
<1>5. GuestsMade'
  <2>1. script' \notin guests'
    BY <1>1, ScriptAssumption DEF GInv, GuestTypeOK
  <2> QED
    BY <1>1, <2>1 DEF GInv, GuestsMade, Made, vars
<1>6. OneGuest'
  BY <1>1, <1>3 DEF OneGuest, Prepared, vars
<1>7. AccountKept'
  BY <1>1, <1>2 DEF GInv, AccountKept
<1> QED
  BY <1>4, <1>5, <1>6, <1>7 DEF GInv
\* The account is made, and perhaps a display for it: the only one, if no race
\* was noted when the session was asked for.
LEMMA SetUpKeeps ==
  ASSUME IInv, IInv', GInv, GuestAccountSetUp
  PROVE  GInv'
<1>1. /\ script = "setup" /\ script' = NoScript
      /\ UNCHANGED <<shown, unheard, raced>>
      /\ account' \in {account, TRUE}
  BY DEF GuestAccountSetUp
<1>2. script' \notin guests'
  <2>1. guests' \subseteq TransientDisplay
    BY DEF GuestAccountSetUp, GInv, GuestTypeOK
  <2> QED
    BY <1>1, <2>1, ScriptAssumption
<1>3. CASE UNCHANGED <<vars, guests>>
  BY <1>1, <1>2, <1>3 DEF GInv, IInv, GuestTypeOK, ShownRun, GuestsMade, OneGuest,
                          AccountKept, Prepared, Made, vars, NoScript
<1>4. ASSUME NEW d \in TransientDisplay, CreateTransient(d),
             guests' = guests \cup {d}, account' = TRUE
      PROVE  GInv'
  <2>1. PICK n \in Numbers, p \in Spawns : disp' = [disp EXCEPT ![d] = Managed(d, n, p)]
    BY <1>4 DEF CreateTransient
  <2>2. ~Made(d) /\ d \notin guests
    BY <1>4 DEF CreateTransient, GInv, GuestsMade
  <2>3. disp \in [Display -> Record] /\ d \in Display /\ guests \subseteq Display
    BY DEF IInv, TypeOK, GInv, GuestTypeOK, Display
  <2>4. Made(d)' /\ \A g \in guests : disp'[g] = disp[g]
    BY <2>1, <2>2, <2>3, ManagedType DEF Made
  <2>5. GuestTypeOK' /\ AccountKept'
    BY <1>1, <1>4 DEF GInv, IInv, GuestTypeOK, AccountKept, NoScript
  <2>6. ShownRun'
    BY <1>1, <2>4 DEF GInv, GuestTypeOK, ShownRun
  <2>7. GuestsMade'
    BY <1>2, <1>4, <2>4 DEF GInv, GuestsMade, Made
  <2>8. OneGuest'
    BY <1>1, <1>4, <2>4 DEF GInv, OneGuest, Prepared, NoScript
  <2> QED
    BY <2>5, <2>6, <2>7, <2>8 DEF GInv
<1> QED
  BY <1>3, <1>4 DEF GuestAccountSetUp

\* The cleanup script starts for a display whose finish_idle runs.
LEMMA FinishesKeeps ==
  ASSUME IInv, IInv', GInv, NEW d \in TransientDisplay, GuestFinishes(d)
  PROVE  GInv'
<1>1. /\ d \in guests /\ disp[d].idle /\ script' = d
      /\ UNCHANGED <<vars, guests, shown, account, unheard, raced>>
  BY DEF GuestFinishes
<1>2. script' # "setup"
  BY <1>1, ScriptAssumption
<1> QED
  BY <1>1, <1>2 DEF GInv, IInv, GuestTypeOK, ShownRun, GuestsMade, OneGuest, AccountKept,
                    Prepared, Made, vars

\* The account is removed when its display, the only one if there was no race,
\* has no slave any more: no session is left without it.
LEMMA CleanedUpKeeps ==
  ASSUME IInv, IInv', GInv, GuestCleanedUp
  PROVE  GInv'
<1> DEFINE d == script
<1>1. /\ d \in guests /\ FinishTransient(d) /\ script' = NoScript
      /\ account' \in {account, FALSE}
      /\ UNCHANGED <<guests, shown, unheard, raced>>
  BY DEF GuestCleanedUp
<1>2. /\ disp \in [Display -> Record]
      /\ d \in Display /\ guests \subseteq Display /\ shown \subseteq guests
  BY <1>1 DEF IInv, TypeOK, GInv, GuestTypeOK, Display
<1>3. PICK short \in BOOLEAN : disp' = [disp EXCEPT ![d] = Unmanaged(@, short)]
  BY <1>1 DEF FinishTransient
<1>4. /\ disp'[d].status \in {"FAILED", "UNMANAGED"}
      /\ \A g \in guests : g # d => disp'[g] = disp[g]
  BY <1>2, <1>3 DEF Unmanaged
<1>5. Prepared(d) /\ disp[d].proxy = "reaped"
  BY <1>1, <1>2 DEF IInv, FieldsCoherent, Coherent, FinishTransient, Prepared
<1>6. \A g \in shown : Prepared(g) /\ g # d
  BY <1>2, <1>5 DEF IInv, FieldsCoherent, Coherent, GInv, ShownRun, Prepared
<1>7. raced \/ shown = {}
  BY <1>1, <1>2, <1>5, <1>6 DEF GInv, OneGuest
<1>8. script' \notin guests' /\ script' # "setup"
  BY <1>1, ScriptAssumption DEF GInv, GuestTypeOK, NoScript
<1>9. GuestTypeOK' /\ AccountKept'
  BY <1>1, <1>7 DEF GInv, IInv, GuestTypeOK, AccountKept
<1>10. ShownRun'
  BY <1>1, <1>2, <1>4, <1>6 DEF GInv, ShownRun
<1>11. GuestsMade' /\ OneGuest'
  BY <1>1, <1>4, <1>8 DEF GInv, GuestsMade, OneGuest, Prepared, Made
<1> QED
  BY <1>9, <1>10, <1>11 DEF GInv

\* Both invariants are kept by every step.
LEMMA StepKeeps == IInv /\ GInv /\ [GuestNext]_allVars => (IInv /\ GInv)'
<1> SUFFICES ASSUME IInv, GInv, [GuestNext]_allVars PROVE (IInv /\ GInv)'
  OBVIOUS
<1>1. IInv'
  BY StepRefines, StepIInv DEF GInv
<1>2. CASE Daemon
  BY <1>1, <1>2, DaemonKeeps
<1>3. CASE Slave
  BY <1>1, <1>3, SlaveKeeps DEF Slave
<1>4. CASE Guest
  BY <1>1, <1>4, StartKeeps, SetUpKeeps, FinishesKeeps, CleanedUpKeeps DEF Guest
<1>5. CASE UNCHANGED allVars
  BY <1>1, <1>5 DEF allVars, guestVars, vars, GInv, IInv, GuestTypeOK, ShownRun,
                    GuestsMade, OneGuest, AccountKept, Prepared, Made
<1> QED
  BY <1>1, <1>2, <1>3, <1>4, <1>5 DEF GuestNext

-----------------------------------------------------------------------------
\* The invariants hold in every reachable state.
THEOREM GuestInvariant == GuestSpec => [](IInv /\ GInv)
<1>1. GuestInit => IInv /\ GInv
  BY InitIInv, InitGInv DEF GuestInit
<1> QED
  BY <1>1, StepKeeps, PTL DEF GuestSpec

\* Every field keeps its type, for any displays and any MAX_DISPLAY_FAILURES.
THEOREM GuestTypeCorrect == GuestSpec => []GuestTypeOK
<1>1. GInv => GuestTypeOK
  BY DEF GInv
<1> QED
  BY <1>1, GuestInvariant, PTL

\* While a guest session runs its account stays, unless a guest display was made
\* beside another that ConsoleKit did not show (switch_to_guest_display).
THEOREM GuestKeepsAccount == GuestSpec => []AccountKept
<1>1. GInv => AccountKept
  BY DEF GInv
<1> QED
  BY <1>1, GuestInvariant, PTL

\* What holds of the local displays holds with guest sessions, their scripts, the
\* requests for them and the ends of slaves that are not heard of: numbers, the one
\* login display, and callbacks only on displays the store has.
THEOREM DisplaysKeptWithGuests ==
  GuestSpec => [](NumbersDistinct /\ OneLoginDisplay /\ NoCallbackOnDropped)
<1>1. IInv => NumbersDistinct /\ OneLoginDisplay /\ NoCallbackOnDropped
  BY IInvImplies DEF IInv
<1> QED
  BY <1>1, GuestInvariant, PTL
=============================================================================
