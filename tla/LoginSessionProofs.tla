------------------------- MODULE LoginSessionProofs --------------------------
(***************************************************************************)
(* Proofs about LoginSession, for any accounts and any number of            *)
(* conversations, questions, retries and faults.  IInv is the inductive      *)
(* invariant; every action keeps it, its parts give the safety properties    *)
(* that need no assumption on the user or the greeter, and with it every     *)
(* step is a step of PamTransaction.                                         *)
(***************************************************************************)
EXTENDS LoginSession, TLAPS

\* The worker runs the step after its state, only while it is connected; nothing is
\* sent to it before.
WorkerInv ==
  /\ worker.pc # "up" =>
       /\ worker.state = NONE /\ worker.step = NONE /\ ~worker.idle
       /\ worker.call = "none"
       /\ inbox = <<>>
  /\ worker.step # NONE => worker.step = worker.state + 1 /\ ~worker.idle
  /\ worker.idle => worker.state # SESSION_STARTED

\* Every call that begins a user names an account.
SoundCall ==
  {c \in Call : c.name \in {"BeginVerificationForUser", "BeginAutoLogin"}
                  => c.user \in User}
CallsInv ==
  /\ calls \in Seq(SoundCall)
  /\ greeter.st \in {"none", "starting"} => calls = <<>>

\* The slave's reply and the worker's question.
PairInv ==
  /\ worker.call = "answer" => sess.pending
  /\ sess.pending => worker.call = "answer" \/ worker.pc \in {"dead", "none"}
  /\ greeter.st = "starting" => worker.pc = "none" /\ ~sess.pending
  /\ life # "abort_query"

\* Before the greeter is stopped the session has not been asked for.
EarlyRequest == {r \in Request : r.name # "StartProgram"}
DisplayInv ==
  HasGreeter =>
    /\ inbox \in Seq(EarlyRequest)
    /\ ~(worker.idle /\ worker.state = SESSION_OPENED)
    /\ worker.step # SESSION_STARTED /\ worker.state # SESSION_STARTED

\* A reset that makes the first greeter finds no worker, and none is queued while
\* that greeter starts.
ResetInv ==
  /\ ~HasServer /\ (\E i \in 1 .. Len(idles) : idles[i] \in {"reset", "authFailed"})
       => worker.pc = "none"
  /\ greeter.st = "starting" => idles = <<>>

IInv == TypeOK /\ WorkerInv /\ CallsInv /\ PairInv /\ DisplayInv /\ ResetInv

-----------------------------------------------------------------------------
\* The records a process or a session starts from.
LEMMA FreshRecords ==
  /\ NoWorker \in WorkerRecord /\ NewWorker \in WorkerRecord
  /\ NoGreeter \in GreeterRecord
  /\ [NoGreeter EXCEPT !.st = "starting"] \in GreeterRecord
  /\ NoSession \in Session /\ NewSession \in Session
<1>1. NoWorker \in WorkerRecord
  BY DEF NoWorker, WorkerRecord, States, NONE, SESSION_STARTED
<1>2. NewWorker \in WorkerRecord
  BY <1>1 DEF NewWorker, WorkerRecord
<1>3. NoGreeter \in GreeterRecord
  BY MaxTriesAssumption DEF NoGreeter, GreeterRecord, Name
<1>4. [NoGreeter EXCEPT !.st = "starting"] \in GreeterRecord
  BY <1>3 DEF GreeterRecord
<1>5. NoSession \in Session
  BY DEF NoSession, Session, Name
<1>6. NewSession \in Session
  BY <1>5 DEF NewSession, Session
<1> QED
  BY <1>1, <1>2, <1>3, <1>4, <1>5, <1>6

\* The slave starts in the invariant, with a greeter or with a worker.
LEMMA InitIInv == Init => IInv
<1> SUFFICES ASSUME Init PROVE IInv
  OBVIOUS
<1>1. WorkerTypeOK
  BY FreshRecords DEF Init, WorkerTypeOK
<1>2. greeter \in GreeterRecord
  BY FreshRecords DEF Init
<1>3. GreeterTypeOK
  BY <1>2 DEF Init, GreeterTypeOK
<1>4. sess \in Session
  BY FreshRecords DEF Init
<1>5. TypeOK
  <2>1. convs \in 0 .. MaxConversations
    BY ConversationsAssumption DEF Init
  <2>2. idles \in Seq(Idles)
    BY DEF Init
  <2>3. /\ life = "up" /\ effects = {}
        /\ ready \in BOOLEAN /\ waiting \in BOOLEAN
    BY DEF Init
  <2> QED
    BY <1>1, <1>3, <1>4, <2>1, <2>2, <2>3 DEF TypeOK
<1>6. WorkerInv
  BY DEF Init, WorkerInv, NewWorker, NoWorker, NONE, AUTHENTICATED
<1>7. CallsInv
  BY DEF Init, CallsInv
<1>8. PairInv
  BY DEF Init, PairInv, NewWorker, NoWorker, NoGreeter, NewSession, NoSession
<1>9. DisplayInv
  BY DEF Init, DisplayInv, HasGreeter, NewWorker, NoWorker, NoGreeter,
         NONE, SESSION_STARTED
<1>10. ResetInv
  BY DEF Init, ResetInv
<1> QED
  BY <1>5, <1>6, <1>7, <1>8, <1>9, <1>10 DEF IInv

-----------------------------------------------------------------------------
\* A step of the worker on its own keeps its fields in their ranges.
LEMMA WorkerTypeStep == WorkerTypeOK /\ WorkerInv /\ WorkerNext => WorkerTypeOK'
<1> SUFFICES ASSUME WorkerTypeOK, WorkerInv, WorkerNext PROVE WorkerTypeOK'
  OBVIOUS
<1>0. worker \in WorkerRecord /\ inbox \in Seq(Request)
  BY DEF WorkerTypeOK
<1>1. CASE OnRequest
  <2>1. Head(inbox) \in Request /\ Tail(inbox) \in Seq(Request)
    BY <1>0, <1>1 DEF OnRequest
  <2>2. Head(inbox).user \in User \cup {NoUser}
    BY <2>1 DEF Request
  <2>3. worker' \in WorkerRecord
    BY <1>0, <1>1, <2>2 DEF OnRequest, WorkerRecord
  <2> QED
    BY <1>1, <2>1, <2>3 DEF WorkerTypeOK, OnRequest
<1>2. CASE StateChangeIdle
  <2>1. worker.state + 1 \in States
    BY <1>0, <1>2 DEF StateChangeIdle, Listening, WorkerInv, WorkerRecord, States,
                      NONE, SESSION_STARTED
  <2>2. worker' \in WorkerRecord
    BY <1>0, <1>2, <2>1 DEF StateChangeIdle, WorkerRecord
  <2> QED
    BY <1>0, <1>2, <2>2 DEF WorkerTypeOK, StateChangeIdle
<1>3. ASSUME NEW k \in 1 .. 6, NEW ok \in BOOLEAN, StepEnds(k, ok)
      PROVE  WorkerTypeOK'
  <2>1. Completed[k] \in WorkerCalls /\ Failed[k] \in WorkerCalls
    BY DEF WorkerCalls, Reports
  <2>2. k \in States /\ NONE \in States
    BY DEF States, NONE, SESSION_STARTED
  <2>3. worker' \in WorkerRecord
    BY <1>0, <1>3, <2>1, <2>2 DEF StepEnds, WorkerRecord
  <2> QED
    BY <1>0, <1>3, <2>3 DEF WorkerTypeOK, StepEnds
<1>4. CASE \/ DoSetup \/ DoAuthenticate \/ DoAuthorize
           \/ DoAccredit \/ DoOpenSession \/ DoStartSession
  BY <1>3, <1>4 DEF DoSetup, DoAuthenticate, DoAuthorize, DoAccredit, DoOpenSession,
                    DoStartSession, SETUP_COMPLETE, AUTHENTICATED, AUTHORIZED,
                    ACCREDITED, SESSION_OPENED, SESSION_STARTED
<1>5. CASE PamAsks \/ UpdateUsername \/ ChildWatch
  <2>1. {"Query", "UsernameChanged", "SessionExited"} \subseteq WorkerCalls
    BY DEF WorkerCalls
  <2>2. NONE \in States
    BY DEF States, NONE, SESSION_STARTED
  <2>3. worker' \in WorkerRecord
    BY <1>0, <1>5, <2>1, <2>2 DEF PamAsks, UpdateUsername, ChildWatch, WorkerRecord
  <2> QED
    BY <1>0, <1>5, <2>3 DEF WorkerTypeOK, PamAsks, UpdateUsername, ChildWatch
<1>6. CASE WorkerCrashes
  <2>1. NoWorker \in WorkerRecord
    BY FreshRecords
  <2>2. worker' \in WorkerRecord
    BY <1>6, <2>1 DEF WorkerCrashes, WorkerRecord
  <2> QED
    BY <1>6, <2>2 DEF WorkerTypeOK, WorkerCrashes
<1> QED
  BY <1>1, <1>2, <1>4, <1>5, <1>6 DEF WorkerNext, WorkerStep

\* A step of the worker on its own keeps it within its transaction.
LEMMA WorkerInvStep == WorkerTypeOK /\ WorkerInv /\ WorkerNext => WorkerInv'
<1> SUFFICES ASSUME WorkerTypeOK, WorkerInv, WorkerNext PROVE WorkerInv'
  OBVIOUS
<1> USE DEF WorkerInv, NONE, SETUP_COMPLETE, AUTHENTICATED, AUTHORIZED, ACCREDITED,
            SESSION_OPENED, SESSION_STARTED
<1>0. /\ worker \in WorkerRecord /\ inbox \in Seq(Request)
      /\ worker.state \in 0 .. 6 /\ worker.step \in 0 .. 6
  BY DEF WorkerTypeOK, WorkerRecord, States
<1>1. CASE OnRequest
  <2>1. Head(inbox) \in Request
    BY <1>0, <1>1 DEF OnRequest
  <2>2. Head(inbox).name \in DOMAIN Needs
    BY <2>1 DEF Request
  <2>3. Accepts(Head(inbox)) => /\ worker.state # 6
                                /\ Head(inbox).name = "Setup" => worker.state = 0
    BY <2>2 DEF Accepts, Needs
  <2> QED
    BY <1>0, <1>1, <2>3 DEF OnRequest, Listening, WorkerRecord
<1>2. CASE StateChangeIdle
  BY <1>0, <1>2 DEF StateChangeIdle, Listening, WorkerRecord
<1>3. ASSUME NEW k \in 1 .. 6, NEW ok \in BOOLEAN, StepEnds(k, ok)
      PROVE  WorkerInv'
  BY <1>0, <1>3 DEF StepEnds, Running, WorkerRecord
<1>5. CASE PamAsks \/ UpdateUsername
  <2>1. AskingSteps \subseteq 2 .. 5
    BY AskingAssumption
  <2> QED
    BY <1>0, <1>5, <2>1 DEF PamAsks, UpdateUsername, Running, WorkerRecord
<1>6. CASE ChildWatch
  BY <1>0, <1>6 DEF ChildWatch, Listening, WorkerRecord
<1>7. CASE WorkerCrashes
  BY <1>7 DEF WorkerCrashes, NoWorker
<1> QED
  BY <1>1, <1>2, <1>3, <1>5, <1>6, <1>7
  DEF WorkerNext, WorkerStep, DoSetup, DoAuthenticate, DoAuthorize, DoAccredit,
      DoOpenSession, DoStartSession

\* A step of the worker on its own keeps the whole invariant.
LEMMA WorkerIInv ==
  IInv /\ WorkerNext /\ UNCHANGED <<greeterVars, slaveVars>> => IInv'
<1> SUFFICES ASSUME IInv, WorkerNext, UNCHANGED <<greeterVars, slaveVars>>
             PROVE  IInv'
  OBVIOUS
<1> USE DEF IInv
<1>0. /\ worker \in WorkerRecord /\ inbox \in Seq(Request)
      /\ worker.state \in 0 .. 6 /\ worker.step \in 0 .. 6
      /\ WorkerTypeOK /\ GreeterTypeOK
  BY DEF TypeOK, WorkerTypeOK, WorkerRecord, States, NONE, SESSION_STARTED
<1>1. WorkerTypeOK' /\ WorkerInv'
  BY <1>0, WorkerTypeStep, WorkerInvStep
<1>2. TypeOK'
  BY <1>1 DEF TypeOK, GreeterTypeOK, greeterVars, slaveVars
<1>3. CallsInv'
  BY DEF CallsInv, HasServer, greeterVars
<1>4. worker.pc = "up"
  BY DEF WorkerNext, WorkerStep, OnRequest, StateChangeIdle, Listening, DoSetup,
         DoAuthenticate, DoAuthorize, DoAccredit, DoOpenSession, DoStartSession,
         StepEnds, Running, PamAsks, UpdateUsername, ChildWatch, WorkerCrashes
<1>5. PairInv'
  <2>1. \/ worker'.call = "answer" <=> worker.call = "answer"
        \/ worker'.pc = "dead" /\ worker'.call = "none"
    <3>1. \A k \in 1 .. 6 : Completed[k] # "answer" /\ Failed[k] # "answer"
      BY DEF Completed, Failed
    <3>2. CASE OnRequest \/ StateChangeIdle
      BY <1>0, <3>2 DEF OnRequest, StateChangeIdle, WorkerRecord
    <3>3. CASE \E k \in 1 .. 6, ok \in BOOLEAN : StepEnds(k, ok)
      BY <1>0, <3>1, <3>3 DEF StepEnds, Running, WorkerRecord
    <3>4. CASE PamAsks \/ UpdateUsername \/ ChildWatch
      BY <1>0, <3>4 DEF PamAsks, UpdateUsername, ChildWatch, Running, Listening, WorkerRecord
    <3>5. CASE WorkerCrashes
      BY <3>5 DEF WorkerCrashes, NoWorker
    <3> QED
      BY <3>2, <3>3, <3>4, <3>5
      DEF WorkerNext, WorkerStep, DoSetup, DoAuthenticate, DoAuthorize, DoAccredit,
          DoOpenSession, DoStartSession, SETUP_COMPLETE, AUTHENTICATED, AUTHORIZED,
          ACCREDITED, SESSION_OPENED, SESSION_STARTED
  <2> QED
    BY <1>1, <1>4, <2>1 DEF PairInv, WorkerInv, greeterVars, slaveVars
<1>6. DisplayInv'
  <2>1. greeter' = greeter
    BY DEF greeterVars
  <2>3. ASSUME HasGreeter
        PROVE  /\ inbox' \in Seq(EarlyRequest)
               /\ ~(worker'.idle /\ worker'.state = SESSION_OPENED)
               /\ worker'.step # SESSION_STARTED /\ worker'.state # SESSION_STARTED
    <3> USE DEF NONE, SETUP_COMPLETE, AUTHENTICATED, AUTHORIZED, ACCREDITED,
                SESSION_OPENED, SESSION_STARTED
    <3>0. /\ inbox \in Seq(EarlyRequest)
          /\ ~(worker.idle /\ worker.state = 5) /\ worker.step # 6 /\ worker.state # 6
          /\ worker.step # 0 => worker.step = worker.state + 1 /\ ~worker.idle
      BY <2>3 DEF DisplayInv, WorkerInv
    <3>1. CASE OnRequest
      <4>1. Head(inbox) \in EarlyRequest /\ inbox' \in Seq(EarlyRequest)
        BY <3>0, <3>1 DEF OnRequest
      <4>2. Head(inbox).name \in DOMAIN Needs /\ Head(inbox).name # "StartProgram"
        BY <4>1 DEF EarlyRequest, Request
      <4>3. Accepts(Head(inbox)) => worker.state # 5
        BY <4>2 DEF Accepts, Needs
      <4> QED
        BY <1>0, <3>0, <3>1, <4>1, <4>3 DEF OnRequest, WorkerRecord
    <3>2. CASE StateChangeIdle
      BY <1>0, <3>0, <3>2 DEF StateChangeIdle, WorkerRecord
    <3>3. CASE \E k \in 1 .. 6, ok \in BOOLEAN : StepEnds(k, ok)
      BY <1>0, <3>0, <3>3 DEF StepEnds, Running, WorkerRecord
    <3>4. CASE PamAsks \/ UpdateUsername \/ ChildWatch
      BY <1>0, <3>0, <3>4 DEF PamAsks, UpdateUsername, ChildWatch, WorkerRecord
    <3>5. CASE WorkerCrashes
      BY <3>5 DEF WorkerCrashes, NoWorker
    <3> QED
      BY <3>1, <3>2, <3>3, <3>4, <3>5
      DEF WorkerNext, WorkerStep, DoSetup, DoAuthenticate, DoAuthorize, DoAccredit,
          DoOpenSession, DoStartSession
  <2> QED
    BY <2>1, <2>3 DEF DisplayInv, HasGreeter
<1>7. ResetInv'
  <2>1. greeter' = greeter /\ idles' = idles
    BY DEF greeterVars, slaveVars
  <2> QED
    BY <1>4, <2>1 DEF ResetInv, HasServer
<1> QED
  BY <1>1, <1>2, <1>3, <1>5, <1>6, <1>7

-----------------------------------------------------------------------------
\* A call that names nobody, and the calls that begin an item of the list.
LEMMA CallsSound ==
  /\ \A n \in {"BeginVerification", "AnswerQuery", "Cancel", "StartSessionWhenReady"} :
       ACall(n) \in SoundCall
  /\ \A c \in Name \ {NoUser} : ChooseCalls(c) \in Seq(SoundCall)
  /\ \A g : ToSelectionCalls(g) \in Seq(SoundCall)
<1>1. \A n \in {"BeginVerification", "AnswerQuery", "Cancel", "StartSessionWhenReady"} :
        ACall(n) \in SoundCall
  BY DEF ACall, SoundCall, Call, Name
<1>2. ASSUME NEW c \in Name \ {NoUser} PROVE ChooseCalls(c) \in Seq(SoundCall)
  <2>1. [name |-> "SelectUser", user |-> c] \in SoundCall
    BY DEF SoundCall, Call
  <2>2. [name |-> "BeginAutoLogin", user |-> TimedUser] \in SoundCall
    BY NamesAssumption DEF SoundCall, Call, Name
  <2>3. c \in User => [name |-> "BeginVerificationForUser", user |-> c] \in SoundCall
    BY DEF SoundCall, Call, Name
  <2> QED
    BY <1>1, <2>1, <2>2, <2>3 DEF ChooseCalls, Name
<1>3. ASSUME NEW g PROVE ToSelectionCalls(g) \in Seq(SoundCall)
  BY <1>1 DEF ToSelectionCalls
<1> QED
  BY <1>1, <1>2, <1>3

\* The two ways the window's dialog changes keep its fields in their ranges.
LEMMA WindowRecords ==
  ASSUME NEW g \in GreeterRecord
  PROVE  /\ \A c \in Name : Choosing(g, c) \in GreeterRecord /\ Choosing(g, c).st = g.st
         /\ ToSelection(g) \in GreeterRecord /\ ToSelection(g).st = g.st
<1>1. ASSUME NEW c \in Name
      PROVE  Choosing(g, c) \in GreeterRecord /\ Choosing(g, c).st = g.st
  BY DEF Choosing, GreeterRecord
<1>2. NoUser \in Name /\ Restarts(g) \in BOOLEAN
  BY DEF Name, Restarts, GreeterRecord
<1>3. ToSelection(g) \in GreeterRecord /\ ToSelection(g).st = g.st
  BY <1>2 DEF ToSelection, GreeterRecord
<1> QED
  BY <1>1, <1>3

\* What a step of the greeter or of its user changes: the window, its calls and
\* its signals, in their ranges, never whether there is a greeter.
WindowKept ==
  /\ greeter' \in GreeterRecord /\ greeter'.st = greeter.st /\ greeter.st = "up"
  /\ calls' \in Seq(SoundCall) /\ signals' \in Seq(Signals)

\* A step of the greeter or of its user keeps the window's fields in their ranges
\* and sends only sound calls.
LEMMA WindowStep ==
  GreeterTypeOK /\ CallsInv /\ (GreeterStep \/ UserStep) => WindowKept
<1> SUFFICES ASSUME GreeterTypeOK, CallsInv, GreeterStep \/ UserStep
             PROVE  WindowKept
  OBVIOUS
<1>0. greeter \in GreeterRecord /\ signals \in Seq(Signals) /\ calls \in Seq(SoundCall)
  BY DEF GreeterTypeOK, CallsInv
<1>1. \A n \in {"BeginVerification", "AnswerQuery", "Cancel", "StartSessionWhenReady"} :
        ACall(n) \in SoundCall
  BY CallsSound
<1>2. /\ \A g : ToSelectionCalls(g) \in Seq(SoundCall)
      /\ <<ACall("Cancel")>> \in Seq(SoundCall)
      /\ <<ACall("StartSessionWhenReady")>> \in Seq(SoundCall)
      /\ <<>> \in Seq(SoundCall)
  BY <1>1, CallsSound
<1>3. ASSUME NEW c \in Name \ {NoUser}
      PROVE  /\ Choosing(greeter, c) \in GreeterRecord
             /\ Choosing(greeter, c).st = greeter.st
             /\ ChooseCalls(c) \in Seq(SoundCall)
  BY <1>0, <1>3, WindowRecords, CallsSound
<1>4. ToSelection(greeter) \in GreeterRecord /\ ToSelection(greeter).st = greeter.st
  BY <1>0, WindowRecords
<1>5. CASE OnUserChosen
  <2>1. PICK c \in User \cup {OtherItem, AutoItem} :
          greeter' = Choosing(greeter, c) /\ calls' = ChooseCalls(c)
    BY <1>5 DEF OnUserChosen
  <2>2. c \in Name \ {NoUser}
    BY NamesAssumption DEF Name
  <2> QED
    BY <1>0, <1>3, <1>5, <2>1, <2>2 DEF WindowKept, OnUserChosen, AtRest
<1>6. CASE OnLoginButtonAnswer
  <2>1. calls' \in Seq(SoundCall)
    BY <1>1, <1>6 DEF OnLoginButtonAnswer
  <2> QED
    BY <1>0, <1>6, <2>1 DEF WindowKept, OnLoginButtonAnswer, AtRest, GreeterRecord
<1>7. CASE DoCancel \/ TimedLoginTimer
  <2>1. calls' \in Seq(SoundCall)
    BY <1>2, <1>7 DEF DoCancel, TimedLoginTimer
  <2> QED
    BY <1>0, <1>7, <2>1 DEF WindowKept, DoCancel, TimedLoginTimer, AtRest, GreeterRecord
<1>8. ASSUME NEW s, Dispatch(s)
      PROVE  signals' \in Seq(Signals) /\ greeter.st = "up"
  BY <1>0, <1>8 DEF Dispatch, AtRest
<1>9. CASE OnReady
  <2>1. CASE greeter.mode = "auth" /\ greeter.chosen # NoUser
    <3>1. greeter.chosen \in Name \ {NoUser}
      BY <1>0, <2>1 DEF GreeterRecord
    <3> QED
      BY <1>3, <1>8, <1>9, <2>1, <3>1 DEF WindowKept, OnReady
  <2>2. CASE ~(greeter.mode = "auth" /\ greeter.chosen # NoUser)
    BY <1>0, <1>8, <1>9, <2>2 DEF WindowKept, OnReady, GreeterRecord
  <2> QED
    BY <2>1, <2>2
<1>10. 0 \in 0 .. MaxTries
  BY MaxTriesAssumption
<1>11. ASSUME greeter' = [ToSelection(greeter) EXCEPT !.tries = 0]
       PROVE  greeter' \in GreeterRecord /\ greeter'.st = greeter.st
  BY <1>4, <1>10, <1>11 DEF GreeterRecord
<1>12. CASE OnReset
  BY <1>2, <1>8, <1>11, <1>12 DEF WindowKept, OnReset
<1>13. CASE OnAuthenticationFailed
  <2>1. CASE greeter.tries + 1 < MaxTries
    <3>1. greeter.tries + 1 \in 0 .. MaxTries
      BY <1>0, <2>1, MaxTriesAssumption DEF GreeterRecord
    <3> QED
      BY <1>0, <1>8, <1>13, <2>1, <3>1 DEF WindowKept, OnAuthenticationFailed, GreeterRecord
  <2>2. CASE ~(greeter.tries + 1 < MaxTries)
    BY <1>2, <1>8, <1>11, <1>13, <2>2 DEF WindowKept, OnAuthenticationFailed
  <2> QED
    BY <2>1, <2>2
<1>14. CASE OnQuery
  BY <1>0, <1>8, <1>14 DEF WindowKept, OnQuery, GreeterRecord
<1>15. CASE OnUserAuthorized
  <2>1. calls' \in Seq(SoundCall)
    BY <1>0, <1>2, <1>15 DEF OnUserAuthorized
  <2>2. greeter' \in GreeterRecord /\ greeter'.st = greeter.st
    <3>1. \/ \E b \in BOOLEAN : greeter' = [greeter EXCEPT !.interactive = TRUE, !.hold = b]
          \/ greeter' = [greeter EXCEPT !.hold = TRUE]
      BY <1>0, <1>15 DEF OnUserAuthorized, GreeterRecord
    <3> QED
      BY <1>0, <3>1 DEF GreeterRecord
  <2> QED
    BY <1>8, <1>15, <2>1, <2>2 DEF WindowKept, OnUserAuthorized
<1>16. CASE OnTimedLoginRequested
  <2> DEFINE shown == greeter.mode = "selection"
             g == IF shown THEN greeter ELSE ToSelection(greeter)
             before == IF shown THEN <<>> ELSE ToSelectionCalls(greeter)
  <2>1. g \in GreeterRecord /\ g.st = greeter.st /\ before \in Seq(SoundCall)
    BY <1>0, <1>2, <1>4
  <2>2. AutoItem \in Name \ {NoUser}
    BY NamesAssumption DEF Name
  <2>3. /\ Choosing(g, AutoItem) \in GreeterRecord /\ Choosing(g, AutoItem).st = g.st
        /\ ChooseCalls(AutoItem) \in Seq(SoundCall)
    BY <2>1, <2>2, WindowRecords, CallsSound
  <2>4. \/ greeter' = g /\ calls' = before
        \/ /\ greeter' = [Choosing(g, AutoItem) EXCEPT !.auto = TRUE]
           /\ calls' = before \o ChooseCalls(AutoItem)
    BY <1>16 DEF OnTimedLoginRequested
  <2> HIDE DEF g, before
  <2>5. greeter' \in GreeterRecord /\ greeter'.st = greeter.st
    BY <2>1, <2>3, <2>4 DEF GreeterRecord
  <2>6. before \o ChooseCalls(AutoItem) \in Seq(SoundCall)
    BY <2>1, <2>3
  <2>7. calls' \in Seq(SoundCall)
    BY <2>1, <2>4, <2>6
  <2> QED
    BY <1>8, <1>16, <2>5, <2>7 DEF WindowKept, OnTimedLoginRequested
<1> QED
  BY <1>5, <1>6, <1>7, <1>9, <1>12, <1>13, <1>14, <1>15, <1>16 DEF GreeterStep, UserStep

\* A step of the greeter or of its user keeps the whole invariant.
LEMMA WindowIInv ==
  IInv /\ (GreeterStep \/ UserStep) /\ UNCHANGED <<workerVars, slaveVars>> => IInv'
<1> SUFFICES ASSUME IInv, GreeterStep \/ UserStep, UNCHANGED <<workerVars, slaveVars>>
             PROVE  IInv'
  OBVIOUS
<1> USE DEF IInv
<1>1. WindowKept
  BY WindowStep DEF TypeOK
<1>2. SoundCall \subseteq Call
  BY DEF SoundCall
<1>3. calls' \in Seq(Call)
  BY <1>1, <1>2 DEF WindowKept
<1>4. TypeOK'
  BY <1>1, <1>3 DEF TypeOK, WindowKept, GreeterTypeOK, WorkerTypeOK, workerVars, slaveVars
<1>5. WorkerInv' /\ PairInv' /\ DisplayInv' /\ ResetInv'
  BY <1>1 DEF WindowKept, WorkerInv, PairInv, DisplayInv, ResetInv, HasServer, HasGreeter,
              workerVars, slaveVars
<1>6. CallsInv'
  BY <1>1 DEF WindowKept, CallsInv, HasServer
<1> QED
  BY <1>4, <1>5, <1>6

-----------------------------------------------------------------------------
\* What the slave's helpers return.
LEMMA HelperTypes ==
  ASSUME TypeOK
  PROVE  /\ Answered \in WorkerRecord /\ Answered.call = "none"
         /\ \A f \in {"pc", "state", "idle", "step", "user"} : Answered[f] = worker[f]
         /\ \A s \in Seq(Signals) : Tell(s) \in Seq(Signals)
         /\ \A kind \in Idles : QueueReset(kind) \in Seq(Idles)
         /\ QueueStart \in Seq(Idles)
<1>0. worker \in WorkerRecord /\ signals \in Seq(Signals) /\ idles \in Seq(Idles)
  BY DEF TypeOK, WorkerTypeOK, GreeterTypeOK
<1>1. Answered \in WorkerRecord /\ Answered.call = "none"
  BY <1>0 DEF Answered, WorkerRecord
<1>2. \A f \in {"pc", "state", "idle", "step", "user"} : Answered[f] = worker[f]
  BY <1>0 DEF Answered, WorkerRecord
<1>3. \A s \in Seq(Signals) : Tell(s) \in Seq(Signals)
  BY <1>0 DEF Tell
<1>4. \A kind \in Idles : QueueReset(kind) \in Seq(Idles)
  BY <1>0 DEF QueueReset
<1>5. QueueStart \in Seq(Idles)
  BY <1>0 DEF QueueStart, Idles
<1> QED
  BY <1>1, <1>2, <1>3, <1>4, <1>5

\* A request of the slave, which is early unless it starts the session.
LEMMA AskedTypes ==
  ASSUME TypeOK, NEW n \in DOMAIN Needs
  PROVE  /\ Asked(n) \in Seq(Request)
         /\ n # "StartProgram" /\ inbox \in Seq(EarlyRequest)
              => Asked(n) \in Seq(EarlyRequest)
         /\ worker.pc # "up" => Asked(n) = inbox
<1>0. inbox \in Seq(Request)
  BY DEF TypeOK, WorkerTypeOK
<1>1. [name |-> n, user |-> NoUser] \in Request
  BY DEF Request
<1>2. n # "StartProgram" => [name |-> n, user |-> NoUser] \in EarlyRequest
  BY <1>1 DEF EarlyRequest
<1> QED
  BY <1>0, <1>1, <1>2 DEF Asked

\* The worker goes on, with at most its call answered and a request more.
LEMMA WorkerGoesOn ==
  ASSUME IInv, worker' \in WorkerRecord,
         \A f \in {"pc", "state", "idle", "step", "user"} : worker'[f] = worker[f],
         worker.pc # "up" => inbox' = inbox /\ worker'.call = worker.call,
         inbox' \in Seq(Request),
         HasGreeter' => HasGreeter /\ inbox' \in Seq(EarlyRequest)
  PROVE  WorkerTypeOK' /\ WorkerInv' /\ DisplayInv'
<1>1. /\ worker'.pc = worker.pc /\ worker'.state = worker.state
      /\ worker'.idle = worker.idle /\ worker'.step = worker.step
      /\ worker'.user = worker.user
  OBVIOUS
<1> QED
  BY <1>1 DEF IInv, WorkerTypeOK, WorkerInv, DisplayInv

\* The worker is gone, or a new one is on its way.
LEMMA WorkerFresh ==
  ASSUME worker' \in {NoWorker, NewWorker}, inbox' = <<>>
  PROVE  /\ WorkerTypeOK' /\ WorkerInv' /\ DisplayInv'
         /\ worker'.call = "none"
         /\ worker'.pc = IF worker' = NoWorker THEN "none" ELSE "starting"
<1>1. NoWorker \in WorkerRecord /\ NewWorker \in WorkerRecord
  BY FreshRecords
<1>2. /\ worker'.call = "none" /\ worker'.state = 0 /\ worker'.step = 0 /\ ~worker'.idle
      /\ worker'.pc = IF worker' = NoWorker THEN "none" ELSE "starting"
  BY DEF NoWorker, NewWorker, NONE
<1>3. WorkerTypeOK'
  BY <1>1 DEF WorkerTypeOK
<1>4. WorkerInv'
  BY <1>2 DEF WorkerInv, NONE, AUTHENTICATED
<1>5. DisplayInv'
  BY <1>2 DEF DisplayInv, SESSION_OPENED, SESSION_STARTED
<1> QED
  BY <1>2, <1>3, <1>4, <1>5

\* The slave answers the report of a step, and may ask for the next one.
LEMMA ReportAnswered ==
  ASSUME IInv, worker.call \notin {"none", "answer"}, worker' = Answered,
         inbox' \in {inbox} \cup {Asked(n) : n \in DOMAIN Needs \ {"StartProgram"}},
         UNCHANGED <<greeter, calls, life>>, sess'.pending = sess.pending,
         idles' \in {idles, QueueStart}
  PROVE  /\ WorkerTypeOK' /\ WorkerInv' /\ CallsInv' /\ PairInv' /\ DisplayInv'
         /\ ResetInv'
<1> USE DEF IInv
<1>1. worker.pc = "up" /\ ~sess.pending
  BY DEF WorkerInv, PairInv
<1>2. /\ Answered \in WorkerRecord /\ Answered.call = "none"
      /\ \A f \in {"pc", "state", "idle", "step", "user"} : Answered[f] = worker[f]
  BY HelperTypes
<1>3. inbox \in Seq(Request) /\ (HasGreeter => inbox \in Seq(EarlyRequest))
  BY DEF TypeOK, WorkerTypeOK, DisplayInv
<1>4. inbox' \in Seq(Request) /\ (HasGreeter => inbox' \in Seq(EarlyRequest))
  BY <1>3, AskedTypes
<1>5. HasGreeter' <=> HasGreeter
  BY DEF HasGreeter
<1>6. WorkerTypeOK' /\ WorkerInv' /\ DisplayInv'
  BY <1>1, <1>2, <1>4, <1>5, WorkerGoesOn
<1>7. CallsInv'
  BY DEF CallsInv, HasServer
<1>8. PairInv'
  <2>1. worker'.pc = "up" /\ worker'.call = "none" /\ ~sess'.pending
    BY <1>1, <1>2
  <2> QED
    BY <1>1, <2>1 DEF PairInv
<1>9. ResetInv'
  <2>1. (\E i \in 1 .. Len(idles') : idles'[i] \in {"reset", "authFailed"})
          => \E i \in 1 .. Len(idles) : idles[i] \in {"reset", "authFailed"}
    <3>1. idles \in Seq(Idles)
      BY DEF TypeOK
    <3> QED
      BY <3>1 DEF QueueStart
  <2>2. greeter.st # "starting"
    BY <1>1 DEF PairInv
  <2> QED
    BY <1>1, <2>1, <2>2 DEF ResetInv, HasServer
<1> QED
  BY <1>6, <1>7, <1>8, <1>9

\* The slave destroys the session when a step has failed.
LEMMA GiveUpIInv ==
  ASSUME IInv, NEW report \in Reports, NEW kind \in {"reset", "authFailed"}, GiveUp(report, kind)
  PROVE  IInv'
<1> USE DEF IInv
<1>1. worker' = NoWorker /\ inbox' = <<>> /\ sess' = NoSession
  BY DEF GiveUp, DestroySession
<1>2. /\ WorkerTypeOK' /\ WorkerInv' /\ DisplayInv'
      /\ worker'.call = "none" /\ worker'.pc = "none"
  BY <1>1, WorkerFresh
<1>3. NoSession \in Session /\ ~NoSession.pending
  BY FreshRecords DEF NoSession
<1>4. kind \in Idles
  BY DEF Idles
<1>5. idles' \in Seq(Idles)
  BY <1>4, HelperTypes DEF GiveUp
<1>6. TypeOK'
  BY <1>1, <1>2, <1>3, <1>5 DEF TypeOK, GiveUp, GreeterTypeOK, greeterVars
<1>7. greeter.st # "starting"
  <2>1. report # "none"
    BY DEF Reports, Completed, Failed
  <2> QED
    BY <2>1 DEF GiveUp, WorkerInv, PairInv
<1>8. CallsInv' /\ PairInv' /\ ResetInv'
  BY <1>1, <1>2, <1>3, <1>7 DEF CallsInv, PairInv, ResetInv, GiveUp, HasServer, greeterVars
<1> QED
  BY <1>2, <1>6, <1>8

\* What is recorded as done for a name is an effect.
LEMMA DidTypes ==
  ASSUME TypeOK, NEW what \in {"PostLogin", "PreSession", "PostSession", "authority"},
         NEW for \in User \cup {NoUser}
  PROVE  Did(what, for) \in Effect /\ Ran(what, for) \subseteq Effect
<1>1. worker.state \in States /\ worker.user \in User \cup {NoUser}
  BY DEF TypeOK, WorkerTypeOK, WorkerRecord
<1>2. Did(what, for) \in Effect
  BY <1>1 DEF Did, Effect
<1> QED
  BY <1>2 DEF Ran

\* A new worker connects: the window is told, or the automatic login begun.
LEMMA ConversationStartedIInv == IInv /\ ConversationStarted => IInv'
<1> SUFFICES ASSUME IInv, ConversationStarted PROVE IInv'
  OBVIOUS
<1> USE DEF IInv
<1>0. worker \in WorkerRecord /\ sess \in Session /\ worker.pc = "starting"
  BY DEF TypeOK, WorkerTypeOK, ConversationStarted
<1>1. /\ worker.state = NONE /\ worker.step = NONE /\ ~worker.idle
      /\ worker.call = "none" /\ inbox = <<>> /\ ~sess.pending
      /\ greeter.st # "starting"
  BY <1>0 DEF WorkerInv, PairInv
<1>2. /\ worker' \in WorkerRecord
      /\ worker'.pc = "up" /\ worker'.state = NONE /\ worker'.step = NONE
      /\ ~worker'.idle /\ worker'.call = "none"
  BY <1>0, <1>1 DEF ConversationStarted, WorkerRecord
<1>3. [name |-> "Setup", user |-> TimedUser] \in EarlyRequest
  BY NamesAssumption DEF EarlyRequest, Request, Needs
<1>4. inbox' \in Seq(EarlyRequest)
  <2>1. inbox' \in {inbox, Append(inbox, [name |-> "Setup", user |-> TimedUser])}
    BY DEF ConversationStarted
  <2>2. inbox \in Seq(EarlyRequest)
    BY <1>1
  <2> QED
    BY <1>3, <2>1, <2>2
<1>5. EarlyRequest \subseteq Request
  BY DEF EarlyRequest
<1>6. sess' \in Session /\ sess'.pending = sess.pending
  <2>1. TimedUser \in User \cup {NoUser}
    BY NamesAssumption
  <2> QED
    BY <1>0, <2>1 DEF ConversationStarted, Session
<1>7. signals' \in Seq(Signals)
  <2>1. <<"Ready">> \in Seq(Signals) /\ <<"TimedLoginRequested">> \in Seq(Signals)
    BY DEF Signals
  <2>2. <<"Ready">> \o (IF TimedLogin = "off" THEN <<>> ELSE <<"TimedLoginRequested">>)
          \in Seq(Signals)
    BY <2>1
  <2> QED
    BY <2>2, HelperTypes DEF ConversationStarted
<1>8. TypeOK'
  BY <1>2, <1>4, <1>5, <1>6, <1>7
  DEF TypeOK, WorkerTypeOK, GreeterTypeOK, ConversationStarted
<1>9. WorkerInv'
  BY <1>2 DEF WorkerInv, NONE, AUTHENTICATED
<1>10. CallsInv' /\ ResetInv'
  BY <1>0 DEF CallsInv, ResetInv, HasServer, ConversationStarted
<1>11. PairInv'
  BY <1>1, <1>2, <1>6 DEF PairInv, ConversationStarted
<1>12. DisplayInv'
  BY <1>2, <1>4 DEF DisplayInv, NONE, SESSION_STARTED
<1> QED
  BY <1>8, <1>9, <1>10, <1>11, <1>12

\* Every report of the worker, of a step done or failed, keeps the invariant.
LEMMA ReportsIInv ==
  ASSUME IInv,
         \/ SetupComplete \/ Authenticated \/ Accredited \/ Authorized \/ Opened
         \/ SessionStarted \/ StartFailed \/ UsernameChanged
  PROVE  IInv'
<1> USE DEF IInv
<1>0. /\ worker \in WorkerRecord /\ sess \in Session
      /\ HasServer \in BOOLEAN /\ ready \in BOOLEAN /\ sess.user \in User \cup {NoUser}
  BY DEF TypeOK, WorkerTypeOK, Session, HasServer
<1>1. {"Authenticate", "Authorize", "EstablishCredentials", "OpenSession"}
        \subseteq DOMAIN Needs \ {"StartProgram"}
  BY DEF Needs
<1> DEFINE Slave == /\ life' = life /\ greeter' = greeter /\ calls' = calls
                    /\ signals' \in Seq(Signals)
                    /\ sess' \in Session /\ sess'.pending = sess.pending
                    /\ idles' \in Seq(Idles) /\ idles' \in {idles, QueueStart}
                    /\ ready' \in BOOLEAN /\ waiting' \in BOOLEAN
                    /\ convs' = convs /\ effects' \subseteq Effect
           Reply == /\ worker.call \notin {"none", "answer"} /\ worker' = Answered
                    /\ inbox' \in {inbox} \cup
                                  {Asked(n) : n \in DOMAIN Needs \ {"StartProgram"}}
<1>2. ASSUME Slave, Reply PROVE IInv'
  <2>1. /\ WorkerTypeOK' /\ WorkerInv' /\ CallsInv' /\ PairInv' /\ DisplayInv'
        /\ ResetInv'
    BY <1>2, ReportAnswered
  <2>2. TypeOK'
    BY <1>2, <2>1 DEF TypeOK, GreeterTypeOK
  <2> QED
    BY <2>1, <2>2
<1>3. signals \in Seq(Signals) /\ <<"UserAuthorized">> \in Seq(Signals)
  BY DEF TypeOK, GreeterTypeOK, Signals
<1>4. CASE SetupComplete \/ Authenticated \/ Accredited
  <2>1. Reply
    BY <1>1, <1>4 DEF SetupComplete, Authenticated, Accredited, Proceed
  <2>2. Slave
    BY <1>4 DEF SetupComplete, Authenticated, Accredited, Proceed, TypeOK,
                GreeterTypeOK, greeterVars, slaveVars
  <2> QED
    BY <1>2, <2>1, <2>2
<1>5. CASE Authorized
  <2>1. Reply
    BY <1>1, <1>5 DEF Authorized, Accredit
  <2>2. signals' \in Seq(Signals)
    BY <1>3, <1>5, HelperTypes DEF Authorized
  <2>3. ready' \in BOOLEAN /\ waiting' \in BOOLEAN
    BY <1>0, <1>5 DEF Authorized, Accredit
  <2>4. Slave
    BY <1>5, <2>2, <2>3 DEF Authorized, TypeOK
  <2> QED
    BY <1>2, <2>1, <2>4
<1>6. CASE Opened
  <2>1. Slave
    BY <1>6, HelperTypes DEF Opened, TypeOK, GreeterTypeOK, greeterVars
  <2>2. Reply
    BY <1>6 DEF Opened
  <2> QED
    BY <1>2, <2>1, <2>2
<1>7. CASE SessionStarted
  <2>1. sess' \in Session /\ sess'.pending = sess.pending
    BY <1>0, <1>7 DEF SessionStarted, Session
  <2>2. effects' \subseteq Effect
    BY <1>0, <1>7, DidTypes DEF SessionStarted, TypeOK
  <2>3. Slave
    BY <1>7, <2>1, <2>2 DEF SessionStarted, TypeOK, GreeterTypeOK, greeterVars
  <2>4. Reply
    BY <1>7 DEF SessionStarted
  <2> QED
    BY <1>2, <2>3, <2>4
<1>8. CASE StartFailed
  <2>1. Slave
    BY <1>8 DEF StartFailed, TypeOK, GreeterTypeOK, greeterVars, slaveVars
  <2>2. Reply
    BY <1>8 DEF StartFailed
  <2> QED
    BY <1>2, <2>1, <2>2
<1>9. CASE UsernameChanged
  <2>1. worker.user \in User \cup {NoUser}
    BY <1>0 DEF WorkerRecord
  <2>2. sess' \in Session /\ sess'.pending = sess.pending
    BY <1>0, <1>9, <2>1 DEF UsernameChanged, Session
  <2>3. Slave
    BY <1>9, <2>2 DEF UsernameChanged, TypeOK, GreeterTypeOK, greeterVars
  <2>4. Reply
    BY <1>9 DEF UsernameChanged
  <2> QED
    BY <1>2, <2>3, <2>4
<1> QED
  BY <1>4, <1>5, <1>6, <1>7, <1>8, <1>9

\* The worker asks a question: it is open until it is answered.
LEMMA WorkerQueryIInv == IInv /\ WorkerQuery => IInv'
<1> SUFFICES ASSUME IInv, WorkerQuery PROVE IInv'
  OBVIOUS
<1> USE DEF IInv
<1>0. worker \in WorkerRecord /\ sess \in Session /\ inbox \in Seq(Request)
  BY DEF TypeOK, WorkerTypeOK
<1>1. worker.pc = "up" /\ ~sess.pending
  BY DEF WorkerQuery, WorkerInv, PairInv
<1>2. /\ worker' \in WorkerRecord /\ worker'.call = "answer"
      /\ \A f \in {"pc", "state", "idle", "step", "user"} : worker'[f] = worker[f]
  BY <1>0, <1>1 DEF WorkerQuery, WorkerRecord
<1>3. sess' \in Session /\ sess'.pending
  BY <1>0, <1>1 DEF WorkerQuery, Session
<1>4. signals' \in Seq(Signals)
  <2>1. <<"Query">> \in Seq(Signals)
    BY DEF Signals
  <2> QED
    BY <1>1, <2>1, HelperTypes DEF WorkerQuery
<1>5. WorkerTypeOK' /\ WorkerInv' /\ DisplayInv'
  <2>1. HasGreeter' => HasGreeter /\ inbox' \in Seq(EarlyRequest)
    BY DEF WorkerQuery, HasGreeter, DisplayInv
  <2>2. inbox' \in Seq(Request)
    BY <1>0 DEF WorkerQuery
  <2> QED
    BY <1>1, <1>2, <2>1, <2>2, WorkerGoesOn
<1>6. TypeOK'
  BY <1>1, <1>3, <1>4, <1>5 DEF TypeOK, GreeterTypeOK, WorkerQuery
<1>7. CallsInv' /\ ResetInv'
  BY <1>1 DEF CallsInv, ResetInv, HasServer, WorkerQuery
<1>8. PairInv'
  <2>1. greeter.st # "starting"
    BY <1>1 DEF PairInv
  <2> QED
    BY <1>1, <1>2, <1>3, <2>1 DEF PairInv, WorkerQuery
<1> QED
  BY <1>5, <1>6, <1>7, <1>8

\* The slave has seen the worker's end; a reply kept for it stays unsent.
LEMMA WorkerGoneIInv == IInv /\ WorkerGone => IInv'
<1> SUFFICES ASSUME IInv, WorkerGone PROVE IInv'
  OBVIOUS
<1> USE DEF IInv
<1>1. worker' = NoWorker /\ inbox' = <<>>
  BY DEF WorkerGone, WorkerInv
<1>2. /\ WorkerTypeOK' /\ WorkerInv' /\ DisplayInv'
      /\ worker'.call = "none" /\ worker'.pc = "none"
  BY <1>1, WorkerFresh
<1>3. sess \in Session /\ sess' \in Session /\ sess'.pending = sess.pending
  BY DEF WorkerGone, TypeOK, Session
<1>4. TypeOK'
  BY <1>2, <1>3 DEF TypeOK, GreeterTypeOK, WorkerGone, greeterVars
<1>5. CallsInv' /\ PairInv' /\ ResetInv'
  BY <1>2, <1>3 DEF CallsInv, PairInv, ResetInv, WorkerGone, HasServer, greeterVars
<1> QED
  BY <1>2, <1>4, <1>5

\* What the slave does on a message of the worker, or on its end.
LEMMA FromWorkerIInv == IInv /\ FromWorker => IInv'
<1>1. {"SetupFailed", "AuthenticationFailed", "AuthorizationFailed",
       "AccreditationFailed", "OpenFailed"} \subseteq Reports
  BY DEF Reports, Failed
<1> QED
  BY <1>1, ConversationStartedIInv, GiveUpIInv, ReportsIInv, WorkerQueryIInv, WorkerGoneIInv
  DEF FromWorker, SetupFailed, AuthenticationFailed, AuthorizationFailed,
      AccreditationFailed, OpenFailed

-----------------------------------------------------------------------------
\* A greeter connects, and the first worker for it is started.
LEMMA GreeterConnectedIInv == IInv /\ GreeterConnected => IInv'
<1> SUFFICES ASSUME IInv, GreeterConnected PROVE IInv'
  OBVIOUS
<1> USE DEF IInv
<1>1. worker' = NewWorker /\ inbox' = <<>> /\ ~sess.pending
  BY DEF GreeterConnected, PairInv, WorkerInv
<1>2. /\ WorkerTypeOK' /\ WorkerInv' /\ DisplayInv'
      /\ worker'.call = "none"
  BY <1>1, WorkerFresh
<1>3. greeter' \in GreeterRecord /\ greeter'.st = "up"
  BY DEF GreeterConnected, TypeOK, GreeterTypeOK, GreeterRecord
<1>4. TypeOK'
  BY <1>2, <1>3 DEF TypeOK, GreeterTypeOK, GreeterConnected, slaveVars
<1>5. CallsInv' /\ PairInv' /\ ResetInv'
  BY <1>1, <1>2, <1>3 DEF CallsInv, PairInv, ResetInv, GreeterConnected, HasServer, slaveVars
<1> QED
  BY <1>2, <1>4, <1>5

\* A call of the greeter that has been dispatched.
LEMMA CallTaken ==
  ASSUME IInv, NEW name, Take(name), UNCHANGED greeter
  PROVE  /\ Head(calls) \in SoundCall /\ Head(calls).name = name
         /\ calls' \in Seq(Call) /\ CallsInv' /\ HasServer /\ HasServer' /\ ResetInv'
<1>1. calls \in Seq(SoundCall) /\ calls # <<>>
  BY DEF IInv, CallsInv, Take
<1>2. Head(calls) \in SoundCall /\ calls' \in Seq(SoundCall)
  BY <1>1 DEF Take
<1>3. SoundCall \subseteq Call
  BY DEF SoundCall
<1>4. HasServer /\ HasServer' /\ greeter.st # "starting"
  BY <1>1 DEF IInv, CallsInv, HasServer
<1> QED
  BY <1>2, <1>3, <1>4 DEF Take, CallsInv, ResetInv, HasServer

\* The setup of a conversation for an account.
LEMMA SetupForUserIInv ==
  ASSUME IInv, NEW u \in User, NEW name, Take(name), SetupForUser(u)
  PROVE  IInv'
<1> USE DEF IInv
<1>0. sess \in Session /\ inbox \in Seq(Request) /\ worker \in WorkerRecord
  BY DEF TypeOK, WorkerTypeOK
<1>1. calls' \in Seq(Call) /\ CallsInv' /\ ResetInv'
  BY CallTaken DEF SetupForUser
<1>2. [name |-> "Setup", user |-> u] \in EarlyRequest
  BY DEF EarlyRequest, Request, Needs
<1>3. /\ inbox' \in {inbox, Append(inbox, [name |-> "Setup", user |-> u])}
      /\ worker.pc # "up" => inbox' = inbox
  BY DEF SetupForUser
<1>4. /\ inbox' \in Seq(Request)
      /\ inbox \in Seq(EarlyRequest) => inbox' \in Seq(EarlyRequest)
  <2>1. EarlyRequest \subseteq Request
    BY DEF EarlyRequest
  <2> QED
    BY <1>0, <1>2, <1>3, <2>1
<1>5. WorkerTypeOK' /\ WorkerInv' /\ DisplayInv'
  <2>1. HasGreeter' => HasGreeter /\ inbox' \in Seq(EarlyRequest)
    BY <1>4 DEF SetupForUser, HasGreeter, DisplayInv
  <2>2. worker' = worker
    BY DEF SetupForUser
  <2> QED
    BY <1>0, <1>3, <1>4, <2>1, <2>2, WorkerGoesOn
<1>6. sess' \in Session /\ sess'.pending = sess.pending
  BY <1>0 DEF SetupForUser, Session, Name
<1>7. TypeOK'
  BY <1>1, <1>5, <1>6 DEF TypeOK, GreeterTypeOK, SetupForUser
<1>8. PairInv'
  BY <1>6 DEF PairInv, SetupForUser
<1> QED
  BY <1>1, <1>5, <1>7, <1>8

\* The slave answers the question it keeps.
LEMMA AnswerQueryIInv == IInv /\ AnswerQuery => IInv'
<1> SUFFICES ASSUME IInv, AnswerQuery PROVE IInv'
  OBVIOUS
<1> USE DEF IInv
<1>0. sess \in Session /\ inbox \in Seq(Request) /\ worker \in WorkerRecord
  BY DEF TypeOK, WorkerTypeOK
<1>1. calls' \in Seq(Call) /\ CallsInv' /\ ResetInv' /\ greeter.st # "none"
  BY CallTaken DEF AnswerQuery, HasServer
<1>2. /\ worker' \in WorkerRecord /\ inbox' = inbox
      /\ \A f \in {"pc", "state", "idle", "step", "user"} : worker'[f] = worker[f]
      /\ worker'.call = IF sess.pending /\ worker.call = "answer" THEN "none" ELSE worker.call
  <2>1. worker' = IF sess.pending /\ worker.call = "answer" THEN Answered ELSE worker
    BY DEF AnswerQuery
  <2> QED
    BY <1>0, <2>1, HelperTypes DEF AnswerQuery
<1>3. WorkerTypeOK' /\ WorkerInv' /\ DisplayInv'
  <2>1. HasGreeter' => HasGreeter /\ inbox' \in Seq(EarlyRequest)
    BY <1>2 DEF AnswerQuery, HasGreeter, DisplayInv
  <2>2. worker.pc # "up" => worker'.call = worker.call
    BY <1>2 DEF WorkerInv
  <2> QED
    BY <1>0, <1>2, <2>1, <2>2, WorkerGoesOn
<1>4. sess' \in Session /\ ~sess'.pending
  BY <1>0 DEF AnswerQuery, Session
<1>5. TypeOK'
  BY <1>1, <1>3, <1>4 DEF TypeOK, GreeterTypeOK, AnswerQuery
<1>6. PairInv'
  BY <1>1, <1>2, <1>4 DEF PairInv, AnswerQuery
<1> QED
  BY <1>1, <1>3, <1>5, <1>6

\* What the slave does on a message of the greeter.
LEMMA FromGreeterIInv == IInv /\ FromGreeter => IInv'
<1> SUFFICES ASSUME IInv, FromGreeter PROVE IInv'
  OBVIOUS
<1> USE DEF IInv
<1>0. sess \in Session /\ inbox \in Seq(Request) /\ worker \in WorkerRecord
  BY DEF TypeOK, WorkerTypeOK
<1>1. ASSUME NEW n \in DOMAIN Needs \ {"StartProgram"},
             inbox' \in {inbox, Asked(n)}, UNCHANGED <<worker, greeter>>
      PROVE  WorkerTypeOK' /\ WorkerInv' /\ DisplayInv'
  <2>1. /\ inbox' \in Seq(Request)
        /\ HasGreeter => inbox' \in Seq(EarlyRequest)
        /\ worker.pc # "up" => inbox' = inbox
    BY <1>0, <1>1, AskedTypes DEF DisplayInv
  <2>2. HasGreeter' <=> HasGreeter
    BY <1>1 DEF HasGreeter
  <2> QED
    BY <1>0, <1>1, <2>1, <2>2, WorkerGoesOn
<1>2. {"Setup", "EstablishCredentials"} \subseteq DOMAIN Needs \ {"StartProgram"}
  BY DEF Needs
<1>3. CASE SelectUser
  <2>1. /\ Head(calls) \in SoundCall /\ calls' \in Seq(Call) /\ CallsInv' /\ ResetInv'
    BY <1>3, CallTaken DEF SelectUser
  <2>2. WorkerTypeOK' /\ WorkerInv' /\ DisplayInv'
    BY <1>1, <1>2, <1>3 DEF SelectUser, workerVars
  <2>3. TypeOK' /\ PairInv'
    BY <1>3, <2>1, <2>2
    DEF SelectUser, TypeOK, GreeterTypeOK, PairInv, workerVars, slaveVars
  <2> QED
    BY <2>1, <2>2, <2>3
<1>4. CASE BeginVerification
  <2>1. calls' \in Seq(Call) /\ CallsInv' /\ ResetInv'
    BY <1>4, CallTaken DEF BeginVerification
  <2>2. WorkerTypeOK' /\ WorkerInv' /\ DisplayInv'
    BY <1>1, <1>2, <1>4 DEF BeginVerification
  <2>3. TypeOK' /\ PairInv'
    BY <1>4, <2>1, <2>2 DEF BeginVerification, TypeOK, GreeterTypeOK, PairInv, slaveVars
  <2> QED
    BY <2>1, <2>2, <2>3
<1>5. CASE BeginVerificationForUser \/ BeginAutoLogin
  <2>1. PICK name \in {"BeginVerificationForUser", "BeginAutoLogin"} :
          Take(name) /\ SetupForUser(Head(calls).user)
    BY <1>5 DEF BeginVerificationForUser, BeginAutoLogin
  <2>2. Head(calls) \in SoundCall /\ Head(calls).name = name
    BY <2>1, CallTaken DEF SetupForUser
  <2>3. Head(calls).user \in User
    BY <2>2 DEF SoundCall
  <2> QED
    BY <2>1, <2>3, SetupForUserIInv
<1>6. CASE Cancel
  <2>1. calls' \in Seq(Call) /\ CallsInv' /\ ResetInv'
    BY <1>6, CallTaken DEF Cancel
  <2>2. WorkerTypeOK' /\ WorkerInv' /\ DisplayInv'
    BY <1>1, <1>2, <1>6 DEF Cancel, workerVars
  <2>3. idles' \in Seq(Idles)
    BY <1>6, HelperTypes DEF Cancel, Idles
  <2>4. TypeOK' /\ PairInv'
    BY <1>6, <2>1, <2>2, <2>3 DEF Cancel, TypeOK, GreeterTypeOK, PairInv, workerVars
  <2> QED
    BY <2>1, <2>2, <2>4
<1>7. CASE StartSessionWhenReady
  <2>1. calls' \in Seq(Call) /\ CallsInv' /\ ResetInv'
    BY <1>7, CallTaken DEF StartSessionWhenReady
  <2>2. WorkerTypeOK' /\ WorkerInv' /\ DisplayInv' /\ worker' = worker
    BY <1>1, <1>2, <1>7 DEF StartSessionWhenReady, Accredit
  <2>3. ready' \in BOOLEAN /\ waiting' \in BOOLEAN
    BY <1>7 DEF StartSessionWhenReady, Accredit, TypeOK
  <2>4. TypeOK' /\ PairInv'
    BY <1>7, <2>1, <2>2, <2>3 DEF StartSessionWhenReady, TypeOK, GreeterTypeOK, PairInv
  <2> QED
    BY <2>1, <2>2, <2>4
<1> QED
  BY <1>3, <1>4, <1>5, <1>6, <1>7, GreeterConnectedIInv, AnswerQueryIInv
  DEF FromGreeter

-----------------------------------------------------------------------------
\* After stop_greeter there is no greeter, and at most the call it was in is left.
LEMMA HandOverKeeps ==
  ASSUME IInv, HandOver, idles # <<>>, sess.user \in User
  PROVE  /\ greeter' \in GreeterRecord /\ ~HasGreeter' /\ (HasServer' <=> HasServer)
         /\ calls' \in Seq(Call) /\ CallsInv'
         /\ effects' \subseteq Effect
<1> USE DEF IInv
<1>0. /\ greeter \in GreeterRecord /\ calls \in Seq(SoundCall)
      /\ greeter.st # "starting" /\ effects \subseteq Effect
  BY DEF TypeOK, GreeterTypeOK, CallsInv, ResetInv
<1>1. /\ greeter' \in GreeterRecord
      /\ greeter'.st = IF HasServer THEN "stopped" ELSE "none"
  BY <1>0 DEF HandOver, GreeterRecord, HasServer
<1>2. calls' \in Seq(SoundCall) /\ (calls = <<>> => calls' = <<>>)
  <2>1. CASE calls = <<>>
    BY <2>1 DEF HandOver
  <2>2. CASE calls # <<>>
    <3>1. Head(calls) \in SoundCall
      BY <1>0, <2>2
    <3>2. calls' = <<Head(calls)>>
      BY <2>2 DEF HandOver
    <3> QED
      BY <2>2, <3>1, <3>2
  <2> QED
    BY <2>1, <2>2
<1>3. SoundCall \subseteq Call
  BY DEF SoundCall
<1>4. calls' \in Seq(Call)
  BY <1>2, <1>3
<1>5. effects' \subseteq Effect
  <2>1. sess.user \in User \cup {NoUser}
    OBVIOUS
  <2> QED
    BY <1>0, <2>1, DidTypes DEF HandOver
<1>6. CallsInv'
  BY <1>1, <1>2 DEF CallsInv, HasServer
<1> QED
  BY <1>1, <1>4, <1>5, <1>6 DEF HasGreeter, HasServer

\* A queued reset: a new session, and a greeter when there was none.
LEMMA IdleResetIInv == IInv /\ IdleReset => IInv'
<1> SUFFICES ASSUME IInv, IdleReset PROVE IInv'
  OBVIOUS
<1> USE DEF IInv
<1>1. idles # <<>> /\ \E i \in 1 .. Len(idles) : idles[i] \in {"reset", "authFailed"}
  BY DEF IdleReset
<1>2. greeter.st # "starting" /\ (~HasServer => worker.pc = "none")
  BY <1>1 DEF ResetInv
<1>3. NewSession \in Session /\ ~NewSession.pending
  BY FreshRecords DEF NewSession, NoSession
<1>4. convs' \in 0 .. MaxConversations /\ idles' = <<>>
  BY ConversationsAssumption DEF IdleReset, TypeOK
<1>5. sess' = NewSession
  BY DEF IdleReset, ResetSession
<1>6. CASE HasServer
  <2>1. worker' = NewWorker /\ inbox' = <<>> /\ greeter' = greeter
    BY <1>6 DEF IdleReset, ResetSession
  <2>2. WorkerTypeOK' /\ WorkerInv' /\ DisplayInv' /\ worker'.call = "none"
    BY <2>1, WorkerFresh
  <2>3. signals' \in Seq(Signals)
    <3>1. <<"AuthenticationFailed">> \in Seq(Signals) /\ <<"Reset">> \in Seq(Signals)
      BY DEF Signals
    <3> QED
      BY <1>6, <3>1, HelperTypes DEF IdleReset
  <2>4. TypeOK'
    BY <1>3, <1>4, <1>5, <2>1, <2>2, <2>3 DEF TypeOK, GreeterTypeOK, IdleReset
  <2>5. CallsInv' /\ PairInv' /\ ResetInv'
    BY <1>2, <1>3, <1>4, <1>5, <2>1, <2>2
    DEF CallsInv, PairInv, ResetInv, IdleReset
  <2> QED
    BY <2>2, <2>4, <2>5
<1>7. CASE ~HasServer
  <2>1. /\ worker' = worker /\ inbox' = inbox /\ signals' = signals
        /\ greeter' = [NoGreeter EXCEPT !.st = "starting"]
    BY <1>7 DEF IdleReset, workerVars
  <2>2. greeter' \in GreeterRecord /\ greeter'.st = "starting"
    BY <2>1, FreshRecords DEF NoGreeter
  <2>3. /\ worker.pc = "none" /\ worker.call = "none" /\ inbox = <<>>
        /\ worker.state = NONE /\ worker.step = NONE /\ ~worker.idle
    BY <1>2, <1>7 DEF WorkerInv
  <2>4. calls = <<>> /\ calls' = calls
    BY <1>7 DEF CallsInv, HasServer, IdleReset
  <2>5. TypeOK'
    BY <1>3, <1>4, <1>5, <2>1, <2>2
    DEF TypeOK, GreeterTypeOK, WorkerTypeOK, IdleReset
  <2>6. WorkerInv' /\ DisplayInv'
    BY <2>1, <2>3 DEF WorkerInv, DisplayInv, NONE, AUTHENTICATED, SESSION_STARTED
  <2>7. CallsInv' /\ PairInv' /\ ResetInv'
    BY <1>3, <1>4, <1>5, <2>1, <2>2, <2>3, <2>4
    DEF CallsInv, PairInv, ResetInv, HasServer, IdleReset
  <2> QED
    BY <2>5, <2>6, <2>7
<1> QED
  BY <1>6, <1>7

\* Every idle, and the two that are queued together, in their order.
LEMMA IdleNextIInv == IInv /\ IdleNext => IInv'
<1> SUFFICES ASSUME IInv, IdleNext PROVE IInv'
  OBVIOUS
<1> USE DEF IInv
<1>1. NoSession \in Session /\ ~NoSession.pending
  BY FreshRecords DEF NoSession
<1>2. NewSession \in Session /\ ~NewSession.pending
  BY FreshRecords DEF NewSession, NoSession
<1>3. CASE IdleStart
  <2>1. /\ greeter' \in GreeterRecord /\ ~HasGreeter' /\ (HasServer' <=> HasServer)
        /\ calls' \in Seq(Call) /\ CallsInv' /\ effects' \subseteq Effect
    BY <1>3, HandOverKeeps DEF IdleStart
  <2>2. "StartProgram" \in DOMAIN Needs
    BY DEF Needs
  <2>3. inbox' \in Seq(Request) /\ (worker.pc # "up" => inbox' = inbox) /\ worker' = worker
    BY <1>3, <2>2, AskedTypes DEF IdleStart
  <2>4. worker \in WorkerRecord
    BY DEF TypeOK, WorkerTypeOK
  <2>5. WorkerTypeOK' /\ WorkerInv' /\ DisplayInv'
    BY <2>1, <2>3, <2>4, WorkerGoesOn
  <2>6. TypeOK'
    BY <1>3, <2>1, <2>5 DEF IdleStart, TypeOK, GreeterTypeOK
  <2>7. PairInv' /\ ResetInv'
    BY <1>3, <2>1, <2>3 DEF IdleStart, PairInv, ResetInv, HasGreeter
  <2> QED
    BY <2>1, <2>5, <2>6, <2>7
<1>4. CASE IdleMigrate
  <2>1. worker' = NoWorker /\ inbox' = <<>> /\ sess' = NoSession
    BY <1>4 DEF IdleMigrate, DestroySession
  <2>2. /\ WorkerTypeOK' /\ WorkerInv' /\ DisplayInv'
        /\ worker'.call = "none" /\ worker'.pc = "none"
    BY <2>1, WorkerFresh
  <2>3. greeter.st # "starting" /\ greeter' = greeter
    BY <1>4 DEF IdleMigrate, ResetInv, greeterVars
  <2>4. TypeOK'
    BY <1>1, <1>4, <2>1, <2>2 DEF IdleMigrate, TypeOK, GreeterTypeOK, Idles, greeterVars
  <2>5. CallsInv' /\ PairInv' /\ ResetInv'
    BY <1>1, <1>4, <2>1, <2>2, <2>3
    DEF IdleMigrate, CallsInv, PairInv, ResetInv, greeterVars
  <2> QED
    BY <2>2, <2>4, <2>5
<1>5. CASE IdleStartAborts
  BY <1>5 DEF IdleStartAborts, TypeOK, WorkerTypeOK, GreeterTypeOK, WorkerInv, CallsInv,
              PairInv, DisplayInv, ResetInv, HasServer, HasGreeter, workerVars, greeterVars
<1>6. CASE IdleStartThenReset
  <2>1. /\ greeter' \in GreeterRecord /\ ~HasGreeter' /\ (HasServer' <=> HasServer)
        /\ calls' \in Seq(Call) /\ CallsInv' /\ effects' \subseteq Effect
    BY <1>6, HandOverKeeps DEF IdleStartThenReset
  <2>2. worker' = NewWorker /\ inbox' = <<>> /\ sess' = NewSession
    BY <1>6 DEF IdleStartThenReset, ResetSession
  <2>3. /\ WorkerTypeOK' /\ WorkerInv' /\ DisplayInv' /\ worker'.call = "none"
    BY <2>2, WorkerFresh
  <2>4. convs' \in 0 .. MaxConversations /\ idles' = <<>> /\ signals' = <<>>
    BY <1>6, ConversationsAssumption DEF IdleStartThenReset, TypeOK
  <2>5. TypeOK'
    BY <1>2, <1>6, <2>1, <2>2, <2>3, <2>4 DEF IdleStartThenReset, TypeOK, GreeterTypeOK
  <2>6. PairInv' /\ ResetInv'
    BY <1>2, <1>6, <2>1, <2>2, <2>3, <2>4
    DEF IdleStartThenReset, PairInv, ResetInv, HasGreeter
  <2> QED
    BY <2>1, <2>3, <2>5, <2>6
<1> QED
  BY <1>3, <1>4, <1>5, <1>6, IdleResetIInv DEF IdleNext

\* The slave stops: only the scripts it runs are recorded.
LEMMA StopIInv == IInv /\ Stop => IInv'
<1> SUFFICES ASSUME IInv, Stop PROVE IInv'
  OBVIOUS
<1> USE DEF IInv
<1>1. effects' \subseteq Effect
  <2>1. sess.user \in User \cup {NoUser}
    BY DEF TypeOK, Session
  <2>2. effects \subseteq Effect
    BY DEF TypeOK
  <2> QED
    BY <2>1, <2>2, DidTypes DEF Stop
<1>2. TypeOK'
  BY <1>1 DEF Stop, TypeOK, WorkerTypeOK, GreeterTypeOK, workerVars, greeterVars
<1>3. WorkerInv' /\ CallsInv' /\ PairInv' /\ DisplayInv' /\ ResetInv'
  BY DEF Stop, WorkerInv, CallsInv, PairInv, DisplayInv, ResetInv, HasServer, HasGreeter,
         workerVars, greeterVars
<1> QED
  BY <1>2, <1>3

\* Every step keeps the invariant.
LEMMA NextIInv == IInv /\ [Next]_vars => IInv'
<1> SUFFICES ASSUME IInv, [Next]_vars PROVE IInv'
  OBVIOUS
<1>1. CASE FromWorker
  BY <1>1, FromWorkerIInv
<1>2. CASE FromGreeter
  BY <1>2, FromGreeterIInv
<1>3. CASE IdleNext
  BY <1>3, IdleNextIInv
<1>4. CASE SessionEnds \/ DisplayEnds
  BY <1>4, StopIInv DEF SessionEnds, DisplayEnds
<1>5. CASE Processes
  BY <1>5, WorkerIInv, WindowIInv DEF Processes
<1>6. CASE UNCHANGED vars
  BY <1>6 DEF IInv, vars, TypeOK, WorkerTypeOK, GreeterTypeOK, WorkerInv, CallsInv,
              PairInv, DisplayInv, ResetInv, HasServer, HasGreeter,
              workerVars, greeterVars, slaveVars
<1> QED
  BY <1>1, <1>2, <1>3, <1>4, <1>5, <1>6 DEF Next

\* The inductive invariant holds in every reachable state.
THEOREM Invariant == Spec => []IInv
<1>1. Init => IInv
  BY InitIInv
<1>2. IInv /\ [Next]_vars => IInv'
  BY NextIInv
<1> QED
  BY <1>1, <1>2, PTL DEF Spec

-----------------------------------------------------------------------------
\* What a step of the system does to PAM: the transaction stays where it is, is
\* given up, or its next step is run, or ends, or names an account.
PamKept ==
  /\ worker'.state = worker.state /\ worker'.step = worker.step
  /\ worker.state # NONE => worker'.user = worker.user
PamRuns ==
  /\ worker.step = NONE /\ worker.state < SESSION_STARTED
  /\ worker'.state = worker.state /\ worker'.step = worker.state + 1
  /\ worker'.user = worker.user
PamAdvances ==
  /\ worker.step = worker.state + 1
  /\ worker'.state = worker.step /\ worker'.step = NONE
  /\ worker.step = ACCREDITED => worker.user # NoUser
  /\ worker'.user = worker.user
PamRenames ==
  /\ worker.step \in 2 .. 5 /\ worker.state # NONE
  /\ worker.user = NoUser \/ worker.step \in RenamingSteps
  /\ worker'.state = worker.state /\ worker'.step = worker.step
PamGivenUp == worker'.state = NONE /\ worker'.step = NONE
PamStep == PamKept \/ PamRuns \/ PamAdvances \/ PamRenames \/ PamGivenUp

\* The slave leaves the worker as it is but for the call it answers and the
\* connection, or puts a new one, or none, in its place.
LEMMA SlavePamStep ==
  IInv /\ (FromWorker \/ FromGreeter \/ IdleNext \/ Stop) => PamKept \/ PamGivenUp
<1> SUFFICES ASSUME IInv, FromWorker \/ FromGreeter \/ IdleNext \/ Stop
             PROVE  PamKept \/ PamGivenUp
  OBVIOUS
<1> DEFINE Same(w) == /\ w.state = worker.state /\ w.step = worker.step
                      /\ w.user = worker.user
<1>1. worker \in WorkerRecord
  BY DEF IInv, TypeOK, WorkerTypeOK
<1>2. /\ Same(Answered)
      /\ Same([worker EXCEPT !.pc = "up"]) /\ Same([worker EXCEPT !.call = "answer"])
  BY <1>1 DEF Answered, WorkerRecord
<1>3. /\ NoWorker.state = NONE /\ NewWorker.state = NONE
      /\ NoWorker.step = NONE /\ NewWorker.step = NONE
  BY DEF NoWorker, NewWorker
<1>4. SUFFICES worker' \in {worker, Answered, [worker EXCEPT !.pc = "up"],
                            [worker EXCEPT !.call = "answer"], NoWorker, NewWorker}
  BY <1>2, <1>3 DEF PamKept, PamGivenUp
<1>5. CASE FromWorker
  BY <1>5
  DEF FromWorker, ConversationStarted, SetupComplete, SetupFailed, Authenticated,
      AuthenticationFailed, Authorized, AuthorizationFailed, Accredited,
      AccreditationFailed, Opened, OpenFailed, SessionStarted, StartFailed,
      UsernameChanged, WorkerQuery, WorkerGone, Proceed, GiveUp, Accredit,
      DestroySession
<1>6. CASE FromGreeter
  BY <1>6
  DEF FromGreeter, GreeterConnected, SelectUser, BeginVerification,
      BeginVerificationForUser, BeginAutoLogin, SetupForUser, AnswerQuery, Cancel,
      StartSessionWhenReady, Accredit, workerVars
<1>7. CASE IdleNext
  BY <1>7
  DEF IdleNext, IdleReset, IdleStart, IdleMigrate, IdleStartAborts,
      IdleStartThenReset, ResetSession, DestroySession, workerVars
<1>8. CASE Stop
  BY <1>8 DEF Stop, workerVars
<1> QED
  BY <1>5, <1>6, <1>7, <1>8

\* The worker runs the step after its state, and a setup is only for a worker that
\* has none.
LEMMA WorkerPamStep == IInv /\ WorkerNext => PamStep
<1> SUFFICES ASSUME IInv, WorkerNext PROVE PamStep
  OBVIOUS
<1> USE DEF NONE, SETUP_COMPLETE, AUTHENTICATED, AUTHORIZED, ACCREDITED,
            SESSION_OPENED, SESSION_STARTED
<1>1. /\ worker \in WorkerRecord /\ inbox \in Seq(Request)
      /\ worker.state \in 0 .. 6 /\ worker.step \in 0 .. 6
  BY DEF IInv, TypeOK, WorkerTypeOK, WorkerRecord, States
<1>2. WorkerInv
  BY DEF IInv
<1>3. ASSUME NEW k \in 1 .. 6, NEW ok \in BOOLEAN, StepEnds(k, ok),
             k = ACCREDITED /\ ok => worker.user # NoUser
      PROVE  PamAdvances \/ PamGivenUp
  <2>1. worker.step = k /\ worker.step = worker.state + 1
    BY <1>1, <1>2, <1>3 DEF StepEnds, Running, WorkerInv
  <2>2. /\ worker'.state = (IF ok THEN k ELSE NONE) /\ worker'.step = NONE
        /\ worker'.user = worker.user
    BY <1>1, <1>3 DEF StepEnds, WorkerRecord
  <2> QED
    BY <1>3, <2>1, <2>2 DEF PamAdvances, PamGivenUp
<1>4. CASE OnRequest
  <2>1. worker'.state = worker.state /\ worker'.step = worker.step
    BY <1>1, <1>4 DEF OnRequest, WorkerRecord
  <2>2. ASSUME worker.state # NONE PROVE worker'.user = worker.user
    <3>1. Head(inbox).name = "Setup" => ~Accepts(Head(inbox))
      BY <2>2 DEF Accepts, Needs
    <3> QED
      BY <1>1, <1>4, <3>1 DEF OnRequest, WorkerRecord
  <2> QED
    BY <2>1, <2>2 DEF PamStep, PamKept
<1>5. CASE StateChangeIdle
  <2>1. /\ worker.step = NONE /\ worker.state < SESSION_STARTED
        /\ worker'.state = worker.state /\ worker'.step = worker.state + 1
        /\ worker'.user = worker.user
    BY <1>1, <1>2, <1>5 DEF StateChangeIdle, Listening, WorkerInv, WorkerRecord
  <2> QED
    BY <2>1 DEF PamStep, PamRuns
<1>6. CASE PamAsks
  BY <1>1, <1>6 DEF PamAsks, WorkerRecord, PamStep, PamKept
<1>7. CASE UpdateUsername
  <2>1. PICK k \in 2 .. 5 : worker.step = k /\ (worker.user = NoUser \/ k \in RenamingSteps)
    BY <1>7 DEF UpdateUsername, Running
  <2>2. worker.state # NONE
    BY <1>1, <1>2, <2>1 DEF WorkerInv
  <2>3. worker'.state = worker.state /\ worker'.step = worker.step
    BY <1>1, <1>7 DEF UpdateUsername, WorkerRecord
  <2> QED
    BY <2>1, <2>2, <2>3 DEF PamStep, PamRenames
<1>8. CASE ChildWatch
  BY <1>1, <1>8 DEF ChildWatch, Listening, WorkerRecord, PamStep, PamGivenUp
<1>9. CASE WorkerCrashes
  BY <1>9 DEF WorkerCrashes, NoWorker, PamStep, PamGivenUp
<1>10. CASE DoSetup \/ DoAuthenticate \/ DoAuthorize
  BY <1>3, <1>10 DEF DoSetup, DoAuthenticate, DoAuthorize, PamStep
<1>11. CASE DoAccredit \/ DoOpenSession \/ DoStartSession
  BY <1>3, <1>11 DEF DoAccredit, DoOpenSession, DoStartSession, PamStep
<1> QED
  BY <1>4, <1>5, <1>6, <1>7, <1>8, <1>9, <1>10, <1>11 DEF WorkerNext, WorkerStep

\* A step that does one of these to PAM is a step of PamTransaction, or none.
LEMMA PamStepMaps == IInv /\ IInv' /\ PamStep => [Pam!Next]_(Pam!pamVars)
<1> SUFFICES ASSUME IInv, IInv', PamStep PROVE [Pam!Next]_(Pam!pamVars)
  OBVIOUS
<1> USE DEF NONE, ACCREDITED, SESSION_STARTED
<1>1. /\ worker.state \in 0 .. 6 /\ worker'.state \in 0 .. 6
      /\ worker.user \in User \cup {NoUser} /\ worker'.user \in User \cup {NoUser}
  BY DEF IInv, TypeOK, WorkerTypeOK, WorkerRecord, States, SESSION_STARTED
<1>2. CASE PamKept
  BY <1>2 DEF PamKept, Pam!pamVars
<1>3. CASE PamRuns
  BY <1>1, <1>3 DEF PamRuns, Pam!Next, Pam!Run
<1>4. CASE PamAdvances
  BY <1>1, <1>4 DEF PamAdvances, Pam!Next, Pam!Advance
<1>5. CASE PamRenames
  BY <1>1, <1>5 DEF PamRenames, Pam!Next, Pam!Rename
<1>6. CASE PamGivenUp
  BY <1>6 DEF PamGivenUp, Pam!Next, Pam!GiveUp
<1> QED
  BY <1>2, <1>3, <1>4, <1>5, <1>6 DEF PamStep

-----------------------------------------------------------------------------
\* The state of the slave, of the worker and of the greeter keeps its shape: no
\* field of theirs leaves its range, for any accounts and conversations.
THEOREM TypeCorrect == Spec => []TypeOK
<1>1. IInv => TypeOK
  BY DEF IInv
<1> QED
  BY <1>1, Invariant, PTL

\* The question PAM has asked and the reply the slave keeps for it come and go
\* together (message_pending_reply of mdm-session-direct.c).
THEOREM QuestionsPaired == Spec => []QueriesPaired
<1>1. IInv => QueriesPaired
  BY DEF IInv, PairInv, QueriesPaired
<1> QED
  BY <1>1, Invariant, PTL

\* The assertion of set_pending_query holds: no second question while one is open.
THEOREM NoSecondQuestion == Spec => []QueryAssertion
<1>1. IInv => QueryAssertion
  BY DEF IInv, PairInv, QueryAssertion
<1> QED
  BY <1>1, Invariant, PTL

\* While the user's session runs, no greeter is on the display.
THEOREM SessionHasDisplay == Spec => []SessionOwnsDisplay
<1>1. IInv => SessionOwnsDisplay
  BY DEF IInv, DisplayInv, SessionOwnsDisplay
<1> QED
  BY <1>1, Invariant, PTL

\* The login machinery implements PamTransaction, whichever steps' modules rename
\* the account: every step it takes runs PAM's next step, ends it, renames within
\* it, gives the transaction up, or leaves it alone.
THEOREM PamRefinement == Spec => PamInOrder
<1>1. Init => Pam!Init
  BY DEF Init, Pam!Init, NewWorker, NoWorker, NONE
<1>2. IInv /\ IInv' /\ [Next]_vars => [Pam!Next]_(Pam!pamVars)
  <2> SUFFICES ASSUME IInv, IInv', [Next]_vars PROVE [Pam!Next]_(Pam!pamVars)
    OBVIOUS
  <2>1. CASE FromWorker \/ FromGreeter \/ IdleNext \/ Stop
    BY <2>1, SlavePamStep, PamStepMaps DEF PamStep
  <2>2. CASE WorkerNext
    BY <2>2, WorkerPamStep, PamStepMaps
  <2>3. CASE UNCHANGED workerVars
    BY <2>3 DEF workerVars, Pam!pamVars
  <2> QED
    BY <2>1, <2>2, <2>3
    DEF Next, SessionEnds, DisplayEnds, Processes, vars
<1> QED
  BY <1>1, <1>2, Invariant, PTL DEF Spec, PamInOrder, Pam!Spec
=============================================================================
