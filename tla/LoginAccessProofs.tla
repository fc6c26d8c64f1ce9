-------------------------- MODULE LoginAccessProofs ---------------------------
(***************************************************************************)
(* When somebody is let in, and as whom: proofs about LoginSession that     *)
(* follow a choice of the window through the calls, the slave and the       *)
(* worker.  They rest on the invariant of LoginSessionProofs.               *)
(***************************************************************************)
EXTENDS LoginSessionProofs, SequenceTheorems

-----------------------------------------------------------------------------
(* The first conversation of a timed login.  As long as the window has not  *)
(* become interactive nothing that would establish the credentials exists:  *)
(* no call of the greeter, no flag of the slave, no request, no step.       *)

\* The signals of the first conversation but the request of the timed login.
FirstSignals == Signals \ {"Reset", "AuthenticationFailed", "TimedLoginRequested"}

\* The request comes at once, or after Ready.
TimedPending(s) ==
  /\ s # <<>>
  /\ \/ Head(s) = "TimedLoginRequested" /\ Tail(s) \in Seq(FirstSignals)
     \/ /\ Head(s) = "Ready" /\ Tail(s) # <<>>
        /\ Head(Tail(s)) = "TimedLoginRequested" /\ Tail(Tail(s)) \in Seq(FirstSignals)

Untouched ==
  /\ ~greeter.interactive /\ ~greeter.hold /\ ~greeter.prompt /\ ~greeter.timed
  /\ ~greeter.auto /\ greeter.chosen # AutoItem

WaitingCall == {c \in SoundCall : c.name # "StartSessionWhenReady"}
WaitingRequest == {r \in Request : r.name # "EstablishCredentials"}
WorkerWaits ==
  /\ inbox \in Seq(WaitingRequest)
  /\ ~(worker.idle /\ worker.state = AUTHORIZED)
  /\ worker.step < ACCREDITED /\ worker.state < ACCREDITED

WindowWaits == ~greeter.interactive => ~ready /\ calls \in Seq(WaitingCall)

TimedWait ==
  convs = 1 /\ HasGreeter =>
    /\ signals \in Seq(FirstSignals) \/ (TimedPending(signals) /\ Untouched)
    /\ worker.pc = "starting" \/ greeter.st = "starting" => signals = <<>> /\ Untouched
    /\ WindowWaits
    /\ ~greeter.interactive => WorkerWaits

TimedInv == convs >= 1 /\ TimedWait

\* The two ends of a longer list.
LEMMA LongerList ==
  ASSUME NEW S, NEW s \in Seq(S), NEW t \in Seq(S), s # <<>>
  PROVE  s \o t # <<>> /\ Head(s \o t) = Head(s) /\ Tail(s \o t) = Tail(s) \o t
  OBVIOUS

\* A signal more, or the first one less.
LEMMA PendingMore ==
  ASSUME NEW s \in Seq(Signals), NEW t \in Seq(FirstSignals), TimedPending(s)
  PROVE  TimedPending(s \o t)
<1>1. s # <<>> /\ t \in Seq(Signals)
  BY DEF TimedPending, FirstSignals
<1>2. s \o t # <<>> /\ Head(s \o t) = Head(s) /\ Tail(s \o t) = Tail(s) \o t
  BY <1>1, LongerList
<1>3. CASE Head(s) = "TimedLoginRequested" /\ Tail(s) \in Seq(FirstSignals)
  <2>1. Tail(s) \o t \in Seq(FirstSignals)
    BY <1>3, ConcatProperties
  <2> QED
    BY <1>2, <1>3, <2>1 DEF TimedPending
<1>4. CASE /\ Head(s) = "Ready" /\ Tail(s) # <<>>
           /\ Head(Tail(s)) = "TimedLoginRequested" /\ Tail(Tail(s)) \in Seq(FirstSignals)
  <2> DEFINE u == Tail(s)
  <2>0. u # <<>> /\ u \in Seq(Signals)
    <3>1. Tail(s) \in Seq(Signals)
      BY <1>1, HeadTailProperties
    <3> QED
      BY <1>4, <3>1
  <2> HIDE DEF u
  <2>1. u \in Seq(Signals) /\ u # <<>> /\ t \in Seq(Signals)
    BY <1>1, <2>0
  <2>2. Head(u \o t) = Head(u) /\ Tail(u \o t) = Tail(u) \o t /\ u \o t # <<>>
    BY <2>1, LongerList
  <2>3. Tail(u) \o t \in Seq(FirstSignals)
    BY <1>4, ConcatProperties DEF u
  <2> QED
    BY <1>2, <1>4, <2>2, <2>3 DEF TimedPending, u
<1> QED
  BY <1>3, <1>4 DEF TimedPending

LEMMA PendingLess ==
  ASSUME NEW s \in Seq(Signals), TimedPending(s)
  PROVE  \/ Head(s) = "TimedLoginRequested" /\ Tail(s) \in Seq(FirstSignals)
         \/ Head(s) = "Ready" /\ TimedPending(Tail(s))
  BY DEF TimedPending

\* The slave goes on with the window as it is.
LEMMA SlaveWaits ==
  ASSUME IInv, TimedInv, UNCHANGED <<convs, greeter, calls, ready>>,
         \E t \in Seq(FirstSignals) : signals' \in {signals, signals \o t},
         worker'.pc = "starting" => worker.pc = "starting" /\ signals' = signals,
         WorkerWaits => WorkerWaits',
         greeter.st = "starting" => signals' = signals
  PROVE  TimedInv'
<1>1. SUFFICES ASSUME convs = 1, HasGreeter PROVE TimedWait'
  BY DEF TimedInv, TimedWait, HasGreeter
<1>2. signals \in Seq(Signals)
  BY DEF IInv, TypeOK, GreeterTypeOK
<1>3. PICK t \in Seq(FirstSignals) : signals' \in {signals, signals \o t}
  OBVIOUS
<1>4. signals' \in Seq(FirstSignals) \/ (TimedPending(signals') /\ Untouched)
  BY <1>1, <1>2, <1>3, PendingMore, ConcatProperties DEF TimedInv, TimedWait
<1>5. Untouched' <=> Untouched
  BY DEF Untouched
<1> QED
  BY <1>1, <1>4, <1>5 DEF TimedInv, TimedWait, WindowWaits

\* The worker answered, perhaps with a request that is not the credentials'.
LEMMA AskedWaits ==
  ASSUME IInv, worker' = Answered,
         inbox' \in {inbox} \cup {Asked(n) : n \in DOMAIN Needs \ {"EstablishCredentials"}}
  PROVE  worker'.pc = worker.pc /\ (WorkerWaits => WorkerWaits')
<1>1. \A f \in {"pc", "state", "idle", "step", "user"} : Answered[f] = worker[f]
  BY HelperTypes DEF IInv
<1>2. ASSUME NEW n \in DOMAIN Needs \ {"EstablishCredentials"}, inbox \in Seq(WaitingRequest)
      PROVE  Asked(n) \in Seq(WaitingRequest)
  <2>1. [name |-> n, user |-> NoUser] \in WaitingRequest
    BY DEF WaitingRequest, Request
  <2> QED
    BY <1>2, <2>1 DEF Asked
<1>3. inbox \in Seq(WaitingRequest) => inbox' \in Seq(WaitingRequest)
  BY <1>2
<1> QED
  BY <1>1, <1>3 DEF WorkerWaits

\* A worker that is gone or not connected waits.
LEMMA FreshWaits ==
  ASSUME worker' \in {NoWorker, NewWorker}, inbox' = <<>>
  PROVE  WorkerWaits'
  BY DEF WorkerWaits, NoWorker, NewWorker, NONE, ACCREDITED, AUTHORIZED

\* What the worker connecting does: the window is told, once.
LEMMA StartWaits == IInv /\ TimedInv /\ ConversationStarted => TimedInv'
<1> SUFFICES ASSUME IInv, TimedInv, ConversationStarted, convs = 1, HasGreeter
             PROVE  TimedWait'
  BY DEF TimedInv, TimedWait, ConversationStarted, HasGreeter
<1>1. worker.pc = "starting" /\ greeter.st = "up" /\ HasServer
  BY DEF ConversationStarted, HasGreeter, HasServer, IInv, PairInv
<1>2. signals = <<>> /\ Untouched /\ WindowWaits /\ ~greeter.interactive /\ WorkerWaits
  BY <1>1 DEF TimedInv, TimedWait, Untouched
<1>3. /\ worker' = [worker EXCEPT !.pc = "up"] /\ inbox' = inbox
      /\ UNCHANGED <<greeter, calls, ready, convs>>
      /\ signals' = <<"Ready">> \o (IF TimedLogin = "off" THEN <<>> ELSE <<"TimedLoginRequested">>)
  BY <1>1, <1>2 DEF ConversationStarted, BeginsItself, Tell
<1>4. signals' \in Seq(FirstSignals) \/ TimedPending(signals')
  <2>1. CASE TimedLogin = "off"
    BY <1>3, <2>1 DEF FirstSignals, Signals
  <2>2. CASE TimedLogin # "off"
    <3> DEFINE a == <<"Ready">>
               b == <<"TimedLoginRequested">>
    <3>1. signals' = a \o b /\ a \in Seq(Signals) /\ b \in Seq(Signals) /\ a # <<>>
      BY <1>3, <2>2 DEF Signals
    <3>2. Head(a) = "Ready" /\ Tail(a) = <<>> /\ Head(b) = "TimedLoginRequested" /\ Tail(b) = <<>>
          /\ b # <<>>
      OBVIOUS
    <3> HIDE DEF a, b
    <3>3. Head(signals') = "Ready" /\ Tail(signals') = b /\ signals' # <<>>
      <4>1. a \o b # <<>> /\ Head(a \o b) = Head(a) /\ Tail(a \o b) = Tail(a) \o b
        BY <3>1, LongerList
      <4>2. <<>> \o b = b
        BY <3>1, ConcatEmptySeq
      <4> QED
        BY <3>1, <3>2, <4>1, <4>2
    <3>4. <<>> \in Seq(FirstSignals)
      OBVIOUS
    <3> QED
      BY <3>2, <3>3, <3>4 DEF TimedPending
  <2> QED
    BY <2>1, <2>2
<1>5. worker'.pc = "up"
  BY <1>3 DEF IInv, TypeOK, WorkerTypeOK, WorkerRecord
<1>6. WorkerWaits'
  BY <1>2, <1>3 DEF WorkerWaits, IInv, TypeOK, WorkerTypeOK, WorkerRecord
<1> QED
  BY <1>1, <1>2, <1>3, <1>4, <1>5, <1>6 DEF TimedWait, Untouched, WindowWaits

\* A failed step: the session is destroyed.
LEMMA GiveUpWaits ==
  ASSUME IInv, TimedInv, NEW report, NEW kind, GiveUp(report, kind)
  PROVE  TimedInv'
<1>1. worker' = NoWorker /\ inbox' = <<>>
  BY DEF GiveUp, DestroySession
<1>2. WorkerWaits' /\ worker'.pc = "none"
  BY <1>1, FreshWaits DEF NoWorker
<1>3. UNCHANGED <<convs, greeter, calls, ready, signals>>
  BY DEF GiveUp, greeterVars
<1>4. <<>> \in Seq(FirstSignals)
  OBVIOUS
<1> QED
  BY <1>2, <1>3, <1>4, SlaveWaits

\* PAM accepts: the credentials are established at once if the greeter said so.
LEMMA AuthorizedWaits == IInv /\ TimedInv /\ Authorized => TimedInv'
<1> SUFFICES ASSUME IInv, TimedInv, Authorized PROVE TimedInv'
  OBVIOUS
<1>1. /\ UNCHANGED <<convs, greeter, calls>> /\ signals' = Tell(<<"UserAuthorized">>)
      /\ worker' = Answered /\ worker.pc = "up" /\ greeter.st # "starting"
      /\ ready' = (ready \/ ~HasServer)
  BY DEF Authorized, Accredit, IInv, WorkerInv, PairInv
<1>2. SUFFICES ASSUME convs = 1, HasGreeter PROVE TimedWait'
  BY <1>1 DEF TimedInv, TimedWait, HasGreeter
<1>3. worker'.pc = "up" /\ signals \in Seq(Signals)
  BY <1>1, HelperTypes DEF IInv, TypeOK, GreeterTypeOK
<1>4. HasServer
  BY <1>2 DEF HasServer, HasGreeter
<1>5. CASE ready
  <2>1. greeter.interactive
    BY <1>2, <1>5 DEF TimedInv, TimedWait, WindowWaits
  <2>2. signals' \in Seq(FirstSignals)
    <3>1. signals \in Seq(FirstSignals)
      BY <1>2, <2>1 DEF TimedInv, TimedWait, Untouched
    <3>2. <<"UserAuthorized">> \in Seq(FirstSignals)
      BY DEF FirstSignals, Signals
    <3> QED
      BY <1>1, <3>1, <3>2, ConcatProperties DEF Tell
  <2> QED
    BY <1>1, <1>3, <2>1, <2>2 DEF TimedWait, WindowWaits, Untouched
<1>6. CASE ~ready
  <2>1. ~(ready \/ ~HasServer)
    BY <1>4, <1>6
  <2>2. ready \in BOOLEAN /\ ready' = FALSE
    BY <1>1, <2>1 DEF IInv, TypeOK
  <2>3. inbox' = inbox /\ ready' = ready
    BY <1>6, <2>1, <2>2 DEF Authorized, Accredit
  <2>4. worker'.pc = worker.pc /\ (WorkerWaits => WorkerWaits')
    BY <1>1, <2>3, AskedWaits
  <2>5. <<"UserAuthorized">> \in Seq(FirstSignals)
    BY DEF FirstSignals, Signals
  <2>6. signals' \in {signals, signals \o <<"UserAuthorized">>}
    BY <1>1 DEF Tell
  <2> QED
    BY <1>1, <2>3, <2>4, <2>5, <2>6, SlaveWaits DEF TimedInv
<1> QED
  BY <1>5, <1>6

\* The other reports and questions of the worker.
LEMMA ReportsWait ==
  ASSUME IInv, TimedInv,
         \/ SetupComplete \/ Authenticated \/ Accredited \/ Opened \/ SessionStarted
         \/ StartFailed \/ UsernameChanged \/ WorkerQuery \/ WorkerGone
  PROVE  TimedInv'
<1>1. <<>> \in Seq(FirstSignals) /\ <<"Query">> \in Seq(FirstSignals)
  BY DEF FirstSignals, Signals
<1>2. UNCHANGED <<convs, greeter, calls, ready>>
  BY DEF SetupComplete, Authenticated, Accredited, Proceed, Opened, SessionStarted,
         StartFailed, UsernameChanged, WorkerQuery, WorkerGone, greeterVars, slaveVars
<1>3. CASE SetupComplete \/ Authenticated \/ Accredited
  <2>1. \E n \in {"Authenticate", "Authorize", "OpenSession"} : inbox' = Asked(n)
    BY <1>3 DEF SetupComplete, Authenticated, Accredited, Proceed
  <2>2. worker' = Answered /\ UNCHANGED signals
    BY <1>3 DEF SetupComplete, Authenticated, Accredited, Proceed, greeterVars
  <2>3. \A n \in {"Authenticate", "Authorize", "OpenSession"} :
          n \in DOMAIN Needs \ {"EstablishCredentials"}
    BY DEF Needs
  <2>4. worker'.pc = worker.pc /\ (WorkerWaits => WorkerWaits')
    BY <2>1, <2>2, <2>3, AskedWaits
  <2> QED
    BY <1>1, <1>2, <2>2, <2>4, SlaveWaits
<1>4. CASE Opened \/ SessionStarted \/ StartFailed \/ UsernameChanged
  <2>1. worker' = Answered /\ UNCHANGED <<signals, inbox>>
    BY <1>4 DEF Opened, SessionStarted, StartFailed, UsernameChanged, greeterVars
  <2>2. worker'.pc = worker.pc /\ (WorkerWaits => WorkerWaits')
    BY <2>1, AskedWaits
  <2> QED
    BY <1>1, <1>2, <2>1, <2>2, SlaveWaits
<1>5. CASE WorkerQuery
  <2>1. /\ worker' = worker \/ worker' = [worker EXCEPT !.call = "answer"]
        /\ UNCHANGED inbox /\ signals' \in {signals, signals \o <<"Query">>}
    BY <1>5 DEF WorkerQuery, Tell
  <2>2. worker'.pc = "up" /\ worker.pc = "up" /\ greeter.st # "starting"
    BY <1>5, <2>1 DEF WorkerQuery, IInv, WorkerInv, PairInv, TypeOK, WorkerTypeOK, WorkerRecord
  <2>3. WorkerWaits => WorkerWaits'
    BY <2>1 DEF WorkerWaits, IInv, TypeOK, WorkerTypeOK, WorkerRecord
  <2> QED
    BY <1>1, <1>2, <2>1, <2>2, <2>3, SlaveWaits
<1>6. CASE WorkerGone
  <2>1. worker' = NoWorker /\ inbox' = <<>> /\ UNCHANGED signals
    BY <1>6 DEF WorkerGone, IInv, WorkerInv, greeterVars
  <2>2. WorkerWaits' /\ worker'.pc = "none"
    BY <2>1, FreshWaits DEF NoWorker
  <2> QED
    BY <1>1, <1>2, <2>1, <2>2, SlaveWaits
<1> QED
  BY <1>3, <1>4, <1>5, <1>6

LEMMA FromWorkerWaits == IInv /\ TimedInv /\ FromWorker => TimedInv'
<1> SUFFICES ASSUME IInv, TimedInv, FromWorker PROVE TimedInv'
  OBVIOUS
<1>1. CASE SetupFailed \/ AuthenticationFailed \/ AuthorizationFailed
           \/ AccreditationFailed \/ OpenFailed
  BY <1>1, GiveUpWaits DEF SetupFailed, AuthenticationFailed, AuthorizationFailed,
                           AccreditationFailed, OpenFailed
<1> QED
  BY <1>1, StartWaits, AuthorizedWaits, ReportsWait DEF FromWorker

\* A call of the greeter is taken.
LEMMA CallWaits ==
  ASSUME IInv, TimedInv, UNCHANGED <<convs, greeter, signals>>,
         calls # <<>>, calls' = Tail(calls),
         worker'.pc = worker.pc,
         greeter.interactive \/ (ready' = ready /\ (WorkerWaits => WorkerWaits'))
  PROVE  TimedInv'
<1>1. SUFFICES ASSUME convs = 1, HasGreeter PROVE TimedWait'
  BY DEF TimedInv, TimedWait, HasGreeter
<1>2. calls \in Seq(WaitingCall) => calls' \in Seq(WaitingCall)
  BY HeadTailProperties
<1>3. Untouched' <=> Untouched
  BY DEF Untouched
<1> QED
  BY <1>1, <1>2, <1>3 DEF TimedInv, TimedWait, WindowWaits

LEMMA FromGreeterWaits == IInv /\ TimedInv /\ FromGreeter => TimedInv'
<1> SUFFICES ASSUME IInv, TimedInv, FromGreeter PROVE TimedInv'
  OBVIOUS
<1>0. worker \in WorkerRecord /\ inbox \in Seq(Request) /\ greeter \in GreeterRecord
  BY DEF IInv, TypeOK, WorkerTypeOK, GreeterTypeOK
<1>1. CASE GreeterConnected
  <2>1. /\ greeter.st = "starting" /\ greeter' = [greeter EXCEPT !.st = "up"]
        /\ worker' = NewWorker /\ inbox' = inbox /\ inbox = <<>>
        /\ UNCHANGED <<calls, signals, ready, convs>>
    BY <1>1 DEF GreeterConnected, slaveVars, IInv, PairInv, WorkerInv
  <2>2. WorkerWaits'
    BY <2>1, FreshWaits
  <2>3. convs = 1 => signals = <<>> /\ Untouched /\ WindowWaits
    BY <2>1 DEF TimedInv, TimedWait, HasGreeter
  <2>4. Untouched => Untouched'
    BY <1>0, <2>1 DEF Untouched, GreeterRecord
  <2>5. signals = <<>> => signals' \in Seq(FirstSignals)
    BY <2>1
  <2>6. WindowWaits => WindowWaits'
    BY <1>0, <2>1 DEF WindowWaits, GreeterRecord
  <2> QED
    BY <2>1, <2>2, <2>3, <2>4, <2>5, <2>6 DEF TimedInv, TimedWait
<1>2. CASE SelectUser \/ Cancel
  <2>1. UNCHANGED <<convs, greeter, signals, ready, workerVars>> /\ calls # <<>>
        /\ calls' = Tail(calls)
    BY <1>2 DEF SelectUser, Cancel, Take, slaveVars
  <2> QED
    BY <2>1, CallWaits DEF workerVars, WorkerWaits
<1>3. CASE BeginVerification \/ BeginVerificationForUser \/ BeginAutoLogin
  <2>1. UNCHANGED <<convs, greeter, signals, ready, worker>> /\ calls # <<>>
        /\ calls' = Tail(calls)
    BY <1>3 DEF BeginVerification, BeginVerificationForUser, BeginAutoLogin, SetupForUser,
                Take, slaveVars
  <2>2. \/ inbox' = inbox
        \/ inbox' = Append(inbox, [name |-> "Setup", user |-> NoUser])
        \/ inbox' = Append(inbox, [name |-> "Setup", user |-> Head(calls).user])
           /\ Head(calls).name \in {"BeginVerificationForUser", "BeginAutoLogin"}
    BY <1>3 DEF BeginVerification, BeginVerificationForUser, BeginAutoLogin, SetupForUser,
                Take, Asked
  <2>3. Head(calls).name \in {"BeginVerificationForUser", "BeginAutoLogin"}
          => Head(calls).user \in User
    BY <2>1, HeadTailProperties DEF IInv, CallsInv, SoundCall
  <2>4. \A u \in User \cup {NoUser} : [name |-> "Setup", user |-> u] \in WaitingRequest
    BY DEF WaitingRequest, Request, Needs
  <2>5. ASSUME inbox \in Seq(WaitingRequest) PROVE inbox' \in Seq(WaitingRequest)
    <3>1. \A r \in WaitingRequest : Append(inbox, r) \in Seq(WaitingRequest)
      BY <2>5
    <3> QED
      BY <2>2, <2>3, <2>4, <2>5, <3>1
  <2>6. WorkerWaits => WorkerWaits'
    BY <2>1, <2>5 DEF WorkerWaits
  <2> QED
    BY <2>1, <2>6, CallWaits
<1>4. CASE AnswerQuery
  <2>1. UNCHANGED <<convs, greeter, signals, ready, inbox>> /\ calls # <<>>
        /\ calls' = Tail(calls) /\ worker' \in {worker, Answered}
    BY <1>4 DEF AnswerQuery, Take
  <2>2. worker'.pc = worker.pc /\ (WorkerWaits => WorkerWaits')
    BY <2>1, AskedWaits DEF WorkerWaits
  <2> QED
    BY <2>1, <2>2, CallWaits
<1>5. CASE StartSessionWhenReady
  <2>1. /\ UNCHANGED <<convs, greeter, signals, worker>> /\ calls # <<>>
        /\ Head(calls).name = "StartSessionWhenReady" /\ calls' = Tail(calls)
    BY <1>5 DEF StartSessionWhenReady, Take, Accredit
  <2>2. calls \notin Seq(WaitingCall)
    BY <2>1, HeadTailProperties DEF WaitingCall
  <2>3. convs = 1 /\ HasGreeter => greeter.interactive
    BY <2>2 DEF TimedInv, TimedWait, WindowWaits
  <2>4. CASE greeter.interactive
    BY <2>1, <2>4, CallWaits
  <2>5. CASE ~greeter.interactive
    BY <2>1, <2>3, <2>5 DEF TimedInv, TimedWait, HasGreeter
  <2> QED
    BY <2>4, <2>5
<1> QED
  BY <1>1, <1>2, <1>3, <1>4, <1>5 DEF FromGreeter

\* An idle begins the next conversation, stops the greeter, or leaves it alone.
LEMMA IdleWaits == IInv /\ TimedInv /\ IdleNext => TimedInv'
<1> SUFFICES ASSUME IInv, TimedInv, IdleNext PROVE TimedInv'
  OBVIOUS
<1>0. convs \in Nat /\ convs >= 1
  BY DEF IInv, TypeOK, TimedInv
<1>1. CASE IdleReset \/ IdleStartThenReset
  <2>1. convs' = convs + 1
    BY <1>1 DEF IdleReset, IdleStartThenReset
  <2>2. convs' >= 1 /\ convs' # 1
    BY <1>0, <2>1
  <2> QED
    BY <2>2 DEF TimedInv, TimedWait
<1>2. CASE IdleStart
  <2>1. convs' = convs /\ greeter' = [greeter EXCEPT !.st = IF HasServer THEN "stopped" ELSE greeter.st]
    BY <1>2 DEF IdleStart, HandOver
  <2>2. greeter'.st \in {"stopped", "none"}
    BY <2>1 DEF HasServer, IInv, TypeOK, GreeterTypeOK, GreeterRecord
  <2> QED
    BY <2>1, <2>2 DEF TimedInv, TimedWait, HasGreeter
<1>3. CASE IdleMigrate
  <2>1. worker' = NoWorker /\ inbox' = <<>> /\ UNCHANGED <<convs, greeter, calls, ready, signals>>
    BY <1>3 DEF IdleMigrate, DestroySession, greeterVars
  <2>2. WorkerWaits' /\ worker'.pc = "none" /\ <<>> \in Seq(FirstSignals)
    BY <2>1, FreshWaits DEF NoWorker
  <2> QED
    BY <2>1, <2>2, SlaveWaits
<1>4. CASE IdleStartAborts
  <2>1. UNCHANGED <<convs, greeterVars, workerVars, ready>>
    BY <1>4 DEF IdleStartAborts
  <2>2. <<>> \in Seq(FirstSignals)
    OBVIOUS
  <2> QED
    BY <2>1, <2>2, SlaveWaits DEF greeterVars, workerVars, WorkerWaits
<1> QED
  BY <1>1, <1>2, <1>3, <1>4 DEF IdleNext

\* The worker takes the step before the credentials at most.
LEMMA WorkerStepsWait == IInv /\ WorkerWaits /\ WorkerNext => WorkerWaits'
<1> SUFFICES ASSUME IInv, WorkerWaits, WorkerNext PROVE WorkerWaits'
  OBVIOUS
<1>0. worker \in WorkerRecord /\ inbox \in Seq(WaitingRequest)
  BY DEF IInv, TypeOK, WorkerTypeOK, WorkerWaits
<1>1. CASE OnRequest
  <2>1. Head(inbox) \in WaitingRequest /\ Tail(inbox) \in Seq(WaitingRequest)
    BY <1>0, <1>1, HeadTailProperties DEF OnRequest
  <2>2. worker.state = AUTHORIZED => ~Accepts(Head(inbox))
    BY <2>1 DEF WaitingRequest, Request, Accepts, Needs, NONE, SETUP_COMPLETE, AUTHENTICATED,
                AUTHORIZED, ACCREDITED, SESSION_OPENED
  <2>3. worker'.state = worker.state /\ worker'.step = worker.step
        /\ (worker'.idle = worker.idle \/ Accepts(Head(inbox)))
    BY <1>0, <1>1 DEF OnRequest, WorkerRecord
  <2> QED
    BY <1>1, <2>1, <2>2, <2>3 DEF WorkerWaits, OnRequest
<1>2. CASE StateChangeIdle
  <2>1. worker.state \in 0 .. 6 /\ worker.state < 4 /\ worker.state # 3
    BY <1>0, <1>2 DEF StateChangeIdle, WorkerWaits, WorkerRecord, States, NONE,
                      SESSION_STARTED, AUTHORIZED, ACCREDITED
  <2>2. worker.state + 1 < 4
    BY <2>1
  <2>3. worker'.state = worker.state /\ worker'.step = worker.state + 1 /\ ~worker'.idle
        /\ inbox' = inbox
    BY <1>0, <1>2 DEF StateChangeIdle, WorkerRecord
  <2> QED
    BY <1>0, <2>1, <2>2, <2>3 DEF WorkerWaits, ACCREDITED
<1>3. ASSUME NEW k \in 1 .. 6, NEW ok \in BOOLEAN, StepEnds(k, ok) PROVE WorkerWaits'
  <2>1. worker.step = k /\ k < 4 /\ ~worker.idle
    BY <1>3 DEF StepEnds, Running, IInv, WorkerInv, WorkerWaits, ACCREDITED, NONE
  <2>2. worker'.state \in {k, 0} /\ worker'.step = 0 /\ ~worker'.idle /\ inbox' = inbox
    BY <1>0, <1>3, <2>1 DEF StepEnds, WorkerRecord, NONE
  <2> QED
    BY <1>0, <2>1, <2>2 DEF WorkerWaits, ACCREDITED
<1>4. CASE \/ DoSetup \/ DoAuthenticate \/ DoAuthorize
           \/ DoAccredit \/ DoOpenSession \/ DoStartSession
  BY <1>3, <1>4 DEF DoSetup, DoAuthenticate, DoAuthorize, DoAccredit, DoOpenSession,
                    DoStartSession, SETUP_COMPLETE, AUTHENTICATED, AUTHORIZED,
                    ACCREDITED, SESSION_OPENED, SESSION_STARTED
<1>5. CASE PamAsks \/ UpdateUsername
  BY <1>0, <1>5 DEF PamAsks, UpdateUsername, WorkerRecord, WorkerWaits
<1>6. CASE ChildWatch \/ WorkerCrashes
  <2>1. inbox' \in {inbox, <<>>}
    BY <1>6 DEF ChildWatch, WorkerCrashes
  <2>2. worker'.state = 0 /\ worker'.step = 0
    BY <1>0, <1>6 DEF ChildWatch, Listening, WorkerCrashes, NoWorker, NONE, WorkerRecord
  <2>3. inbox' \in Seq(WaitingRequest)
    <3>1. <<>> \in Seq(WaitingRequest)
      OBVIOUS
    <3> QED
      BY <1>0, <2>1, <3>1
  <2>4. worker'.state # 3 /\ worker'.state < 4 /\ worker'.step < 4
    BY <2>2
  <2> QED
    BY <2>3, <2>4 DEF WorkerWaits, AUTHORIZED, ACCREDITED
<1> QED
  BY <1>1, <1>2, <1>4, <1>5, <1>6 DEF WorkerNext, WorkerStep

\* The calls that begin an item of the list, and those of a user who cancels.
LEMMA CallsWait ==
  /\ \A c \in Name \ {NoUser} : ChooseCalls(c) \in Seq(WaitingCall)
  /\ <<ACall("Cancel")>> \in Seq(WaitingCall)
<1>1. ACall("Cancel") \in WaitingCall /\ ACall("BeginVerification") \in WaitingCall
  BY CallsSound DEF WaitingCall, ACall
<1>2. ASSUME NEW c \in Name \ {NoUser} PROVE ChooseCalls(c) \in Seq(WaitingCall)
  <2>1. [name |-> "SelectUser", user |-> c] \in WaitingCall
    BY DEF WaitingCall, SoundCall, Call
  <2>2. [name |-> "BeginAutoLogin", user |-> TimedUser] \in WaitingCall
    BY NamesAssumption DEF WaitingCall, SoundCall, Call, Name
  <2>3. c \in User => [name |-> "BeginVerificationForUser", user |-> c] \in WaitingCall
    BY DEF WaitingCall, SoundCall, Call, Name
  <2> QED
    BY <1>1, <2>1, <2>2, <2>3 DEF ChooseCalls, Name
<1> QED
  BY <1>1, <1>2

\* A step of the window, said by what it does to the touched window.
LEMMA WindowStays ==
  ASSUME IInv, TimedInv, WindowKept, UNCHANGED <<workerVars, slaveVars>>,
         convs = 1 =>
           \/ signals' \in Seq(FirstSignals) /\ (worker.pc = "starting" => signals' = <<>> /\ Untouched')
           \/ TimedPending(signals') /\ Untouched' /\ worker.pc # "starting",
         convs = 1 /\ ~greeter'.interactive =>
           ~greeter.interactive /\ calls' \in Seq(WaitingCall)
  PROVE  TimedInv'
<1>1. greeter.st = "up" /\ greeter'.st = "up" /\ UNCHANGED <<convs, ready, worker>>
  BY DEF WindowKept, slaveVars, workerVars
<1>2. WorkerWaits' <=> WorkerWaits
  BY DEF WorkerWaits, workerVars
<1> QED
  BY <1>1, <1>2 DEF TimedInv, TimedWait, WindowWaits, HasGreeter

\* The user in front of it.
LEMMA UserWaits ==
  IInv /\ TimedInv /\ UserStep /\ UNCHANGED <<workerVars, slaveVars>> => TimedInv'
<1> SUFFICES ASSUME IInv, TimedInv, UserStep, UNCHANGED <<workerVars, slaveVars>>
             PROVE  TimedInv'
  OBVIOUS
<1>1. WindowKept
  BY WindowStep DEF IInv, TypeOK
<1>2. greeter \in GreeterRecord /\ UNCHANGED signals /\ HasGreeter /\ worker' = worker
  BY <1>1 DEF IInv, TypeOK, GreeterTypeOK, WindowKept, HasGreeter, UserStep, OnUserChosen,
              OnLoginButtonAnswer, DoCancel, TimedLoginTimer, workerVars
<1>3. ASSUME convs = 1
      PROVE  /\ signals \in Seq(FirstSignals) \/ (TimedPending(signals) /\ Untouched)
             /\ worker.pc = "starting" => signals = <<>> /\ Untouched
  BY <1>2, <1>3 DEF TimedInv, TimedWait
<1>4. signals = <<>> => ~TimedPending(signals)
  BY DEF TimedPending
<1>5. CASE OnUserChosen
  <2>1. PICK c \in User \cup {OtherItem} \cup (IF greeter.auto THEN {AutoItem} ELSE {}) :
          greeter' = Choosing(greeter, c) /\ calls' = ChooseCalls(c)
    BY <1>5 DEF OnUserChosen
  <2>2. c \in Name \ {NoUser} /\ (~greeter.auto => c # AutoItem)
    BY NamesAssumption DEF Name
  <2>3. calls' \in Seq(WaitingCall)
    BY <2>1, <2>2, CallsWait
  <2>4. greeter'.interactive = greeter.interactive
    BY <1>2, <2>1 DEF Choosing, GreeterRecord
  <2>5. Untouched => Untouched'
    <3>1. SUFFICES ASSUME Untouched PROVE Untouched'
      OBVIOUS
    <3>2. c # AutoItem
      BY <2>2, <3>1 DEF Untouched
    <3>3. /\ greeter'.hold = greeter.hold /\ greeter'.auto = greeter.auto
          /\ greeter'.prompt = FALSE /\ greeter'.chosen = c
      BY <1>2, <2>1 DEF Choosing, GreeterRecord
    <3>4. greeter'.timed = (greeter.timed \/ c = AutoItem)
      BY <1>2, <2>1 DEF Choosing, GreeterRecord
    <3> QED
      BY <2>4, <3>1, <3>2, <3>3, <3>4 DEF Untouched
  <2> QED
    BY <1>1, <1>2, <1>3, <1>4, <2>3, <2>4, <2>5, WindowStays
<1>6. CASE OnLoginButtonAnswer \/ TimedLoginTimer
  <2>1. greeter'.interactive = TRUE /\ ~Untouched
    BY <1>2, <1>6 DEF OnLoginButtonAnswer, TimedLoginTimer, GreeterRecord, Untouched
  <2> QED
    BY <1>1, <1>2, <1>3, <2>1, WindowStays
<1>7. CASE DoCancel
  <2>1. calls' \in Seq(WaitingCall)
    BY <1>7, CallsWait DEF DoCancel
  <2>2. greeter'.interactive = greeter.interactive /\ (Untouched => Untouched')
    BY <1>2, <1>7 DEF DoCancel, GreeterRecord, Untouched
  <2> QED
    BY <1>1, <1>2, <1>3, <1>4, <2>1, <2>2, WindowStays
<1> QED
  BY <1>5, <1>6, <1>7 DEF UserStep

\* A signal of the slave.
LEMMA SignalWaits ==
  IInv /\ TimedInv /\ GreeterStep /\ UNCHANGED <<workerVars, slaveVars>> => TimedInv'
<1> SUFFICES ASSUME IInv, TimedInv, GreeterStep, UNCHANGED <<workerVars, slaveVars>>
             PROVE  TimedInv'
  OBVIOUS
<1>1. WindowKept
  BY WindowStep DEF IInv, TypeOK
<1>2. CASE convs # 1
  BY <1>1, <1>2, WindowStays
<1> SUFFICES ASSUME convs = 1 PROVE TimedInv'
  BY <1>2
<1>3. /\ greeter \in GreeterRecord /\ signals \in Seq(Signals) /\ HasGreeter
      /\ signals # <<>> /\ signals' = Tail(signals) /\ calls = <<>>
  BY <1>1 DEF IInv, TypeOK, GreeterTypeOK, WindowKept, HasGreeter, GreeterStep, OnReady,
              OnReset, OnAuthenticationFailed, OnQuery, OnUserAuthorized,
              OnTimedLoginRequested, Dispatch, AtRest
<1>4. /\ signals \in Seq(FirstSignals) \/ (TimedPending(signals) /\ Untouched)
      /\ worker.pc # "starting" /\ <<>> \in Seq(WaitingCall)
  BY <1>3 DEF TimedInv, TimedWait
<1>5. signals \in Seq(FirstSignals) => Head(signals) \in FirstSignals /\ signals' \in Seq(FirstSignals)
  BY <1>3, HeadTailProperties
<1>6. TimedPending(signals) =>
        \/ Head(signals) = "TimedLoginRequested" /\ signals' \in Seq(FirstSignals)
        \/ Head(signals) = "Ready" /\ TimedPending(signals')
  BY <1>3, PendingLess
<1>7. CASE OnReady
  <2>1. signals' \in Seq(FirstSignals) \/ (TimedPending(signals') /\ Untouched)
    BY <1>4, <1>5, <1>6, <1>7 DEF OnReady, Dispatch
  <2>2. CASE greeter.mode = "auth" /\ greeter.chosen # NoUser
    <3>1. greeter.chosen \in Name \ {NoUser}
      BY <1>3, <2>2 DEF GreeterRecord
    <3>2. greeter' = Choosing(greeter, greeter.chosen) /\ calls' \in Seq(WaitingCall)
      BY <1>7, <2>2, <3>1, CallsWait DEF OnReady
    <3>3. /\ greeter'.interactive = greeter.interactive
          /\ greeter'.hold = greeter.hold /\ greeter'.auto = greeter.auto
          /\ greeter'.prompt = FALSE /\ greeter'.chosen = greeter.chosen
      BY <1>3, <3>2 DEF Choosing, GreeterRecord
    <3>4. greeter'.timed = (greeter.timed \/ greeter.chosen = AutoItem)
      BY <1>3, <3>2 DEF Choosing, GreeterRecord
    <3>5. Untouched => Untouched'
      BY <3>3, <3>4 DEF Untouched
    <3> QED
      BY <1>1, <1>4, <2>1, <3>2, <3>3, <3>5, WindowStays
  <2>3. CASE ~(greeter.mode = "auth" /\ greeter.chosen # NoUser)
    <3>1. greeter' = [greeter EXCEPT !.sensitive = TRUE] /\ calls' = calls
      BY <1>7, <2>3 DEF OnReady
    <3>2. greeter'.interactive = greeter.interactive /\ (Untouched => Untouched')
      BY <1>3, <3>1 DEF GreeterRecord, Untouched
    <3> QED
      BY <1>1, <1>3, <1>4, <2>1, <3>1, <3>2, WindowStays
  <2> QED
    BY <2>2, <2>3
<1>8. CASE OnReset \/ OnAuthenticationFailed
  BY <1>4, <1>5, <1>6, <1>8 DEF OnReset, OnAuthenticationFailed, Dispatch, FirstSignals
<1>9. CASE OnQuery \/ OnUserAuthorized
  <2>1. signals' \in Seq(FirstSignals)
    BY <1>4, <1>5, <1>6, <1>9 DEF OnQuery, OnUserAuthorized, Dispatch
  <2>2. ~greeter'.interactive => ~greeter.interactive /\ calls' = <<>>
    BY <1>3, <1>9 DEF OnQuery, OnUserAuthorized, GreeterRecord
  <2> QED
    BY <1>1, <1>4, <2>1, <2>2, WindowStays
<1>10. CASE OnTimedLoginRequested
  <2>1. signals' \in Seq(FirstSignals) /\ Untouched
    BY <1>4, <1>5, <1>6, <1>10 DEF OnTimedLoginRequested, Dispatch, FirstSignals
  <2>2. ~Restarts(greeter) /\ ToSelectionCalls(greeter) = <<>> /\ ~greeter.interactive
    BY <2>1 DEF Untouched, Restarts, ToSelectionCalls
  <2>3. AutoItem \in Name \ {NoUser}
    BY NamesAssumption DEF Name
  <2>4. ChooseCalls(AutoItem) \in Seq(WaitingCall) /\ <<>> \o ChooseCalls(AutoItem) = ChooseCalls(AutoItem)
    BY <2>3, CallsWait, ConcatEmptySeq
  <2>5. calls' \in Seq(WaitingCall)
    <3>1. calls' \in {<<>>, <<>> \o ChooseCalls(AutoItem)}
      BY <1>10, <2>2 DEF OnTimedLoginRequested
    <3> QED
      BY <1>4, <2>4, <3>1
  <2> QED
    BY <1>1, <1>4, <2>1, <2>2, <2>5, WindowStays
<1> QED
  BY <1>7, <1>8, <1>9, <1>10 DEF GreeterStep

\* The slave starts with no conversation but the first, and nothing in it.
LEMMA InitWaits == Init => TimedInv
<1> SUFFICES ASSUME Init PROVE TimedInv
  OBVIOUS
<1>1. HasGreeter => worker = NoWorker /\ greeter = [NoGreeter EXCEPT !.st = "starting"]
  BY DEF Init, HasGreeter, NoGreeter
<1>2. greeter = [NoGreeter EXCEPT !.st = "starting"] => Untouched
  BY NamesAssumption DEF Untouched, NoGreeter
<1>3. worker = NoWorker /\ inbox = <<>> => WorkerWaits
  BY DEF WorkerWaits, NoWorker, NONE, ACCREDITED, AUTHORIZED
<1> QED
  BY <1>1, <1>2, <1>3 DEF Init, TimedInv, TimedWait, WindowWaits

LEMMA NextWaits == IInv /\ TimedInv /\ [Next]_vars => TimedInv'
<1> SUFFICES ASSUME IInv, TimedInv, [Next]_vars PROVE TimedInv'
  OBVIOUS
<1>1. CASE FromWorker
  BY <1>1, FromWorkerWaits
<1>2. CASE FromGreeter
  BY <1>2, FromGreeterWaits
<1>3. CASE IdleNext
  BY <1>3, IdleWaits
<1>4. CASE SessionEnds \/ DisplayEnds \/ UNCHANGED vars
  <2>1. UNCHANGED <<convs, greeter, calls, signals, ready, worker, inbox>>
    BY <1>4 DEF SessionEnds, DisplayEnds, Stop, vars, workerVars, greeterVars, slaveVars
  <2>2. <<>> \in Seq(FirstSignals)
    OBVIOUS
  <2> QED
    BY <2>1, <2>2, SlaveWaits DEF WorkerWaits
<1>5. CASE WorkerNext /\ UNCHANGED <<greeterVars, slaveVars>>
  <2>1. UNCHANGED <<convs, greeter, calls, signals, ready>>
    BY <1>5 DEF greeterVars, slaveVars
  <2>2. worker'.pc # "starting"
    BY <1>5 DEF WorkerNext, WorkerStep, OnRequest, StateChangeIdle, Listening, DoSetup,
        DoAuthenticate, DoAuthorize, DoAccredit, DoOpenSession, DoStartSession, StepEnds,
        Running, PamAsks, UpdateUsername, ChildWatch, WorkerCrashes, NoWorker, IInv,
        TypeOK, WorkerTypeOK, WorkerRecord
  <2>3. WorkerWaits => WorkerWaits'
    BY <1>5, WorkerStepsWait
  <2>4. <<>> \in Seq(FirstSignals)
    OBVIOUS
  <2> QED
    BY <2>1, <2>2, <2>3, <2>4, SlaveWaits
<1>6. CASE (GreeterStep \/ UserStep) /\ UNCHANGED <<workerVars, slaveVars>>
  BY <1>6, UserWaits, SignalWaits
<1> QED
  BY <1>1, <1>2, <1>3, <1>4, <1>5, <1>6 DEF Next, Processes

\* The first timed login establishes no credentials before its timer or the
\* user has made the window interactive, whatever the user, PAM and the worker do
\* meanwhile.
THEOREM FirstTimedLoginWaits_Holds == Spec => []FirstTimedLoginWaits
<1>1. Init => IInv /\ TimedInv
  BY InitIInv, InitWaits
<1>2. IInv /\ TimedInv /\ [Next]_vars => (IInv /\ TimedInv)'
  BY NextIInv, NextWaits
<1>3. IInv /\ TimedInv => FirstTimedLoginWaits
  <2>1. IInv => worker.step \in 0 .. 6
    BY DEF IInv, TypeOK, WorkerTypeOK, WorkerRecord, States, NONE, SESSION_STARTED
  <2>2. IInv /\ WorkerWaits => ~(worker.step >= ACCREDITED)
    BY <2>1 DEF WorkerWaits, ACCREDITED
  <2> QED
    BY <2>2 DEF TimedInv, TimedWait, FirstTimedLoginWaits, HasGreeter
<1> QED
  BY <1>1, <1>2, <1>3, PTL DEF Spec

-----------------------------------------------------------------------------
(***************************************************************************)
(* Who gets the display.  With a greeter that has dispatched the slave's    *)
(* signals before the next worker connects, no timed login and no crash of  *)
(* the worker, a login is under way for an item chosen in the window.       *)
(***************************************************************************)
PromptLogin == PromptGreeter /\ TimedLogin = "off" /\ "crash" \notin WorkerFaults

\* The window shows the chosen item until it is back at the list.
OwnWindow ==
  /\ HasServer /\ ~greeter.auto
  /\ greeter.chosen \in User \cup {OtherItem, NoUser}
  /\ greeter.chosen # NoUser => greeter.mode = "auth"

\* The window is told to give up only while the next worker starts.
OwnSignals == Signals \ {"TimedLoginRequested"}
QuietSignals == OwnSignals \ {"Reset", "AuthenticationFailed"}
SignalsOwn ==
  /\ signals \in Seq(OwnSignals)
  /\ worker.pc # "starting" => signals \in Seq(QuietSignals)

\* The calls of a window whose chosen item is c, and the requests they lead to.
Begins == {k \in Call : k.name \in {"BeginVerification", "BeginVerificationForUser",
                                    "BeginAutoLogin"}}
Setups == {r \in Request : r.name = "Setup"}
OwnCalls(c) == {k \in SoundCall : k \in Begins => c # NoUser}
OwnRequests(c) == {r \in Request : r \in Setups => c # NoUser}

\* A worker that has been set up, or is about to be, was set up for a chosen item.
Begun(w) == w.state # NONE \/ w.step # NONE \/ w.idle
OwnWorker(w, c) == Begun(w) => c # NoUser

ChoiceOwn ==
  /\ OwnWindow /\ SignalsOwn
  /\ calls \in Seq(OwnCalls(greeter.chosen))
  /\ inbox \in Seq(OwnRequests(greeter.chosen))
  /\ worker.pc # "dead"
  /\ OwnWorker(worker, greeter.chosen)

\* PAM has opened the session and the worker waits for the slave.
OpenedWaiting ==
  worker.state = SESSION_OPENED /\ worker.step = NONE /\ ~worker.idle /\ worker.call = "none"

\* The session is asked for once, when PAM has opened it: a start that is queued,
\* or requested, belongs to the open session and to no later one.
OneStart(s) ==
  \A i, j \in 1 .. Len(s) :
    s[i].name = "StartProgram" /\ s[j].name = "StartProgram" => i = j
Resets == {"reset", "authFailed"}
OpenInv ==
  /\ worker.call = "SessionOpened" =>
       /\ worker.state = SESSION_OPENED /\ worker.step = NONE /\ ~worker.idle
       /\ inbox \in Seq(EarlyRequest)
  /\ idles \in Seq(Resets) \/ (OpenedWaiting /\ inbox \in Seq(EarlyRequest))
  /\ inbox \in Seq(EarlyRequest) \/ (OneStart(inbox) /\ OpenedWaiting)

AccessInv == ChoiceOwn /\ OpenInv

-----------------------------------------------------------------------------
\* A request more, or the first one less, in a list with one start at most.
LEMMA StartsMore ==
  ASSUME NEW s \in Seq(Request), NEW r \in Request
  PROVE  /\ OneStart(s) /\ r \in EarlyRequest => OneStart(Append(s, r))
         /\ s \in Seq(EarlyRequest) => OneStart(Append(s, r))
         /\ s \in Seq(EarlyRequest) /\ r \in EarlyRequest => Append(s, r) \in Seq(EarlyRequest)
<1>1. /\ Len(Append(s, r)) = Len(s) + 1 /\ Append(s, r)[Len(s) + 1] = r
      /\ \A i \in 1 .. Len(s) : Append(s, r)[i] = s[i]
      /\ Len(s) \in Nat
  BY AppendProperties
<1>2. ASSUME OneStart(s), r \in EarlyRequest PROVE OneStart(Append(s, r))
  <2>1. r.name # "StartProgram"
    BY <1>2 DEF EarlyRequest
  <2>2. ASSUME NEW i \in 1 .. Len(Append(s, r)), Append(s, r)[i].name = "StartProgram"
        PROVE  i \in 1 .. Len(s) /\ s[i].name = "StartProgram"
    <3>1. i # Len(s) + 1
      BY <1>1, <2>1, <2>2
    <3>2. i \in 1 .. Len(s)
      BY <1>1, <3>1
    <3> QED
      BY <1>1, <2>2, <3>2
  <2> QED
    BY <1>2, <2>2 DEF OneStart
<1>3. ASSUME s \in Seq(EarlyRequest) PROVE OneStart(Append(s, r))
  <2>1. \A i \in 1 .. Len(s) : s[i] \in EarlyRequest
    BY <1>3
  <2>2. ASSUME NEW i \in 1 .. Len(Append(s, r)), Append(s, r)[i].name = "StartProgram"
        PROVE  i = Len(s) + 1
    <3>1. i \notin 1 .. Len(s)
      BY <1>1, <2>1, <2>2 DEF EarlyRequest
    <3> QED
      BY <1>1, <3>1
  <2> QED
    BY <2>2 DEF OneStart
<1>4. s \in Seq(EarlyRequest) /\ r \in EarlyRequest => Append(s, r) \in Seq(EarlyRequest)
  BY AppendProperties
<1> QED
  BY <1>2, <1>3, <1>4

LEMMA StartsLess ==
  ASSUME NEW s \in Seq(Request), s # <<>>
  PROVE  /\ OneStart(s) => OneStart(Tail(s))
         /\ OneStart(s) /\ Head(s).name = "StartProgram" => Tail(s) \in Seq(EarlyRequest)
         /\ s \in Seq(EarlyRequest) => Head(s) \in EarlyRequest /\ Tail(s) \in Seq(EarlyRequest)
<1>1. /\ Tail(s) \in Seq(Request) /\ Len(Tail(s)) = Len(s) - 1
      /\ \A i \in 1 .. Len(Tail(s)) : Tail(s)[i] = s[i + 1]
  BY HeadTailProperties
<1>2. Len(s) \in Nat /\ Len(s) >= 1 /\ Head(s) = s[1]
  BY EmptySeq
<1>3. ASSUME OneStart(s) PROVE OneStart(Tail(s))
  <2> SUFFICES ASSUME NEW i \in 1 .. Len(Tail(s)), NEW j \in 1 .. Len(Tail(s)),
                      Tail(s)[i].name = "StartProgram", Tail(s)[j].name = "StartProgram"
               PROVE  i = j
    BY DEF OneStart
  <2>1. i + 1 \in 1 .. Len(s) /\ j + 1 \in 1 .. Len(s)
    BY <1>1, <1>2
  <2>2. s[i + 1].name = "StartProgram" /\ s[j + 1].name = "StartProgram"
    BY <1>1
  <2>3. i + 1 = j + 1
    BY <1>3, <2>1, <2>2 DEF OneStart
  <2> QED
    BY <2>3
<1>4. ASSUME OneStart(s), Head(s).name = "StartProgram" PROVE Tail(s) \in Seq(EarlyRequest)
  <2>1. ASSUME NEW i \in 1 .. Len(Tail(s)) PROVE Tail(s)[i] \in EarlyRequest
    <3>1. i + 1 \in 1 .. Len(s) /\ 1 \in 1 .. Len(s) /\ i + 1 # 1
      BY <1>1, <1>2
    <3>2. s[i + 1].name # "StartProgram"
      BY <1>2, <1>4, <3>1 DEF OneStart
    <3>3. Tail(s)[i] \in Request
      BY <1>1
    <3> QED
      BY <1>1, <3>2, <3>3 DEF EarlyRequest
  <2> DEFINE t == Tail(s)
  <2>2. t \in Seq(Request) /\ \A i \in 1 .. Len(t) : t[i] \in EarlyRequest
    BY <1>1, <2>1
  <2> HIDE DEF t
  <2>3. t \in Seq(EarlyRequest)
    BY <2>2, SeqDef
  <2> QED
    BY <2>3 DEF t
<1>5. s \in Seq(EarlyRequest) => Head(s) \in EarlyRequest /\ Tail(s) \in Seq(EarlyRequest)
  BY HeadTailProperties
<1> QED
  BY <1>3, <1>4, <1>5

\* A worker that has nothing to do is anybody's; one that has is the chosen item's.
LEMMA OwnHelpers ==
  /\ \A w, c : ~Begun(w) => OwnWorker(w, c)
  /\ \A w, c : OwnWorker(w, NoUser) => OwnWorker(w, c)
  /\ \A c : OwnRequests(NoUser) \subseteq OwnRequests(c)
  BY DEF OwnWorker, OwnRequests

-----------------------------------------------------------------------------
\* The worker goes on with the item it was set up for.
LEMMA WorkerOwns ==
  ASSUME IInv, ChoiceOwn, WorkerNext, UNCHANGED <<greeterVars, slaveVars>>,
         "crash" \notin WorkerFaults
  PROVE  ChoiceOwn'
<1> DEFINE c == greeter.chosen
<1>0. /\ worker \in WorkerRecord /\ inbox \in Seq(OwnRequests(c)) /\ inbox \in Seq(Request)
      /\ worker.state \in 0 .. 6 /\ worker.step \in 0 .. 6
      /\ OwnWorker(worker, c)
      /\ greeter' = greeter /\ calls' = calls /\ signals' = signals
  BY DEF IInv, TypeOK, WorkerTypeOK, ChoiceOwn, greeterVars, WorkerRecord, States, NONE,
         SESSION_STARTED
<1>1. SUFFICES /\ OwnWorker(worker', c) /\ inbox' \in Seq(OwnRequests(c))
               /\ worker'.pc = worker.pc
  BY <1>0 DEF ChoiceOwn, OwnWindow, SignalsOwn, HasServer
<1> HIDE DEF c
<1>2. CASE OnRequest
  <2>1. Head(inbox) \in OwnRequests(c) /\ Tail(inbox) \in Seq(OwnRequests(c))
    BY <1>0, <1>2, HeadTailProperties DEF OnRequest
  <2>2. \A f \in {"pc", "state", "step"} : worker'[f] = worker[f]
    BY <1>0, <1>2 DEF OnRequest, WorkerRecord
  <2>3. worker'.idle => worker.idle \/ Accepts(Head(inbox))
    BY <1>0, <1>2 DEF OnRequest, WorkerRecord
  <2>4. Accepts(Head(inbox)) => Head(inbox) \in Setups \/ worker.state # NONE
    BY <2>1 DEF Accepts, Needs, OwnRequests, Setups, Request, NONE, SETUP_COMPLETE,
                AUTHENTICATED, AUTHORIZED, ACCREDITED, SESSION_OPENED
  <2>5. OwnWorker(worker', c)
    BY <1>0, <2>1, <2>2, <2>3, <2>4 DEF OwnWorker, Begun, OwnRequests
  <2> QED
    BY <1>2, <2>1, <2>2, <2>5 DEF OnRequest
<1>3. CASE ~OnRequest
  <2>1. worker'.pc = worker.pc /\ inbox' = inbox /\ Begun(worker)
    <3>1. CASE StateChangeIdle
      BY <1>0, <3>1 DEF StateChangeIdle, WorkerRecord, Begun
    <3>2. CASE \E k \in 1 .. 6, ok \in BOOLEAN : StepEnds(k, ok)
      BY <1>0, <3>2 DEF StepEnds, Running, WorkerRecord, Begun, NONE
    <3>3. CASE PamAsks \/ UpdateUsername
      <4>1. PICK k \in 2 .. 5 : Running(k)
        BY <3>3, AskingAssumption DEF PamAsks, UpdateUsername
      <4>2. Begun(worker)
        BY <4>1 DEF Running, Begun, NONE
      <4> QED
        BY <1>0, <3>3, <4>2 DEF PamAsks, UpdateUsername, WorkerRecord
    <3>4. CASE ChildWatch
      BY <1>0, <3>4 DEF ChildWatch, WorkerRecord, Begun, NONE, SESSION_STARTED
    <3>5. ~WorkerCrashes
      BY DEF WorkerCrashes
    <3> QED
      BY <1>3, <3>1, <3>2, <3>3, <3>4, <3>5
      DEF WorkerNext, WorkerStep, DoSetup, DoAuthenticate, DoAuthorize, DoAccredit,
          DoOpenSession, DoStartSession, SETUP_COMPLETE, AUTHENTICATED, AUTHORIZED,
          ACCREDITED, SESSION_OPENED, SESSION_STARTED
  <2> QED
    BY <1>0, <2>1 DEF OwnWorker
<1> QED
  BY <1>2, <1>3

\* The worker reports one open session for one start.
LEMMA WorkerOpens ==
  ASSUME IInv, OpenInv, WorkerNext, UNCHANGED slaveVars, "crash" \notin WorkerFaults
  PROVE  OpenInv'
<1>0. /\ worker \in WorkerRecord /\ inbox \in Seq(Request) /\ idles' = idles
      /\ worker.state \in 0 .. 6 /\ worker.step \in 0 .. 6
  BY DEF IInv, TypeOK, WorkerTypeOK, WorkerRecord, States, NONE, SESSION_STARTED, slaveVars
<1>1. CASE OnRequest
  <2>1. Listening /\ inbox # <<>> /\ inbox' = Tail(inbox) /\ Head(inbox) \in Request
    BY <1>0, <1>1, HeadTailProperties DEF OnRequest
  <2>2. /\ worker'.call = worker.call /\ worker'.state = worker.state
        /\ worker'.step = worker.step
        /\ worker'.idle = worker.idle \/ Accepts(Head(inbox))
    BY <1>0, <1>1 DEF OnRequest, WorkerRecord
  <2>3. worker.state = SESSION_OPENED /\ Accepts(Head(inbox)) => Head(inbox).name = "StartProgram"
    BY <2>1 DEF Accepts, Needs, Request, NONE, SETUP_COMPLETE,
                AUTHENTICATED, AUTHORIZED, ACCREDITED, SESSION_OPENED
  <2>4. CASE inbox \in Seq(EarlyRequest)
    <3>1. Head(inbox).name # "StartProgram" /\ inbox' \in Seq(EarlyRequest)
      BY <1>0, <2>1, <2>4, StartsLess DEF EarlyRequest
    <3> QED
      BY <1>0, <2>1, <2>2, <2>3, <3>1 DEF OpenInv, OpenedWaiting, Listening
  <2>5. CASE inbox \notin Seq(EarlyRequest)
    <3>1. OneStart(inbox) /\ OpenedWaiting /\ idles \in Seq(Resets)
      BY <2>5 DEF OpenInv
    <3>2. OneStart(inbox')
      BY <1>0, <2>1, <3>1, StartsLess
    <3>3. Head(inbox).name = "StartProgram" => inbox' \in Seq(EarlyRequest)
      BY <1>0, <2>1, <3>1, StartsLess
    <3>4. inbox' \in Seq(EarlyRequest) \/ worker'.idle = worker.idle
      BY <2>2, <2>3, <3>1, <3>3 DEF OpenedWaiting
    <3> QED
      BY <1>0, <2>1, <2>2, <3>1, <3>2, <3>4 DEF OpenInv, OpenedWaiting, Listening
  <2> QED
    BY <2>4, <2>5
<1>2. CASE StateChangeIdle
  <2>1. worker.idle /\ worker.call = "none" /\ worker'.call = "none" /\ inbox' = inbox
    BY <1>0, <1>2 DEF StateChangeIdle, Listening, WorkerRecord
  <2> QED
    BY <1>0, <2>1 DEF OpenInv, OpenedWaiting
<1>3. ASSUME NEW k \in 1 .. 6, NEW ok \in BOOLEAN, StepEnds(k, ok) PROVE OpenInv'
  <2>1. worker.step = k /\ ~worker.idle /\ ~OpenedWaiting
    BY <1>3 DEF StepEnds, Running, OpenedWaiting, NONE, IInv, WorkerInv
  <2>2. idles \in Seq(Resets) /\ inbox \in Seq(EarlyRequest)
    BY <2>1 DEF OpenInv
  <2>3. /\ worker'.step = NONE /\ worker'.idle = worker.idle /\ inbox' = inbox
        /\ worker'.state = IF ok THEN k ELSE NONE
        /\ worker'.call = IF ok THEN Completed[k] ELSE Failed[k]
    BY <1>0, <1>3 DEF StepEnds, WorkerRecord
  <2>4. worker'.call = "SessionOpened" => ok /\ k = 5
    BY <2>3 DEF Completed, Failed
  <2> QED
    BY <1>0, <2>1, <2>2, <2>3, <2>4 DEF OpenInv, SESSION_OPENED
<1>4. CASE \/ DoSetup \/ DoAuthenticate \/ DoAuthorize
           \/ DoAccredit \/ DoOpenSession \/ DoStartSession
  BY <1>3, <1>4 DEF DoSetup, DoAuthenticate, DoAuthorize, DoAccredit, DoOpenSession,
                    DoStartSession, SETUP_COMPLETE, AUTHENTICATED, AUTHORIZED,
                    ACCREDITED, SESSION_OPENED, SESSION_STARTED
<1>5. CASE PamAsks \/ UpdateUsername \/ ChildWatch
  <2>1. ~OpenedWaiting
    <3>1. AskingSteps \subseteq 2 .. 5
      BY AskingAssumption
    <3>2. PamAsks => worker.step # 0
      BY <3>1 DEF PamAsks, Running
    <3>3. UpdateUsername => worker.step # 0
      BY DEF UpdateUsername, Running, AUTHENTICATED
    <3>4. ChildWatch => worker.state = 6
      BY DEF ChildWatch, SESSION_STARTED
    <3> QED
      BY <1>5, <3>2, <3>3, <3>4 DEF OpenedWaiting, NONE, SESSION_OPENED
  <2>2. idles \in Seq(Resets) /\ inbox \in Seq(EarlyRequest)
    BY <2>1 DEF OpenInv
  <2>3. worker'.call # "SessionOpened" /\ inbox' = inbox
    BY <1>0, <1>5 DEF PamAsks, UpdateUsername, ChildWatch, WorkerRecord
  <2> QED
    BY <1>0, <2>2, <2>3 DEF OpenInv
<1>6. ~WorkerCrashes
  BY DEF WorkerCrashes
<1> QED
  BY <1>1, <1>2, <1>4, <1>5, <1>6 DEF WorkerNext, WorkerStep

-----------------------------------------------------------------------------
\* The calls of a window, for the item it shows.
LEMMA OwnCallsSound ==
  /\ \A c : \A n \in {"AnswerQuery", "Cancel", "StartSessionWhenReady"} : ACall(n) \in OwnCalls(c)
  /\ \A c \in User \cup {OtherItem} : ChooseCalls(c) \in Seq(OwnCalls(c))
  /\ \A g, c : ToSelectionCalls(g) \in Seq(OwnCalls(c))
<1>1. ASSUME NEW n \in {"AnswerQuery", "Cancel", "StartSessionWhenReady"}, NEW c
      PROVE  ACall(n) \in OwnCalls(c)
  BY CallsSound DEF OwnCalls, Begins, ACall
<1>2. ASSUME NEW c \in User \cup {OtherItem} PROVE ChooseCalls(c) \in Seq(OwnCalls(c))
  <2>1. c # NoUser /\ c \in Name \ {NoUser}
    BY NamesAssumption DEF Name
  <2>2. SoundCall \subseteq OwnCalls(c)
    BY <2>1 DEF OwnCalls
  <2>3. ChooseCalls(c) \in Seq(SoundCall)
    BY <2>1, CallsSound
  <2> QED
    BY <2>2, <2>3, SeqMonotonic
<1>3. ASSUME NEW g, NEW c PROVE ToSelectionCalls(g) \in Seq(OwnCalls(c))
  BY <1>1 DEF ToSelectionCalls
<1> QED
  BY <1>1, <1>2, <1>3

\* The window changes the chosen item from the list only, or between workers.
LEMMA ChoiceMoves ==
  ASSUME IInv, ChoiceOwn, UNCHANGED <<workerVars, slaveVars>>,
         OwnWindow', SignalsOwn', calls' \in Seq(OwnCalls(greeter'.chosen)),
         \/ greeter'.chosen = greeter.chosen \/ greeter.chosen = NoUser
         \/ worker.pc = "starting"
  PROVE  ChoiceOwn'
<1> DEFINE c == greeter.chosen
           d == greeter'.chosen
<1>1. /\ worker' = worker /\ inbox' = inbox
      /\ inbox \in Seq(OwnRequests(c)) /\ OwnWorker(worker, c)
  BY DEF ChoiceOwn, workerVars
<1>2. inbox \in Seq(OwnRequests(d)) /\ OwnWorker(worker, d)
  <2>1. CASE d = c
    BY <1>1, <2>1
  <2>2. CASE c = NoUser
    <3>1. OwnRequests(c) \subseteq OwnRequests(d) /\ OwnWorker(worker, d)
      BY <1>1, <2>2, OwnHelpers
    <3> QED
      BY <1>1, <3>1, SeqMonotonic
  <2>3. CASE worker.pc = "starting"
    <3>1. ~Begun(worker) /\ inbox = <<>>
      BY <2>3 DEF IInv, WorkerInv, Begun
    <3> QED
      BY <3>1, OwnHelpers
  <2> QED
    BY <2>1, <2>2, <2>3
<1> QED
  BY <1>1, <1>2 DEF ChoiceOwn

\* The window and its user.
LEMMA WindowOwns ==
  ASSUME IInv, ChoiceOwn, GreeterStep \/ UserStep, UNCHANGED <<workerVars, slaveVars>>
  PROVE  ChoiceOwn'
<1>0. /\ greeter \in GreeterRecord /\ OwnWindow /\ SignalsOwn /\ worker' = worker
      /\ greeter'.st = greeter.st /\ greeter.st = "up" /\ signals \in Seq(OwnSignals)
      /\ greeter.chosen # NoUser => greeter.chosen \in User \cup {OtherItem}
  BY WindowStep DEF ChoiceOwn, IInv, TypeOK, GreeterTypeOK, WindowKept, OwnWindow, SignalsOwn, workerVars
<1>1. HasServer'
  BY <1>0 DEF HasServer
<1>2. UserStep => SignalsOwn'
  BY <1>0 DEF UserStep, OnUserChosen, OnLoginButtonAnswer, DoCancel, TimedLoginTimer, SignalsOwn
<1>3. ASSUME NEW s, Dispatch(s)
      PROVE  SignalsOwn' /\ s \in OwnSignals /\ (s \notin QuietSignals => worker.pc = "starting")
  <2>1. signals # <<>> /\ signals' = Tail(signals) /\ Head(signals) = s
    BY <1>3 DEF Dispatch
  <2>2. s \in OwnSignals /\ signals' \in Seq(OwnSignals)
    BY <1>0, <2>1, HeadTailProperties
  <2>3. signals \in Seq(QuietSignals) => s \in QuietSignals /\ signals' \in Seq(QuietSignals)
    BY <2>1, HeadTailProperties
  <2> QED
    BY <1>0, <2>2, <2>3 DEF SignalsOwn
<1>4. \A c : /\ <<ACall("Cancel")>> \in Seq(OwnCalls(c)) /\ <<>> \in Seq(OwnCalls(c))
             /\ <<ACall("StartSessionWhenReady")>> \in Seq(OwnCalls(c))
             /\ \A g : ToSelectionCalls(g) \in Seq(OwnCalls(c))
  BY OwnCallsSound
<1>5. ASSUME greeter'.chosen = greeter.chosen, greeter'.auto = greeter.auto,
             greeter'.mode \in {greeter.mode, "auth"}, SignalsOwn',
             calls' \in Seq(OwnCalls(greeter.chosen))
      PROVE  ChoiceOwn'
  <2>1. OwnWindow'
    BY <1>0, <1>1, <1>5 DEF OwnWindow
  <2> QED
    BY <1>5, <2>1, ChoiceMoves
<1>6. ASSUME NEW c \in User \cup {OtherItem},
             greeter' = Choosing(greeter, c), calls' = ChooseCalls(c), SignalsOwn',
             c = greeter.chosen \/ greeter.chosen = NoUser
      PROVE  ChoiceOwn'
  <2>1. /\ greeter'.chosen = c /\ greeter'.auto = greeter.auto
        /\ greeter'.mode = IF c = AutoItem THEN "timed" ELSE "auth"
    BY <1>0, <1>6 DEF Choosing, GreeterRecord
  <2>2. c # AutoItem
    BY NamesAssumption
  <2>3. OwnWindow' /\ calls' \in Seq(OwnCalls(greeter'.chosen))
    BY <1>0, <1>1, <1>6, <2>1, <2>2, OwnCallsSound DEF OwnWindow
  <2> QED
    BY <1>6, <2>1, <2>3, ChoiceMoves
<1>7. CASE OnUserChosen
  <2>1. PICK c \in User \cup {OtherItem} \cup (IF greeter.auto THEN {AutoItem} ELSE {}) :
          greeter' = Choosing(greeter, c) /\ calls' = ChooseCalls(c)
    BY <1>7 DEF OnUserChosen
  <2>2. c \in User \cup {OtherItem}
    BY <1>0 DEF OwnWindow
  <2>3. greeter.chosen = NoUser /\ UserStep
    BY <1>0, <1>7 DEF OnUserChosen, OwnWindow, UserStep
  <2> QED
    BY <1>2, <1>6, <2>1, <2>2, <2>3
<1>8. CASE OnLoginButtonAnswer
  <2>1. greeter' = [greeter EXCEPT !.sensitive = FALSE, !.interactive = TRUE] /\ UserStep
    BY <1>8 DEF OnLoginButtonAnswer, UserStep
  <2>2. /\ greeter'.chosen = greeter.chosen /\ greeter'.auto = greeter.auto
        /\ greeter'.mode = greeter.mode
    BY <1>0, <2>1 DEF GreeterRecord
  <2>3. ACall("AnswerQuery") \in OwnCalls(greeter.chosen)
        /\ ACall("StartSessionWhenReady") \in OwnCalls(greeter.chosen)
    BY OwnCallsSound
  <2>4. calls' \in Seq(OwnCalls(greeter.chosen))
    <3> DEFINE before == IF greeter.hold /\ ~greeter.interactive
                         THEN <<ACall("StartSessionWhenReady")>> ELSE <<>>
               after == <<ACall("AnswerQuery")>>
    <3>1. before \in Seq(OwnCalls(greeter.chosen)) /\ after \in Seq(OwnCalls(greeter.chosen))
      <4>1. /\ <<>> \in Seq(OwnCalls(greeter.chosen))
            /\ <<ACall("StartSessionWhenReady")>> \in Seq(OwnCalls(greeter.chosen))
        BY <1>4
      <4>2. before \in {<<>>, <<ACall("StartSessionWhenReady")>>}
        OBVIOUS
      <4>3. <<ACall("AnswerQuery")>> \in Seq(OwnCalls(greeter.chosen))
        BY <2>3
      <4> QED
        BY <4>1, <4>2, <4>3
    <3>2. calls' = before \o after
      BY <1>8 DEF OnLoginButtonAnswer
    <3> HIDE DEF before, after
    <3> QED
      BY <3>1, <3>2, ConcatProperties
  <2> QED
    BY <1>2, <1>5, <2>1, <2>2, <2>4
<1>9. CASE DoCancel \/ TimedLoginTimer
  <2>1. /\ greeter'.chosen = greeter.chosen /\ greeter'.auto = greeter.auto
        /\ greeter'.mode = greeter.mode /\ UserStep
    BY <1>0, <1>9 DEF DoCancel, TimedLoginTimer, GreeterRecord, UserStep
  <2>2. calls' \in Seq(OwnCalls(greeter.chosen))
    BY <1>4, <1>9 DEF DoCancel, TimedLoginTimer
  <2> QED
    BY <1>2, <1>5, <2>1, <2>2
<1>10. CASE OnReady
  <2>1. SignalsOwn'
    BY <1>3, <1>10 DEF OnReady
  <2>2. CASE greeter.mode = "auth" /\ greeter.chosen # NoUser
    BY <1>0, <1>6, <1>10, <2>1, <2>2 DEF OnReady
  <2>3. CASE ~(greeter.mode = "auth" /\ greeter.chosen # NoUser)
    <3>1. greeter' = [greeter EXCEPT !.sensitive = TRUE] /\ calls' = calls /\ calls = <<>>
      BY <1>10, <2>3 DEF OnReady, Dispatch, AtRest
    <3>2. /\ greeter'.chosen = greeter.chosen /\ greeter'.auto = greeter.auto
          /\ greeter'.mode = greeter.mode
      BY <1>0, <3>1 DEF GreeterRecord
    <3> QED
      BY <1>4, <1>5, <2>1, <3>1, <3>2
  <2> QED
    BY <2>2, <2>3
<1>11. ASSUME greeter' = [ToSelection(greeter) EXCEPT !.tries = 0],
              calls' = ToSelectionCalls(greeter), SignalsOwn', worker.pc = "starting"
       PROVE  ChoiceOwn'
  <2>1. greeter'.chosen = NoUser /\ greeter'.auto = greeter.auto
    BY <1>0, <1>11 DEF ToSelection, GreeterRecord
  <2>2. OwnWindow'
    BY <1>0, <1>1, <2>1 DEF OwnWindow
  <2>3. calls' \in Seq(OwnCalls(greeter'.chosen))
    BY <1>4, <1>11
  <2> QED
    BY <1>11, <2>2, <2>3, ChoiceMoves
<1>12. CASE OnReset
  <2>1. SignalsOwn' /\ worker.pc = "starting"
    BY <1>3, <1>12 DEF OnReset, QuietSignals
  <2> QED
    BY <1>11, <1>12, <2>1 DEF OnReset
<1>13. CASE OnAuthenticationFailed
  <2>1. SignalsOwn' /\ worker.pc = "starting" /\ calls = <<>>
    BY <1>3, <1>13 DEF OnAuthenticationFailed, QuietSignals, Dispatch, AtRest
  <2>2. CASE greeter.tries + 1 < MaxTries
    <3>1. /\ greeter'.chosen = greeter.chosen /\ greeter'.auto = greeter.auto
          /\ greeter'.mode = "auth" /\ calls' = calls
      BY <1>0, <1>13, <2>2 DEF OnAuthenticationFailed, GreeterRecord
    <3> QED
      BY <1>4, <1>5, <2>1, <3>1
  <2>3. CASE ~(greeter.tries + 1 < MaxTries)
    BY <1>11, <1>13, <2>1, <2>3 DEF OnAuthenticationFailed
  <2> QED
    BY <2>2, <2>3
<1>14. CASE OnQuery \/ OnUserAuthorized
  <2>1. SignalsOwn' /\ calls = <<>>
    BY <1>3, <1>14 DEF OnQuery, OnUserAuthorized, Dispatch, AtRest
  <2>2. /\ greeter'.chosen = greeter.chosen /\ greeter'.auto = greeter.auto
        /\ greeter'.mode = greeter.mode
    BY <1>0, <1>14 DEF OnQuery, OnUserAuthorized, GreeterRecord
  <2>3. calls' \in Seq(OwnCalls(greeter.chosen))
    BY <1>4, <1>14, <2>1 DEF OnQuery, OnUserAuthorized
  <2> QED
    BY <1>5, <2>1, <2>2, <2>3
<1>15. ~OnTimedLoginRequested
  BY <1>3 DEF OnTimedLoginRequested, OwnSignals
<1> QED
  BY <1>7, <1>8, <1>9, <1>10, <1>12, <1>13, <1>14, <1>15 DEF GreeterStep, UserStep

-----------------------------------------------------------------------------
\* The slave's queue.
LEMMA ResetsMore ==
  ASSUME IInv, idles \in Seq(Resets), NEW kind \in Resets
  PROVE  QueueReset(kind) \in Seq(Resets)
  BY AppendProperties DEF QueueReset

\* The request the slave sends next fits the chosen item, and is no setup.
LEMMA AskedOwns ==
  ASSUME IInv, NEW c, inbox \in Seq(OwnRequests(c)),
         NEW n \in DOMAIN Needs \ {"Setup"}
  PROVE  Asked(n) \in Seq(OwnRequests(c))
<1>1. [name |-> n, user |-> NoUser] \in OwnRequests(c)
  BY DEF OwnRequests, Setups, Request
<1> QED
  BY <1>1 DEF Asked

\* The slave answers the worker, and may tell the window and ask the worker more.
LEMMA AnswerOwns ==
  ASSUME IInv, ChoiceOwn, greeter' = greeter, calls' = calls, worker.pc = "up", NEW k \in {"none", "answer"},
         worker' \in {worker, [worker EXCEPT !.call = k]},
         inbox' \in {inbox} \cup {Asked(n) : n \in DOMAIN Needs \ {"Setup"}},
         \E t \in Seq(QuietSignals) : signals' \in {signals, signals \o t}
  PROVE  ChoiceOwn'
<1>1. worker \in WorkerRecord /\ OwnWorker(worker, greeter.chosen)
  BY DEF IInv, TypeOK, WorkerTypeOK, ChoiceOwn
<1>2. worker'.pc = "up" /\ OwnWorker(worker', greeter.chosen)
  <2>1. OwnWorker([worker EXCEPT !.call = k], greeter.chosen)
    BY <1>1 DEF OwnWorker, Begun, WorkerRecord
  <2>2. [worker EXCEPT !.call = k].pc = "up"
    BY <1>1 DEF WorkerRecord
  <2> QED
    BY <1>1, <2>1, <2>2
<1>3. inbox' \in Seq(OwnRequests(greeter.chosen))
  BY AskedOwns DEF ChoiceOwn
<1>4. SignalsOwn'
  <2>1. signals \in Seq(QuietSignals)
    BY DEF ChoiceOwn, SignalsOwn
  <2>2. signals' \in Seq(QuietSignals)
    <3>1. PICK t \in Seq(QuietSignals) : signals' \in {signals, signals \o t}
      OBVIOUS
    <3>2. signals \o t \in Seq(QuietSignals)
      BY <2>1, ConcatProperties
    <3> QED
      BY <2>1, <3>1, <3>2
  <2>3. QuietSignals \subseteq OwnSignals
    BY DEF QuietSignals
  <2> QED
    BY <2>2, <2>3, SeqMonotonic DEF SignalsOwn
<1> QED
  BY <1>2, <1>3, <1>4 DEF ChoiceOwn, OwnWindow, HasServer

\* A new worker, or none, belongs to whatever is chosen.
LEMMA FreshOwns ==
  ASSUME ChoiceOwn, greeter'.chosen = greeter.chosen, greeter'.auto = greeter.auto,
         greeter'.mode = greeter.mode, HasServer',
         calls' \in Seq(OwnCalls(greeter.chosen)), SignalsOwn',
         worker' \in {NoWorker, NewWorker}, inbox' = <<>>
  PROVE  ChoiceOwn'
<1>1. ~Begun(worker') /\ worker'.pc # "dead"
  BY DEF NoWorker, NewWorker, Begun
<1>2. OwnWorker(worker', greeter.chosen)
  BY <1>1, OwnHelpers
<1>3. <<>> \in Seq(OwnRequests(greeter.chosen))
  OBVIOUS
<1> QED
  BY <1>1, <1>2, <1>3 DEF ChoiceOwn, OwnWindow

\* What the worker says.
LEMMA FromWorkerOwns ==
  ASSUME IInv, ChoiceOwn, FromWorker, PromptLogin
  PROVE  ChoiceOwn'
<1>0. /\ worker \in WorkerRecord /\ OwnWindow /\ SignalsOwn
      /\ calls \in Seq(OwnCalls(greeter.chosen)) /\ worker.pc # "dead"
  BY DEF IInv, TypeOK, WorkerTypeOK, ChoiceOwn
<1>1. <<>> \in Seq(QuietSignals) /\ <<"Query">> \in Seq(QuietSignals)
      /\ <<"UserAuthorized">> \in Seq(QuietSignals) /\ <<"Ready">> \in Seq(QuietSignals)
  BY DEF QuietSignals, OwnSignals, Signals
<1>2. worker.call # "none" => worker.pc = "up"
  BY DEF IInv, WorkerInv
<1>3. CASE SetupComplete \/ Authenticated \/ Accredited
  <2>1. \E n \in {"Authenticate", "Authorize", "OpenSession"} : inbox' = Asked(n)
    BY <1>3 DEF SetupComplete, Authenticated, Accredited, Proceed
  <2>2. /\ worker' = [worker EXCEPT !.call = "none"]
        /\ worker.call \in {"SetupComplete", "Authenticated", "Accredited"}
        /\ greeter' = greeter /\ calls' = calls /\ signals' = signals
    BY <1>3 DEF SetupComplete, Authenticated, Accredited, Proceed, Answered, greeterVars
  <2>3. {"Authenticate", "Authorize", "OpenSession"} \subseteq DOMAIN Needs \ {"Setup"}
    BY DEF Needs
  <2> QED
    BY <1>1, <1>2, <2>1, <2>2, <2>3, AnswerOwns
<1>4. CASE Authorized
  <2>1. /\ worker' = [worker EXCEPT !.call = "none"] /\ worker.call = "Authorized"
        /\ greeter' = greeter /\ calls' = calls /\ sess' = sess
        /\ inbox' \in {inbox, Asked("EstablishCredentials")}
        /\ signals' \in {signals, signals \o <<"UserAuthorized">>}
    BY <1>4 DEF Authorized, Accredit, Answered, Tell
  <2>2. "EstablishCredentials" \in DOMAIN Needs \ {"Setup"}
    BY DEF Needs
  <2> QED
    BY <1>1, <1>2, <2>1, <2>2, AnswerOwns
<1>5. CASE Opened \/ SessionStarted \/ StartFailed \/ UsernameChanged
  <2>1. /\ worker' = [worker EXCEPT !.call = "none"]
        /\ worker.call \in {"SessionOpened", "SessionStarted", "StartFailed", "UsernameChanged"}
        /\ greeter' = greeter /\ calls' = calls /\ signals' = signals /\ inbox' = inbox
    BY <1>5 DEF Opened, SessionStarted, StartFailed, UsernameChanged, Answered, greeterVars
  <2> QED
    BY <1>1, <1>2, <2>1, AnswerOwns
<1>6. CASE WorkerQuery
  <2>1. /\ worker' \in {worker, [worker EXCEPT !.call = "answer"]} /\ worker.call = "Query"
        /\ greeter' = greeter /\ calls' = calls /\ inbox' = inbox
        /\ signals' \in {signals, signals \o <<"Query">>}
    BY <1>6 DEF WorkerQuery, Tell
  <2> QED
    BY <1>1, <1>2, <2>1, AnswerOwns
<1>7. CASE \E r, kind : GiveUp(r, kind) /\ r # "none"
  <2>1. /\ worker' = NoWorker /\ inbox' = <<>> /\ worker.call # "none"
        /\ greeter' = greeter /\ calls' = calls /\ signals' = signals
    BY <1>7 DEF GiveUp, DestroySession, greeterVars
  <2>2. signals \in Seq(QuietSignals) /\ signals \in Seq(OwnSignals)
    BY <1>0, <1>2, <2>1 DEF SignalsOwn
  <2>3. SignalsOwn' /\ HasServer'
    BY <1>0, <2>1, <2>2 DEF SignalsOwn, OwnWindow, HasServer
  <2> QED
    BY <1>0, <2>1, <2>3, FreshOwns
<1>9. CASE ConversationStarted
  <2>1. /\ worker.pc = "starting" /\ worker' = [worker EXCEPT !.pc = "up"]
        /\ signals = <<>> /\ signals' = Tell(<<"Ready">> \o <<>>)
        /\ greeter' = greeter /\ calls' = calls /\ inbox' = inbox
    BY <1>0, <1>9 DEF ConversationStarted, BeginsItself, PromptLogin, OwnWindow
  <2>2. signals' \in Seq(QuietSignals) /\ signals' \in Seq(OwnSignals)
    <3>1. signals' \in {<<>>, <<"Ready">>}
      BY <2>1 DEF Tell
    <3>2. QuietSignals \subseteq OwnSignals
      BY DEF QuietSignals
    <3> QED
      BY <1>1, <3>1, <3>2, SeqMonotonic
  <2>3. OwnWorker(worker', greeter.chosen) /\ worker'.pc = "up"
    BY <1>0, <2>1 DEF ChoiceOwn, OwnWorker, Begun, WorkerRecord
  <2> QED
    BY <1>0, <2>1, <2>2, <2>3 DEF ChoiceOwn, OwnWindow, SignalsOwn, HasServer
<1>10. ~WorkerGone
  BY <1>0 DEF WorkerGone
<1> QED
  BY <1>3, <1>4, <1>5, <1>6, <1>7, <1>9, <1>10
  DEF FromWorker, SetupFailed, AuthenticationFailed, AuthorizationFailed,
      AccreditationFailed, OpenFailed

\* A call of the window, which is about the item it shows.
LEMMA CallOwns ==
  ASSUME IInv, ChoiceOwn, UNCHANGED <<greeter, signals>>, calls # <<>>, calls' = Tail(calls),
         worker'.pc = worker.pc,
         OwnWorker(worker', greeter.chosen),
         inbox' \in Seq(OwnRequests(greeter.chosen))
  PROVE  ChoiceOwn'
<1>1. calls' \in Seq(OwnCalls(greeter.chosen))
  BY HeadTailProperties DEF ChoiceOwn
<1> QED
  BY <1>1 DEF ChoiceOwn, OwnWindow, SignalsOwn, HasServer

LEMMA FromGreeterOwns ==
  ASSUME IInv, ChoiceOwn, FromGreeter
  PROVE  ChoiceOwn'
<1> DEFINE c == greeter.chosen
<1>0. /\ worker \in WorkerRecord /\ greeter \in GreeterRecord
      /\ OwnWindow /\ SignalsOwn /\ calls \in Seq(OwnCalls(c))
      /\ OwnWorker(worker, c) /\ inbox \in Seq(OwnRequests(c))
  BY DEF IInv, TypeOK, WorkerTypeOK, GreeterTypeOK, ChoiceOwn
<1>1. CASE GreeterConnected
  <2>1. /\ greeter' = [greeter EXCEPT !.st = "up"] /\ worker' = NewWorker
        /\ inbox' = <<>> /\ calls' = calls /\ signals' = signals
    BY <1>1 DEF GreeterConnected, IInv, PairInv, WorkerInv
  <2>2. /\ greeter'.chosen = c /\ greeter'.auto = greeter.auto /\ greeter'.mode = greeter.mode
        /\ HasServer'
    BY <1>0, <2>1 DEF GreeterRecord, HasServer
  <2>3. SignalsOwn'
    BY <1>0, <2>1 DEF SignalsOwn, NewWorker, NoWorker
  <2> QED
    BY <1>0, <2>1, <2>2, <2>3, FreshOwns
<1>2. calls # <<>> => Head(calls) \in OwnCalls(c)
  BY <1>0, HeadTailProperties
<1> HIDE DEF c
<1>3. CASE SelectUser \/ Cancel
  <2>1. calls # <<>> /\ calls' = Tail(calls) /\ UNCHANGED <<greeter, signals, worker, inbox>>
    BY <1>3 DEF SelectUser, Cancel, Take, workerVars
  <2> QED
    BY <1>0, <2>1, CallOwns DEF c
<1>4. CASE BeginVerification \/ BeginVerificationForUser \/ BeginAutoLogin
  <2>1. /\ calls # <<>> /\ calls' = Tail(calls) /\ UNCHANGED <<greeter, signals, worker>>
        /\ Head(calls).name \in {"BeginVerification", "BeginVerificationForUser", "BeginAutoLogin"}
    BY <1>4 DEF BeginVerification, BeginVerificationForUser, BeginAutoLogin, SetupForUser, Take
  <2>2. c # NoUser /\ Head(calls).user \in Name
    BY <1>2, <2>1 DEF OwnCalls, Begins, SoundCall, Call
  <2>3. \E u \in User \cup {NoUser} :
          inbox' \in {inbox, Append(inbox, [name |-> "Setup", user |-> u])}
    <3>1. CASE BeginVerification
      BY <3>1 DEF BeginVerification, Asked
    <3>2. CASE BeginVerificationForUser \/ BeginAutoLogin
      <4>1. Head(calls).user \in User
        BY <1>2, <2>1, <3>2 DEF OwnCalls, SoundCall, BeginVerificationForUser, BeginAutoLogin, Take
      <4> QED
        BY <3>2, <4>1 DEF BeginVerificationForUser, BeginAutoLogin, SetupForUser
    <3> QED
      BY <1>4, <3>1, <3>2
  <2>4. inbox' \in Seq(OwnRequests(c))
    <3>1. PICK u \in User \cup {NoUser} :
            inbox' \in {inbox, Append(inbox, [name |-> "Setup", user |-> u])}
      BY <2>3
    <3>2. [name |-> "Setup", user |-> u] \in OwnRequests(c)
      BY <2>2 DEF OwnRequests, Request, Needs
    <3>3. Append(inbox, [name |-> "Setup", user |-> u]) \in Seq(OwnRequests(c))
      BY <1>0, <3>2, AppendProperties
    <3> QED
      BY <1>0, <3>1, <3>3
  <2> QED
    BY <1>0, <2>1, <2>4, CallOwns DEF c
<1>7. CASE AnswerQuery
  <2>1. /\ calls # <<>> /\ calls' = Tail(calls) /\ UNCHANGED <<greeter, signals, inbox>>
        /\ worker' \in {worker, [worker EXCEPT !.call = "none"]}
    BY <1>7 DEF AnswerQuery, Take, Answered
  <2>2. worker'.pc = worker.pc /\ OwnWorker(worker', c)
    BY <1>0, <2>1 DEF OwnWorker, Begun, WorkerRecord
  <2> QED
    BY <1>0, <2>1, <2>2, CallOwns DEF c
<1>9. CASE StartSessionWhenReady
  <2>1. /\ calls # <<>> /\ calls' = Tail(calls) /\ UNCHANGED <<greeter, signals, worker>>
        /\ inbox' \in {inbox, Asked("EstablishCredentials")}
    BY <1>9 DEF StartSessionWhenReady, Take, Accredit
  <2>2. "EstablishCredentials" \in DOMAIN Needs \ {"Setup"}
    BY DEF Needs
  <2>3. inbox' \in Seq(OwnRequests(c))
    BY <1>0, <2>1, <2>2, AskedOwns
  <2> QED
    BY <1>0, <2>1, <2>3, CallOwns DEF c
<1> QED
  BY <1>1, <1>3, <1>4, <1>7, <1>9 DEF FromGreeter

\* A queued start finds an open session, and a worker that is connected.
LEMMA StartFindsSession ==
  ASSUME IInv, OpenInv, NEW n \in 1 .. Len(idles), idles[n] = "start"
  PROVE  OpenedWaiting /\ inbox \in Seq(EarlyRequest) /\ worker.pc = "up"
<1>1. idles \notin Seq(Resets)
  BY ElementOfSeq DEF Resets
<1>2. OpenedWaiting /\ inbox \in Seq(EarlyRequest)
  BY <1>1 DEF OpenInv
<1> QED
  BY <1>2 DEF OpenedWaiting, IInv, WorkerInv, NONE, SESSION_OPENED

LEMMA IdleOwns ==
  ASSUME IInv, ChoiceOwn, OpenInv, IdleNext
  PROVE  ChoiceOwn'
<1>0. /\ greeter \in GreeterRecord /\ OwnWindow /\ SignalsOwn /\ HasServer
      /\ calls \in Seq(OwnCalls(greeter.chosen)) /\ worker.pc # "dead"
      /\ OwnWorker(worker, greeter.chosen)
      /\ inbox \in Seq(OwnRequests(greeter.chosen))
  BY DEF IInv, TypeOK, GreeterTypeOK, ChoiceOwn, OwnWindow
<1>1. CASE IdleReset
  <2>1. \E r \in {"AuthenticationFailed", "Reset"} : signals' = Tell(<<r>>)
    BY <1>0, <1>1 DEF IdleReset
  <2>2. /\ worker' = NewWorker /\ inbox' = <<>> /\ calls' = calls /\ greeter' = greeter
    BY <1>0, <1>1 DEF IdleReset, ResetSession
  <2>3. signals' \in Seq(OwnSignals)
    <3>1. PICK r \in {"AuthenticationFailed", "Reset"} : signals' = Tell(<<r>>)
      BY <2>1
    <3>2. <<r>> \in Seq(OwnSignals) /\ signals \in Seq(OwnSignals)
      BY <1>0 DEF OwnSignals, Signals, SignalsOwn
    <3> QED
      BY <3>1, <3>2, ConcatProperties DEF Tell
  <2>4. SignalsOwn' /\ HasServer'
    BY <1>0, <2>2, <2>3 DEF SignalsOwn, NewWorker, NoWorker, HasServer
  <2> QED
    BY <1>0, <2>2, <2>4, FreshOwns
<1>2. ASSUME HandOver, signals' = <<>>
      PROVE  /\ greeter'.chosen = greeter.chosen /\ greeter'.auto = greeter.auto
             /\ greeter'.mode = greeter.mode /\ HasServer'
             /\ calls' \in Seq(OwnCalls(greeter.chosen)) /\ SignalsOwn'
  <2>1. greeter' = [greeter EXCEPT !.st = "stopped"]
    BY <1>0, <1>2 DEF HandOver
  <2>2. /\ greeter'.chosen = greeter.chosen /\ greeter'.auto = greeter.auto
        /\ greeter'.mode = greeter.mode /\ HasServer'
    BY <1>0, <2>1 DEF GreeterRecord, HasServer
  <2>3. calls # <<>> => Head(calls) \in OwnCalls(greeter.chosen)
    BY <1>0, HeadTailProperties
  <2>4. calls' \in Seq(OwnCalls(greeter.chosen))
    <3>1. calls' = IF calls = <<>> THEN <<>> ELSE <<Head(calls)>>
      BY <1>2 DEF HandOver
    <3>2. <<>> \in Seq(OwnCalls(greeter.chosen))
      OBVIOUS
    <3>3. calls # <<>> => <<Head(calls)>> \in Seq(OwnCalls(greeter.chosen))
      BY <2>3
    <3> QED
      BY <3>1, <3>2, <3>3
  <2>5. SignalsOwn'
    BY <1>2 DEF SignalsOwn
  <2> QED
    BY <2>2, <2>4, <2>5
<1>3. CASE IdleStart
  <2>1. HandOver /\ signals' = <<>> /\ worker' = worker /\ inbox' = Asked("StartProgram")
    BY <1>3 DEF IdleStart
  <2>2. "StartProgram" \in DOMAIN Needs \ {"Setup"}
    BY DEF Needs
  <2>3. inbox' \in Seq(OwnRequests(greeter.chosen))
    BY <1>0, <2>1, <2>2, AskedOwns
  <2> QED
    BY <1>0, <1>2, <2>1, <2>3 DEF ChoiceOwn, OwnWindow
<1>4. CASE IdleMigrate
  <2>1. /\ worker' = NoWorker /\ inbox' = <<>> /\ calls' = calls /\ greeter' = greeter
        /\ signals' = signals /\ idles = <<"start">>
    BY <1>4 DEF IdleMigrate, DestroySession, greeterVars
  <2>2. 1 \in 1 .. Len(idles) /\ idles[1] = "start"
    BY <2>1
  <2>3. worker.pc = "up"
    BY <2>2, StartFindsSession
  <2>4. SignalsOwn' /\ HasServer'
    BY <1>0, <2>1, <2>3 DEF SignalsOwn, HasServer
  <2> QED
    BY <1>0, <2>1, <2>4, FreshOwns
<1>5. CASE IdleStartThenReset
  <2>1. HandOver /\ signals' = <<>> /\ worker' = NewWorker /\ inbox' = <<>>
    BY <1>5 DEF IdleStartThenReset, ResetSession
  <2> QED
    BY <1>2, <2>1, FreshOwns
<1>6. CASE IdleStartAborts
  BY <1>6 DEF IdleStartAborts, ChoiceOwn, OwnWindow, SignalsOwn, HasServer, workerVars, greeterVars
<1> QED
  BY <1>1, <1>3, <1>4, <1>5, <1>6 DEF IdleNext

-----------------------------------------------------------------------------
\* Nothing is open for a new worker, or for none.
LEMMA FreshOpens ==
  ASSUME worker' \in {NoWorker, NewWorker}, inbox' = <<>>, idles' \in Seq(Resets)
  PROVE  OpenInv'
<1>1. <<>> \in Seq(EarlyRequest) /\ worker'.call = "none"
  BY DEF NoWorker, NewWorker
<1> QED
  BY <1>1 DEF OpenInv

\* The slave answers, asks for something else, or queues a reset.
LEMMA SlaveOpens ==
  ASSUME IInv, OpenInv,
         \/ worker' = worker
         \/ /\ worker.call # "none"
            /\ \E k \in {"none", "answer"} : worker' = [worker EXCEPT !.call = k],
         inbox' \in {inbox} \cup {Append(inbox, r) : r \in EarlyRequest},
         idles' \in {idles} \cup {QueueReset(kind) : kind \in Resets}
  PROVE  OpenInv'
<1>0. worker \in WorkerRecord /\ inbox \in Seq(Request)
  BY DEF IInv, TypeOK, WorkerTypeOK
<1>1. idles \in Seq(Resets) => idles' \in Seq(Resets)
  BY ResetsMore
<1>2. EarlyRequest \subseteq Request
  BY DEF EarlyRequest
<1>3. /\ inbox \in Seq(EarlyRequest) => inbox' \in Seq(EarlyRequest)
      /\ OneStart(inbox) => OneStart(inbox')
  <2>1. CASE inbox' = inbox
    BY <2>1
  <2>2. ASSUME NEW r \in EarlyRequest, inbox' = Append(inbox, r)
        PROVE  /\ inbox \in Seq(EarlyRequest) => inbox' \in Seq(EarlyRequest)
               /\ OneStart(inbox) => OneStart(inbox')
    <3>1. r \in Request
      BY <1>2
    <3> QED
      BY <1>0, <2>2, <3>1, StartsMore
  <2> QED
    BY <2>1, <2>2
<1>4. CASE worker' = worker
  BY <1>1, <1>3, <1>4 DEF OpenInv, OpenedWaiting
<1>5. CASE /\ worker.call # "none"
           /\ \E k \in {"none", "answer"} : worker' = [worker EXCEPT !.call = k]
  <2>1. idles' \in Seq(Resets) /\ inbox' \in Seq(EarlyRequest)
    BY <1>1, <1>3, <1>5 DEF OpenInv, OpenedWaiting
  <2>2. worker'.call # "SessionOpened"
    BY <1>0, <1>5 DEF WorkerRecord
  <2> QED
    BY <2>1, <2>2 DEF OpenInv
<1> QED
  BY <1>4, <1>5

\* The requests that are not the start of the session.
LEMMA AskedEarly ==
  ASSUME NEW n \in DOMAIN Needs \ {"StartProgram"}
  PROVE  Asked(n) \in {inbox} \cup {Append(inbox, r) : r \in EarlyRequest}
<1>1. [name |-> n, user |-> NoUser] \in EarlyRequest
  BY DEF EarlyRequest, Request
<1> QED
  BY <1>1 DEF Asked

LEMMA FromWorkerOpens ==
  ASSUME IInv, OpenInv, FromWorker, worker.pc # "dead"
  PROVE  OpenInv'
<1>0. worker \in WorkerRecord /\ inbox \in Seq(Request) /\ sess \in Session
  BY DEF IInv, TypeOK, WorkerTypeOK
<1>1. CASE SetupComplete \/ Authenticated \/ Accredited
  <2>1. \E n \in {"Authenticate", "Authorize", "OpenSession"} : inbox' = Asked(n)
    BY <1>1 DEF SetupComplete, Authenticated, Accredited, Proceed
  <2>2. worker' = [worker EXCEPT !.call = "none"] /\ worker.call # "none" /\ idles' = idles
    BY <1>1 DEF SetupComplete, Authenticated, Accredited, Proceed, Answered, slaveVars
  <2>3. {"Authenticate", "Authorize", "OpenSession"} \subseteq DOMAIN Needs \ {"StartProgram"}
    BY DEF Needs
  <2>4. inbox' \in {inbox} \cup {Append(inbox, r) : r \in EarlyRequest}
    BY <2>1, <2>3, AskedEarly
  <2> QED
    BY <2>2, <2>4, SlaveOpens
<1>2. CASE Authorized
  <2>1. /\ worker' = [worker EXCEPT !.call = "none"] /\ worker.call # "none" /\ idles' = idles
        /\ inbox' \in {inbox, Asked("EstablishCredentials")}
    BY <1>2 DEF Authorized, Accredit, Answered
  <2>2. "EstablishCredentials" \in DOMAIN Needs \ {"StartProgram"}
    BY DEF Needs
  <2>3. inbox' \in {inbox} \cup {Append(inbox, r) : r \in EarlyRequest}
    BY <2>1, <2>2, AskedEarly
  <2> QED
    BY <2>1, <2>3, SlaveOpens
<1>3. CASE Opened
  <2>1. /\ worker' = [worker EXCEPT !.call = "none"] /\ worker.call = "SessionOpened"
        /\ inbox' = inbox
    BY <1>3 DEF Opened, Answered
  <2>2. /\ worker.state = SESSION_OPENED /\ worker.step = NONE /\ ~worker.idle
        /\ inbox \in Seq(EarlyRequest)
    BY <2>1 DEF OpenInv
  <2>3. OpenedWaiting' /\ inbox' \in Seq(EarlyRequest)
    BY <1>0, <2>1, <2>2 DEF OpenedWaiting, WorkerRecord
  <2> QED
    BY <2>3 DEF OpenInv, OpenedWaiting
<1>4. CASE SessionStarted \/ StartFailed \/ UsernameChanged
  <2>1. /\ worker' = [worker EXCEPT !.call = "none"] /\ worker.call # "none"
        /\ inbox' = inbox /\ idles' = idles
    BY <1>4 DEF SessionStarted, StartFailed, UsernameChanged, Answered, slaveVars
  <2> QED
    BY <2>1, SlaveOpens
<1>5. CASE WorkerQuery
  <2>1. /\ worker' = worker \/ (worker' = [worker EXCEPT !.call = "answer"] /\ worker.call # "none")
        /\ inbox' = inbox /\ idles' = idles
    BY <1>5 DEF WorkerQuery
  <2> QED
    BY <2>1, SlaveOpens
<1>6. CASE \E r, kind : GiveUp(r, kind) /\ r # "none" /\ kind \in Resets
  <2>1. PICK kind \in Resets : idles' = QueueReset(kind)
    BY <1>6 DEF GiveUp
  <2>2. worker' = NoWorker /\ inbox' = <<>> /\ worker.call # "none"
    BY <1>6 DEF GiveUp, DestroySession
  <2>3. idles \in Seq(Resets)
    BY <2>2 DEF OpenInv, OpenedWaiting
  <2>4. idles' \in Seq(Resets)
    BY <2>1, <2>3, ResetsMore
  <2> QED
    BY <2>2, <2>4, FreshOpens
<1>7. CASE ConversationStarted
  <2>1. /\ worker.pc = "starting" /\ worker' = [worker EXCEPT !.pc = "up"] /\ idles' = idles
        /\ inbox' = inbox \/ inbox' = Append(inbox, [name |-> "Setup", user |-> TimedUser])
    BY <1>7 DEF ConversationStarted
  <2>2. worker.state = NONE /\ worker.call = "none" /\ inbox = <<>>
    BY <2>1 DEF IInv, WorkerInv
  <2>3. idles \in Seq(Resets)
    BY <2>2 DEF OpenInv, OpenedWaiting, NONE, SESSION_OPENED
  <2>4. [name |-> "Setup", user |-> TimedUser] \in EarlyRequest
    BY NamesAssumption DEF EarlyRequest, Request, Needs
  <2>5. inbox' \in Seq(EarlyRequest)
    <3>1. inbox \in Seq(EarlyRequest)
      BY <2>2
    <3>2. Append(inbox, [name |-> "Setup", user |-> TimedUser]) \in Seq(EarlyRequest)
      BY <2>4, <3>1, AppendProperties
    <3> QED
      BY <2>1, <3>1, <3>2
  <2>6. worker'.call = "none"
    BY <1>0, <2>1, <2>2 DEF WorkerRecord
  <2> QED
    BY <2>1, <2>3, <2>5, <2>6 DEF OpenInv
<1>8. ~WorkerGone
  BY DEF WorkerGone
<1> QED
  BY <1>1, <1>2, <1>3, <1>4, <1>5, <1>6, <1>7, <1>8
  DEF FromWorker, SetupFailed, AuthenticationFailed, AuthorizationFailed,
      AccreditationFailed, OpenFailed, Resets

LEMMA FromGreeterOpens ==
  ASSUME IInv, OpenInv, FromGreeter
  PROVE  OpenInv'
<1>1. CASE GreeterConnected
  <2>1. worker' = NewWorker /\ inbox' = inbox /\ idles' = idles /\ greeter.st = "starting"
    BY <1>1 DEF GreeterConnected, slaveVars
  <2>3. inbox = <<>> /\ idles = <<>>
    BY <2>1 DEF IInv, PairInv, WorkerInv, ResetInv
  <2>2. <<>> \in Seq(Resets)
    OBVIOUS
  <2> QED
    BY <2>1, <2>2, <2>3, FreshOpens
<1>2. CASE SelectUser
  BY <1>2, SlaveOpens DEF SelectUser, workerVars, slaveVars
<1>3. CASE BeginVerification
  <2>1. worker' = worker /\ idles' = idles /\ inbox' = Asked("Setup")
    BY <1>3 DEF BeginVerification, slaveVars
  <2>2. "Setup" \in DOMAIN Needs \ {"StartProgram"}
    BY DEF Needs
  <2> QED
    BY <2>1, <2>2, AskedEarly, SlaveOpens
<1>4. CASE BeginVerificationForUser \/ BeginAutoLogin
  <2>1. /\ calls # <<>> /\ Head(calls).name \in {"BeginVerificationForUser", "BeginAutoLogin"}
        /\ worker' = worker /\ idles' = idles
        /\ inbox' \in {inbox, Append(inbox, [name |-> "Setup", user |-> Head(calls).user])}
    BY <1>4 DEF BeginVerificationForUser, BeginAutoLogin, SetupForUser, Take
  <2>2. Head(calls) \in SoundCall
    BY <2>1, HeadTailProperties DEF IInv, CallsInv
  <2>3. Head(calls).user \in User
    BY <2>1, <2>2 DEF SoundCall
  <2>4. [name |-> "Setup", user |-> Head(calls).user] \in EarlyRequest
    BY <2>3 DEF EarlyRequest, Request, Needs
  <2> QED
    BY <2>1, <2>4, SlaveOpens
<1>5. CASE AnswerQuery
  <2>1. /\ worker' = worker \/ (worker' = [worker EXCEPT !.call = "none"] /\ worker.call = "answer")
        /\ idles' = idles /\ inbox' = inbox
    BY <1>5 DEF AnswerQuery, Answered
  <2> QED
    BY <2>1, SlaveOpens
<1>6. CASE Cancel
  <2>1. worker' = worker /\ inbox' = inbox /\ idles' = QueueReset("reset")
    BY <1>6 DEF Cancel, workerVars
  <2> QED
    BY <2>1, SlaveOpens DEF Resets
<1>7. CASE StartSessionWhenReady
  <2>1. worker' = worker /\ idles' = idles /\ inbox' \in {inbox, Asked("EstablishCredentials")}
    BY <1>7 DEF StartSessionWhenReady, Accredit
  <2>2. "EstablishCredentials" \in DOMAIN Needs \ {"StartProgram"}
    BY DEF Needs
  <2>3. inbox' \in {inbox} \cup {Append(inbox, r) : r \in EarlyRequest}
    BY <2>1, <2>2, AskedEarly
  <2> QED
    BY <2>1, <2>3, SlaveOpens
<1> QED
  BY <1>1, <1>2, <1>3, <1>4, <1>5, <1>6, <1>7 DEF FromGreeter

LEMMA IdleOpens ==
  ASSUME IInv, OpenInv, IdleNext, HasServer
  PROVE  OpenInv'
<1>0. inbox \in Seq(Request)
  BY DEF IInv, TypeOK, WorkerTypeOK
<1>1. CASE IdleReset \/ IdleStartThenReset
  <2>1. worker' = NewWorker /\ inbox' = <<>> /\ idles' = <<>>
    BY <1>1 DEF IdleReset, IdleStartThenReset, ResetSession
  <2>2. <<>> \in Seq(Resets)
    OBVIOUS
  <2> QED
    BY <2>1, <2>2, FreshOpens
<1>2. CASE IdleStart
  <2>1. worker' = worker /\ idles' = <<>> /\ inbox' = Asked("StartProgram") /\ idles = <<"start">>
    BY <1>2 DEF IdleStart
  <2>2. 1 \in 1 .. Len(idles) /\ idles[1] = "start"
    BY <2>1
  <2>3. OpenedWaiting /\ inbox \in Seq(EarlyRequest)
    BY <2>2, StartFindsSession
  <2> DEFINE r == [name |-> "StartProgram", user |-> NoUser]
  <2>4. r \in Request
    BY DEF Request, Needs
  <2>5. inbox' \in {inbox, Append(inbox, r)}
    BY <2>1 DEF Asked
  <2> HIDE DEF r
  <2>6. inbox' \in Seq(EarlyRequest) \/ OneStart(inbox')
    BY <1>0, <2>3, <2>4, <2>5, StartsMore
  <2>7. <<>> \in Seq(Resets) /\ OpenedWaiting' /\ worker'.call = "none"
    BY <2>1, <2>3 DEF OpenedWaiting
  <2> QED
    BY <2>1, <2>6, <2>7 DEF OpenInv
<1>3. CASE IdleMigrate
  <2>1. worker' = NoWorker /\ inbox' = <<>> /\ idles' = <<"reset">>
    BY <1>3 DEF IdleMigrate, DestroySession
  <2>2. <<"reset">> \in Seq(Resets)
    BY DEF Resets
  <2> QED
    BY <2>1, <2>2, FreshOpens
<1>4. CASE IdleStartAborts
  BY <1>4, SlaveOpens DEF IdleStartAborts, workerVars
<1> QED
  BY <1>1, <1>2, <1>3, <1>4 DEF IdleNext

-----------------------------------------------------------------------------
LEMMA InitAccess == Init /\ PromptLogin => AccessInv
<1> SUFFICES ASSUME Init, PromptLogin PROVE AccessInv
  OBVIOUS
<1>1. greeter = [NoGreeter EXCEPT !.st = "starting"] /\ worker = NoWorker /\ inbox = <<>>
      /\ calls = <<>> /\ signals = <<>> /\ idles = <<>>
  BY DEF Init, PromptLogin
<1>2. OwnWindow
  BY <1>1 DEF OwnWindow, HasServer, NoGreeter
<1>3. OwnWorker(worker, greeter.chosen) /\ worker.pc # "dead"
  BY <1>1, OwnHelpers DEF NoWorker, Begun
<1>4. SignalsOwn
  BY <1>1 DEF SignalsOwn
<1>5. calls \in Seq(OwnCalls(greeter.chosen)) /\ inbox \in Seq(OwnRequests(greeter.chosen))
  BY <1>1
<1>6. OpenInv
  BY <1>1 DEF OpenInv, NoWorker
<1> QED
  BY <1>2, <1>3, <1>4, <1>5, <1>6 DEF AccessInv, ChoiceOwn

LEMMA NextAccess == IInv /\ AccessInv /\ PromptLogin /\ [Next]_vars => AccessInv'
<1> SUFFICES ASSUME IInv, ChoiceOwn, OpenInv, PromptLogin, [Next]_vars
             PROVE  ChoiceOwn' /\ OpenInv'
  BY DEF AccessInv
<1>0. worker.pc # "dead" /\ "crash" \notin WorkerFaults /\ HasServer
  BY DEF ChoiceOwn, OwnWindow, PromptLogin
<1>1. CASE FromWorker
  BY <1>0, <1>1, FromWorkerOwns, FromWorkerOpens
<1>2. CASE FromGreeter
  BY <1>2, FromGreeterOwns, FromGreeterOpens
<1>3. CASE IdleNext
  BY <1>0, <1>3, IdleOwns, IdleOpens
<1>4. CASE SessionEnds \/ DisplayEnds \/ UNCHANGED vars
  <2>1. UNCHANGED <<worker, inbox, greeter, calls, signals, idles>>
    BY <1>4 DEF SessionEnds, DisplayEnds, Stop, vars, workerVars, greeterVars, slaveVars
  <2> QED
    BY <2>1 DEF ChoiceOwn, OwnWindow, SignalsOwn, HasServer, OpenInv, OpenedWaiting
<1>5. CASE WorkerNext /\ UNCHANGED <<greeterVars, slaveVars>>
  BY <1>0, <1>5, WorkerOwns, WorkerOpens
<1>6. CASE (GreeterStep \/ UserStep) /\ UNCHANGED <<workerVars, slaveVars>>
  <2>1. UNCHANGED <<worker, inbox, idles>>
    BY <1>6 DEF workerVars, slaveVars
  <2> QED
    BY <1>6, <2>1, WindowOwns DEF OpenInv, OpenedWaiting
<1> QED
  BY <1>1, <1>2, <1>3, <1>4, <1>5, <1>6 DEF Next, Processes

-----------------------------------------------------------------------------
(***************************************************************************)
(* Which name it is under way for.  A user who looks at the window before    *)
(* picking a name begins each conversation once, so the worker is set up    *)
(* once; from then on the slave's selected user is the worker's name, but   *)
(* while the worker reports another one.                                    *)
(***************************************************************************)
PromptChoice == PromptLogin /\ PromptUser

Lacks(s, S) == \A i \in 1 .. Len(s) : s[i] \notin S
AtMostOne(s, S) == \A i, j \in 1 .. Len(s) : s[i] \in S /\ s[j] \in S => i = j
ReadySignal == {"Ready"}

\* The worker has been told of nobody.
Blank ==
  /\ worker.state = NONE /\ worker.step = NONE /\ ~worker.idle
  /\ worker.call = "none" /\ worker.user = NoUser

\* A conversation: not begun, begun but not taken up by the worker, or taken up.
NotBegun == Blank /\ Lacks(inbox, Setups) /\ sess.user = NoUser
SetupSent ==
  /\ Blank /\ AtMostOne(inbox, Setups)
  /\ \A i \in 1 .. Len(inbox) : inbox[i] \in Setups => inbox[i].user = sess.user
UnderWay ==
  /\ Lacks(inbox, Setups)
  /\ worker.call # "UsernameChanged" => worker.user = sess.user

\* The window begins at most one, and none when one has been begun.
WindowDone ==
  Lacks(calls, Begins) /\ Lacks(signals, ReadySignal) /\ greeter.mode # "selection"
WindowOnce ==
  /\ HasServer /\ (greeter.st = "starting" => greeter.mode = "selection")
  /\ AtMostOne(calls, Begins) /\ AtMostOne(signals, ReadySignal)
  /\ \/ Lacks(calls, Begins)
     \/ Lacks(signals, ReadySignal) /\ greeter.mode # "selection"

NamesAgree ==
  /\ WindowOnce
  /\ sess.conn => worker.pc = "up"
  /\ worker.pc # "up" => NotBegun
  /\ NotBegun \/ (WindowDone /\ (SetupSent \/ UnderWay))

OwnerInv == AccessInv /\ NamesAgree /\ AuthorityForOwner

-----------------------------------------------------------------------------
\* A list with one element more, or without the first one.
LEMMA ListMore ==
  ASSUME NEW T, NEW s \in Seq(T), NEW x \in T, NEW S
  PROVE  LET m == Append(s, x) IN
         /\ s \o <<x>> = m
         /\ Lacks(s, S) /\ x \notin S => Lacks(m, S)
         /\ AtMostOne(s, S) /\ x \notin S => AtMostOne(m, S)
         /\ Lacks(s, S) => AtMostOne(m, S)
         /\ \A i \in 1 .. Len(m) : (i \in 1 .. Len(s) /\ m[i] = s[i]) \/ (i = Len(m) /\ m[i] = x)
<1> DEFINE m == Append(s, x)
<1>1. /\ m \in Seq(T) /\ Len(m) = Len(s) + 1 /\ m[Len(s) + 1] = x /\ Len(s) \in Nat
      /\ \A i \in 1 .. Len(s) : m[i] = s[i]
  BY AppendProperties
<1>2. s \o <<x>> = m
  OBVIOUS
<1> HIDE DEF m
<1>3. \A i \in 1 .. Len(m) : (i \in 1 .. Len(s) /\ m[i] = s[i]) \/ (i = Len(m) /\ m[i] = x)
  BY <1>1
<1>4. Lacks(s, S) /\ x \notin S => Lacks(m, S)
  BY <1>3 DEF Lacks
<1>5. AtMostOne(s, S) /\ x \notin S => AtMostOne(m, S)
  BY <1>3 DEF AtMostOne
<1>6. Lacks(s, S) => AtMostOne(m, S)
  BY <1>3 DEF Lacks, AtMostOne
<1> QED
  BY <1>2, <1>3, <1>4, <1>5, <1>6 DEF m

LEMMA ListLess ==
  ASSUME NEW T, NEW s \in Seq(T), s # <<>>, NEW S
  PROVE  /\ Lacks(s, S) => Head(s) \notin S /\ Lacks(Tail(s), S)
         /\ AtMostOne(s, S) => AtMostOne(Tail(s), S)
         /\ AtMostOne(s, S) /\ Head(s) \in S => Lacks(Tail(s), S)
         /\ \A i \in 1 .. Len(Tail(s)) : i + 1 \in 1 .. Len(s) /\ Tail(s)[i] = s[i + 1]
<1> DEFINE t == Tail(s)
<1>1. /\ t \in Seq(T) /\ Len(t) = Len(s) - 1
      /\ \A i \in 1 .. Len(t) : t[i] = s[i + 1]
  BY HeadTailProperties
<1>2. Len(s) \in Nat /\ Len(s) >= 1 /\ Head(s) = s[1]
  BY EmptySeq
<1> HIDE DEF t
<1>3. 1 \in 1 .. Len(s) /\ \A i \in 1 .. Len(t) : i + 1 \in 1 .. Len(s) /\ i + 1 # 1 /\ t[i] = s[i + 1]
  BY <1>1, <1>2
<1>4. Lacks(s, S) => Head(s) \notin S /\ Lacks(t, S)
  BY <1>2, <1>3 DEF Lacks
<1>5. ASSUME AtMostOne(s, S) PROVE AtMostOne(t, S)
  <2> SUFFICES ASSUME NEW i \in 1 .. Len(t), NEW j \in 1 .. Len(t), t[i] \in S, t[j] \in S
               PROVE  i = j
    BY DEF AtMostOne
  <2>1. i + 1 = j + 1
    BY <1>3, <1>5 DEF AtMostOne
  <2> QED
    BY <1>1, <2>1
<1>6. AtMostOne(s, S) /\ Head(s) \in S => Lacks(t, S)
  BY <1>2, <1>3 DEF AtMostOne, Lacks
<1> QED
  BY <1>3, <1>4, <1>5, <1>6 DEF t

LEMMA ListShort ==
  ASSUME NEW S
  PROVE  /\ Lacks(<<>>, S) /\ AtMostOne(<<>>, S)
         /\ \A x : AtMostOne(<<x>>, S) /\ (x \notin S => Lacks(<<x>>, S))
         /\ \A x, y : x \notin S => AtMostOne(<<x, y>>, S) /\ (y \notin S => Lacks(<<x, y>>, S))
         /\ \A s : Lacks(s, S) => AtMostOne(s, S)
  BY DEF Lacks, AtMostOne

\* The calls of the window: those that begin a conversation, one each, and the rest.
LEMMA BeginCalls ==
  /\ \A n \in {"AnswerQuery", "Cancel", "StartSessionWhenReady"} : ACall(n) \notin Begins
  /\ \A c : AtMostOne(ChooseCalls(c), Begins)
  /\ \A g : Lacks(ToSelectionCalls(g), Begins)
<1>1. \A n \in {"AnswerQuery", "Cancel", "StartSessionWhenReady"} : ACall(n) \notin Begins
  BY DEF ACall, Begins
<1>2. ASSUME NEW c PROVE AtMostOne(ChooseCalls(c), Begins)
  <2>1. [name |-> "SelectUser", user |-> c] \notin Begins
    BY DEF Begins
  <2> QED
    BY <2>1, ListShort DEF ChooseCalls
<1>3. ASSUME NEW g PROVE Lacks(ToSelectionCalls(g), Begins)
  BY <1>1, ListShort DEF ToSelectionCalls
<1> QED
  BY <1>1, <1>2, <1>3

\* The request the slave sends next keeps the conversation where it is.
LEMMA AskedAgrees ==
  ASSUME IInv, NEW n \in DOMAIN Needs \ {"Setup"}, UNCHANGED sess, inbox' \in {inbox, Asked(n)}
  PROVE  /\ Lacks(inbox, Setups) => Lacks(inbox', Setups)
         /\ SetupSent /\ worker' = worker => SetupSent'
<1> DEFINE r == [name |-> n, user |-> NoUser]
<1>1. inbox \in Seq(Request) /\ r \in Request /\ r \notin Setups
  BY DEF IInv, TypeOK, WorkerTypeOK, Request, Setups
<1> HIDE DEF r
<1>2. inbox' = inbox \/ inbox' = Append(inbox, r)
  BY DEF Asked, r
<1>3. CASE inbox' = inbox
  BY <1>3 DEF SetupSent, Blank
<1>4. CASE inbox' = Append(inbox, r)
  <2>1. /\ Lacks(inbox, Setups) => Lacks(inbox', Setups)
        /\ AtMostOne(inbox, Setups) => AtMostOne(inbox', Setups)
        /\ \A i \in 1 .. Len(inbox') : inbox'[i] \in Setups =>
             i \in 1 .. Len(inbox) /\ inbox'[i] = inbox[i]
    BY <1>1, <1>4, ListMore
  <2> QED
    BY <2>1 DEF SetupSent, Blank
<1> QED
  BY <1>2, <1>3, <1>4

-----------------------------------------------------------------------------
\* The worker takes up the setup it was sent, and goes on with that name, or reports
\* the one PAM has.
LEMMA WorkerAgrees ==
  ASSUME IInv, NamesAgree, WorkerNext, UNCHANGED <<greeterVars, slaveVars>>,
         "crash" \notin WorkerFaults
  PROVE  NamesAgree'
<1>0. /\ worker \in WorkerRecord /\ inbox \in Seq(Request)
      /\ worker.state \in 0 .. 6 /\ worker.step \in 0 .. 6
      /\ greeter' = greeter /\ calls' = calls /\ signals' = signals /\ sess' = sess
  BY DEF IInv, TypeOK, WorkerTypeOK, WorkerRecord, States, NONE, SESSION_STARTED,
         greeterVars, slaveVars
<1>1. SUFFICES /\ worker.pc = "up" /\ worker'.pc = "up"
               /\ NotBegun => NotBegun'
               /\ SetupSent => SetupSent' \/ UnderWay'
               /\ UnderWay => UnderWay' \/ NotBegun'
  BY <1>0 DEF NamesAgree, WindowOnce, WindowDone, HasServer
<1>2. CASE OnRequest
  <2>1. /\ Listening /\ inbox # <<>> /\ inbox' = Tail(inbox) /\ Head(inbox) \in Request
        /\ \A f \in {"pc", "state", "step", "call"} : worker'[f] = worker[f]
        /\ ~Accepts(Head(inbox)) => worker' = worker
        /\ Head(inbox) \notin Setups => worker'.user = worker.user
        /\ Accepts(Head(inbox)) /\ Head(inbox) \in Setups => worker'.user = Head(inbox).user
    BY <1>0, <1>2, HeadTailProperties DEF OnRequest, WorkerRecord, Setups
  <2>2. worker.state = NONE => (Accepts(Head(inbox)) <=> Head(inbox) \in Setups)
    <3>1. Head(inbox) \in Request
      BY <2>1
    <3> QED
      BY <3>1 DEF Accepts, Needs, Setups, Request, NONE, SETUP_COMPLETE,
                  AUTHENTICATED, AUTHORIZED, ACCREDITED, SESSION_OPENED
  <2>3. /\ Lacks(inbox, Setups) => Head(inbox) \notin Setups /\ Lacks(inbox', Setups)
        /\ AtMostOne(inbox, Setups) => AtMostOne(inbox', Setups)
        /\ AtMostOne(inbox, Setups) /\ Head(inbox) \in Setups => Lacks(inbox', Setups)
        /\ \A i \in 1 .. Len(inbox') : i + 1 \in 1 .. Len(inbox) /\ inbox'[i] = inbox[i + 1]
    BY <1>0, <2>1, ListLess
  <2>4. NotBegun => NotBegun'
    BY <1>0, <2>1, <2>2, <2>3 DEF NotBegun, Blank
  <2>5. ASSUME SetupSent PROVE SetupSent' \/ UnderWay'
    <3>1. CASE Head(inbox) \in Setups
      <4>1. 1 \in 1 .. Len(inbox) /\ inbox[1] = Head(inbox)
        BY <1>0, <2>1, EmptySeq
      <4>2. worker'.user = sess.user
        BY <2>1, <2>2, <2>5, <3>1, <4>1 DEF SetupSent, Blank
      <4> QED
        BY <1>0, <2>3, <2>5, <3>1, <4>2 DEF SetupSent, UnderWay
    <3>2. CASE Head(inbox) \notin Setups
      BY <1>0, <2>1, <2>2, <2>3, <2>5, <3>2 DEF SetupSent, Blank
    <3> QED
      BY <3>1, <3>2
  <2>6. UnderWay => UnderWay'
    BY <1>0, <2>1, <2>3 DEF UnderWay
  <2> QED
    BY <2>1, <2>4, <2>5, <2>6 DEF Listening
<1>3. CASE ~OnRequest
  <2>1. /\ worker.pc = "up" /\ worker.call = "none" /\ worker'.pc = "up" /\ inbox' = inbox
        /\ ~Blank /\ (worker'.user = worker.user \/ worker'.call = "UsernameChanged")
    <3>1. CASE StateChangeIdle
      BY <1>0, <3>1 DEF StateChangeIdle, Listening, WorkerRecord, Blank
    <3>2. CASE \E k \in 1 .. 6, ok \in BOOLEAN : StepEnds(k, ok)
      BY <1>0, <3>2 DEF StepEnds, Running, WorkerRecord, Blank, NONE
    <3>3. CASE PamAsks \/ UpdateUsername
      <4>1. PICK k \in 2 .. 5 : Running(k)
        BY <3>3, AskingAssumption DEF PamAsks, UpdateUsername
      <4>2. worker.pc = "up" /\ worker.call = "none" /\ ~Blank
        BY <4>1 DEF Running, Blank, NONE
      <4>3. worker'.pc = worker.pc /\ (worker'.user = worker.user \/ worker'.call = "UsernameChanged")
        BY <1>0, <3>3 DEF PamAsks, UpdateUsername, WorkerRecord
      <4> QED
        BY <3>3, <4>2, <4>3 DEF PamAsks, UpdateUsername
    <3>4. CASE ChildWatch
      BY <1>0, <3>4 DEF ChildWatch, Listening, WorkerRecord, Blank, NONE, SESSION_STARTED
    <3>5. ~WorkerCrashes
      BY DEF WorkerCrashes
    <3> QED
      BY <1>3, <3>1, <3>2, <3>3, <3>4, <3>5
      DEF WorkerNext, WorkerStep, DoSetup, DoAuthenticate, DoAuthorize, DoAccredit,
          DoOpenSession, DoStartSession, SETUP_COMPLETE, AUTHENTICATED, AUTHORIZED,
          ACCREDITED, SESSION_OPENED, SESSION_STARTED
  <2> QED
    BY <1>0, <2>1 DEF NotBegun, SetupSent, UnderWay
<1> QED
  BY <1>2, <1>3

-----------------------------------------------------------------------------
\* The window: it begins a conversation from the list, when the slave has said
\* nothing more, or when the slave is ready for the user chosen before.
LEMMA WindowAgrees ==
  ASSUME IInv, ChoiceOwn, NamesAgree, PromptUser, GreeterStep \/ UserStep,
         UNCHANGED <<workerVars, slaveVars>>
  PROVE  NamesAgree'
<1>0. /\ greeter \in GreeterRecord /\ greeter'.st = greeter.st /\ greeter.st = "up"
      /\ worker' = worker /\ inbox' = inbox /\ sess' = sess
      /\ signals \in Seq(Signals)
      /\ GreeterStep => calls = <<>>
  BY WindowStep DEF IInv, TypeOK, GreeterTypeOK, WindowKept, workerVars, slaveVars,
     GreeterStep, OnReady, OnReset, OnAuthenticationFailed, OnQuery, OnUserAuthorized,
     OnTimedLoginRequested, Dispatch, AtRest
<1>1. ASSUME AtMostOne(calls', Begins), AtMostOne(signals', ReadySignal),
             \/ Lacks(calls', Begins)
             \/ Lacks(signals', ReadySignal) /\ greeter'.mode # "selection",
             NotBegun \/ (WindowDone => WindowDone')
      PROVE  NamesAgree'
  BY <1>0, <1>1 DEF NamesAgree, WindowOnce, HasServer, NotBegun, SetupSent, UnderWay, Blank
<1>2. ASSUME NEW s, Dispatch(s)
      PROVE  /\ AtMostOne(signals', ReadySignal) /\ s \in OwnSignals
             /\ Lacks(signals, ReadySignal) => s # "Ready" /\ Lacks(signals', ReadySignal)
             /\ s = "Ready" => Lacks(signals', ReadySignal)
             /\ s \notin QuietSignals => worker.pc = "starting"
  <2>1. signals # <<>> /\ signals' = Tail(signals) /\ Head(signals) = s
    BY <1>2 DEF Dispatch
  <2>2. s \in OwnSignals /\ (signals \in Seq(QuietSignals) => s \in QuietSignals)
    BY <2>1, HeadTailProperties DEF ChoiceOwn, SignalsOwn
  <2> QED
    BY <1>0, <2>1, <2>2, ListLess DEF NamesAgree, WindowOnce, ReadySignal, ChoiceOwn, SignalsOwn
<1>3. ASSUME Lacks(calls', Begins), AtMostOne(signals', ReadySignal),
             Lacks(signals, ReadySignal) => Lacks(signals', ReadySignal),
             greeter'.mode = greeter.mode
      PROVE  NamesAgree'
  BY <1>1, <1>3, ListShort DEF WindowDone
<1>4. \A n \in {"AnswerQuery", "Cancel", "StartSessionWhenReady"} : Lacks(<<ACall(n)>>, Begins)
  BY BeginCalls, ListShort
<1>5. CASE OnUserChosen
  <2>1. PICK c \in User \cup {OtherItem} \cup (IF greeter.auto THEN {AutoItem} ELSE {}) :
          greeter' = Choosing(greeter, c) /\ calls' = ChooseCalls(c)
    BY <1>5 DEF OnUserChosen
  <2>2. signals' = <<>> /\ greeter.mode = "selection"
    BY <1>5 DEF OnUserChosen
  <2>3. greeter'.mode # "selection"
    BY <1>0, <2>1 DEF Choosing, GreeterRecord
  <2>4. ~WindowDone
    BY <2>2 DEF WindowDone
  <2> QED
    BY <1>1, <2>1, <2>2, <2>3, <2>4, BeginCalls, ListShort
<1>6. CASE OnLoginButtonAnswer
  <2>1. /\ greeter'.mode = greeter.mode /\ signals' = signals
        /\ calls' \in {<<>> \o <<ACall("AnswerQuery")>>,
                       <<ACall("StartSessionWhenReady")>> \o <<ACall("AnswerQuery")>>}
    BY <1>0, <1>6 DEF OnLoginButtonAnswer, GreeterRecord
  <2>2. calls' \in {<<ACall("AnswerQuery")>>,
                    <<ACall("StartSessionWhenReady"), ACall("AnswerQuery")>>}
    BY <2>1
  <2>3. Lacks(<<ACall("StartSessionWhenReady"), ACall("AnswerQuery")>>, Begins)
    BY BeginCalls, ListShort
  <2> QED
    BY <1>3, <1>4, <2>1, <2>2, <2>3 DEF NamesAgree, WindowOnce
<1>7. CASE DoCancel \/ TimedLoginTimer
  <2>1. /\ greeter'.mode = greeter.mode /\ signals' = signals
        /\ calls' \in {<<>>, <<ACall("Cancel")>>, <<ACall("StartSessionWhenReady")>>}
    BY <1>0, <1>7 DEF DoCancel, TimedLoginTimer, GreeterRecord
  <2> QED
    BY <1>3, <1>4, <2>1, ListShort DEF NamesAgree, WindowOnce
<1>8. CASE OnReady
  <2>1. /\ AtMostOne(signals', ReadySignal) /\ Lacks(signals', ReadySignal)
        /\ ~Lacks(signals, ReadySignal)
    BY <1>2, <1>8 DEF OnReady
  <2>2. \/ greeter'.mode # "selection" /\ \E c : calls' = ChooseCalls(c)
        \/ calls' = <<>>
    BY <1>0, <1>8 DEF OnReady, Choosing, GreeterRecord, GreeterStep
  <2>3. ~WindowDone
    BY <2>1 DEF WindowDone
  <2> QED
    BY <1>1, <2>1, <2>2, <2>3, BeginCalls, ListShort
<1>9. CASE OnReset \/ OnAuthenticationFailed
  <2>1. AtMostOne(signals', ReadySignal) /\ worker.pc = "starting"
    BY <1>2, <1>9 DEF OnReset, OnAuthenticationFailed, QuietSignals
  <2>2. \E g : calls' \in {<<>>, ToSelectionCalls(g)}
    BY <1>0, <1>9 DEF OnReset, OnAuthenticationFailed, GreeterStep
  <2>3. Lacks(calls', Begins) /\ NotBegun
    BY <2>1, <2>2, BeginCalls, ListShort DEF NamesAgree
  <2> QED
    BY <1>1, <2>1, <2>3, ListShort
<1>10. CASE OnQuery \/ OnUserAuthorized
  <2>1. /\ AtMostOne(signals', ReadySignal)
        /\ Lacks(signals, ReadySignal) => Lacks(signals', ReadySignal)
    BY <1>2, <1>10 DEF OnQuery, OnUserAuthorized
  <2>2. /\ greeter'.mode = greeter.mode
        /\ calls' \in {<<>>, <<ACall("StartSessionWhenReady")>>}
    BY <1>0, <1>10 DEF OnQuery, OnUserAuthorized, GreeterRecord, GreeterStep
  <2> QED
    BY <1>3, <1>4, <2>1, <2>2, ListShort
<1>11. ~OnTimedLoginRequested
  BY <1>2 DEF OnTimedLoginRequested, OwnSignals
<1> QED
  BY <1>5, <1>6, <1>7, <1>8, <1>9, <1>10, <1>11 DEF GreeterStep, UserStep

-----------------------------------------------------------------------------
\* A new session and a new worker, or none, is a conversation nobody has begun.
LEMMA FreshAgrees ==
  ASSUME WindowOnce', worker' \in {NoWorker, NewWorker}, inbox' = <<>>,
         sess' \in {NoSession, NewSession}
  PROVE  NamesAgree'
<1>1. NotBegun' /\ ~sess'.conn
  BY ListShort DEF NotBegun, Blank, NoWorker, NewWorker, NoSession, NewSession
<1> QED
  BY <1>1 DEF NamesAgree

\* What the worker says is about a conversation that is under way.
LEMMA FromWorkerAgrees ==
  ASSUME IInv, ChoiceOwn, NamesAgree, FromWorker, PromptLogin
  PROVE  NamesAgree'
<1>0. /\ worker \in WorkerRecord /\ sess \in Session /\ signals \in Seq(Signals)
      /\ WindowOnce /\ worker.pc # "dead" /\ (worker.call # "none" => worker.pc = "up")
  BY DEF IInv, TypeOK, WorkerTypeOK, GreeterTypeOK, NamesAgree, WorkerInv, ChoiceOwn
<1>1. ASSUME worker.call # "none", UNCHANGED <<greeter, calls>>,
             signals' \in {signals, signals \o <<"UserAuthorized">>, signals \o <<"Query">>},
             worker' \in {worker, [worker EXCEPT !.call = "none"], [worker EXCEPT !.call = "answer"]},
             sess'.conn = sess.conn,
             sess'.user = IF worker.call = "UsernameChanged" THEN worker.user ELSE sess.user,
             worker' = worker => worker.call # "UsernameChanged",
             Lacks(inbox, Setups) => Lacks(inbox', Setups)
      PROVE  NamesAgree'
  <2>1. UnderWay /\ WindowDone /\ worker.pc = "up"
    BY <1>0, <1>1 DEF NamesAgree, NotBegun, SetupSent, Blank
  <2>2. Lacks(signals', ReadySignal)
    <3>1. \A x \in {"UserAuthorized", "Query"} :
            x \in Signals /\ x \notin ReadySignal
      BY DEF Signals, ReadySignal
    <3>2. ASSUME NEW x \in {"UserAuthorized", "Query"}
          PROVE  Lacks(signals \o <<x>>, ReadySignal)
      <4>1. x \in Signals /\ x \notin ReadySignal /\ Lacks(signals, ReadySignal)
        BY <2>1, <3>1 DEF WindowDone
      <4>2. /\ signals \o <<x>> = Append(signals, x)
            /\ Lacks(signals, ReadySignal) /\ x \notin ReadySignal
                 => Lacks(Append(signals, x), ReadySignal)
        BY <1>0, <4>1, ListMore
      <4> QED
        BY <4>1, <4>2
    <3> QED
      BY <1>1, <2>1, <3>2 DEF WindowDone
  <2>3. worker'.pc = "up" /\ worker'.user = worker.user
        /\ (worker'.call # "UsernameChanged" \/ worker' = worker)
    BY <1>0, <1>1, <2>1 DEF WorkerRecord
  <2>4. UnderWay' /\ WindowDone'
    BY <1>1, <2>1, <2>2, <2>3 DEF UnderWay, WindowDone
  <2> QED
    BY <1>0, <1>1, <2>2, <2>3, <2>4, ListShort DEF NamesAgree, WindowOnce, HasServer, WindowDone
<1>2. CASE SetupComplete \/ Authenticated \/ Accredited
  <2>1. PICK n \in {"Authenticate", "Authorize", "OpenSession"} : inbox' = Asked(n)
    BY <1>2 DEF SetupComplete, Authenticated, Accredited, Proceed
  <2>2. /\ worker' = [worker EXCEPT !.call = "none"]
        /\ worker.call \in {"SetupComplete", "Authenticated", "Accredited"}
        /\ greeter' = greeter /\ calls' = calls /\ signals' = signals /\ sess' = sess
    BY <1>2 DEF SetupComplete, Authenticated, Accredited, Proceed, Answered, greeterVars, slaveVars
  <2>3. n \in DOMAIN Needs \ {"Setup"}
    BY DEF Needs
  <2>4. Lacks(inbox, Setups) => Lacks(inbox', Setups)
    BY <2>1, <2>2, <2>3, AskedAgrees
  <2>5. worker' # worker
    BY <1>0, <2>2 DEF WorkerRecord
  <2> QED
    BY <1>1, <2>2, <2>4, <2>5
<1>3. CASE Authorized
  <2>1. /\ worker' = [worker EXCEPT !.call = "none"] /\ worker.call = "Authorized"
        /\ greeter' = greeter /\ calls' = calls /\ sess' = sess
        /\ inbox' \in {inbox, Asked("EstablishCredentials")}
        /\ signals' \in {signals, signals \o <<"UserAuthorized">>}
    BY <1>3 DEF Authorized, Accredit, Answered, Tell
  <2>2. "EstablishCredentials" \in DOMAIN Needs \ {"Setup"}
    BY DEF Needs
  <2>3. Lacks(inbox, Setups) => Lacks(inbox', Setups)
    BY <2>1, <2>2, AskedAgrees
  <2> QED
    BY <1>1, <2>1, <2>3
<1>4. CASE Opened \/ SessionStarted \/ StartFailed
  <2>1. /\ worker' = [worker EXCEPT !.call = "none"]
        /\ worker.call \in {"SessionOpened", "SessionStarted", "StartFailed"}
        /\ greeter' = greeter /\ calls' = calls /\ signals' = signals /\ inbox' = inbox
    BY <1>4 DEF Opened, SessionStarted, StartFailed, Answered, greeterVars
  <2>2. sess'.user = sess.user /\ sess'.conn = sess.conn
    BY <1>0, <1>4 DEF Opened, SessionStarted, StartFailed, slaveVars, Session
  <2> QED
    BY <1>1, <2>1, <2>2
<1>5. CASE UsernameChanged
  <2>1. /\ worker' = [worker EXCEPT !.call = "none"] /\ worker.call = "UsernameChanged"
        /\ greeter' = greeter /\ calls' = calls /\ signals' = signals /\ inbox' = inbox
        /\ sess'.user = worker.user /\ sess'.conn = sess.conn
    BY <1>0, <1>5 DEF UsernameChanged, Answered, greeterVars, Session
  <2>2. worker' # worker
    BY <1>0, <2>1 DEF WorkerRecord
  <2> QED
    BY <1>1, <2>1, <2>2
<1>6. CASE WorkerQuery
  <2>1. /\ worker' \in {worker, [worker EXCEPT !.call = "answer"]} /\ worker.call = "Query"
        /\ greeter' = greeter /\ calls' = calls /\ inbox' = inbox
        /\ signals' \in {signals, signals \o <<"Query">>}
    BY <1>6 DEF WorkerQuery, Tell
  <2>2. sess'.user = sess.user /\ sess'.conn = sess.conn
    BY <1>0, <1>6 DEF WorkerQuery, Session
  <2> QED
    BY <1>1, <2>1, <2>2
<1>7. CASE \E r, kind : GiveUp(r, kind)
  <2>1. /\ worker' = NoWorker /\ inbox' = <<>> /\ sess' = NoSession
        /\ greeter' = greeter /\ calls' = calls /\ signals' = signals
    BY <1>7 DEF GiveUp, DestroySession, greeterVars
  <2> QED
    BY <1>0, <2>1, FreshAgrees DEF WindowOnce, HasServer
<1>8. CASE ConversationStarted
  <2>1. /\ worker.pc = "starting" /\ worker' = [worker EXCEPT !.pc = "up"]
        /\ signals = <<>> /\ calls = <<>> /\ signals' = Tell(<<"Ready">> \o <<>>)
        /\ greeter' = greeter /\ calls' = calls /\ inbox' = inbox
        /\ sess' = [sess EXCEPT !.conn = TRUE]
    BY <1>0, <1>8 DEF ConversationStarted, BeginsItself, PromptLogin, WindowOnce
  <2>2. signals' \in {<<>>, <<"Ready">>}
    BY <2>1 DEF Tell
  <2>3. NotBegun /\ worker'.pc = "up" /\ sess'.user = sess.user
        /\ \A f \in {"state", "step", "idle", "call", "user"} : worker'[f] = worker[f]
    BY <1>0, <2>1 DEF NamesAgree, WorkerRecord, Session
  <2>4. NotBegun'
    BY <2>1, <2>3 DEF NotBegun, Blank
  <2> QED
    BY <1>0, <2>1, <2>2, <2>3, <2>4, ListShort DEF NamesAgree, WindowOnce, HasServer
<1>9. ~WorkerGone
  BY <1>0 DEF WorkerGone
<1> QED
  BY <1>2, <1>3, <1>4, <1>5, <1>6, <1>7, <1>8, <1>9
  DEF FromWorker, SetupFailed, AuthenticationFailed, AuthorizationFailed,
      AccreditationFailed, OpenFailed

\* A call of the window that begins nothing leaves the conversation where it is.
LEMMA CallAgrees ==
  ASSUME IInv, NamesAgree, calls # <<>>, calls' = Tail(calls), UNCHANGED <<greeter, signals>>,
         worker'.pc = worker.pc, sess'.conn = sess.conn,
         NotBegun => NotBegun', SetupSent => SetupSent', UnderWay => UnderWay'
  PROVE  NamesAgree'
<1>1. calls \in Seq(Call)
  BY DEF IInv, TypeOK, GreeterTypeOK
<1>2. /\ Lacks(calls, Begins) => Lacks(calls', Begins)
      /\ AtMostOne(calls, Begins) => AtMostOne(calls', Begins)
  BY <1>1, ListLess
<1> QED
  BY <1>2 DEF NamesAgree, WindowOnce, WindowDone, HasServer

LEMMA FromGreeterAgrees ==
  ASSUME IInv, NamesAgree, FromGreeter
  PROVE  NamesAgree'
<1>0. /\ worker \in WorkerRecord /\ greeter \in GreeterRecord /\ sess \in Session
      /\ inbox \in Seq(Request) /\ calls \in Seq(SoundCall) /\ calls \in Seq(Call)
      /\ (calls # <<>> => Head(calls) \in SoundCall)
  BY HeadTailProperties DEF IInv, TypeOK, WorkerTypeOK, GreeterTypeOK, CallsInv
<1>1. CASE GreeterConnected
  <2>1. /\ greeter.st = "starting" /\ greeter' = [greeter EXCEPT !.st = "up"]
        /\ worker' = NewWorker /\ worker.pc = "none" /\ inbox' = <<>> /\ inbox = <<>>
        /\ calls' = calls /\ signals' = signals /\ sess' = sess
    BY <1>1 DEF GreeterConnected, IInv, PairInv, WorkerInv, slaveVars
  <2>2. greeter'.mode = greeter.mode /\ greeter'.st = "up"
    BY <1>0, <2>1 DEF GreeterRecord
  <2>3. NotBegun /\ ~sess.conn
    BY <2>1 DEF NamesAgree
  <2>4. NotBegun'
    BY <2>1, <2>3 DEF NotBegun, Blank, NewWorker, NoWorker
  <2> QED
    BY <2>1, <2>2, <2>3, <2>4 DEF NamesAgree, WindowOnce, HasServer
<1>2. CASE SelectUser \/ Cancel
  <2>1. /\ calls # <<>> /\ calls' = Tail(calls)
        /\ UNCHANGED <<greeter, signals, worker, inbox, sess>>
    BY <1>2 DEF SelectUser, Cancel, Take, workerVars, slaveVars
  <2> QED
    BY <2>1, CallAgrees DEF NotBegun, SetupSent, UnderWay, Blank
<1>3. CASE BeginVerification \/ BeginVerificationForUser \/ BeginAutoLogin
  <2>1. /\ calls # <<>> /\ calls' = Tail(calls) /\ UNCHANGED <<greeter, signals, worker>>
        /\ Head(calls) \in Begins
    BY <1>0, <1>3 DEF BeginVerification, BeginVerificationForUser, BeginAutoLogin,
       SetupForUser, Take, Begins, SoundCall
  <2>2. /\ AtMostOne(calls, Begins) /\ ~Lacks(calls, Begins) /\ Lacks(calls', Begins)
        /\ AtMostOne(calls', Begins)
    BY <1>0, <2>1, ListLess, ListShort DEF NamesAgree, WindowOnce
  <2>3. NotBegun /\ WindowDone'
    BY <2>1, <2>2 DEF NamesAgree, WindowOnce, WindowDone
  <2>4. \/ NotBegun' /\ sess'.conn = sess.conn
        \/ /\ sess'.conn = sess.conn /\ worker.pc = "up"
           /\ inbox' = Append(inbox, [name |-> "Setup", user |-> sess'.user])
           /\ sess'.user \in User \cup {NoUser}
    <3>1. CASE BeginVerification
      BY <2>1, <2>3, <3>1 DEF BeginVerification, slaveVars, Asked, NotBegun, Blank
    <3>2. CASE BeginVerificationForUser \/ BeginAutoLogin
      <4>1. Head(calls).user \in User /\ SetupForUser(Head(calls).user)
        BY <1>0, <2>1, <3>2 DEF BeginVerificationForUser, BeginAutoLogin, Take, SoundCall
      <4>2. CASE sess.conn
        <5>1. worker.pc = "up"
          BY <4>2 DEF NamesAgree
        <5> QED
          BY <1>0, <4>1, <4>2, <5>1 DEF SetupForUser, Session
      <4>3. CASE ~sess.conn
        BY <2>1, <2>3, <4>1, <4>3 DEF SetupForUser, NotBegun, Blank
      <4> QED
        BY <4>2, <4>3
    <3> QED
      BY <1>3, <3>1, <3>2
  <2>5. CASE NotBegun' /\ sess'.conn = sess.conn
    BY <2>1, <2>2, <2>5 DEF NamesAgree, WindowOnce, HasServer
  <2>6. ASSUME sess'.conn = sess.conn, worker.pc = "up",
               inbox' = Append(inbox, [name |-> "Setup", user |-> sess'.user]),
               sess'.user \in User \cup {NoUser}
        PROVE  NamesAgree'
    <3> DEFINE r == [name |-> "Setup", user |-> sess'.user]
    <3>1. r \in Request /\ r.user = sess'.user
      BY <2>6 DEF Request, Needs
    <3> HIDE DEF r
    <3>2. /\ AtMostOne(inbox', Setups)
          /\ \A i \in 1 .. Len(inbox') : inbox'[i] \in Setups => inbox'[i] = r
      <4>1. inbox' = Append(inbox, r) /\ Lacks(inbox, Setups)
        BY <2>3, <2>6 DEF r, NotBegun
      <4>2. \A i \in 1 .. Len(inbox') :
              (i \in 1 .. Len(inbox) /\ inbox'[i] = inbox[i]) \/ (i = Len(inbox') /\ inbox'[i] = r)
        BY <1>0, <3>1, <4>1, ListMore
      <4> QED
        BY <1>0, <3>1, <4>1, <4>2, ListMore DEF Lacks
    <3>3. SetupSent'
      BY <2>1, <2>3, <3>1, <3>2 DEF SetupSent, NotBegun, Blank
    <3> QED
      BY <2>1, <2>2, <2>3, <2>6, <3>3 DEF NamesAgree, WindowOnce, HasServer
  <2> QED
    BY <2>4, <2>5, <2>6
<1>4. CASE AnswerQuery
  <2>1. /\ calls # <<>> /\ calls' = Tail(calls) /\ UNCHANGED <<greeter, signals, inbox>>
        /\ worker' = worker \/ (worker' = [worker EXCEPT !.call = "none"] /\ worker.call = "answer")
        /\ sess' = sess \/ sess' = [sess EXCEPT !.pending = FALSE]
    BY <1>4 DEF AnswerQuery, Take, Answered
  <2>2. sess'.user = sess.user /\ sess'.conn = sess.conn
    BY <1>0, <2>1 DEF Session
  <2>3. /\ worker'.pc = worker.pc /\ worker'.user = worker.user
        /\ worker.call = "UsernameChanged" => worker' = worker
        /\ Blank => worker' = worker
    BY <1>0, <2>1 DEF WorkerRecord, Blank
  <2> QED
    BY <2>1, <2>2, <2>3, CallAgrees DEF NotBegun, SetupSent, UnderWay, Blank
<1>5. CASE StartSessionWhenReady
  <2>1. /\ calls # <<>> /\ calls' = Tail(calls) /\ UNCHANGED <<greeter, signals, worker, sess>>
        /\ inbox' \in {inbox, Asked("EstablishCredentials")}
    BY <1>5 DEF StartSessionWhenReady, Take, Accredit
  <2>2. "EstablishCredentials" \in DOMAIN Needs \ {"Setup"}
    BY DEF Needs
  <2>3. /\ Lacks(inbox, Setups) => Lacks(inbox', Setups)
        /\ SetupSent => SetupSent'
    BY <2>1, <2>2, AskedAgrees
  <2> QED
    BY <2>1, <2>3, CallAgrees DEF NotBegun, UnderWay, Blank
<1> QED
  BY <1>1, <1>2, <1>3, <1>4, <1>5 DEF FromGreeter

\* The idles start the session that is open, or a conversation nobody has begun.
LEMMA IdleAgrees ==
  ASSUME IInv, NamesAgree, OpenInv, IdleNext
  PROVE  NamesAgree'
<1>0. /\ greeter \in GreeterRecord /\ calls \in Seq(Call) /\ signals \in Seq(Signals)
      /\ WindowOnce /\ HasServer
  BY DEF IInv, TypeOK, GreeterTypeOK, NamesAgree, WindowOnce
<1>1. CASE IdleReset
  <2>1. \E r \in {"AuthenticationFailed", "Reset"} : signals' = Tell(<<r>>)
    BY <1>0, <1>1 DEF IdleReset
  <2>2. /\ worker' = NewWorker /\ inbox' = <<>> /\ sess' = NewSession
        /\ calls' = calls /\ greeter' = greeter
    BY <1>0, <1>1 DEF IdleReset, ResetSession
  <2>3. /\ AtMostOne(signals, ReadySignal) => AtMostOne(signals', ReadySignal)
        /\ Lacks(signals, ReadySignal) => Lacks(signals', ReadySignal)
    <3>1. PICK r \in {"AuthenticationFailed", "Reset"} : signals' = Tell(<<r>>)
      BY <2>1
    <3>2. r \in Signals /\ r \notin ReadySignal
      BY DEF Signals, ReadySignal
    <3>3. /\ signals \o <<r>> = Append(signals, r)
          /\ Lacks(signals, ReadySignal) => Lacks(Append(signals, r), ReadySignal)
          /\ AtMostOne(signals, ReadySignal) => AtMostOne(Append(signals, r), ReadySignal)
      BY <1>0, <3>2, ListMore
    <3> QED
      BY <3>1, <3>3 DEF Tell
  <2>4. WindowOnce'
    BY <1>0, <2>2, <2>3 DEF WindowOnce, HasServer
  <2> QED
    BY <2>2, <2>4, FreshAgrees
<1>2. ASSUME HandOver, signals' = <<>>
      PROVE  /\ WindowOnce' /\ greeter'.mode = greeter.mode
             /\ Lacks(calls, Begins) => Lacks(calls', Begins)
             /\ Lacks(signals', ReadySignal)
  <2>1. greeter' = [greeter EXCEPT !.st = "stopped"]
    BY <1>0, <1>2 DEF HandOver
  <2>2. greeter'.mode = greeter.mode /\ greeter'.st = "stopped"
    BY <1>0, <2>1 DEF GreeterRecord
  <2>3. AtMostOne(calls', Begins) /\ (Lacks(calls, Begins) => Lacks(calls', Begins))
    <3>1. calls' = <<>> \/ (calls # <<>> /\ calls' = <<Head(calls)>>)
      BY <1>2 DEF HandOver
    <3>2. calls # <<>> /\ Lacks(calls, Begins) => Head(calls) \notin Begins
      BY <1>0, ListLess
    <3> QED
      BY <3>1, <3>2, ListShort
  <2>4. Lacks(signals', ReadySignal) /\ AtMostOne(signals', ReadySignal)
    BY <1>2, ListShort
  <2> QED
    BY <1>0, <2>2, <2>3, <2>4 DEF WindowOnce, HasServer
<1>3. CASE IdleStart
  <2>1. /\ HandOver /\ signals' = <<>> /\ worker' = worker /\ sess' = sess
        /\ inbox' = Asked("StartProgram") /\ idles = <<"start">>
    BY <1>3 DEF IdleStart
  <2>2. 1 \in 1 .. Len(idles) /\ idles[1] = "start"
    BY <2>1
  <2>3. worker.state = SESSION_OPENED /\ worker.pc = "up"
    BY <2>2, StartFindsSession DEF OpenedWaiting
  <2>4. UnderWay /\ WindowDone
    BY <2>3 DEF NamesAgree, NotBegun, SetupSent, Blank, NONE, SESSION_OPENED
  <2>5. "StartProgram" \in DOMAIN Needs \ {"Setup"}
    BY DEF Needs
  <2>6. Lacks(inbox', Setups)
    BY <2>1, <2>4, <2>5, AskedAgrees DEF UnderWay
  <2>7. UnderWay' /\ WindowDone' /\ WindowOnce'
    BY <1>2, <2>1, <2>4, <2>6 DEF UnderWay, WindowDone
  <2> QED
    BY <2>1, <2>3, <2>7 DEF NamesAgree
<1>4. CASE IdleMigrate
  <2>1. /\ worker' = NoWorker /\ inbox' = <<>> /\ sess' = NoSession
        /\ calls' = calls /\ greeter' = greeter /\ signals' = signals
    BY <1>4 DEF IdleMigrate, DestroySession, greeterVars
  <2> QED
    BY <1>0, <2>1, FreshAgrees DEF WindowOnce, HasServer
<1>5. CASE IdleStartThenReset
  <2>1. /\ HandOver /\ signals' = <<>> /\ worker' = NewWorker /\ inbox' = <<>>
        /\ sess' = NewSession
    BY <1>5 DEF IdleStartThenReset, ResetSession
  <2> QED
    BY <1>2, <2>1, FreshAgrees
<1>6. CASE IdleStartAborts
  BY <1>6 DEF IdleStartAborts, workerVars, greeterVars, NamesAgree, WindowOnce, WindowDone,
     HasServer, NotBegun, SetupSent, UnderWay, Blank
<1> QED
  BY <1>1, <1>3, <1>4, <1>5, <1>6 DEF IdleNext

-----------------------------------------------------------------------------
\* What the slave does for an account but the authorization of its session.
LEMMA RanWhat ==
  ASSUME NEW what, NEW for, NEW e \in Ran(what, for)
  PROVE  e.what = what
  BY DEF Ran, Did

\* The slave hands the display over to the account the worker has a session open for.
LEMMA HandsOver ==
  ASSUME IInv, NamesAgree, OpenInv, AuthorityForOwner, HandOver,
         NEW n \in 1 .. Len(idles), idles[n] = "start"
  PROVE  AuthorityForOwner'
<1>1. worker.state = SESSION_OPENED /\ worker.call = "none"
  BY StartFindsSession DEF OpenedWaiting
<1>2. sess.user = worker.user
  BY <1>1 DEF NamesAgree, NotBegun, SetupSent, UnderWay, Blank, NONE, SESSION_OPENED
<1>3. ASSUME NEW e \in effects', e.what = "authority"
      PROVE  e.user = e.owner /\ e.stage = SESSION_OPENED
  <2>1. e \in effects \/ e \in Ran("PostLogin", sess.user) \/ e = Did("authority", sess.user)
    BY <1>3 DEF HandOver
  <2>2. e \notin Ran("PostLogin", sess.user)
    BY <1>3, RanWhat
  <2>3. CASE e \in effects
    BY <1>3, <2>3 DEF AuthorityForOwner
  <2>4. CASE e = Did("authority", sess.user)
    BY <1>1, <1>2, <2>4 DEF Did
  <2> QED
    BY <2>1, <2>2, <2>3, <2>4
<1> QED
  BY <1>3 DEF AuthorityForOwner

\* Nobody else is given the display.
LEMMA AuthorityStep ==
  ASSUME IInv, NamesAgree, OpenInv, AuthorityForOwner, [Next]_vars
  PROVE  AuthorityForOwner'
<1>1. CASE effects' = effects
  BY <1>1 DEF AuthorityForOwner
<1>2. ASSUME \A e \in effects' : e \in effects \/ e.what # "authority"
      PROVE  AuthorityForOwner'
  BY <1>2 DEF AuthorityForOwner
<1>3. CASE FromWorker
  <2>1. CASE SessionStarted
    <3>1. effects' = effects \cup Ran("PreSession", sess.user)
      BY <2>1 DEF SessionStarted
    <3> QED
      BY <1>2, <3>1, RanWhat
  <2>2. CASE ~SessionStarted
    <3>1. effects' = effects
      BY <1>3, <2>2 DEF FromWorker, ConversationStarted, SetupComplete, SetupFailed, Authenticated,
         AuthenticationFailed, Authorized, AuthorizationFailed, Accredited, AccreditationFailed,
         Opened, OpenFailed, StartFailed, UsernameChanged, WorkerQuery, WorkerGone,
         Proceed, GiveUp, slaveVars
    <3> QED
      BY <1>1, <3>1
  <2> QED
    BY <2>1, <2>2
<1>4. CASE FromGreeter
  <2>1. effects' = effects
    BY <1>4 DEF FromGreeter, GreeterConnected, SelectUser, BeginVerification,
       BeginVerificationForUser, BeginAutoLogin, SetupForUser, AnswerQuery, Cancel,
       StartSessionWhenReady, slaveVars
  <2> QED
    BY <1>1, <2>1
<1>5. CASE IdleReset \/ IdleMigrate \/ IdleStartAborts
  BY <1>1, <1>5 DEF IdleReset, IdleMigrate, IdleStartAborts
<1>6. CASE IdleStart \/ IdleStartThenReset
  <2>1. HandOver /\ idles \in {<<"start">>, <<"start", "reset">>}
    BY <1>6 DEF IdleStart, IdleStartThenReset
  <2>2. 1 \in 1 .. Len(idles) /\ idles[1] = "start"
    BY <2>1
  <2> QED
    BY <2>1, <2>2, HandsOver
<1>7. CASE SessionEnds \/ DisplayEnds
  <2>1. \A e \in effects' : e \in effects \/ e \in Ran("PostLogin", sess.user)
                             \/ e \in Ran("PostSession", sess.user)
    BY <1>7 DEF SessionEnds, DisplayEnds, Stop
  <2>2. \A e \in effects' : e \in effects \/ e.what # "authority"
    BY <2>1, RanWhat
  <2> QED
    BY <1>2, <2>2
<1>8. CASE Processes \/ UNCHANGED vars
  BY <1>1, <1>8 DEF Processes, vars, slaveVars
<1> QED
  BY <1>3, <1>4, <1>5, <1>6, <1>7, <1>8 DEF Next, IdleNext

LEMMA InitOwner == Init /\ PromptChoice => OwnerInv
<1> SUFFICES ASSUME Init, PromptChoice PROVE OwnerInv
  OBVIOUS
<1>1. greeter = [NoGreeter EXCEPT !.st = "starting"] /\ worker = NoWorker /\ inbox = <<>>
      /\ calls = <<>> /\ signals = <<>> /\ sess = NewSession /\ effects = {}
  BY DEF Init, PromptChoice, PromptLogin
<1>2. WindowOnce
  BY <1>1, ListShort DEF WindowOnce, HasServer, NoGreeter
<1>3. NotBegun /\ ~sess.conn
  BY <1>1, ListShort DEF NotBegun, Blank, NoWorker, NewSession, NoSession
<1>4. AuthorityForOwner
  BY <1>1 DEF AuthorityForOwner
<1> QED
  BY <1>2, <1>3, <1>4, InitAccess DEF OwnerInv, NamesAgree, PromptChoice

LEMMA NextOwner == IInv /\ OwnerInv /\ PromptChoice /\ [Next]_vars => OwnerInv'
<1> SUFFICES ASSUME IInv, OwnerInv, PromptChoice, [Next]_vars PROVE NamesAgree'
  BY NextAccess, AuthorityStep DEF OwnerInv, AccessInv, PromptChoice
<1>0. /\ ChoiceOwn /\ OpenInv /\ NamesAgree /\ PromptLogin /\ PromptUser
      /\ "crash" \notin WorkerFaults
  BY DEF OwnerInv, AccessInv, PromptChoice, PromptLogin
<1>1. CASE FromWorker
  BY <1>0, <1>1, FromWorkerAgrees
<1>2. CASE FromGreeter
  BY <1>0, <1>2, FromGreeterAgrees
<1>3. CASE IdleNext
  BY <1>0, <1>3, IdleAgrees
<1>4. CASE SessionEnds \/ DisplayEnds \/ UNCHANGED vars
  <2>1. UNCHANGED <<worker, inbox, greeter, calls, signals, sess>>
    BY <1>4 DEF SessionEnds, DisplayEnds, Stop, vars, workerVars, greeterVars, slaveVars
  <2> QED
    BY <1>0, <2>1 DEF NamesAgree, WindowOnce, WindowDone, HasServer, NotBegun, SetupSent,
       UnderWay, Blank
<1>5. CASE WorkerNext /\ UNCHANGED <<greeterVars, slaveVars>>
  BY <1>0, <1>5, WorkerAgrees
<1>6. CASE (GreeterStep \/ UserStep) /\ UNCHANGED <<workerVars, slaveVars>>
  BY <1>0, <1>6, WindowAgrees
<1> QED
  BY <1>1, <1>2, <1>3, <1>4, <1>5, <1>6 DEF Next, Processes

\* With a prompt greeter and user, no timed login and no crash of the worker, the
\* display is given to the account the worker has a session open for and to no
\* other, whatever the user cancels and retries and however often, in whichever
\* step, PAM's modules rename the account meanwhile.
THEOREM AuthorityForOwner_Holds ==
  ASSUME PromptChoice
  PROVE  Spec => []AuthorityForOwner
<1>1. Init => IInv /\ OwnerInv
  BY InitIInv, InitOwner
<1>2. IInv /\ OwnerInv /\ [Next]_vars => (IInv /\ OwnerInv)'
  BY NextIInv, NextOwner
<1>3. OwnerInv => AuthorityForOwner
  BY DEF OwnerInv
<1> QED
  BY <1>1, <1>2, <1>3, PTL DEF Spec

-----------------------------------------------------------------------------
(***************************************************************************)
(* The display is never left blank.  A user who presses Escape only while    *)
(* asked something cancels while the worker waits for an answer, so no      *)
(* cancellation is on its way when a session opens, and none is left over    *)
(* when the greeter has been stopped.                                       *)
(***************************************************************************)
PatientLogin == PromptLogin /\ PatientUser /\ "fork" \notin WorkerFaults

NoQuery == Signals \ {"Query"}
Replies == {c \in SoundCall : c.name \in {"AnswerQuery", "Cancel"}}
Plain == SoundCall \ Replies
EndsIn(s, S, T) == \E t \in Seq(S), x \in T : s = Append(t, x)

\* The worker waits for an answer, and the window is not open for one: its
\* question is on the way to the window, or the reply on the way to the slave.
Asking == worker.call = "answer" /\ ~greeter.sensitive
QueryInv ==
  \/ signals \in Seq(NoQuery)
  \/ EndsIn(signals, NoQuery, {"Query"}) /\ Asking /\ calls \in Seq(Plain)
ReplyInv ==
  greeter.chosen # NoUser =>
    /\ \/ calls \in Seq(Plain)
       \/ EndsIn(calls, Plain, Replies) /\ Asking /\ signals \in Seq(NoQuery)
    /\ greeter.sensitive => worker.call = "answer"
QuestionInv == worker.pc = "up" => QueryInv /\ ReplyInv

\* While a worker starts the window is told to give up, or shows the list, or
\* waits for the worker.
FreshInv ==
  /\ greeter.st = "starting" => signals = <<>> /\ greeter.chosen = NoUser
  /\ worker.pc = "starting" =>
       \/ EndsIn(signals, Signals, {"Reset", "AuthenticationFailed"})
       \/ signals = <<>> /\ (greeter.chosen # NoUser => ~greeter.sensitive)

\* The reports after which the slave destroys the session.
Failures == {"SetupFailed", "AuthenticationFailed", "AuthorizationFailed",
             "AccreditationFailed", "OpenFailed"}
CallInv ==
  /\ worker.call \in Failures => worker.state = NONE
  /\ worker.call \in {"Query", "answer"} => worker.step # NONE
  /\ idles # <<>> /\ Head(idles) = "start" => idles = <<"start">>

\* After the greeter nothing is left that would take the session away.
StoppedInv ==
  greeter.st = "stopped" =>
    /\ idles = <<>> /\ calls \in Seq(Plain)
    /\ worker.state >= SESSION_OPENED \/ worker.call = "SessionExited"
    /\ worker.call # "SessionOpened"

PatientInv == QuestionInv /\ FreshInv /\ CallInv /\ StoppedInv

-----------------------------------------------------------------------------
\* A list with one special element, the last: one more, or the first one less.
LEMMA EndsMore ==
  ASSUME NEW S, NEW T, NEW s \in Seq(S), NEW x \in T
  PROVE  EndsIn(s \o <<x>>, S, T)
<1>1. s \o <<x>> = Append(s, x)
  OBVIOUS
<1> QED
  BY <1>1 DEF EndsIn

LEMMA EndsLess ==
  ASSUME NEW S, NEW T, NEW s, EndsIn(s, S, T)
  PROVE  /\ s # <<>>
         /\ \/ Head(s) \in T /\ Tail(s) = <<>>
            \/ Head(s) \in S /\ EndsIn(Tail(s), S, T)
<1>1. PICK t \in Seq(S), x \in T : s = Append(t, x)
  BY DEF EndsIn
<1>2. CASE t = <<>>
  <2>1. s = <<x>>
    BY <1>1, <1>2
  <2> QED
    BY <2>1
<1>3. CASE t # <<>>
  <2>1. s # <<>> /\ Head(s) = Head(t) /\ Tail(s) = Append(Tail(t), x)
    BY <1>1, <1>3
  <2>2. Head(t) \in S /\ Tail(t) \in Seq(S)
    BY <1>3, HeadTailProperties
  <2> QED
    BY <2>1, <2>2 DEF EndsIn
<1> QED
  BY <1>2, <1>3

\* The calls that reply to nothing.
LEMMA PlainCalls ==
  /\ <<>> \in Seq(Plain)
  /\ <<ACall("StartSessionWhenReady")>> \in Seq(Plain)
  /\ \A c \in Name \ {NoUser} : ChooseCalls(c) \in Seq(Plain)
<1>1. ACall("StartSessionWhenReady") \in Plain /\ ACall("BeginVerification") \in Plain
  BY CallsSound DEF Plain, Replies, ACall
<1>2. ASSUME NEW c \in Name \ {NoUser} PROVE ChooseCalls(c) \in Seq(Plain)
  <2>1. [name |-> "SelectUser", user |-> c] \in Plain
    BY DEF Plain, Replies, SoundCall, Call
  <2>2. [name |-> "BeginAutoLogin", user |-> TimedUser] \in Plain
    BY NamesAssumption DEF Plain, Replies, SoundCall, Call, Name
  <2>3. c \in User => [name |-> "BeginVerificationForUser", user |-> c] \in Plain
    BY DEF Plain, Replies, SoundCall, Call, Name
  <2> QED
    BY <1>1, <2>1, <2>2, <2>3 DEF ChooseCalls, Name
<1> QED
  BY <1>1, <1>2

\* Who is asked, or has a session opened, has been chosen in the window.
LEMMA AskedChosen ==
  ASSUME ChoiceOwn, CallInv
  PROVE  /\ worker.call \in {"Query", "answer"} => greeter.chosen # NoUser
         /\ OpenedWaiting => greeter.chosen # NoUser
  BY DEF ChoiceOwn, OwnWorker, Begun, CallInv, OpenedWaiting, NONE, SESSION_OPENED

\* Unless the worker waits for an answer nothing replies and nothing is open.
LEMMA NothingAsked ==
  ASSUME ChoiceOwn, QuestionInv, worker.pc = "up", worker.call # "answer"
  PROVE  /\ signals \in Seq(NoQuery)
         /\ greeter.chosen # NoUser => calls \in Seq(Plain) /\ ~greeter.sensitive
  BY DEF QuestionInv, QueryInv, ReplyInv, Asking

-----------------------------------------------------------------------------
\* What a step of the worker on its own does to its calls.
LEMMA WorkerMoves ==
  ASSUME IInv, WorkerNext, PatientLogin
  PROVE  /\ worker.pc = "up" /\ worker.call = "none"
         /\ worker'.pc = "up" /\ worker'.call # "answer"
         /\ worker'.call \in Failures => worker'.state = NONE
         /\ worker'.call = "Query" => worker'.step # NONE
         /\ worker.state >= SESSION_OPENED =>
              /\ worker'.call # "SessionOpened"
              /\ worker'.state >= SESSION_OPENED \/ worker'.call = "SessionExited"
<1> DEFINE Goal == /\ worker.pc = "up" /\ worker.call = "none"
                   /\ worker'.pc = "up" /\ worker'.call # "answer"
                   /\ worker'.call \in Failures => worker'.state = NONE
                   /\ worker'.call = "Query" => worker'.step # NONE
                   /\ worker.state >= SESSION_OPENED =>
                        /\ worker'.call # "SessionOpened"
                        /\ worker'.state >= SESSION_OPENED \/ worker'.call = "SessionExited"
<1> SUFFICES Goal
  OBVIOUS
<1> USE DEF NONE, SETUP_COMPLETE, AUTHENTICATED, AUTHORIZED, ACCREDITED,
            SESSION_OPENED, SESSION_STARTED
<1>0. /\ worker \in WorkerRecord /\ worker.state \in 0 .. 6 /\ worker.step \in 0 .. 6
      /\ worker.step # 0 => worker.step = worker.state + 1
  BY DEF IInv, TypeOK, WorkerTypeOK, WorkerRecord, States, WorkerInv
<1>1. CASE OnRequest
  <2>1. /\ \A f \in {"pc", "state", "step", "call"} : worker'[f] = worker[f]
        /\ Listening
    BY <1>0, <1>1 DEF OnRequest, WorkerRecord
  <2> QED
    BY <1>0, <2>1 DEF Listening, Failures
<1>2. CASE StateChangeIdle
  <2>1. /\ \A f \in {"pc", "state", "call"} : worker'[f] = worker[f]
        /\ Listening
    BY <1>0, <1>2 DEF StateChangeIdle, WorkerRecord
  <2> QED
    BY <1>0, <2>1 DEF Listening, Failures
<1>3. ASSUME NEW k \in 1 .. 6, NEW ok \in BOOLEAN, StepEnds(k, ok), k = 6 => ok
      PROVE  Goal
  <2>1. /\ worker'.pc = worker.pc /\ worker'.state = IF ok THEN k ELSE 0
        /\ worker'.call = IF ok THEN Completed[k] ELSE Failed[k]
        /\ Running(k)
    BY <1>0, <1>3 DEF StepEnds, WorkerRecord
  <2>2. /\ Completed[k] \notin Failures \cup {"answer", "Query"}
        /\ Failed[k] \notin {"answer", "Query", "SessionOpened"}
        /\ k # 5 => Completed[k] # "SessionOpened"
    BY DEF Completed, Failed, Failures
  <2>3. worker.state + 1 = k
    BY <1>0, <2>1 DEF Running
  <2> QED
    BY <1>0, <1>3, <2>1, <2>2, <2>3 DEF Running
<1>4. CASE \/ DoSetup \/ DoAuthenticate \/ DoAuthorize
           \/ DoAccredit \/ DoOpenSession \/ DoStartSession
  <2>1. PICK k \in 1 .. 6, ok \in BOOLEAN : StepEnds(k, ok) /\ (k = 6 => ok)
    BY <1>4 DEF DoSetup, DoAuthenticate, DoAuthorize, DoAccredit, DoOpenSession,
                DoStartSession, PatientLogin
  <2> QED
    BY <1>3, <2>1
<1>5. CASE PamAsks
  <2>1. /\ \A f \in {"pc", "state", "step"} : worker'[f] = worker[f]
        /\ worker'.call = "Query"
    BY <1>0, <1>5 DEF PamAsks, WorkerRecord
  <2>2. /\ worker.pc = "up" /\ worker.call = "none" /\ worker.step \in 2 .. 5
    BY <1>5, AskingAssumption DEF PamAsks, Running
  <2> QED
    BY <1>0, <2>1, <2>2 DEF Failures
<1>6. CASE UpdateUsername
  <2>1. /\ \A f \in {"pc", "state", "step"} : worker'[f] = worker[f]
        /\ worker'.call = "UsernameChanged" /\ worker.pc = "up" /\ worker.call = "none"
    BY <1>0, <1>6 DEF UpdateUsername, Running, WorkerRecord
  <2> QED
    BY <1>0, <2>1 DEF Failures, Running
<1>7. CASE ChildWatch
  <2>1. /\ worker'.pc = worker.pc /\ worker'.call = "SessionExited" /\ Listening
    BY <1>0, <1>7 DEF ChildWatch, WorkerRecord
  <2> QED
    BY <1>0, <2>1 DEF Failures, Listening
<1>8. ~WorkerCrashes
  BY DEF WorkerCrashes, PatientLogin, PromptLogin
<1> QED
  BY <1>1, <1>2, <1>4, <1>5, <1>6, <1>7, <1>8 DEF WorkerNext, WorkerStep

\* The worker goes on.
LEMMA WorkerPatient ==
  ASSUME IInv, ChoiceOwn, PatientInv, WorkerNext, UNCHANGED <<greeterVars, slaveVars>>,
         PatientLogin
  PROVE  PatientInv'
<1>1. /\ greeter' = greeter /\ calls' = calls /\ signals' = signals /\ idles' = idles
  BY DEF greeterVars, slaveVars
<1>2. /\ worker.pc = "up" /\ worker.call = "none"
      /\ worker'.pc = "up" /\ worker'.call # "answer"
      /\ worker'.call \in Failures => worker'.state = NONE
      /\ worker'.call = "Query" => worker'.step # NONE
      /\ worker.state >= SESSION_OPENED =>
           /\ worker'.call # "SessionOpened"
           /\ worker'.state >= SESSION_OPENED \/ worker'.call = "SessionExited"
  BY WorkerMoves
<1>3. QuestionInv'
  <2>1. /\ signals \in Seq(NoQuery)
        /\ greeter.chosen # NoUser => calls \in Seq(Plain) /\ ~greeter.sensitive
    BY <1>2, NothingAsked DEF PatientInv
  <2> QED
    BY <1>1, <2>1 DEF QuestionInv, QueryInv, ReplyInv
<1>4. FreshInv'
  BY <1>1, <1>2 DEF PatientInv, FreshInv
<1>5. CallInv' /\ StoppedInv'
  BY <1>1, <1>2 DEF PatientInv, CallInv, StoppedInv
<1> QED
  BY <1>3, <1>4, <1>5 DEF PatientInv

-----------------------------------------------------------------------------
\* The user chooses, answers or cancels.
LEMMA UserPatient ==
  ASSUME IInv, ChoiceOwn, PatientInv, UserStep, UNCHANGED <<workerVars, slaveVars>>,
         PatientUser
  PROVE  QuestionInv' /\ FreshInv'
<1>0. /\ greeter \in GreeterRecord /\ OwnWindow /\ worker' = worker /\ signals' = signals
      /\ greeter.st = "up" /\ greeter'.st = "up"
      /\ calls \in Seq(SoundCall) /\ signals \in Seq(Signals)
  BY WindowStep
  DEF IInv, TypeOK, GreeterTypeOK, CallsInv, WindowKept, ChoiceOwn, workerVars, UserStep,
      OnUserChosen, OnLoginButtonAnswer, DoCancel, TimedLoginTimer
<1>1. worker.call = "answer" => greeter.chosen # NoUser
  BY AskedChosen DEF PatientInv
<1>2. ASSUME ~greeter'.sensitive, calls' \in Seq(Plain) PROVE QuestionInv' /\ FreshInv'
  <2>1. QueryInv \/ worker.pc # "up"
    BY DEF PatientInv, QuestionInv
  <2>2. QueryInv' \/ worker.pc # "up"
    BY <1>0, <1>2, <2>1 DEF QueryInv, Asking
  <2>3. QuestionInv'
    BY <1>0, <1>2, <2>2 DEF QuestionInv, ReplyInv
  <2>4. FreshInv'
    BY <1>0, <1>2 DEF PatientInv, FreshInv
  <2> QED
    BY <2>3, <2>4
<1>3. ASSUME ~greeter'.sensitive, greeter.sensitive, greeter'.chosen = greeter.chosen,
             EndsIn(calls', Plain, Replies)
      PROVE  QuestionInv' /\ FreshInv'
  <2>1. worker.pc = "up" => signals \in Seq(NoQuery)
    BY <1>3 DEF PatientInv, QuestionInv, QueryInv, Asking
  <2>2. worker.pc = "up" /\ greeter.chosen # NoUser => worker.call = "answer"
    BY <1>3 DEF PatientInv, QuestionInv, ReplyInv
  <2>3. QuestionInv'
    BY <1>0, <1>3, <2>1, <2>2 DEF QuestionInv, QueryInv, ReplyInv, Asking
  <2>4. FreshInv'
    BY <1>0, <1>3 DEF PatientInv, FreshInv
  <2> QED
    BY <2>3, <2>4
<1>4. CASE OnUserChosen
  <2>1. PICK c \in User \cup {OtherItem} \cup (IF greeter.auto THEN {AutoItem} ELSE {}) :
          greeter' = Choosing(greeter, c) /\ calls' = ChooseCalls(c)
    BY <1>4 DEF OnUserChosen
  <2>2. c \in User \cup {OtherItem} /\ c # AutoItem /\ c \in Name \ {NoUser}
    BY <1>0, NamesAssumption DEF OwnWindow, Name
  <2>3. ~greeter'.sensitive
    BY <1>0, <2>1, <2>2 DEF Choosing, GreeterRecord
  <2>4. calls' \in Seq(Plain)
    BY <2>1, <2>2, PlainCalls
  <2> QED
    BY <1>2, <2>3, <2>4
<1>5. \A n \in {"AnswerQuery", "Cancel"} : ACall(n) \in Replies
  BY CallsSound DEF Replies, ACall
<1>6. CASE OnLoginButtonAnswer
  <2>1. ~greeter'.sensitive /\ greeter.sensitive /\ greeter'.chosen = greeter.chosen
    BY <1>0, <1>6 DEF OnLoginButtonAnswer, GreeterRecord
  <2>2. EndsIn(calls', Plain, Replies)
    <3>1. PICK before \in {<<>>, <<ACall("StartSessionWhenReady")>>} :
            calls' = before \o <<ACall("AnswerQuery")>>
      BY <1>6 DEF OnLoginButtonAnswer
    <3>2. before \in Seq(Plain)
      BY PlainCalls
    <3> QED
      BY <1>5, <3>1, <3>2, EndsMore
  <2> QED
    BY <1>3, <2>1, <2>2
<1>7. CASE DoCancel
  <2>1. ~greeter'.sensitive /\ greeter.sensitive /\ greeter'.chosen = greeter.chosen
    BY <1>0, <1>7 DEF DoCancel, GreeterRecord
  <2>2. EndsIn(calls', Plain, Replies)
    <3>1. calls' = <<>> \o <<ACall("Cancel")>>
      BY <1>7 DEF DoCancel
    <3> QED
      BY <1>5, <3>1, PlainCalls, EndsMore
  <2> QED
    BY <1>3, <2>1, <2>2
<1>8. CASE TimedLoginTimer
  <2>1. ~greeter'.sensitive /\ calls' \in {<<>>, <<ACall("StartSessionWhenReady")>>}
    BY <1>0, <1>8 DEF TimedLoginTimer, GreeterRecord
  <2> QED
    BY <1>2, <2>1, PlainCalls
<1> QED
  BY <1>4, <1>6, <1>7, <1>8 DEF UserStep

\* The window dispatches a signal of the slave.
LEMMA GreeterPatient ==
  ASSUME IInv, ChoiceOwn, PatientInv, GreeterStep, UNCHANGED <<workerVars, slaveVars>>
  PROVE  QuestionInv' /\ FreshInv'
<1>0. /\ greeter \in GreeterRecord /\ OwnWindow /\ SignalsOwn /\ worker' = worker
      /\ greeter.st = "up" /\ greeter'.st = "up" /\ calls = <<>>
      /\ worker.pc = "up" => QueryInv /\ ReplyInv
  BY WindowStep
  DEF IInv, TypeOK, GreeterTypeOK, WindowKept, ChoiceOwn, workerVars, GreeterStep, Dispatch,
      OnReady, OnReset, OnAuthenticationFailed, OnQuery, OnUserAuthorized,
      OnTimedLoginRequested, AtRest, PatientInv, QuestionInv
<1>1. worker.call = "answer" => greeter.chosen # NoUser /\ worker.pc = "up"
  BY AskedChosen DEF PatientInv, IInv, WorkerInv
<1>2. ASSUME NEW s, Dispatch(s)
      PROVE  /\ s \in OwnSignals
             /\ worker.pc = "up" =>
                  /\ s \in QuietSignals
                  /\ \/ s # "Query" /\ signals' \in Seq(NoQuery)
                     \/ s = "Query" /\ signals' = <<>> /\ Asking
                     \/ s # "Query" /\ EndsIn(signals', NoQuery, {"Query"}) /\ Asking
             /\ worker.pc = "starting" =>
                  \/ signals' = <<>> /\ s \in {"Reset", "AuthenticationFailed"}
                  \/ EndsIn(signals', Signals, {"Reset", "AuthenticationFailed"})
  <2>1. signals # <<>> /\ signals' = Tail(signals) /\ Head(signals) = s
    BY <1>2 DEF Dispatch
  <2>2. s \in OwnSignals /\ (worker.pc = "up" => s \in QuietSignals)
    BY <1>0, <2>1, HeadTailProperties DEF SignalsOwn
  <2>3. signals \in Seq(NoQuery) => s # "Query" /\ signals' \in Seq(NoQuery)
    <3>1. signals \in Seq(NoQuery) => s \in NoQuery /\ signals' \in Seq(NoQuery)
      BY <2>1, HeadTailProperties
    <3> QED
      BY <3>1 DEF NoQuery
  <2>4. EndsIn(signals, NoQuery, {"Query"}) =>
          \/ s = "Query" /\ signals' = <<>>
          \/ s # "Query" /\ EndsIn(signals', NoQuery, {"Query"})
    BY <2>1, EndsLess DEF NoQuery
  <2>5. worker.pc = "starting" => EndsIn(signals, Signals, {"Reset", "AuthenticationFailed"})
    BY <2>1 DEF PatientInv, FreshInv
  <2>6. worker.pc = "starting" =>
          \/ signals' = <<>> /\ s \in {"Reset", "AuthenticationFailed"}
          \/ EndsIn(signals', Signals, {"Reset", "AuthenticationFailed"})
    BY <2>1, <2>5, EndsLess
  <2> QED
    BY <1>0, <2>2, <2>3, <2>4, <2>6 DEF QueryInv
<1>3. \A g : <<>> \in Seq(Plain) /\ ToSelectionCalls(g) \in Seq(Plain)
  BY PlainCalls DEF ToSelectionCalls
<1>4. ASSUME NEW s \in Signals \ {"Query", "Reset", "AuthenticationFailed"}, Dispatch(s),
             calls' \in Seq(Plain),
             \/ greeter'.chosen = greeter.chosen /\ greeter'.sensitive = greeter.sensitive
             \/ ~greeter'.sensitive
             \/ greeter'.chosen = NoUser /\ greeter.chosen = NoUser
      PROVE  QuestionInv' /\ FreshInv'
  <2>1. worker.pc = "up" => QueryInv'
    BY <1>0, <1>1, <1>2, <1>4 DEF QueryInv, Asking
  <2>2. worker.pc = "up" => ReplyInv'
    BY <1>0, <1>4 DEF ReplyInv
  <2>3. FreshInv'
    BY <1>0, <1>2, <1>4 DEF FreshInv
  <2> QED
    BY <1>0, <2>1, <2>2, <2>3 DEF QuestionInv
<1>5. ASSUME NEW s \in {"Reset", "AuthenticationFailed"}, Dispatch(s),
             greeter'.chosen = NoUser \/ ~greeter'.sensitive
      PROVE  QuestionInv' /\ FreshInv'
  <2>1. worker.pc # "up"
    BY <1>2, <1>5 DEF QuietSignals
  <2>2. FreshInv'
    BY <1>0, <1>2, <1>5 DEF FreshInv
  <2> QED
    BY <1>0, <2>1, <2>2 DEF QuestionInv
<1>6. CASE OnReady
  <2>1. CASE greeter.mode = "auth" /\ greeter.chosen # NoUser
    <3>1. greeter' = Choosing(greeter, greeter.chosen) /\ calls' = ChooseCalls(greeter.chosen)
      BY <1>6, <2>1 DEF OnReady
    <3>2. greeter.chosen \in Name \ {NoUser} /\ greeter.chosen # AutoItem
      BY <1>0, <2>1, NamesAssumption DEF OwnWindow, Name
    <3>3. ~greeter'.sensitive /\ calls' \in Seq(Plain)
      BY <1>0, <3>1, <3>2, PlainCalls DEF Choosing, GreeterRecord
    <3> QED
      BY <1>4, <1>6, <3>3 DEF OnReady, Signals
  <2>2. CASE ~(greeter.mode = "auth" /\ greeter.chosen # NoUser)
    <3>1. greeter.chosen = NoUser
      BY <1>0, <2>2 DEF OwnWindow
    <3>2. greeter'.chosen = greeter.chosen /\ calls' = <<>>
      BY <1>0, <1>6, <2>2 DEF OnReady, GreeterRecord
    <3> QED
      BY <1>3, <1>4, <1>6, <3>1, <3>2 DEF OnReady, Signals
  <2> QED
    BY <2>1, <2>2
<1>7. CASE OnReset
  <2>1. greeter'.chosen = NoUser
    BY <1>0, <1>7 DEF OnReset, ToSelection, GreeterRecord
  <2> QED
    BY <1>5, <1>7, <2>1 DEF OnReset
<1>8. CASE OnAuthenticationFailed
  <2>1. greeter'.chosen = NoUser \/ ~greeter'.sensitive
    BY <1>0, <1>8 DEF OnAuthenticationFailed, ToSelection, GreeterRecord
  <2> QED
    BY <1>5, <1>8, <2>1 DEF OnAuthenticationFailed
<1>9. CASE OnQuery
  <2>1. /\ greeter'.chosen = greeter.chosen /\ calls' = <<>>
    BY <1>0, <1>9 DEF OnQuery, GreeterRecord
  <2>2. worker.pc = "up" => signals' = <<>> /\ worker.call = "answer"
    BY <1>2, <1>9 DEF OnQuery, Asking
  <2>3. QuestionInv'
    <3>1. <<>> \in Seq(NoQuery)
      OBVIOUS
    <3> QED
      BY <1>0, <1>3, <2>1, <2>2, <3>1 DEF QuestionInv, QueryInv, ReplyInv
  <2>4. FreshInv'
    BY <1>0, <1>2, <1>9 DEF FreshInv, OnQuery
  <2> QED
    BY <2>3, <2>4
<1>10. CASE OnUserAuthorized
  <2>1. greeter'.chosen = greeter.chosen /\ greeter'.sensitive = greeter.sensitive
    BY <1>0, <1>10 DEF OnUserAuthorized, GreeterRecord
  <2>2. calls' \in Seq(Plain)
    BY <1>0, <1>3, <1>10, PlainCalls DEF OnUserAuthorized
  <2> QED
    BY <1>4, <1>10, <2>1, <2>2 DEF OnUserAuthorized, Signals
<1>11. ~OnTimedLoginRequested
  BY <1>2 DEF OnTimedLoginRequested, OwnSignals
<1> QED
  BY <1>6, <1>7, <1>8, <1>9, <1>10, <1>11 DEF GreeterStep

LEMMA WindowPatient ==
  ASSUME IInv, ChoiceOwn, PatientInv, GreeterStep \/ UserStep,
         UNCHANGED <<workerVars, slaveVars>>, PatientUser
  PROVE  PatientInv'
<1>1. QuestionInv' /\ FreshInv'
  BY UserPatient, GreeterPatient
<1>2. greeter'.st = "up"
  BY WindowStep DEF WindowKept, IInv, TypeOK
<1>3. CallInv' /\ StoppedInv'
  BY <1>2 DEF PatientInv, CallInv, StoppedInv, workerVars, slaveVars
<1> QED
  BY <1>1, <1>3 DEF PatientInv

-----------------------------------------------------------------------------
\* What the slave queues leaves a start alone in the queue.
LEMMA QueuePatient ==
  ASSUME IInv, CallInv, OpenInv
  PROVE  /\ QueueStart # <<>> /\ Head(QueueStart) = "start" => QueueStart = <<"start">>
         /\ ~OpenedWaiting => \A kind \in Resets :
              QueueReset(kind) # <<>> /\ Head(QueueReset(kind)) # "start"
<1>0. idles \in Seq(Idles)
  BY DEF IInv, TypeOK
<1>1. QueueStart # <<>> /\ Head(QueueStart) = "start" => QueueStart = <<"start">>
  <2>1. CASE idles = <<>>
    BY <2>1 DEF QueueStart
  <2>2. CASE idles # <<>>
    <3>1. Head(Append(idles, "start")) = Head(idles) /\ 1 \in 1 .. Len(idles) /\ idles[1] = Head(idles)
      BY <1>0, <2>2
    <3>2. Head(idles) = "start" => QueueStart = idles /\ idles = <<"start">>
      BY <2>2, <3>1 DEF QueueStart, CallInv
    <3> QED
      BY <3>1, <3>2 DEF QueueStart
  <2> QED
    BY <2>1, <2>2
<1>2. ASSUME NEW kind \in Resets, ~OpenedWaiting
      PROVE  QueueReset(kind) # <<>> /\ Head(QueueReset(kind)) # "start"
  <2>1. idles \in Seq(Resets)
    BY <1>2 DEF OpenInv
  <2>2. QueueReset(kind) \in Seq(Resets)
    BY <1>2, <2>1, ResetsMore
  <2>3. QueueReset(kind) # <<>>
    <3>1. Append(idles, kind) # <<>>
      BY <1>0, AppendProperties
    <3>2. idles = <<>> => ~\E i \in 1 .. Len(idles) : idles[i] \in {"reset", "authFailed"}
      OBVIOUS
    <3> QED
      BY <3>1, <3>2 DEF QueueReset
  <2>4. Head(QueueReset(kind)) \in Resets
    BY <2>2, <2>3, HeadTailProperties
  <2> QED
    BY <2>3, <2>4 DEF Resets
<1> QED
  BY <1>1, <1>2

\* The slave answers a report.
LEMMA AnsweredPatient ==
  ASSUME IInv, ChoiceOwn, PatientInv, greeter' = greeter, calls' = calls,
         worker.call \notin {"none", "answer", "SessionExited"},
         worker' = [worker EXCEPT !.call = "none"],
         signals' \in {signals, signals \o <<"UserAuthorized">>},
         \/ idles' = idles
         \/ /\ worker.call = "SessionOpened"
            /\ idles' # <<>> /\ Head(idles') = "start" => idles' = <<"start">>
  PROVE  PatientInv'
<1>0. worker.pc = "up" /\ greeter.st # "starting" /\ worker \in WorkerRecord
  BY DEF IInv, WorkerInv, PairInv, TypeOK, WorkerTypeOK
<1>1. worker'.pc = "up" /\ worker'.call = "none" /\ worker'.state = worker.state
  BY <1>0 DEF WorkerRecord
<1>2. /\ signals \in Seq(NoQuery)
      /\ greeter.chosen # NoUser => calls \in Seq(Plain) /\ ~greeter.sensitive
  BY <1>0, NothingAsked DEF PatientInv
<1>3. signals' \in Seq(NoQuery)
  <2>1. <<"UserAuthorized">> \in Seq(NoQuery)
    BY DEF NoQuery, Signals
  <2> QED
    BY <1>2, <2>1, ConcatProperties
<1>4. QuestionInv'
  BY <1>2, <1>3 DEF QuestionInv, QueryInv, ReplyInv
<1>5. FreshInv'
  BY <1>0, <1>1 DEF FreshInv
<1>6. CallInv' /\ StoppedInv'
  BY <1>1 DEF PatientInv, CallInv, StoppedInv, Failures
<1> QED
  BY <1>4, <1>5, <1>6 DEF PatientInv

\* The worker's question goes to the window.
LEMMA QueryPatient ==
  ASSUME IInv, ChoiceOwn, PatientInv, WorkerQuery
  PROVE  PatientInv'
<1>0. /\ worker.call = "Query" /\ worker \in WorkerRecord /\ worker.pc = "up"
      /\ greeter.st # "starting"
      /\ greeter' = greeter /\ calls' = calls /\ idles' = idles
  BY DEF WorkerQuery, IInv, WorkerInv, PairInv, TypeOK, WorkerTypeOK
<1>1. sess.pending = FALSE
  BY <1>0 DEF IInv, PairInv, TypeOK, Session
<1>2. worker' = [worker EXCEPT !.call = "answer"] /\ signals' = Tell(<<"Query">>)
  BY <1>1 DEF WorkerQuery
<1>3. /\ worker'.pc = "up" /\ worker'.call = "answer" /\ worker'.state = worker.state
      /\ worker'.step = worker.step
  BY <1>0, <1>2 DEF WorkerRecord
<1>4. greeter.chosen # NoUser
  BY <1>0, AskedChosen DEF PatientInv
<1>5. signals \in Seq(NoQuery) /\ calls \in Seq(Plain) /\ ~greeter.sensitive
  BY <1>0, <1>4, NothingAsked DEF PatientInv
<1>6. signals' = signals \/ EndsIn(signals', NoQuery, {"Query"})
  BY <1>2, <1>5, EndsMore DEF Tell
<1>7. QuestionInv'
  BY <1>0, <1>3, <1>5, <1>6 DEF QuestionInv, QueryInv, ReplyInv, Asking
<1>8. FreshInv'
  BY <1>0, <1>3 DEF FreshInv
<1>9. CallInv' /\ StoppedInv'
  BY <1>0, <1>3 DEF PatientInv, CallInv, StoppedInv, Failures
<1> QED
  BY <1>7, <1>8, <1>9 DEF PatientInv

\* The new worker is connected, and the window has caught up with it.
LEMMA StartPatient ==
  ASSUME IInv, ChoiceOwn, PatientInv, ConversationStarted, PatientLogin
  PROVE  PatientInv'
<1>0. /\ worker.pc = "starting" /\ worker \in WorkerRecord /\ worker.call = "none"
      /\ worker.state = NONE /\ calls = <<>> /\ signals = <<>>
      /\ worker' = [worker EXCEPT !.pc = "up"] /\ signals' = Tell(<<"Ready">> \o <<>>)
      /\ greeter' = greeter /\ calls' = calls /\ idles' = idles
  BY DEF ConversationStarted, PatientLogin, PromptLogin, IInv, WorkerInv, TypeOK, WorkerTypeOK
<1>1. worker'.pc = "up" /\ worker'.call = "none" /\ worker'.state = NONE
  BY <1>0 DEF WorkerRecord
<1>2. signals' \in {<<>>, <<"Ready">>}
  BY <1>0 DEF Tell
<1>3. signals' \in Seq(NoQuery)
  <2>1. <<>> \in Seq(NoQuery)
    OBVIOUS
  <2>2. <<"Ready">> \in Seq(NoQuery)
    BY DEF NoQuery, Signals
  <2> QED
    BY <1>2, <2>1, <2>2
<1>4. greeter.chosen # NoUser => ~greeter.sensitive
  BY <1>0, EndsLess DEF PatientInv, FreshInv
<1>5. QuestionInv'
  BY <1>0, <1>3, <1>4, PlainCalls DEF QuestionInv, QueryInv, ReplyInv
<1>6. greeter.st # "starting"
  BY <1>0 DEF IInv, PairInv
<1>7. greeter.st # "stopped"
  BY <1>0 DEF PatientInv, StoppedInv, NONE, SESSION_OPENED
<1> QED
  BY <1>0, <1>1, <1>5, <1>6, <1>7 DEF PatientInv, FreshInv, CallInv, StoppedInv, Failures

\* The session is given up after a failure.
LEMMA GiveUpPatient ==
  ASSUME IInv, OpenInv, PatientInv, NEW report \in Failures, NEW kind \in Resets,
         GiveUp(report, kind)
  PROVE  PatientInv'
<1>0. /\ worker.call = report /\ worker' = NoWorker /\ idles' = QueueReset(kind)
      /\ greeter' = greeter /\ calls' = calls /\ signals' = signals
  BY DEF GiveUp, DestroySession, greeterVars
<1>1. worker.call # "none" /\ worker.call # "SessionExited" /\ worker.state = NONE
  BY <1>0 DEF Failures, PatientInv, CallInv
<1>2. greeter.st \notin {"starting", "stopped"}
  BY <1>1 DEF PatientInv, StoppedInv, IInv, PairInv, WorkerInv, NONE, SESSION_OPENED
<1>3. idles' # <<>> /\ Head(idles') # "start"
  BY <1>0, <1>1, QueuePatient DEF PatientInv, OpenedWaiting
<1>4. worker'.pc = "none" /\ worker'.call = "none"
  BY <1>0 DEF NoWorker
<1> QED
  BY <1>0, <1>2, <1>3, <1>4
  DEF PatientInv, QuestionInv, FreshInv, CallInv, StoppedInv, Failures

LEMMA FromWorkerPatient ==
  ASSUME IInv, ChoiceOwn, OpenInv, PatientInv, FromWorker, PatientLogin
  PROVE  PatientInv'
<1>1. CASE \/ SetupComplete \/ Authenticated \/ Accredited \/ Authorized
           \/ SessionStarted \/ StartFailed \/ UsernameChanged
  <2>1. /\ greeter' = greeter /\ calls' = calls /\ idles' = idles
        /\ worker' = [worker EXCEPT !.call = "none"]
        /\ worker.call \notin {"none", "answer", "SessionExited"}
        /\ signals' \in {signals, signals \o <<"UserAuthorized">>}
    BY <1>1 DEF SetupComplete, Authenticated, Accredited, Authorized, Accredit, SessionStarted,
                StartFailed, UsernameChanged, Proceed, Answered, Tell, greeterVars, slaveVars
  <2> QED
    BY <2>1, AnsweredPatient
<1>2. CASE Opened
  <2>1. /\ greeter' = greeter /\ calls' = calls /\ idles' = QueueStart
        /\ worker' = [worker EXCEPT !.call = "none"]
        /\ worker.call = "SessionOpened" /\ signals' = signals
    BY <1>2 DEF Opened, Answered, greeterVars
  <2>2. idles' # <<>> /\ Head(idles') = "start" => idles' = <<"start">>
    BY <2>1, QueuePatient DEF PatientInv
  <2> QED
    BY <2>1, <2>2, AnsweredPatient
<1>3. CASE \E report \in Failures, kind \in Resets : GiveUp(report, kind)
  BY <1>3, GiveUpPatient
<1>4. ~WorkerGone
  BY DEF WorkerGone, ChoiceOwn
<1> QED
  BY <1>1, <1>2, <1>3, <1>4, StartPatient, QueryPatient
  DEF FromWorker, SetupFailed, AuthenticationFailed, AuthorizationFailed,
      AccreditationFailed, OpenFailed, Failures, Resets

-----------------------------------------------------------------------------
\* A call of the window that is no reply.
LEMMA CallPatient ==
  ASSUME IInv, ChoiceOwn, PatientInv, UNCHANGED <<greeter, signals, worker, idles>>,
         calls # <<>>, calls' = Tail(calls), Head(calls).name \notin {"AnswerQuery", "Cancel"}
  PROVE  PatientInv'
<1>1. Head(calls) \notin Replies
  BY DEF Replies
<1>2. calls \in Seq(Plain) => calls' \in Seq(Plain)
  BY HeadTailProperties
<1>3. EndsIn(calls, Plain, Replies) => EndsIn(calls', Plain, Replies)
  BY <1>1, EndsLess
<1>4. QuestionInv'
  BY <1>2, <1>3 DEF PatientInv, QuestionInv, QueryInv, ReplyInv, Asking
<1> QED
  BY <1>2, <1>4 DEF PatientInv, FreshInv, CallInv, StoppedInv

\* A reply is the last call, to the question that is open, or to none.
LEMMA ReplyLast ==
  ASSUME IInv, ChoiceOwn, PatientInv, calls # <<>>, Head(calls).name \in {"AnswerQuery", "Cancel"}
  PROVE  /\ ~(worker.pc = "up" /\ greeter.chosen # NoUser) \/
              (Tail(calls) = <<>> /\ Asking /\ signals \in Seq(NoQuery))
         /\ greeter.st # "stopped" /\ ~OpenedWaiting
<1>1. calls \notin Seq(Plain)
  <2>1. calls \in Seq(Plain) => Head(calls) \in Plain
    BY HeadTailProperties
  <2>2. Head(calls) \in Plain => Head(calls) \notin Replies /\ Head(calls) \in SoundCall
    BY DEF Plain
  <2> QED
    BY <2>1, <2>2 DEF Replies
<1>2. EndsIn(calls, Plain, Replies) => Tail(calls) = <<>>
  <2>1. Head(calls) \in Plain => Head(calls) \notin Replies /\ Head(calls) \in SoundCall
    BY DEF Plain
  <2> QED
    BY <2>1, EndsLess DEF Replies
<1>3. ~(worker.pc = "up" /\ greeter.chosen # NoUser) \/
        (Tail(calls) = <<>> /\ Asking /\ signals \in Seq(NoQuery))
  BY <1>1, <1>2 DEF PatientInv, QuestionInv, ReplyInv
<1>4. ~OpenedWaiting
  <2>1. OpenedWaiting => worker.pc = "up" /\ worker.call = "none"
    BY DEF OpenedWaiting, IInv, WorkerInv, NONE, SESSION_OPENED
  <2> QED
    BY <1>3, <2>1, AskedChosen DEF PatientInv, Asking
<1> QED
  BY <1>1, <1>3, <1>4 DEF PatientInv, StoppedInv

LEMMA AnswerPatient ==
  ASSUME IInv, ChoiceOwn, PatientInv, AnswerQuery
  PROVE  PatientInv'
<1>0. /\ calls # <<>> /\ Head(calls).name = "AnswerQuery" /\ calls' = Tail(calls)
      /\ greeter' = greeter /\ signals' = signals /\ idles' = idles
      /\ worker \in WorkerRecord /\ calls' \in Seq(SoundCall)
  BY HeadTailProperties DEF AnswerQuery, Take, IInv, TypeOK, WorkerTypeOK, CallsInv
<1>1. worker' = IF worker.call = "answer" THEN [worker EXCEPT !.call = "none"] ELSE worker
  BY DEF AnswerQuery, Answered, IInv, PairInv
<1>2. /\ worker'.pc = worker.pc /\ worker'.state = worker.state /\ worker'.step = worker.step
      /\ worker'.call # "answer"
      /\ worker'.call # worker.call => worker.call = "answer" /\ worker'.call = "none"
  BY <1>0, <1>1 DEF WorkerRecord
<1>3. /\ ~(worker.pc = "up" /\ greeter.chosen # NoUser) \/
           (calls' = <<>> /\ Asking /\ signals \in Seq(NoQuery))
      /\ greeter.st # "stopped"
  BY <1>0, ReplyLast
<1>4. QuestionInv'
  <2> SUFFICES ASSUME worker.pc = "up" PROVE QueryInv' /\ ReplyInv'
    BY <1>2 DEF QuestionInv
  <2>1. CASE greeter.chosen # NoUser
    BY <1>0, <1>3, <2>1, PlainCalls DEF QueryInv, ReplyInv, Asking
  <2>2. CASE greeter.chosen = NoUser
    <3>1. worker.call # "answer"
      BY <2>2, AskedChosen DEF PatientInv
    <3> QED
      BY <1>0, <2>2, <3>1, NothingAsked DEF PatientInv, QueryInv, ReplyInv
  <2> QED
    BY <2>1, <2>2
<1>5. FreshInv' /\ CallInv' /\ StoppedInv'
  BY <1>0, <1>2, <1>3 DEF PatientInv, FreshInv, CallInv, StoppedInv, Failures
<1> QED
  BY <1>4, <1>5 DEF PatientInv

LEMMA CancelPatient ==
  ASSUME IInv, ChoiceOwn, OpenInv, PatientInv, Cancel
  PROVE  PatientInv'
<1>0. /\ calls # <<>> /\ Head(calls).name = "Cancel" /\ calls' = Tail(calls)
      /\ greeter' = greeter /\ signals' = signals /\ worker' = worker
      /\ idles' = QueueReset("reset")
  BY DEF Cancel, Take, workerVars
<1>1. /\ ~(worker.pc = "up" /\ greeter.chosen # NoUser) \/
           (calls' = <<>> /\ Asking /\ signals \in Seq(NoQuery))
      /\ greeter.st # "stopped" /\ ~OpenedWaiting
  BY <1>0, ReplyLast
<1>2. QuestionInv'
  <2> SUFFICES ASSUME worker.pc = "up" PROVE QueryInv' /\ ReplyInv'
    BY <1>0 DEF QuestionInv
  <2>1. CASE greeter.chosen # NoUser
    <3>1. ReplyInv
      BY DEF PatientInv, QuestionInv
    <3> QED
      BY <1>0, <1>1, <2>1, <3>1, PlainCalls DEF QueryInv, ReplyInv, Asking
  <2>2. CASE greeter.chosen = NoUser
    <3>1. worker.call # "answer"
      BY <2>2, AskedChosen DEF PatientInv
    <3> QED
      BY <1>0, <2>2, <3>1, NothingAsked DEF PatientInv, QueryInv, ReplyInv
  <2> QED
    BY <2>1, <2>2
<1>3. FreshInv' /\ StoppedInv'
  BY <1>0, <1>1 DEF PatientInv, FreshInv, StoppedInv
<1>4. CallInv'
  <2>1. idles' # <<>> /\ Head(idles') # "start"
    BY <1>0, <1>1, QueuePatient DEF PatientInv, Resets
  <2> QED
    BY <1>0, <2>1 DEF PatientInv, CallInv
<1> QED
  BY <1>2, <1>3, <1>4 DEF PatientInv

LEMMA FromGreeterPatient ==
  ASSUME IInv, ChoiceOwn, OpenInv, PatientInv, FromGreeter
  PROVE  PatientInv'
<1>1. CASE GreeterConnected
  <2>1. /\ greeter' = [greeter EXCEPT !.st = "up"] /\ worker' = NewWorker
        /\ signals' = signals /\ calls' = calls /\ idles' = idles
        /\ greeter.st = "starting" /\ greeter \in GreeterRecord
    BY <1>1 DEF GreeterConnected, slaveVars, IInv, TypeOK, GreeterTypeOK
  <2>2. greeter'.st = "up" /\ greeter'.chosen = greeter.chosen
    BY <2>1 DEF GreeterRecord
  <2>3. worker'.pc = "starting" /\ worker'.call = "none"
    BY <2>1 DEF NewWorker, NoWorker
  <2>4. signals = <<>> /\ greeter.chosen = NoUser
    BY <2>1 DEF PatientInv, FreshInv
  <2> QED
    BY <2>1, <2>2, <2>3, <2>4 DEF PatientInv, QuestionInv, FreshInv, CallInv, StoppedInv, Failures
<1>2. CASE \/ SelectUser \/ BeginVerification \/ BeginVerificationForUser \/ BeginAutoLogin
           \/ StartSessionWhenReady
  <2>1. /\ calls # <<>> /\ calls' = Tail(calls)
        /\ Head(calls).name \notin {"AnswerQuery", "Cancel"}
        /\ UNCHANGED <<greeter, signals, worker, idles>>
    BY <1>2 DEF SelectUser, BeginVerification, BeginVerificationForUser, BeginAutoLogin,
                SetupForUser, StartSessionWhenReady, Accredit, Take, workerVars, slaveVars
  <2> QED
    BY <2>1, CallPatient
<1> QED
  BY <1>1, <1>2, AnswerPatient, CancelPatient DEF FromGreeter

\* The greeter is up when the slave runs an idle.
LEMMA IdleUp ==
  ASSUME IInv, ChoiceOwn, PatientInv, idles # <<>>
  PROVE  greeter.st = "up"
  BY DEF IInv, TypeOK, GreeterTypeOK, GreeterRecord, ResetInv, ChoiceOwn, OwnWindow, HasServer,
         PatientInv, StoppedInv

LEMMA IdlePatient ==
  ASSUME IInv, ChoiceOwn, OpenInv, PatientInv, IdleNext
  PROVE  PatientInv'
<1>0. /\ greeter \in GreeterRecord /\ HasServer /\ signals \in Seq(Signals)
      /\ worker \in WorkerRecord
  BY DEF IInv, TypeOK, GreeterTypeOK, WorkerTypeOK, ChoiceOwn, OwnWindow
<1>1. CASE IdleReset
  <2>1. /\ idles # <<>> /\ idles' = <<>> /\ calls' = calls /\ greeter' = greeter
        /\ worker' = NewWorker
    BY <1>0, <1>1 DEF IdleReset, ResetSession
  <2>2. greeter.st = "up"
    BY <2>1, IdleUp
  <2>3. PICK r \in {"Reset", "AuthenticationFailed"} : signals' = signals \o <<r>>
    BY <1>0, <1>1, <2>2 DEF IdleReset, Tell
  <2>4. EndsIn(signals', Signals, {"Reset", "AuthenticationFailed"})
    BY <1>0, <2>3, EndsMore
  <2>5. worker'.pc = "starting" /\ worker'.call = "none"
    BY <2>1 DEF NewWorker, NoWorker
  <2> QED
    BY <2>1, <2>2, <2>4, <2>5 DEF PatientInv, QuestionInv, FreshInv, CallInv, StoppedInv, Failures
<1>2. CASE IdleStart
  <2>1. /\ idles = <<"start">> /\ HandOver /\ signals' = <<>> /\ idles' = <<>> /\ worker' = worker
    BY <1>2 DEF IdleStart
  <2>2. OpenedWaiting /\ worker.pc = "up"
    <3>1. 1 \in 1 .. Len(idles) /\ idles[1] = "start"
      BY <2>1
    <3> QED
      BY <3>1, StartFindsSession
  <2>3. worker.state = SESSION_OPENED /\ worker.call = "none" /\ greeter.chosen # NoUser
    BY <2>2, AskedChosen DEF PatientInv, OpenedWaiting
  <2>4. greeter' = [greeter EXCEPT !.st = "stopped"]
    BY <1>0, <2>1 DEF HandOver
  <2>5. /\ greeter'.st = "stopped" /\ greeter'.chosen = greeter.chosen
        /\ greeter'.sensitive = greeter.sensitive
    BY <1>0, <2>4 DEF GreeterRecord
  <2>6. calls \in Seq(Plain) /\ ~greeter.sensitive
    BY <2>2, <2>3, NothingAsked DEF PatientInv
  <2>7. calls' \in Seq(Plain)
    <3>1. calls' = IF calls = <<>> THEN <<>> ELSE <<Head(calls)>>
      BY <2>1 DEF HandOver
    <3>2. calls # <<>> => Head(calls) \in Plain
      BY <2>6, HeadTailProperties
    <3>3. calls # <<>> => <<Head(calls)>> \in Seq(Plain)
      BY <3>2
    <3> QED
      BY <3>1, <3>3, PlainCalls
  <2>8. QuestionInv'
    <3>1. <<>> \in Seq(NoQuery)
      OBVIOUS
    <3> QED
      BY <2>1, <2>5, <2>6, <2>7, <3>1 DEF QuestionInv, QueryInv, ReplyInv
  <2>9. FreshInv' /\ CallInv' /\ StoppedInv'
    BY <2>1, <2>2, <2>3, <2>5, <2>7
    DEF FreshInv, CallInv, StoppedInv, Failures, NONE, SESSION_OPENED
  <2> QED
    BY <2>8, <2>9 DEF PatientInv
<1>3. CASE IdleMigrate
  <2>1. /\ idles # <<>> /\ idles' = <<"reset">> /\ calls' = calls /\ greeter' = greeter
        /\ signals' = signals /\ worker' = NoWorker
    BY <1>3 DEF IdleMigrate, DestroySession, greeterVars
  <2>2. greeter.st = "up"
    BY <2>1, IdleUp
  <2>3. worker'.pc = "none" /\ worker'.call = "none" /\ Head(idles') # "start"
    BY <2>1 DEF NoWorker
  <2> QED
    BY <2>1, <2>2, <2>3 DEF PatientInv, QuestionInv, FreshInv, CallInv, StoppedInv, Failures
<1>4. CASE IdleStartAborts
  BY <1>4 DEF IdleStartAborts, workerVars, greeterVars, PatientInv, QuestionInv, QueryInv,
              ReplyInv, Asking, FreshInv, CallInv, StoppedInv
<1>5. ~IdleStartThenReset
  <2>1. idles = <<"start", "reset">> => idles # <<>> /\ Head(idles) = "start" /\ idles # <<"start">>
    OBVIOUS
  <2> QED
    BY <2>1 DEF IdleStartThenReset, PatientInv, CallInv
<1> QED
  BY <1>1, <1>2, <1>3, <1>4, <1>5 DEF IdleNext

-----------------------------------------------------------------------------
LEMMA InitPatient == Init /\ PatientLogin => PatientInv
<1> SUFFICES ASSUME Init, PatientLogin PROVE PatientInv
  OBVIOUS
<1>1. /\ greeter = [NoGreeter EXCEPT !.st = "starting"] /\ worker = NoWorker
      /\ signals = <<>> /\ idles = <<>>
  BY DEF Init, PatientLogin, PromptLogin
<1>2. /\ greeter.st = "starting" /\ greeter.chosen = NoUser
      /\ worker.pc = "none" /\ worker.call = "none"
  BY <1>1 DEF NoGreeter, NoWorker
<1> QED
  BY <1>1, <1>2 DEF PatientInv, QuestionInv, FreshInv, CallInv, StoppedInv, Failures

LEMMA NextPatient ==
  IInv /\ AccessInv /\ PatientInv /\ PatientLogin /\ [Next]_vars => PatientInv'
<1> SUFFICES ASSUME IInv, ChoiceOwn, OpenInv, PatientInv, PatientLogin, [Next]_vars
             PROVE  PatientInv'
  BY DEF AccessInv
<1>1. CASE FromWorker
  BY <1>1, FromWorkerPatient
<1>2. CASE FromGreeter
  BY <1>2, FromGreeterPatient
<1>3. CASE IdleNext
  BY <1>3, IdlePatient
<1>4. CASE SessionEnds \/ DisplayEnds \/ UNCHANGED vars
  <2>1. UNCHANGED <<worker, greeter, calls, signals, idles>>
    BY <1>4 DEF SessionEnds, DisplayEnds, Stop, vars, workerVars, greeterVars, slaveVars
  <2> QED
    BY <2>1 DEF PatientInv, QuestionInv, QueryInv, ReplyInv, Asking, FreshInv, CallInv, StoppedInv
<1>5. CASE WorkerNext /\ UNCHANGED <<greeterVars, slaveVars>>
  BY <1>5, WorkerPatient
<1>6. CASE (GreeterStep \/ UserStep) /\ UNCHANGED <<workerVars, slaveVars>>
  BY <1>6, WindowPatient DEF PatientLogin
<1> QED
  BY <1>1, <1>2, <1>3, <1>4, <1>5, <1>6 DEF Next, Processes

\* What a patient login keeps.
LEMMA PatientAlways ==
  ASSUME PatientLogin
  PROVE  Spec => [](IInv /\ AccessInv /\ PatientInv)
<1>0. PromptLogin
  BY DEF PatientLogin
<1>1. Init => IInv /\ AccessInv /\ PatientInv
  BY <1>0, InitIInv, InitAccess, InitPatient
<1>2. IInv /\ AccessInv /\ PatientInv /\ [Next]_vars => (IInv /\ AccessInv /\ PatientInv)'
  BY <1>0, NextIInv, NextAccess, NextPatient
<1> QED
  BY <1>1, <1>2, PTL DEF Spec

\* When the user cancels only while asked something, the greeter is prompt and the
\* worker neither crashes nor fails to fork, the display is never left with neither
\* a greeter nor a session once the greeter has been stopped.
THEOREM NoBlankScreen_Holds ==
  ASSUME PatientLogin
  PROVE  Spec => []NoBlankScreen
<1>1. PatientInv => NoBlankScreen
  BY DEF PatientInv, StoppedInv, NoBlankScreen
<1> QED
  BY <1>1, PatientAlways, PTL

\* A started session is never taken away by what the slave does.
LEMMA SessionStays ==
  ASSUME IInv, ChoiceOwn, PatientInv, PatientLogin, [Next]_vars,
         worker.state = SESSION_STARTED, worker'.state # SESSION_STARTED
  PROVE  worker'.call = "SessionExited"
<1> USE DEF NONE, SETUP_COMPLETE, AUTHENTICATED, AUTHORIZED, ACCREDITED,
            SESSION_OPENED, SESSION_STARTED
<1>0. /\ worker \in WorkerRecord /\ worker.pc = "up" /\ worker.step \in 0 .. 6
      /\ worker.step # 0 => worker.step = worker.state + 1
  BY DEF IInv, TypeOK, WorkerTypeOK, WorkerInv, WorkerRecord, States
<1>1. greeter.st = "stopped"
  BY <1>0 DEF IInv, DisplayInv, HasGreeter, TypeOK, GreeterTypeOK, GreeterRecord,
              ChoiceOwn, OwnWindow, HasServer
<1>2. idles = <<>> /\ worker.call \notin Failures
  BY <1>1 DEF PatientInv, StoppedInv, CallInv
<1>3. ASSUME worker' = worker \/ \E k \in {"none", "answer"} : worker' = [worker EXCEPT !.call = k]
      PROVE  FALSE
  BY <1>0, <1>3 DEF WorkerRecord
<1>4. ~FromWorker
  <2>1. ~GiveUp("SetupFailed", "reset") /\ ~GiveUp("AuthenticationFailed", "authFailed")
        /\ ~GiveUp("AuthorizationFailed", "reset") /\ ~GiveUp("AccreditationFailed", "reset")
        /\ ~GiveUp("OpenFailed", "reset")
    BY <1>2 DEF GiveUp, Failures
  <2>2. ~ConversationStarted /\ ~WorkerGone
    BY <1>0 DEF ConversationStarted, WorkerGone
  <2>3. ~(\/ SetupComplete \/ Authenticated \/ Accredited \/ Authorized \/ Opened
          \/ SessionStarted \/ StartFailed \/ UsernameChanged \/ WorkerQuery)
    BY <1>3 DEF SetupComplete, Authenticated, Accredited, Authorized, Accredit, Opened,
                SessionStarted, StartFailed, UsernameChanged, WorkerQuery, Proceed, Answered
  <2> QED
    BY <2>1, <2>2, <2>3 DEF FromWorker, SetupFailed, AuthenticationFailed, AuthorizationFailed,
                            AccreditationFailed, OpenFailed
<1>5. ~FromGreeter
  <2>1. ~GreeterConnected
    BY <1>1 DEF GreeterConnected
  <2> QED
    BY <1>3, <2>1 DEF FromGreeter, SelectUser, BeginVerification, BeginVerificationForUser,
       BeginAutoLogin, SetupForUser, AnswerQuery, Answered, Cancel, StartSessionWhenReady,
       Accredit, workerVars
<1>6. ~IdleNext
  BY <1>2 DEF IdleNext, IdleReset, IdleStart, IdleMigrate, IdleStartAborts, IdleStartThenReset
<1>7. ~(SessionEnds \/ DisplayEnds \/ UNCHANGED vars)
  BY <1>3 DEF SessionEnds, DisplayEnds, Stop, vars, workerVars
<1>8. ~((GreeterStep \/ UserStep) /\ UNCHANGED <<workerVars, slaveVars>>)
  BY <1>3 DEF workerVars
<1>9. ASSUME WorkerNext PROVE worker'.call = "SessionExited"
  <2>1. worker'.state >= 5 \/ worker'.call = "SessionExited"
    BY <1>9, WorkerMoves
  <2>2. ASSUME NEW k \in 1 .. 6, NEW ok \in BOOLEAN, StepEnds(k, ok) PROVE FALSE
    BY <1>0, <2>2 DEF StepEnds, Running
  <2>3. CASE OnRequest \/ StateChangeIdle \/ PamAsks \/ UpdateUsername
    <3>1. worker'.state = worker.state
      BY <1>0, <2>3 DEF OnRequest, StateChangeIdle, PamAsks, UpdateUsername, WorkerRecord
    <3> QED
      BY <3>1
  <2>4. CASE ChildWatch
    BY <1>0, <2>4 DEF ChildWatch, WorkerRecord
  <2>5. ~WorkerCrashes
    BY DEF WorkerCrashes, PatientLogin, PromptLogin
  <2> QED
    BY <1>9, <2>2, <2>3, <2>4, <2>5 DEF WorkerNext, WorkerStep, DoSetup, DoAuthenticate,
       DoAuthorize, DoAccredit, DoOpenSession, DoStartSession
<1> QED
  BY <1>4, <1>5, <1>6, <1>7, <1>8, <1>9 DEF Next, Processes

\* Under the same conditions a session that has started ends by itself, never by
\* what the slave does for the login window.
THEOREM SessionUndisturbed_Holds ==
  ASSUME PatientLogin
  PROVE  Spec => SessionUndisturbed
<1>1. IInv /\ AccessInv /\ PatientInv /\ [Next]_vars =>
        [worker.state = SESSION_STARTED /\ worker'.state # SESSION_STARTED
           => worker'.call = "SessionExited" \/ worker'.pc = "dead"]_vars
  BY SessionStays DEF AccessInv
<1> QED
  BY <1>1, PatientAlways, PTL DEF Spec, SessionUndisturbed
=============================================================================
