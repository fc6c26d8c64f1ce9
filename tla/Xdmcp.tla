-------------------------------- MODULE Xdmcp --------------------------------
(***************************************************************************)
(* The XDMCP displays as a whole: the factories of XdmcpFactory, the        *)
(* network between them, the X terminals, the slaves on the terminals'      *)
(* displays, and the users who choose a host in a chooser.  The terminals   *)
(* are X servers, which are not in the repository: they send what the XDMCP *)
(* protocol says.  Packets are lost and overtake each other.                *)
(***************************************************************************)
EXTENDS XdmcpFactory

CONSTANTS
  Server,       \* the manager the terminals ask
  QueryTypes,   \* how: a subset of {"QUERY", "INDIRECT_QUERY"}
  Choices,      \* what is picked in a chooser: managers, an Unresolvable name
  Unresolvable, \* getaddrinfo does not know it
  PromptBus,    \* a choice is dispatched before any packet that came after it
  MaxTroubles   \* losses, repetitions, restarts, failures (a bound)

ASSUME ServerAssumption ==
  Server \in Manager /\ QueryTypes \subseteq {"QUERY", "INDIRECT_QUERY"}
ASSUME ChoicesAssumption ==
  Choices \subseteq Manager \cup {Unresolvable} /\ Unresolvable \notin Manager
ASSUME TroublesAssumption == MaxTroubles \in Nat

VARIABLES
  term,      \* the terminals
  bus,       \* per manager, HostnameSelected signals of its chooser slaves
  troubles   \* how many of MaxTroubles were used

vars == <<factoryVars, net, term, bus, troubles>>

Off == [phase |-> "off", ask |-> "QUERY", mgr |-> Server, sid |-> 0, slave |-> 0]
TerminalStates ==
  [phase : {"off", "query", "request", "manage", "up"},
   ask : {"QUERY", "INDIRECT_QUERY"},   \* how it was told to ask
   mgr : Manager, sid : Session \cup {0}, slave : Start \cup {0}]

Init ==
  /\ FactoryInit
  /\ term = [t \in Terminal |-> Off]
  /\ bus = [m \in Manager |-> <<>>]
  /\ troubles = 0

Trouble == troubles < MaxTroubles /\ troubles' = troubles + 1

-----------------------------------------------------------------------------
(* The managers: one callback at a time, while the daemon lives.            *)

\* A known session, and no slave for it: the fork failed.  Or a number that was
\* used, and no display for it: it could not be prepared.
SpawnFailed(p) == p.type = "MANAGE" /\ Known(p.to, p.sid) /\ disp' = disp
PrepareFailed == serial' # serial /\ disp' = disp

Dispatch(m) ==
  /\ m \notin crashed
  /\ PromptBus => bus[m] = <<>>
  /\ \E p \in net :
       /\ p.to = m /\ HandlePacket(p)
       /\ IF SpawnFailed(p) \/ PrepareFailed THEN Trouble ELSE UNCHANGED troubles
  /\ UNCHANGED <<term, bus>>

ResendForward(m) ==
  /\ m \notin crashed
  /\ \E i \in DOMAIN managed[m] : Resend(m, i)
  /\ UNCHANGED <<term, bus, troubles>>

DispatchChoice(m) ==
  /\ m \notin crashed
  /\ bus[m] # <<>>
  /\ HostnameSelected(m, Head(bus[m]).sid,
       IF Head(bus[m]).choice = Unresolvable THEN Unchosen ELSE Head(bus[m]).choice)
  /\ bus' = [bus EXCEPT ![m] = Tail(@)]
  /\ UNCHANGED <<term, troubles>>

DispatchChildWatch(m) ==
  /\ m \notin crashed
  /\ \E s \in Session, k \in Start : ChildWatch(m, s, k)
  /\ UNCHANGED <<term, bus, troubles>>

DispatchIdle(m) ==
  /\ m \notin crashed
  /\ \E s \in Session : FinishChooser(m, s) \/ FinishGreeter(m, s)
  /\ UNCHANGED <<term, bus, troubles>>

-----------------------------------------------------------------------------
(* The terminals.                                                           *)

\* The packet a terminal in phase "query", "request" or "manage" has sent.
Sent(t) ==
  CASE term[t].phase = "query" -> {Query(term[t].ask, Server, t)}
    [] term[t].phase = "request" -> {Request(term[t].mgr, t)}
    [] term[t].phase = "manage" -> {Manage(term[t].mgr, t, term[t].sid)}
    [] OTHER -> {}

\* The terminal starts, or resets because its session has ended.
Ask(t) ==
  /\ \E type \in QueryTypes :
       /\ \/ term[t].phase = "off"
          \/ /\ term[t].phase = "up" /\ type = term[t].ask
             /\ disp[term[t].mgr][term[t].sid].process[term[t].slave] # "running"
       /\ term' = [term EXCEPT ![t] = [Off EXCEPT !.phase = "query", !.ask = type]]
       /\ net' = net \cup {Query(type, Server, t)}
  /\ UNCHANGED <<factoryVars, bus, troubles>>

\* It is switched off, or gives up waiting.
SwitchOff(t) ==
  /\ Trouble
  /\ term[t].phase # "off"
  /\ term' = [term EXCEPT ![t] = Off]
  /\ UNCHANGED <<factoryVars, net, bus>>

\* No answer came in time: the packet is sent again.
Repeat(t) ==
  /\ Trouble
  /\ \E p \in Sent(t) : net' = net \cup {p}
  /\ UNCHANGED <<factoryVars, term, bus>>

\* The session was silent for long.
AskAlive(t) ==
  /\ Trouble
  /\ term[t].phase = "up"
  /\ net' = net \cup {KeepAlive(term[t].mgr, t, term[t].sid)}
  /\ UNCHANGED <<factoryVars, term, bus>>

\* What a terminal is waiting for.
Awaited(t, p) ==
  CASE p.type = "WILLING" -> term[t].phase = "query"
    [] p.type = "ACCEPT" -> term[t].phase = "request" /\ term[t].mgr = p.from
    [] p.type = "DECLINE" -> term[t].phase = "request" /\ term[t].mgr = p.from
    [] p.type = "REFUSE" -> /\ term[t].phase = "manage"
                            /\ term[t].mgr = p.from /\ term[t].sid = p.sid
    [] p.type = "ALIVE" -> /\ term[t].phase = "up" /\ term[t].mgr = p.from
                           /\ ~p.running

GetWilling(t, p) ==
  /\ p.type = "WILLING" /\ Awaited(t, p)
  /\ term' = [term EXCEPT ![t].phase = "request", ![t].mgr = p.from]
  /\ Answer(p, {Request(p.from, t)})

GetAccept(t, p) ==
  /\ p.type = "ACCEPT" /\ Awaited(t, p)
  /\ term' = [term EXCEPT ![t].phase = "manage", ![t].sid = p.sid]
  /\ Answer(p, {Manage(p.from, t, p.sid)})

\* A negative answer ends what the terminal was doing.
GetDenial(t, p) ==
  /\ p.type \in {"DECLINE", "REFUSE", "ALIVE"} /\ Awaited(t, p)
  /\ term' = [term EXCEPT ![t] = Off]
  /\ Answer(p, {})

\* An answer to nothing the terminal has asked is dropped.
GetStray(t, p) ==
  /\ ~Awaited(t, p)
  /\ Answer(p, {})
  /\ UNCHANGED term

Get(t) ==
  /\ \E p \in net :
       /\ p.to = t
       /\ GetWilling(t, p) \/ GetAccept(t, p) \/ GetDenial(t, p) \/ GetStray(t, p)
  /\ UNCHANGED <<factoryVars, bus, troubles>>

Lose(p) ==
  /\ Trouble
  /\ Answer(p, {})
  /\ UNCHANGED <<factoryVars, term, bus>>

-----------------------------------------------------------------------------
(* The slaves.                                                              *)

\* The slave opens the terminal's display: the session is up.
Connect(m, s, k) ==
  LET t == disp[m][s].term
  IN  /\ disp[m][s].process[k] = "running"
      /\ term[t].phase = "manage" /\ term[t].mgr = m /\ term[t].sid = s
      /\ term' = [term EXCEPT ![t].phase = "up", ![t].slave = k]
      /\ UNCHANGED <<factoryVars, net, bus, troubles>>

Serves(m, s, k) ==
  LET x == term[disp[m][s].term]
  IN  x.phase = "up" /\ x.mgr = m /\ x.sid = s /\ x.slave = k

\* The slave ends: its session is over, or it could not open the display, or it
\* has failed before that.
SlaveEnds(m, s, k) ==
  /\ disp[m][s].process[k] = "running"
  /\ IF Serves(m, s, k) THEN UNCHANGED troubles ELSE Trouble
  /\ disp' = [disp EXCEPT ![m][s].process[k] = "zombie"]
  /\ UNCHANGED <<store, serial, numSessions, indirect, forwards, managed,
                 crashed, net, term, bus>>

\* The user picks a host; the chooser ends after its slave has sent the signal.
Choose(m, s, k) ==
  /\ disp[m][s].process[k] = "running" /\ disp[m][s].chooser /\ Serves(m, s, k)
  /\ \E c \in Choices : bus' = [bus EXCEPT ![m] = Append(@, [sid |-> s, choice |-> c])]
  /\ disp' = [disp EXCEPT ![m][s].process[k] = "zombie"]
  /\ UNCHANGED <<store, serial, numSessions, indirect, forwards, managed,
                 crashed, net, term, troubles>>

Next ==
  \/ \E m \in Manager :
       \/ Dispatch(m) \/ ResendForward(m) \/ DispatchChoice(m)
       \/ DispatchChildWatch(m) \/ DispatchIdle(m)
  \/ \E t \in Terminal :
       Ask(t) \/ SwitchOff(t) \/ Repeat(t) \/ AskAlive(t) \/ Get(t)
  \/ \E p \in net : Lose(p)
  \/ \E m \in Manager, s \in Session, k \in Start :
       Connect(m, s, k) \/ SlaveEnds(m, s, k) \/ Choose(m, s, k)

Spec == Init /\ [][Next]_vars

-----------------------------------------------------------------------------
TypeOK ==
  /\ disp \in [Manager -> [Session -> Displays]]
  /\ store \in [Manager -> SUBSET Session]
  /\ serial \in [Manager -> Session \cup {0}]
  /\ numSessions \in [Manager -> Nat]
  /\ indirect \in [Manager -> [Host -> Clients]]
  /\ forwards \in [Manager -> Seq(Forwards)]
  /\ managed \in [Manager -> Seq(ManagedForwards)]
  /\ crashed \subseteq Manager
  /\ net \subseteq Packets
  /\ term \in [Terminal -> TerminalStates]
  /\ bus \in [Manager -> Seq([sid : Session, choice : Choices])]
  /\ troubles \in 0 .. MaxTroubles

\* A REQUEST that is repeated, or that comes from a terminal which was switched
\* off and on, takes the place of the display the terminal had
\* (display_dispose_check): the store of a manager has one display for a
\* terminal, and only displays that wait for a MANAGE or are served.
OneDisplayPerTerminal ==
  \A m \in Manager : \A r, s \in store[m] :
    /\ disp[m][r].status = "PREPARED"
    /\ disp[m][r].term = disp[m][s].term => r = s

\* The lists of forward_query_create, managed_forward and their lookups agree:
\* a manager that has been told, and is told again by the timer, is not one
\* whose newer query about the same host is still open.  Telling it about the
\* older query would drop the choice the newer one was made for.
ForwardsOnce ==
  \A m \in Manager :
    /\ \A i, j \in DOMAIN forwards[m] :
         HostOf(forwards[m][i].term) = HostOf(forwards[m][j].term) => i = j
    /\ \A i, j \in DOMAIN managed[m] :
         managed[m][i].to = managed[m][j].to /\ managed[m][i].host = managed[m][j].host
           => i = j
    /\ \A i \in DOMAIN managed[m], j \in DOMAIN forwards[m] :
         ~ (managed[m][i].to = forwards[m][j].from
            /\ managed[m][i].host = HostOf(forwards[m][j].term))

\* A user who chooses in a chooser is expected: as long as a chooser is on the
\* terminal, the factory holds a client for its host, so that the choice finds it
\* (on_hostname_selected does not ask).  Without lost or repeated packets,
\* restarts and late choices.
ChoiceExpected ==
  troubles = 0 /\ PromptBus =>
    /\ crashed = {}
    /\ \A m \in Manager, s \in Session, k \in Start :
         /\ disp[m][s].process[k] = "running"
         /\ disp[m][s].chooser
         /\ Serves(m, s, k)
         => indirect[m][HostOf(disp[m][s].term)] = Unchosen

-----------------------------------------------------------------------------
(***************************************************************************)
(* The promise of XdmcpSessions to the terminals.                           *)
(***************************************************************************)
DisplayOf(m, t) == {s \in store[m] : disp[m][s].term = t}

Sessions ==
  INSTANCE XdmcpSessions WITH
    given <- serial,
    current <- [m \in Manager |-> [t \in Terminal |->
                 IF DisplayOf(m, t) = {} THEN 0
                 ELSE CHOOSE s \in DisplayOf(m, t) : TRUE]],
    served <- [m \in Manager |->
                {s \in Session : \E k \in Start : disp[m][s].process[k] # "none"}]

\* Whatever is lost, repeated or overtaken: a session number is given once, to
\* one terminal, it is served only while it is the terminal's newest, and the
\* terminal loses it only when it was served or asks again.
SessionsKept == Sessions!Spec

-----------------------------------------------------------------------------
(***************************************************************************)
(* Fairness.  A main loop dispatches what stays ready.  A packet stays in   *)
(* the socket and a signal on the bus; each kind of source has its turn.  A *)
(* terminal goes on with what it has begun and resets when its session is   *)
(* over.  A slave that was started opens the display it was started for.    *)
(* Users, the ends of sessions and troubles are under no obligation.        *)
(***************************************************************************)
Fairness ==
  /\ \A m \in Manager :
       /\ WF_vars(Dispatch(m)) /\ WF_vars(DispatchChoice(m))
       /\ WF_vars(DispatchChildWatch(m)) /\ WF_vars(DispatchIdle(m))
  /\ \A t \in Terminal : WF_vars(Ask(t)) /\ WF_vars(Get(t))
  /\ \A m \in Manager, s \in Session, k \in Start : WF_vars(Connect(m, s, k))

FairSpec == Spec /\ Fairness

\* A greeter of c on a terminal of host h.
Greeted(h, c) ==
  \E t \in Terminal, s \in Session, k \in Start :
    /\ HostOf(t) = h /\ disp[c][s].term = t
    /\ Serves(c, s, k) /\ disp[c][s].process[k] = "running"
    /\ ~disp[c][s].chooser

\* Nothing is lost or fails, and no MANAGED_FORWARD is sent again while the answer
\* to it is on its way: the second one may arrive after the user's next choice,
\* and drop that.
Calm ==
  /\ troubles = 0
  /\ \A m, n \in Manager, h \in Host :
       ~ {ManagedForward(m, n, h), GotManagedForward(n, m, h)} \subseteq net

\* Who chose a host in the chooser gets a greeter of that host: the choice is kept
\* until the terminal has asked again, was forwarded and is served there.  In calm,
\* and unless the model has run out of sessions.
ChoiceReached ==
  []Calm =>
    \A c \in Manager \cap Choices, s \in Session :
      (bus[Server] # <<>> /\ Head(bus[Server]) = [sid |-> s, choice |-> c])
        ~> (Greeted(HostOf(disp[Server][s].term), c) \/ serial[c] = LastSession[c])
=============================================================================
