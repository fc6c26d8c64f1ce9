---------------------------- MODULE XdmcpFactory ----------------------------
(***************************************************************************)
(* MdmXdmcpDisplayFactory on several machines ("managers") that forward     *)
(* queries to each other, with the display objects it makes and their      *)
(* slaves.  Each packet that arrives is handled by one callback of the      *)
(* manager's main loop: one action, with everything it calls.  A packet     *)
(* that is malformed or comes from a host that tcp_wrappers ban is dropped  *)
(* before it changes anything, as a lost one is.                            *)
(*                                                                         *)
(* The code compares addresses without their ports, so it knows a terminal  *)
(* by its host, except where it answers it.                                 *)
(***************************************************************************)
EXTENDS Integers, Sequences, FiniteSets

CONSTANTS
  Manager,         \* the machines that run the factory
  Host,            \* the addresses of the X terminals; a manager may be one
  Number,          \* X display numbers in use on a host
  LastSession,     \* the displays each manager makes (a bound)
  MaxStarts,       \* slaves a display is given (a bound)
  MaxSessions,     \* max_displays
  MaxPending,      \* max_pending_displays
  MaxPerHost,      \* max_displays_per_host
  MaxForward,      \* MDM_MAX_FORWARD_QUERIES
  HonorIndirect,   \* honor_indirect
  LocalDisplay     \* the store also holds a display of the local factory

ASSUME LimitsAssumption ==
  /\ MaxSessions \in Nat /\ MaxPending \in Nat
  /\ MaxPerHost \in Nat /\ MaxForward \in Nat
  /\ HonorIndirect \in BOOLEAN /\ LocalDisplay \in BOOLEAN
ASSUME TerminalsAssumption == Host # {} /\ Number # {}
ASSUME BoundsAssumption ==
  LastSession \in [Manager -> Nat] /\ MaxStarts \in Nat

Session == UNION {1 .. LastSession[m] : m \in Manager}   \* session numbers
Start == 1 .. MaxStarts       \* the slaves of a display, in order

VARIABLES
  disp,         \* the display objects: they outlive the store, nobody unrefs them
  store,        \* the sessions whose display is in the MdmDisplayStore
  serial,       \* session_serial: the last number given
  numSessions,  \* num_sessions
  indirect,     \* indirect_clients: for each host, its IndirectClient
  forwards,     \* forward_queries, newest first
  managed,      \* managed_forwards, newest first
  crashed,      \* the managers whose daemon used a pointer it should not have
  net           \* packets on their way

factoryVars ==
  <<disp, store, serial, numSessions, indirect, forwards, managed, crashed>>

Terminal == Host \X Number
HostOf(t) == t[1]

\* No client; a client that has not chosen; resolved to the chosen manager.
NoClient == "none"
Unchosen == "unchosen"
ASSUME MarksAssumption == {NoClient, Unchosen} \cap Manager = {}
Clients == {NoClient, Unchosen} \cup Manager

\* "zombie": ended, child_watch not dispatched.  "killed": by kill_slave.
Processes == {"none", "running", "zombie", "reaped", "killed"}

Displays ==
  [status : {"absent", "PREPARED", "FINISHED", "FAILED", "UNMANAGED"},
   term : Terminal, chooser : BOOLEAN,
   process : [Start -> Processes],   \* the slaves started for it
   pid : Start \cup {0},             \* the one its proxy knows, 0 for none
   idle : BOOLEAN,                   \* finish_idle_id # 0
   freed : BOOLEAN]                  \* the slave proxy was unref'd

Forwards == [term : Terminal, from : Manager]
ManagedForwards == [to : Manager, host : Host, times : 0 .. 1]

\* A display that was not made yet; its terminal is arbitrary.
Absent ==
  [status |-> "absent", term |-> CHOOSE t \in Terminal : TRUE, chooser |-> FALSE,
   process |-> [k \in Start |-> "none"], pid |-> 0, idle |-> FALSE,
   freed |-> FALSE]

Made(m, s) == disp[m][s].status # "absent"
Running(m, s) == \E k \in Start : disp[m][s].process[k] = "running"

-----------------------------------------------------------------------------
\* Packets.  Those a manager gets, and those a terminal gets.
Query(type, m, t) == [type |-> type, to |-> m, term |-> t]
ForwardQuery(m, n, t) == [type |-> "FORWARD_QUERY", to |-> m, from |-> n, term |-> t]
Request(m, t) == [type |-> "REQUEST", to |-> m, term |-> t]
Manage(m, t, s) == [type |-> "MANAGE", to |-> m, term |-> t, sid |-> s]
KeepAlive(m, t, s) == [type |-> "KEEPALIVE", to |-> m, term |-> t, sid |-> s]
ManagedForward(m, n, h) ==
  [type |-> "MANAGED_FORWARD", to |-> m, from |-> n, host |-> h]
GotManagedForward(m, n, h) ==
  [type |-> "GOT_MANAGED_FORWARD", to |-> m, from |-> n, host |-> h]

Willing(t, m) == [type |-> "WILLING", to |-> t, from |-> m]
Accept(t, m, s) == [type |-> "ACCEPT", to |-> t, from |-> m, sid |-> s]
Decline(t, m) == [type |-> "DECLINE", to |-> t, from |-> m]
Refuse(t, m, s) == [type |-> "REFUSE", to |-> t, from |-> m, sid |-> s]
Alive(t, m, s, r) ==
  [type |-> "ALIVE", to |-> t, from |-> m, sid |-> s, running |-> r]

Packets ==
  [type : {"QUERY", "INDIRECT_QUERY", "REQUEST"}, to : Manager, term : Terminal]
    \cup [type : {"FORWARD_QUERY"}, to : Manager, from : Manager, term : Terminal]
    \cup [type : {"MANAGE", "KEEPALIVE"}, to : Manager, term : Terminal, sid : Session]
    \cup [type : {"MANAGED_FORWARD", "GOT_MANAGED_FORWARD"},
          to : Manager, from : Manager, host : Host]
    \cup [type : {"WILLING", "DECLINE"}, to : Terminal, from : Manager]
    \cup [type : {"ACCEPT", "REFUSE"}, to : Terminal, from : Manager, sid : Session]
    \cup [type : {"ALIVE"}, to : Terminal, from : Manager, sid : Session \cup {0},
          running : BOOLEAN]

\* The handler of p consumes it and sends the packets of out.
Answer(p, out) == net' = (net \ {p}) \cup out

-----------------------------------------------------------------------------
(***************************************************************************)
(* The counts.  mdm_display_store_foreach is g_hash_table_find and both     *)
(* counting callbacks return TRUE, so only one display is looked at, and    *)
(* the hash table decides which.  A local display counts nothing.           *)
(***************************************************************************)
HostCounts(m, h) ==
  {IF HostOf(disp[m][s].term) = h THEN 1 ELSE 0 : s \in store[m]}
    \cup (IF LocalDisplay \/ store[m] = {} THEN {0} ELSE {})

\* mdm_xdmcp_recount_sessions: no display is ever MANAGED, so sessions count
\* zero; pending ones are those whose status is UNMANAGED.
PendingCounts(m, stored) ==
  {IF disp[m][s].status = "UNMANAGED" THEN 1 ELSE 0 : s \in stored}
    \cup (IF LocalDisplay \/ stored = {} THEN {0} ELSE {})
Recounted == 0

\* Lookups by the address of a host: positions in the two lists.
ForwardOf(m, h) == {i \in DOMAIN forwards[m] : HostOf(forwards[m][i].term) = h}
ManagedOf(m, n, h) ==
  {i \in DOMAIN managed[m] : managed[m][i].to = n /\ managed[m][i].host = h}

First(S) == CHOOSE i \in S : \A j \in S : i <= j
Without(list, i) ==
  [j \in 1 .. Len(list) - 1 |-> IF j < i THEN list[j] ELSE list[j + 1]]
WithoutFirst(list, S) == IF S = {} THEN list ELSE Without(list, First(S))

\* forward_query_create.  acctime is never set, so the "oldest" of several that
\* remove_oldest_forward finds is the head, the newest; one too many is kept.
ForwardCreated(list, q) ==
  <<q>> \o (IF Len(list) > MaxForward
              THEN SubSeq(list, Len(list) - MaxForward + 1, Len(list))
              ELSE list)

\* The end of decline, refuse and manage: a forwarded query has come to some
\* resolution, tell the manager that forwarded it and queue to tell it again.
Resolved(m, h) ==
  IF ForwardOf(m, h) = {} THEN UNCHANGED <<forwards, managed>>
  ELSE /\ managed' = [managed EXCEPT ![m] =
            <<[to |-> forwards[m][First(ForwardOf(m, h))].from,
               host |-> h, times |-> 0]>> \o @]
       /\ forwards' = [forwards EXCEPT ![m] = WithoutFirst(@, ForwardOf(m, h))]

\* mdm_xdmcp_really_send_managed_forward, as part of the same.
Resolution(m, h) ==
  {ManagedForward(forwards[m][i].from, m, h) :
     i \in {j \in ForwardOf(m, h) : j = First(ForwardOf(m, h))}}

-----------------------------------------------------------------------------
\* QUERY and BROADCAST_QUERY.
HandleQuery(p) ==
  /\ p.type = "QUERY"
  /\ Answer(p, {Willing(p.term, p.to)})
  /\ UNCHANGED factoryVars

\* INDIRECT_QUERY that is not honored, or over the limits: no answer.
IgnoreIndirectQuery(p) ==
  /\ p.type = "INDIRECT_QUERY"
  /\ \/ ~HonorIndirect
     \/ numSessions[p.to] > MaxSessions
     \/ /\ HostOf(p.term) # p.to
        /\ \E c \in HostCounts(p.to, HostOf(p.term)) : c > MaxPerHost
  /\ Answer(p, {})
  /\ UNCHANGED factoryVars

\* INDIRECT_QUERY: who chose this manager is welcome, who chose another is
\* forwarded to it, and who has not chosen will get a chooser.
HandleIndirectQuery(p) ==
  /\ p.type = "INDIRECT_QUERY"
  /\ HonorIndirect
  /\ numSessions[p.to] <= MaxSessions
  /\ \/ HostOf(p.term) = p.to
     \/ \E c \in HostCounts(p.to, HostOf(p.term)) : c <= MaxPerHost
  /\ LET m == p.to
         h == HostOf(p.term)
         ic == indirect[m][h]
     IN  \/ /\ ic = m
            /\ indirect' = [indirect EXCEPT ![m][h] = NoClient]
            /\ Answer(p, {Willing(p.term, m)})
         \/ /\ ic \in Manager \ {m}
            /\ Answer(p, {ForwardQuery(ic, m, p.term)})
            /\ UNCHANGED indirect
         \/ /\ ic \in {NoClient, Unchosen}
            /\ indirect' = [indirect EXCEPT ![m][h] = Unchosen]
            /\ Answer(p, {Willing(p.term, m)})
  /\ UNCHANGED <<disp, store, serial, numSessions, forwards, managed, crashed>>

\* mutant: managed forwards that are still queued are not whacked.
HandleForwardQuery_NotWhacked(p) ==
  /\ p.type = "FORWARD_QUERY"
  /\ forwards' = [forwards EXCEPT ![p.to] =
       ForwardCreated(WithoutFirst(@, ForwardOf(p.to, HostOf(p.term))),
                      [term |-> p.term, from |-> p.from])]
  /\ Answer(p, {Willing(p.term, p.to)})
  /\ UNCHANGED <<disp, store, serial, numSessions, indirect, managed, crashed>>

\* FORWARD_QUERY from another manager about a terminal.
HandleForwardQuery(p) ==
  /\ p.type = "FORWARD_QUERY"
  /\ managed' = [managed EXCEPT ![p.to] =
       WithoutFirst(@, ManagedOf(p.to, p.from, HostOf(p.term)))]
  /\ forwards' = [forwards EXCEPT ![p.to] =
       ForwardCreated(WithoutFirst(@, ForwardOf(p.to, HostOf(p.term))),
                      [term |-> p.term, from |-> p.from])]
  /\ Answer(p, {Willing(p.term, p.to)})
  /\ UNCHANGED <<disp, store, serial, numSessions, indirect, crashed>>

-----------------------------------------------------------------------------
\* The displays display_dispose_check takes out of the store: only unref'd, not
\* unmanaged; a slave of theirs goes on.
DisposeChecked_None(m, t) == store[m]   \* mutant
DisposeChecked(m, t) == {s \in store[m] : disp[m][s].term # t}

EnteredWith(m, h, c) == MaxSessions > 0 /\ (h = m \/ c < MaxPerHost)

\* REQUEST that is not entered, or finds too many pending: DECLINE.
DeclineRequest(p) ==
  LET m == p.to
      h == HostOf(p.term)
  IN  /\ p.type = "REQUEST"
      /\ numSessions' = [numSessions EXCEPT ![m] = Recounted]
      /\ \E c \in HostCounts(m, h) :
           \/ /\ ~EnteredWith(m, h, c)
              /\ UNCHANGED store
           \/ /\ EnteredWith(m, h, c)
              /\ store' = [store EXCEPT ![m] = DisposeChecked(m, p.term)]
              /\ \E n \in PendingCounts(m, store'[m]) : n >= MaxPending
      /\ Answer(p, {Decline(p.term, m)} \cup Resolution(m, h))
      /\ Resolved(m, h)
      /\ UNCHANGED <<disp, serial, indirect, crashed>>

\* mdm_xdmcp_display_create: a chooser for a host that asked indirectly and has
\* not chosen.
Prepared(m, t) ==
  [Absent EXCEPT !.status = "PREPARED", !.term = t,
     !.chooser = (HonorIndirect /\ indirect[m][HostOf(t)] = Unchosen)]

\* REQUEST that is entered and finds room: a display under the next number.
EnterRequest(p) ==
  LET m == p.to
  IN  /\ p.type = "REQUEST"
      /\ serial[m] + 1 <= LastSession[m]
      /\ \E c \in HostCounts(m, HostOf(p.term)) : EnteredWith(m, HostOf(p.term), c)
      /\ \E n \in PendingCounts(m, DisposeChecked(m, p.term)) : n < MaxPending
      /\ numSessions' = [numSessions EXCEPT ![m] = Recounted]
      /\ serial' = [serial EXCEPT ![m] = @ + 1]
      /\ UNCHANGED <<indirect, forwards, managed, crashed>>

\* It is prepared and stored, and the terminal told.
AcceptRequest(p) ==
  LET m == p.to
      s == serial[m] + 1
  IN  /\ EnterRequest(p)
      /\ disp' = [disp EXCEPT ![m][s] = Prepared(m, p.term)]
      /\ store' = [store EXCEPT ![m] = DisposeChecked(m, p.term) \cup {s}]
      /\ Answer(p, {Accept(p.term, m, s)})

\* mdm_display_prepare can make no authority file: the display is given up at once
\* and with its last reference.  Its number is used, the display the terminal had
\* is gone too, and the terminal is told nothing.
FailToPrepare(p) ==
  /\ EnterRequest(p)
  /\ store' = [store EXCEPT ![p.to] = DisposeChecked(p.to, p.term)]
  /\ Answer(p, {})
  /\ UNCHANGED disp

\* The slots of Start are used in order; the proxy knows the latest.
NextStart(d) == {k \in Start : d.process[k] = "none"
                               /\ \A j \in Start : j < k => d.process[j] # "none"}

\* mdm_slave_proxy_start; the second part is a fork that failed.
Spawned(d, k) == [d EXCEPT !.process[k] = "running", !.pid = k]

\* mutant: the session id is looked up among all displays ever made.
Known_EverMade(m, s) == Made(m, s)
\* mdm_xdmcp_display_lookup, and the status the handler asks for.
Known(m, s) == s \in store[m] /\ disp[m][s].status = "PREPARED"

\* mutant: the client is destroyed also when nothing was chosen.
HandleManage_ClientDropped(p) ==
  LET m == p.to
      h == HostOf(p.term)
  IN  /\ p.type = "MANAGE"
      /\ Known(m, p.sid)
      /\ \/ \E k \in NextStart(disp[m][p.sid]) :
              disp' = [disp EXCEPT ![m][p.sid] = Spawned(@, k)]
         \/ UNCHANGED disp
      /\ indirect' = [indirect EXCEPT ![m][h] = NoClient]
      /\ numSessions' = [numSessions EXCEPT ![m] = @ + 1]
      /\ Answer(p, Resolution(m, h))
      /\ Resolved(m, h)
      /\ UNCHANGED <<store, serial, crashed>>

\* MANAGE with a session id of the store: the slave is started.  The status
\* stays PREPARED, so the same packet does it again.
HandleManage(p) ==
  LET m == p.to
      h == HostOf(p.term)
  IN  /\ p.type = "MANAGE"
      /\ Known(m, p.sid)
      /\ \/ \E k \in NextStart(disp[m][p.sid]) :
              disp' = [disp EXCEPT ![m][p.sid] = Spawned(@, k)]
         \/ UNCHANGED disp
      /\ IF HonorIndirect /\ indirect[m][h] \in Manager
           THEN indirect' = [indirect EXCEPT ![m][h] = NoClient]
           ELSE UNCHANGED indirect
      /\ numSessions' = [numSessions EXCEPT ![m] = @ + 1]
      /\ Answer(p, Resolution(m, h))
      /\ Resolved(m, h)
      /\ UNCHANGED <<store, serial, crashed>>

\* MANAGE with an unknown session id: REFUSE.
RefuseManage(p) ==
  /\ p.type = "MANAGE"
  /\ ~Known(p.to, p.sid)
  /\ Answer(p, {Refuse(p.term, p.to, p.sid)} \cup Resolution(p.to, HostOf(p.term)))
  /\ Resolved(p.to, HostOf(p.term))
  /\ UNCHANGED <<disp, store, serial, numSessions, indirect, crashed>>

\* KEEPALIVE.  The display is looked up by session, then by terminal; it would
\* be running if its status were MANAGED.
HandleKeepAlive(p) ==
  LET same == {s \in store[p.to] : disp[p.to][s].term = p.term}
      found == IF p.sid \in store[p.to] THEN {p.sid} ELSE same
  IN  /\ p.type = "KEEPALIVE"
      /\ \E s \in (IF found = {} THEN {0} ELSE found) :
           Answer(p, {Alive(p.term, p.to, s, FALSE)})
      /\ UNCHANGED factoryVars

\* MANAGED_FORWARD: the client's choice was used; GOT is sent in any case.
HandleManagedForward(p) ==
  /\ p.type = "MANAGED_FORWARD"
  /\ IF indirect[p.to][p.host] = p.from
       THEN indirect' = [indirect EXCEPT ![p.to][p.host] = NoClient]
       ELSE UNCHANGED indirect
  /\ Answer(p, {GotManagedForward(p.from, p.to, p.host)})
  /\ UNCHANGED <<disp, store, serial, numSessions, forwards, managed, crashed>>

\* GOT_MANAGED_FORWARD: the packet need not be sent again.
HandleGotManagedForward(p) ==
  /\ p.type = "GOT_MANAGED_FORWARD"
  /\ managed' = [managed EXCEPT ![p.to] =
       WithoutFirst(@, ManagedOf(p.to, p.from, p.host))]
  /\ Answer(p, {})
  /\ UNCHANGED <<disp, store, serial, numSessions, indirect, forwards, crashed>>

HandlePacket(p) ==
  \/ HandleQuery(p) \/ IgnoreIndirectQuery(p) \/ HandleIndirectQuery(p)
  \/ HandleForwardQuery(p) \/ DeclineRequest(p) \/ AcceptRequest(p)
  \/ FailToPrepare(p) \/ HandleManage(p) \/ RefuseManage(p) \/ HandleKeepAlive(p)
  \/ HandleManagedForward(p) \/ HandleGotManagedForward(p)

-----------------------------------------------------------------------------
\* mutant: the limit on times is not looked at.
Resend_NoLimit(m, i) ==
  /\ net' = net \cup {ManagedForward(managed[m][i].to, m, managed[m][i].host)}
  /\ managed' = [managed EXCEPT ![m][i].times = @ + 1]
  /\ UNCHANGED <<disp, store, serial, numSessions, indirect, forwards, crashed>>

\* managed_forward_handler: send it again, twice at most.
Resend(m, i) ==
  /\ net' = net \cup {ManagedForward(managed[m][i].to, m, managed[m][i].host)}
  /\ managed' = [managed EXCEPT ![m] =
       IF @[i].times = 1 THEN Without(@, i) ELSE [@ EXCEPT ![i].times = 1]]
  /\ UNCHANGED <<disp, store, serial, numSessions, indirect, forwards, crashed>>

\* on_hostname_selected: the display tells which host was chosen.  A client that
\* is gone is not expected; a name without an address leaves nothing chosen.
HostnameSelected(m, s, choice) ==
  LET h == HostOf(disp[m][s].term)
  IN  /\ IF indirect[m][h] = NoClient
           THEN crashed' = crashed \cup {m} /\ UNCHANGED indirect
           ELSE indirect' = [indirect EXCEPT ![m][h] = choice] /\ UNCHANGED crashed
      /\ UNCHANGED <<disp, store, serial, numSessions, forwards, managed, net>>

\* child_watch of slave k: it forgets whichever slave the proxy knows, and
\* touches the proxy also when the display has given it up.
ChildWatch(m, s, k) ==
  /\ disp[m][s].process[k] = "zombie"
  /\ disp' = [disp EXCEPT ![m][s].process[k] = "reaped", ![m][s].pid = 0,
                          ![m][s].idle = ~disp[m][s].freed]
  /\ crashed' = IF disp[m][s].freed THEN crashed \cup {m} ELSE crashed
  /\ UNCHANGED <<store, serial, numSessions, indirect, forwards, managed, net>>

\* finish_idle of a chooser's display: FINISHED, so the handler drops it.
FinishChooser(m, s) ==
  /\ disp[m][s].idle /\ disp[m][s].chooser
  /\ disp' = [disp EXCEPT ![m][s].idle = FALSE, ![m][s].status = "FINISHED"]
  /\ store' = [store EXCEPT ![m] = @ \ {s}]
  /\ UNCHANGED <<serial, numSessions, indirect, forwards, managed, crashed, net>>

\* finish_idle of a greeter's display: FINISHED, dropped, then unmanaged: the
\* slave the proxy knows is killed and waited for, and the proxy is given up.
FinishGreeter(m, s) ==
  /\ disp[m][s].idle /\ ~disp[m][s].chooser
  /\ \E status \in {"FAILED", "UNMANAGED"} :
       disp' = [disp EXCEPT ![m][s] =
         [@ EXCEPT !.idle = FALSE, !.status = status, !.freed = TRUE, !.pid = 0,
            !.process = [k \in Start |-> IF k = disp[m][s].pid THEN "killed"
                                         ELSE disp[m][s].process[k]]]]
  /\ store' = [store EXCEPT ![m] = @ \ {s}]
  /\ UNCHANGED <<serial, numSessions, indirect, forwards, managed, crashed, net>>

FactoryInit ==
  /\ disp = [m \in Manager |-> [s \in Session |-> Absent]]
  /\ store = [m \in Manager |-> {}]
  /\ serial = [m \in Manager |-> 0]
  /\ numSessions = [m \in Manager |-> 0]
  /\ indirect = [m \in Manager |-> [h \in Host |-> NoClient]]
  /\ forwards = [m \in Manager |-> <<>>]
  /\ managed = [m \in Manager |-> <<>>]
  /\ crashed = {}
  /\ net = {}
=============================================================================
