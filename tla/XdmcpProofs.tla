----------------------------- MODULE XdmcpProofs -----------------------------
(***************************************************************************)
(* Theorems about Xdmcp, for every set of managers, terminals and limits,   *)
(* and for every order, loss and repetition of packets.                     *)
(*                                                                         *)
(* The three kinds of state are treated apart: the lists of forwards, for   *)
(* which lemmas about sequences are needed; the displays and the store; and *)
(* the packets, of which only the types matter.  The last part, about the   *)
(* choosers, follows the packet that is under way for each terminal.        *)
(***************************************************************************)
EXTENDS Xdmcp, SequenceTheorems, TLAPS

-----------------------------------------------------------------------------
(* The lists.                                                               *)

\* Distinct elements of new are distinct elements of old that are not in S.
Thins(new, old, S) ==
  \A a, b \in DOMAIN new : \E i, j \in DOMAIN old \ S :
    /\ new[a] = old[i] /\ new[b] = old[j]
    /\ a # b => i # j

\* new begins with q; the rest of it comes from old.
Grows(new, q, old) ==
  /\ 1 \in DOMAIN new /\ new[1] = q
  /\ \A a, b \in DOMAIN new \ {1} : \E i, j \in DOMAIN old :
       /\ new[a] = old[i] /\ new[b] = old[j]
       /\ a # b => i # j

\* A list without one of its elements.
LEMMA WithoutOne ==
  ASSUME NEW E, NEW list \in Seq(E), NEW i \in DOMAIN list
  PROVE  Without(list, i) \in Seq(E) /\ Thins(Without(list, i), list, {i})
<1>1. Len(list) \in Nat /\ DOMAIN list = 1 .. Len(list) /\ list \in [1 .. Len(list) -> E]
  BY LenProperties
<1> DEFINE n == Len(list) - 1
           new == Without(list, i)
<1>2. n \in Nat /\ new = [j \in 1 .. n |-> IF j < i THEN list[j] ELSE list[j + 1]]
  BY <1>1 DEF Without
<1>3. ASSUME NEW j \in 1 .. n
      PROVE  j \in 1 .. Len(list) /\ j + 1 \in 1 .. Len(list)
  BY <1>1
<1>4. new \in [1 .. n -> E]
  <2>1. \A j \in 1 .. n : (IF j < i THEN list[j] ELSE list[j + 1]) \in E
    BY <1>1, <1>3
  <2> HIDE DEF new, n
  <2> QED
    BY <1>2, <2>1
<1>5. new \in Seq(E)
  BY <1>2, <1>4, SeqDef
<1>6. ASSUME NEW a \in 1 .. n, NEW b \in 1 .. n
      PROVE  \E k, l \in (1 .. Len(list)) \ {i} :
               new[a] = list[k] /\ new[b] = list[l] /\ (a # b => k # l)
  <2> DEFINE x == IF a < i THEN a ELSE a + 1
             y == IF b < i THEN b ELSE b + 1
  <2>1. x \in (1 .. Len(list)) \ {i} /\ y \in (1 .. Len(list)) \ {i} /\ (a # b => x # y)
    BY <1>1, <1>3
  <2>2. new[a] = list[x] /\ new[b] = list[y]
    BY <1>2
  <2> HIDE DEF x, y, new
  <2> QED
    BY <2>1, <2>2
<1>7. DOMAIN new = 1 .. n
  BY <1>2
<1>8. Thins(new, list, {i})
  <2> HIDE DEF new, n
  <2> SUFFICES ASSUME NEW a \in DOMAIN new, NEW b \in DOMAIN new
               PROVE  \E k, l \in DOMAIN list \ {i} :
                        new[a] = list[k] /\ new[b] = list[l] /\ (a # b => k # l)
    BY DEF Thins
  <2>1. a \in 1 .. n /\ b \in 1 .. n
    BY <1>7
  <2> QED
    BY <1>1, <1>6, <2>1
<1> QED
  BY <1>5, <1>8

\* A list without the first of at most one element.
LEMMA WithoutFirstOne ==
  ASSUME NEW E, NEW list \in Seq(E), NEW S \in SUBSET DOMAIN list,
         \A i, j \in S : i = j
  PROVE  /\ WithoutFirst(list, S) \in Seq(E)
         /\ Thins(WithoutFirst(list, S), list, S)
<1>1. CASE S = {}
  BY <1>1 DEF WithoutFirst, Thins
<1>2. CASE S # {}
  <2>1. PICK i \in S : TRUE
    BY <1>2
  <2>2. S = {i} /\ i \in DOMAIN list
    BY <2>1
  <2>3. First(S) = i
    <3>1. Len(list) \in Nat /\ DOMAIN list = 1 .. Len(list)
      BY LenProperties
    <3>2. \A k \in S : (\A j \in S : k <= j) <=> k = i
      BY <2>2, <3>1
    <3> QED
      BY <2>2, <3>2 DEF First
  <2> QED
    BY <1>2, <2>2, <2>3, WithoutOne DEF WithoutFirst
<1> QED
  BY <1>1, <1>2

\* A list with a new head.
LEMMA NewHead ==
  ASSUME NEW E, NEW list \in Seq(E), NEW q \in E
  PROVE  <<q>> \o list \in Seq(E) /\ Grows(<<q>> \o list, q, list)
<1>1. <<q>> \in Seq(E) /\ Len(<<q>>) = 1 /\ <<q>>[1] = q
  OBVIOUS
<1>2. Len(list) \in Nat /\ DOMAIN list = 1 .. Len(list)
  BY LenProperties
<1> DEFINE new == <<q>> \o list
<1>3. /\ new \in Seq(E) /\ Len(new) = 1 + Len(list)
      /\ \A i \in 1 .. 1 + Len(list) : new[i] = IF i <= 1 THEN q ELSE list[i - 1]
  BY <1>1, ConcatProperties
<1> HIDE DEF new
<1>4. DOMAIN new = 1 .. 1 + Len(list)
  BY <1>3, LenProperties
<1>5. new[1] = q /\ 1 \in DOMAIN new
  BY <1>2, <1>3, <1>4
<1>6. ASSUME NEW a \in DOMAIN new \ {1}, NEW b \in DOMAIN new \ {1}
      PROVE  \E i, j \in DOMAIN list :
               new[a] = list[i] /\ new[b] = list[j] /\ (a # b => i # j)
  <2>1. a - 1 \in DOMAIN list /\ b - 1 \in DOMAIN list /\ (a # b => a - 1 # b - 1)
    BY <1>2, <1>4
  <2>2. new[a] = list[a - 1] /\ new[b] = list[b - 1]
    BY <1>2, <1>3, <1>4
  <2> QED
    BY <2>1, <2>2
<1>7. Grows(new, q, list)
  BY <1>5, <1>6 DEF Grows
<1> QED
  BY <1>3, <1>7 DEF new

\* forward_query_create, whether or not it forgets other queries.
LEMMA CreatedHead ==
  ASSUME NEW E, NEW list \in Seq(E), NEW q \in E
  PROVE  ForwardCreated(list, q) \in Seq(E) /\ Grows(ForwardCreated(list, q), q, list)
<1>1. CASE ~(Len(list) > MaxForward)
  BY <1>1, NewHead DEF ForwardCreated
<1>2. CASE Len(list) > MaxForward
  <2>1. Len(list) \in Nat /\ DOMAIN list = 1 .. Len(list) /\ MaxForward \in Nat
    BY LenProperties, LimitsAssumption
  <2> DEFINE m == Len(list) - MaxForward + 1
             sub == SubSeq(list, m, Len(list))
  <2>2. m \in 1 .. Len(list) + 1
    BY <1>2, <2>1
  <2> HIDE DEF m
  <2>3. \A i \in m .. Len(list) : list[i] \in E
    BY <2>1, <2>2, ElementOfSeq
  <2>4. /\ sub \in Seq(E) /\ Len(sub) = IF m <= Len(list) THEN Len(list) - m + 1 ELSE 0
        /\ \A i \in 1 .. Len(list) - m + 1 : sub[i] = list[m + i - 1]
    BY <2>1, <2>2, <2>3, SubSeqProperties
  <2> HIDE DEF sub
  <2>5. DOMAIN sub = 1 .. Len(list) - m + 1
    BY <2>1, <2>2, <2>4, LenProperties
  <2>6. \A i \in DOMAIN sub : m + i - 1 \in DOMAIN list /\ sub[i] = list[m + i - 1]
    BY <2>1, <2>2, <2>4, <2>5
  <2> DEFINE new == <<q>> \o sub
  <2>7. new \in Seq(E) /\ Grows(new, q, sub)
    BY <2>4, NewHead
  <2>8. ForwardCreated(list, q) = new
    BY <1>2 DEF ForwardCreated, sub, m
  <2> HIDE DEF new
  <2>9. ASSUME NEW a \in DOMAIN new \ {1}, NEW b \in DOMAIN new \ {1}
        PROVE  \E i, j \in DOMAIN list :
                 new[a] = list[i] /\ new[b] = list[j] /\ (a # b => i # j)
    <3>1. PICK i, j \in DOMAIN sub :
            new[a] = sub[i] /\ new[b] = sub[j] /\ (a # b => i # j)
      BY <2>7 DEF Grows
    <3>2. i \in Int /\ j \in Int /\ m \in Int
      BY <2>1, <2>2, <2>5
    <3>3. a # b => m + i - 1 # m + j - 1
      BY <3>1, <3>2
    <3> QED
      BY <2>6, <3>1, <3>3
  <2>10. Grows(new, q, list)
    BY <2>7, <2>9 DEF Grows
  <2> QED
    BY <2>7, <2>8, <2>10
<1> QED
  BY <1>1, <1>2

-----------------------------------------------------------------------------
(* What the lists of one manager promise: fs its queries, ms whom it tells. *)

FromHost(fs, h) == {j \in DOMAIN fs : HostOf(fs[j].term) = h}
ToldAbout(ms, n, h) == {j \in DOMAIN ms : ms[j].to = n /\ ms[j].host = h}

Typed(fs, ms) == fs \in Seq(Forwards) /\ ms \in Seq(ManagedForwards)

Once(fs, ms) ==
  /\ \A i, j \in DOMAIN fs : HostOf(fs[i].term) = HostOf(fs[j].term) => i = j
  /\ \A i, j \in DOMAIN ms :
       ms[i].to = ms[j].to /\ ms[i].host = ms[j].host => i = j
  /\ \A i \in DOMAIN ms, j \in DOMAIN fs :
       ~ (ms[i].to = fs[j].from /\ ms[i].host = HostOf(fs[j].term))

\* Queries that are dropped.
LEMMA OnceFewerQueries ==
  ASSUME NEW fs, NEW ms, Once(fs, ms), NEW new, NEW S, Thins(new, fs, S)
  PROVE  Once(new, ms)
<1>1. ASSUME NEW a \in DOMAIN new, NEW b \in DOMAIN new,
             HostOf(new[a].term) = HostOf(new[b].term)
      PROVE  a = b
  <2>1. PICK i, j \in DOMAIN fs : new[a] = fs[i] /\ new[b] = fs[j] /\ (a # b => i # j)
    BY DEF Thins
  <2> QED
    BY <1>1, <2>1 DEF Once
<1>2. ASSUME NEW i \in DOMAIN ms, NEW b \in DOMAIN new
      PROVE  ~ (ms[i].to = new[b].from /\ ms[i].host = HostOf(new[b].term))
  <2>1. PICK j \in DOMAIN fs : new[b] = fs[j]
    BY DEF Thins
  <2> QED
    BY <2>1 DEF Once
<1> QED
  BY <1>1, <1>2 DEF Once

\* Managers that need not be told any more.
LEMMA OnceFewerTold ==
  ASSUME NEW fs, NEW ms, Once(fs, ms), NEW new, NEW S, Thins(new, ms, S)
  PROVE  Once(fs, new)
<1>1. ASSUME NEW a \in DOMAIN new, NEW b \in DOMAIN new,
             new[a].to = new[b].to, new[a].host = new[b].host
      PROVE  a = b
  <2>1. PICK i, j \in DOMAIN ms : new[a] = ms[i] /\ new[b] = ms[j] /\ (a # b => i # j)
    BY DEF Thins
  <2> QED
    BY <1>1, <2>1 DEF Once
<1>2. ASSUME NEW a \in DOMAIN new, NEW j \in DOMAIN fs
      PROVE  ~ (new[a].to = fs[j].from /\ new[a].host = HostOf(fs[j].term))
  <2>1. PICK i \in DOMAIN ms : new[a] = ms[i]
    BY DEF Thins
  <2> QED
    BY <2>1 DEF Once
<1> QED
  BY <1>1, <1>2 DEF Once

\* A query about a host none is known of, from a manager that is not told of it.
LEMMA OnceNewQuery ==
  ASSUME NEW fs, NEW ms, Once(fs, ms), NEW q, NEW new, Grows(new, q, fs),
         FromHost(fs, HostOf(q.term)) = {}, ToldAbout(ms, q.from, HostOf(q.term)) = {}
  PROVE  Once(new, ms)
<1>1. ASSUME NEW b \in DOMAIN new \ {1}
      PROVE  \E j \in DOMAIN fs : new[b] = fs[j] /\ HostOf(fs[j].term) # HostOf(q.term)
  BY DEF Grows, FromHost
<1>2. ASSUME NEW a \in DOMAIN new, NEW b \in DOMAIN new,
             HostOf(new[a].term) = HostOf(new[b].term)
      PROVE  a = b
  <2>1. CASE a # 1 /\ b # 1
    <3>1. PICK i, j \in DOMAIN fs : new[a] = fs[i] /\ new[b] = fs[j] /\ (a # b => i # j)
      BY <2>1 DEF Grows
    <3> QED
      BY <1>2, <3>1 DEF Once
  <2>2. CASE a = 1 \/ b = 1
    BY <1>1, <1>2, <2>2 DEF Grows
  <2> QED
    BY <2>1, <2>2
<1>3. ASSUME NEW i \in DOMAIN ms, NEW b \in DOMAIN new
      PROVE  ~ (ms[i].to = new[b].from /\ ms[i].host = HostOf(new[b].term))
  <2>1. CASE b = 1
    BY <2>1 DEF Grows, ToldAbout
  <2>2. CASE b # 1
    BY <1>1, <2>2 DEF Once
  <2> QED
    BY <2>1, <2>2
<1> QED
  BY <1>2, <1>3 DEF Once

\* A manager to tell about a host it is not told of, when no query of it is open.
LEMMA OnceNewTold ==
  ASSUME NEW fs, NEW ms, Once(fs, ms), NEW q, NEW new, Grows(new, q, ms),
         FromHost(fs, q.host) = {}, ToldAbout(ms, q.to, q.host) = {}
  PROVE  Once(fs, new)
<1>1. ASSUME NEW b \in DOMAIN new \ {1}
      PROVE  \E j \in DOMAIN ms : new[b] = ms[j] /\ ~ (ms[j].to = q.to /\ ms[j].host = q.host)
  BY DEF Grows, ToldAbout
<1>2. ASSUME NEW a \in DOMAIN new, NEW b \in DOMAIN new,
             new[a].to = new[b].to, new[a].host = new[b].host
      PROVE  a = b
  <2>1. CASE a # 1 /\ b # 1
    <3>1. PICK i, j \in DOMAIN ms : new[a] = ms[i] /\ new[b] = ms[j] /\ (a # b => i # j)
      BY <2>1 DEF Grows
    <3> QED
      BY <1>2, <3>1 DEF Once
  <2>2. CASE a = 1 \/ b = 1
    BY <1>1, <1>2, <2>2 DEF Grows
  <2> QED
    BY <2>1, <2>2
<1>3. ASSUME NEW b \in DOMAIN new, NEW j \in DOMAIN fs
      PROVE  ~ (new[b].to = fs[j].from /\ new[b].host = HostOf(fs[j].term))
  <2>1. CASE b = 1
    BY <2>1 DEF Grows, FromHost
  <2>2. CASE b # 1
    BY <1>1, <2>2 DEF Once
  <2> QED
    BY <2>1, <2>2
<1> QED
  BY <1>2, <1>3 DEF Once

\* A lookup finds at most one, and none once that is removed.
LEMMA QueryRemoved ==
  ASSUME NEW fs, NEW ms, Typed(fs, ms), Once(fs, ms), NEW h
  PROVE  LET new == WithoutFirst(fs, FromHost(fs, h))
         IN  Typed(new, ms) /\ Once(new, ms) /\ FromHost(new, h) = {}
<1> DEFINE S == FromHost(fs, h)
           new == WithoutFirst(fs, S)
<1>1. S \in SUBSET DOMAIN fs /\ \A i, j \in S : i = j
  BY DEF Once, FromHost
<1>2. new \in Seq(Forwards) /\ Thins(new, fs, S)
  <2> HIDE DEF S
  <2> QED
    BY <1>1, WithoutFirstOne DEF Typed
<1> HIDE DEF new
<1>3. Once(new, ms)
  BY <1>2, OnceFewerQueries
<1>4. FromHost(new, h) = {}
  BY <1>2 DEF Thins, FromHost
<1> QED
  BY <1>2, <1>3, <1>4 DEF Typed, new

LEMMA ToldRemoved ==
  ASSUME NEW fs, NEW ms, Typed(fs, ms), Once(fs, ms), NEW n, NEW h
  PROVE  LET new == WithoutFirst(ms, ToldAbout(ms, n, h))
         IN  Typed(fs, new) /\ Once(fs, new) /\ ToldAbout(new, n, h) = {}
<1> DEFINE S == ToldAbout(ms, n, h)
           new == WithoutFirst(ms, S)
<1>1. S \in SUBSET DOMAIN ms /\ \A i, j \in S : i = j
  BY DEF Once, ToldAbout
<1>2. new \in Seq(ManagedForwards) /\ Thins(new, ms, S)
  <2> HIDE DEF S
  <2> QED
    BY <1>1, WithoutFirstOne DEF Typed
<1> HIDE DEF new
<1>3. Once(fs, new)
  BY <1>2, OnceFewerTold
<1>4. ToldAbout(new, n, h) = {}
  BY <1>2 DEF Thins, ToldAbout
<1> QED
  BY <1>2, <1>3, <1>4 DEF Typed, new

\* forward_query_lookup of a host with an open query.
LEMMA FirstQuery ==
  ASSUME NEW fs, NEW ms, Typed(fs, ms), Once(fs, ms), NEW h, FromHost(fs, h) # {}
  PROVE  /\ First(FromHost(fs, h)) \in FromHost(fs, h)
         /\ fs[First(FromHost(fs, h))].from \in Manager
<1>1. PICK i \in FromHost(fs, h) : TRUE
  OBVIOUS
<1>2. FromHost(fs, h) = {i}
  BY <1>1 DEF Once, FromHost
<1>3. Len(fs) \in Nat /\ DOMAIN fs = 1 .. Len(fs)
  BY LenProperties DEF Typed
<1>4. i \in 1 .. Len(fs) /\ i <= i
  BY <1>1, <1>3 DEF FromHost
<1>5. First({i}) = i
  <2>1. \A k \in {i} : (\A j \in {i} : k <= j) <=> k = i
    BY <1>4
  <2> QED
    BY <2>1 DEF First
<1>6. fs[i] \in Forwards
  BY <1>4, ElementOfSeq DEF Typed
<1> QED
  BY <1>2, <1>5, <1>6 DEF Forwards

\* A FORWARD_QUERY from n about the terminal t.
LEMMA ForwardedOnce ==
  ASSUME NEW fs, NEW ms, Typed(fs, ms), Once(fs, ms),
         NEW n \in Manager, NEW t \in Terminal,
         NEW fs2, NEW ms2,
         fs2 = ForwardCreated(WithoutFirst(fs, FromHost(fs, HostOf(t))),
                              [term |-> t, from |-> n]),
         ms2 = WithoutFirst(ms, ToldAbout(ms, n, HostOf(t)))
  PROVE  Typed(fs2, ms2) /\ Once(fs2, ms2)
<1> DEFINE q == [term |-> t, from |-> n]
           left == WithoutFirst(fs, FromHost(fs, HostOf(t)))
<1>1. q \in Forwards /\ q.term = t /\ q.from = n
  BY DEF Forwards
<1>2. Typed(left, ms) /\ Once(left, ms) /\ FromHost(left, HostOf(t)) = {}
  BY QueryRemoved
<1>3. fs2 = ForwardCreated(left, q)
  OBVIOUS
<1> HIDE DEF left, q
<1>4. Typed(left, ms2) /\ Once(left, ms2) /\ ToldAbout(ms2, n, HostOf(t)) = {}
  BY <1>2, ToldRemoved
<1>5. fs2 \in Seq(Forwards) /\ Grows(fs2, q, left)
  BY <1>1, <1>2, <1>3, CreatedHead DEF Typed
<1>6. Once(fs2, ms2)
  BY <1>1, <1>2, <1>4, <1>5, OnceNewQuery
<1> QED
  BY <1>4, <1>5, <1>6 DEF Typed

\* The end of decline, refuse and manage, when the host has an open query.
LEMMA ResolvedOnce ==
  ASSUME NEW fs, NEW ms, Typed(fs, ms), Once(fs, ms),
         NEW h \in Host, FromHost(fs, h) # {},
         NEW fs2, NEW ms2,
         fs2 = WithoutFirst(fs, FromHost(fs, h)),
         ms2 = <<[to |-> fs[First(FromHost(fs, h))].from, host |-> h, times |-> 0]>> \o ms
  PROVE  Typed(fs2, ms2) /\ Once(fs2, ms2)
<1> DEFINE i == First(FromHost(fs, h))
           q == [to |-> fs[i].from, host |-> h, times |-> 0]
<1>1. i \in DOMAIN fs /\ HostOf(fs[i].term) = h /\ fs[i].from \in Manager
  BY FirstQuery DEF FromHost
<1>2. q.to = fs[i].from /\ q.host = h /\ ms2 = <<q>> \o ms
  OBVIOUS
<1> HIDE DEF i
<1>3. q \in ManagedForwards
  BY <1>1 DEF ManagedForwards
<1> HIDE DEF q
<1>4. ToldAbout(ms, q.to, q.host) = {}
  BY <1>1, <1>2 DEF Once, ToldAbout
<1>5. Typed(fs2, ms) /\ Once(fs2, ms) /\ FromHost(fs2, h) = {}
  BY QueryRemoved
<1>6. ms2 \in Seq(ManagedForwards) /\ Grows(ms2, q, ms)
  BY <1>2, <1>3, NewHead DEF Typed
<1>7. Once(fs2, ms2)
  BY <1>2, <1>4, <1>5, <1>6, OnceNewTold
<1> QED
  BY <1>5, <1>6, <1>7 DEF Typed

\* managed_forward_handler.
LEMMA ResentOnce ==
  ASSUME NEW fs, NEW ms, Typed(fs, ms), Once(fs, ms), NEW i \in DOMAIN ms,
         NEW ms2,
         ms2 = IF ms[i].times = 1 THEN Without(ms, i) ELSE [ms EXCEPT ![i].times = 1]
  PROVE  Typed(fs, ms2) /\ Once(fs, ms2)
<1>1. CASE ms[i].times = 1
  BY <1>1, WithoutOne, OnceFewerTold DEF Typed
<1>2. CASE ms[i].times # 1
  <2> DEFINE e == [ms[i] EXCEPT !.times = 1]
  <2>1. Len(ms) \in Nat /\ DOMAIN ms = 1 .. Len(ms) /\ ms \in [1 .. Len(ms) -> ManagedForwards]
    BY LenProperties DEF Typed
  <2>2. ms[i] \in ManagedForwards
    BY <2>1
  <2>3. e \in ManagedForwards /\ e.to = ms[i].to /\ e.host = ms[i].host
    BY <2>2 DEF ManagedForwards
  <2>4. ms2 = [ms EXCEPT ![i] = e]
    BY <1>2
  <2> HIDE DEF e
  <2>5. /\ ms2 \in [1 .. Len(ms) -> ManagedForwards]
        /\ \A j \in 1 .. Len(ms) : ms2[j] = IF j = i THEN e ELSE ms[j]
    BY <2>1, <2>3, <2>4
  <2>6. ms2 \in Seq(ManagedForwards) /\ DOMAIN ms2 = DOMAIN ms
    BY <2>1, <2>5, SeqDef
  <2>7. \A j \in DOMAIN ms : ms2[j].to = ms[j].to /\ ms2[j].host = ms[j].host
    BY <2>1, <2>3, <2>5
  <2>8. Once(fs, ms2)
    BY <2>6, <2>7 DEF Once
  <2> QED
    BY <2>6, <2>8 DEF Typed
<1> QED
  BY <1>1, <1>2

-----------------------------------------------------------------------------
(* The lists of all managers.                                               *)

ListsOK ==
  /\ forwards \in [Manager -> Seq(Forwards)]
  /\ managed \in [Manager -> Seq(ManagedForwards)]
  /\ ForwardsOnce

LEMMA ListsOfManager ==
  ASSUME ListsOK, NEW m \in Manager
  PROVE  Typed(forwards[m], managed[m]) /\ Once(forwards[m], managed[m])
BY DEF ListsOK, ForwardsOnce, Typed, Once

LEMMA ListsChanged ==
  ASSUME ListsOK, NEW m \in Manager, NEW fs, NEW ms, Typed(fs, ms), Once(fs, ms),
         forwards' = [forwards EXCEPT ![m] = fs], managed' = [managed EXCEPT ![m] = ms]
  PROVE  ListsOK'
<1>1. ASSUME NEW n \in Manager
      PROVE  Typed(forwards'[n], managed'[n]) /\ Once(forwards'[n], managed'[n])
  <2>1. CASE n = m
    <3>1. forwards'[n] = fs /\ managed'[n] = ms
      BY <2>1 DEF ListsOK
    <3> QED
      BY <3>1
  <2>2. CASE n # m
    <3>1. forwards'[n] = forwards[n] /\ managed'[n] = managed[n]
      BY <2>2 DEF ListsOK
    <3> QED
      BY <3>1, ListsOfManager
  <2> QED
    BY <2>1, <2>2
<1>2. forwards' \in [Manager -> Seq(Forwards)] /\ managed' \in [Manager -> Seq(ManagedForwards)]
  BY DEF ListsOK, Typed
<1>3. ForwardsOnce'
  BY <1>1 DEF ForwardsOnce, Once
<1> QED
  BY <1>2, <1>3 DEF ListsOK

\* What the packets of each type carry.
LEMMA PacketFields ==
  ASSUME NEW p \in Packets
  PROVE  /\ p.type \in {"QUERY", "INDIRECT_QUERY", "REQUEST"}
              => p.to \in Manager /\ p.term \in Terminal
         /\ p.type = "FORWARD_QUERY"
              => p.to \in Manager /\ p.from \in Manager /\ p.term \in Terminal
         /\ p.type \in {"MANAGE", "KEEPALIVE"}
              => p.to \in Manager /\ p.term \in Terminal /\ p.sid \in Session
         /\ p.type \in {"MANAGED_FORWARD", "GOT_MANAGED_FORWARD"}
              => p.to \in Manager /\ p.from \in Manager /\ p.host \in Host
         /\ p.type \in {"WILLING", "DECLINE"} => p.to \in Terminal /\ p.from \in Manager
         /\ p.type \in {"ACCEPT", "REFUSE"}
              => p.to \in Terminal /\ p.from \in Manager /\ p.sid \in Session
         /\ p.type = "ALIVE" => p.to \in Terminal /\ p.from \in Manager
BY DEF Packets

LEMMA HostOfTerminal == \A t \in Terminal : HostOf(t) \in Host
BY DEF Terminal, HostOf

\* The resolution of a query.
LEMMA ResolvedLists ==
  ASSUME ListsOK, NEW m \in Manager, NEW h \in Host, Resolved(m, h)
  PROVE  ListsOK'
<1>1. CASE ForwardOf(m, h) = {}
  BY <1>1 DEF Resolved, ListsOK, ForwardsOnce
<1>2. CASE ForwardOf(m, h) # {}
  <2> DEFINE S == FromHost(forwards[m], h)
             fs2 == WithoutFirst(forwards[m], S)
             ms2 == <<[to |-> forwards[m][First(S)].from, host |-> h, times |-> 0]>> \o managed[m]
  <2>1. S = ForwardOf(m, h)
    BY DEF FromHost, ForwardOf
  <2>2. Typed(fs2, ms2) /\ Once(fs2, ms2)
    BY <1>2, <2>1, ListsOfManager, ResolvedOnce
  <2>3. /\ managed' = [managed EXCEPT ![m] = ms2]
        /\ forwards' = [forwards EXCEPT ![m] = fs2]
    <3>1. S = ForwardOf(m, h)
      BY <2>1
    <3> HIDE DEF S
    <3> QED
      BY <1>2, <3>1 DEF Resolved
  <2> HIDE DEF fs2, ms2
  <2> QED
    BY <2>2, <2>3, ListsChanged
<1> QED
  BY <1>1, <1>2

\* What the handler of a packet does to the lists.
LEMMA HandledLists ==
  ASSUME ListsOK, NEW p \in Packets, HandlePacket(p)
  PROVE  ListsOK'
<1>1. CASE UNCHANGED <<forwards, managed>>
  BY <1>1 DEF ListsOK, ForwardsOnce
<1>2. CASE HandleForwardQuery(p)
  <2> DEFINE m == p.to
             h == HostOf(p.term)
             fs2 == ForwardCreated(WithoutFirst(forwards[m], FromHost(forwards[m], h)),
                                   [term |-> p.term, from |-> p.from])
             ms2 == WithoutFirst(managed[m], ToldAbout(managed[m], p.from, h))
  <2>1. m \in Manager /\ p.from \in Manager /\ p.term \in Terminal
    BY <1>2, PacketFields DEF HandleForwardQuery
  <2>2. Typed(fs2, ms2) /\ Once(fs2, ms2)
    BY <2>1, ListsOfManager, ForwardedOnce
  <2>3. /\ FromHost(forwards[m], h) = ForwardOf(m, h)
        /\ ToldAbout(managed[m], p.from, h) = ManagedOf(m, p.from, h)
    BY DEF FromHost, ForwardOf, ToldAbout, ManagedOf
  <2>4. forwards' = [forwards EXCEPT ![m] = fs2] /\ managed' = [managed EXCEPT ![m] = ms2]
    BY <1>2, <2>3 DEF HandleForwardQuery
  <2> HIDE DEF fs2, ms2
  <2> QED
    BY <2>1, <2>2, <2>4, ListsChanged
<1>3. CASE DeclineRequest(p) \/ HandleManage(p) \/ RefuseManage(p)
  <2>1. p.to \in Manager /\ HostOf(p.term) \in Host /\ Resolved(p.to, HostOf(p.term))
    BY <1>3, PacketFields, HostOfTerminal DEF DeclineRequest, HandleManage, RefuseManage
  <2> QED
    BY <2>1, ResolvedLists
<1>4. CASE HandleGotManagedForward(p)
  <2> DEFINE m == p.to
             ms2 == WithoutFirst(managed[m], ToldAbout(managed[m], p.from, p.host))
  <2>1. m \in Manager
    BY <1>4, PacketFields DEF HandleGotManagedForward
  <2>2. Typed(forwards[m], ms2) /\ Once(forwards[m], ms2)
    BY <2>1, ListsOfManager, ToldRemoved
  <2>3. ToldAbout(managed[m], p.from, p.host) = ManagedOf(m, p.from, p.host)
    BY DEF ToldAbout, ManagedOf
  <2>4. managed' = [managed EXCEPT ![m] = ms2] /\ forwards' = forwards
    BY <1>4, <2>3 DEF HandleGotManagedForward
  <2>5. forwards' = [forwards EXCEPT ![m] = forwards[m]]
    BY <2>4 DEF ListsOK
  <2> HIDE DEF ms2
  <2> QED
    BY <2>1, <2>2, <2>4, <2>5, ListsChanged
<1> QED
  BY <1>1, <1>2, <1>3, <1>4
     DEF HandlePacket, HandleQuery, IgnoreIndirectQuery, HandleIndirectQuery,
         AcceptRequest, FailToPrepare, EnterRequest, HandleKeepAlive,
         HandleManagedForward, factoryVars

LEMMA ResentLists ==
  ASSUME ListsOK, NEW m \in Manager, NEW i \in DOMAIN managed[m], Resend(m, i)
  PROVE  ListsOK'
<1> DEFINE ms == managed[m]
           ms2 == IF ms[i].times = 1 THEN Without(ms, i) ELSE [ms EXCEPT ![i].times = 1]
<1>1. Typed(forwards[m], ms2) /\ Once(forwards[m], ms2)
  BY ListsOfManager, ResentOnce
<1>2. managed' = [managed EXCEPT ![m] = ms2] /\ forwards' = forwards
  BY DEF Resend
<1>3. forwards' = [forwards EXCEPT ![m] = forwards[m]]
  BY <1>2 DEF ListsOK
<1> HIDE DEF ms2
<1> QED
  BY <1>1, <1>2, <1>3, ListsChanged

\* No other step touches the lists.
LEMMA ListsStep ==
  ASSUME ListsOK, net \subseteq Packets, [Next]_vars
  PROVE  ListsOK'
<1>1. CASE UNCHANGED <<forwards, managed>>
  BY <1>1 DEF ListsOK, ForwardsOnce
<1>2. ASSUME NEW m \in Manager, Dispatch(m)
      PROVE  ListsOK'
  BY <1>2, HandledLists DEF Dispatch
<1>3. ASSUME NEW m \in Manager, ResendForward(m)
      PROVE  ListsOK'
  BY <1>3, ResentLists DEF ResendForward
<1>4. ASSUME NEW m \in Manager, DispatchChoice(m) \/ DispatchChildWatch(m) \/ DispatchIdle(m)
      PROVE  UNCHANGED <<forwards, managed>>
  BY <1>4 DEF DispatchChoice, HostnameSelected, DispatchChildWatch, ChildWatch,
              DispatchIdle, FinishChooser, FinishGreeter
<1>5. ASSUME NEW t \in Terminal,
             Ask(t) \/ SwitchOff(t) \/ Repeat(t) \/ AskAlive(t) \/ Get(t)
      PROVE  UNCHANGED factoryVars
  BY <1>5 DEF Ask, SwitchOff, Repeat, AskAlive, Get
<1>6. ASSUME NEW p \in net, Lose(p)
      PROVE  UNCHANGED factoryVars
  BY <1>6 DEF Lose
<1>7. ASSUME NEW m \in Manager, NEW s \in Session, NEW k \in Start,
             Connect(m, s, k) \/ SlaveEnds(m, s, k) \/ Choose(m, s, k)
      PROVE  UNCHANGED <<forwards, managed>>
  BY <1>7 DEF Connect, SlaveEnds, Choose, factoryVars
<1> QED
  BY <1>1, <1>2, <1>3, <1>4, <1>5, <1>6, <1>7 DEF Next, vars, factoryVars

-----------------------------------------------------------------------------
(* The displays and the store.                                              *)

\* A slave was started for d.
Began(d) == \E k \in Start : d.process[k] # "none"

\* The proxy knows a slave that was started; finish_idle follows one's end.
Sound(d) ==
  /\ d.pid # 0 => d.process[d.pid] # "none"
  /\ d.idle => Began(d)

StoreInv ==
  /\ disp \in [Manager -> [Session -> Displays]]
  /\ store \in [Manager -> SUBSET Session]
  /\ serial \in [Manager -> Session \cup {0}]
  /\ OneDisplayPerTerminal
  /\ \A m \in Manager, s \in Session :
       /\ Sound(disp[m][s])
       /\ s > serial[m] => s \notin store[m] /\ ~Began(disp[m][s])
       /\ s \in store[m] => MaxPending > 0

LEMMA SessionNumbers ==
  /\ Session \subseteq Nat \ {0}
  /\ \A m \in Manager, s \in Nat \ {0} : s <= LastSession[m] => s \in Session
<1>1. ASSUME NEW s \in Session PROVE s \in Nat \ {0}
  <2>1. PICK m \in Manager : s \in 1 .. LastSession[m]
    BY DEF Session
  <2> QED
    BY <2>1, BoundsAssumption
<1>2. ASSUME NEW m \in Manager, NEW s \in Nat \ {0}, s <= LastSession[m]
      PROVE  s \in Session
  <2>1. s \in 1 .. LastSession[m]
    BY <1>2, BoundsAssumption
  <2> QED
    BY <2>1 DEF Session
<1> QED
  BY <1>1, <1>2

LEMMA AbsentDisplay ==
  /\ Absent \in Displays /\ Absent.status = "absent" /\ Absent.pid = 0 /\ ~Absent.idle
  /\ Absent.process = [k \in Start |-> "none"]
<1>1. (CHOOSE t \in Terminal : TRUE) \in Terminal
  <2>1. PICK h \in Host, n \in Number : TRUE
    BY TerminalsAssumption
  <2>2. <<h, n>> \in Terminal
    BY <2>1 DEF Terminal
  <2> QED
    BY <2>2, Zenon
<1>2. [k \in Start |-> "none"] \in [Start -> Processes]
  BY DEF Processes
<1> QED
  BY <1>1, <1>2 DEF Absent, Displays

\* A slave of the display s of m goes on, or the first one is started.
Goes(m, s, d) ==
  /\ disp' = [disp EXCEPT ![m][s] = d]
  /\ d \in Displays /\ Sound(d) /\ Began(d)
  /\ d.status = disp[m][s].status /\ d.term = disp[m][s].term
  /\ d.chooser = disp[m][s].chooser
  /\ s \in store[m] \/ Began(disp[m][s])
  /\ UNCHANGED <<store, serial>>

\* The display s of m, whose slave has ended, is dropped.
Ends(m, s, d) ==
  /\ disp' = [disp EXCEPT ![m][s] = d]
  /\ d \in Displays /\ Sound(d) /\ Began(d) /\ Began(disp[m][s])
  /\ d.term = disp[m][s].term /\ d.chooser = disp[m][s].chooser
  /\ store' = [store EXCEPT ![m] = @ \ {s}]
  /\ UNCHANGED serial

\* A display for t.
Offers(m, t) ==
  LET s == serial[m] + 1
  IN  /\ s \in Session
      /\ MaxPending > 0
      /\ serial' = [serial EXCEPT ![m] = s]
      /\ disp' = [disp EXCEPT ![m][s] = Prepared(m, t)]
      /\ store' = [store EXCEPT ![m] = DisposeChecked(m, t) \cup {s}]

\* A number for t that no display gets.
Wastes(m, t) ==
  /\ serial[m] + 1 \in Session
  /\ serial' = [serial EXCEPT ![m] = serial[m] + 1]
  /\ store' = [store EXCEPT ![m] = DisposeChecked(m, t)]
  /\ UNCHANGED disp

\* What a step does to the displays and the store.
StoreStep ==
  \/ UNCHANGED <<disp, store, serial>>
  \/ \E m \in Manager, t \in Terminal : Offers(m, t) \/ Wastes(m, t)
  \/ \E m \in Manager, s \in Session, d \in Displays : Goes(m, s, d) \/ Ends(m, s, d)

LEMMA PreparedDisplay ==
  ASSUME NEW m \in Manager, NEW t \in Terminal, HonorIndirect \in BOOLEAN
  PROVE  /\ Prepared(m, t) \in Displays
         /\ Prepared(m, t).status = "PREPARED" /\ Prepared(m, t).term = t
         /\ Sound(Prepared(m, t)) /\ ~Began(Prepared(m, t))
<1>1. /\ Prepared(m, t) \in Displays
      /\ Prepared(m, t).status = "PREPARED" /\ Prepared(m, t).term = t
  BY AbsentDisplay DEF Prepared, Displays
<1>2. /\ Prepared(m, t).process = Absent.process
      /\ Prepared(m, t).pid = Absent.pid /\ Prepared(m, t).idle = Absent.idle
  BY AbsentDisplay DEF Prepared, Displays
<1> QED
  BY <1>1, <1>2, AbsentDisplay DEF Sound, Began

\* One display changes.
LEMMA OneDisplay ==
  ASSUME disp \in [Manager -> [Session -> Displays]],
         NEW m \in Manager, NEW s \in Session, NEW d \in Displays,
         disp' = [disp EXCEPT ![m][s] = d]
  PROVE  /\ disp' \in [Manager -> [Session -> Displays]]
         /\ disp'[m][s] = d
         /\ \A n \in Manager, r \in Session : n # m \/ r # s => disp'[n][r] = disp[n][r]
OBVIOUS

\* A slave that is started.
LEMMA SpawnedDisplay ==
  ASSUME NEW d \in Displays, NEW k \in Start, Sound(d)
  PROVE  /\ Spawned(d, k) \in Displays /\ Sound(Spawned(d, k)) /\ Began(Spawned(d, k))
         /\ Spawned(d, k).status = d.status /\ Spawned(d, k).term = d.term
         /\ Spawned(d, k).chooser = d.chooser
<1> DEFINE e == Spawned(d, k)
<1>1. /\ e \in Displays /\ e.status = d.status /\ e.term = d.term /\ e.pid = k
      /\ e.chooser = d.chooser
      /\ e.idle = d.idle /\ e.process = [d.process EXCEPT ![k] = "running"]
  BY DEF Spawned, Displays, Processes
<1>2. e.process[k] = "running"
  BY <1>1 DEF Displays
<1> HIDE DEF e
<1>3. Began(e) /\ Sound(e)
  BY <1>1, <1>2 DEF Began, Sound
<1> QED
  BY <1>1, <1>3 DEF e

\* A slave that has begun and is in another state of its life now.
LEMMA SlaveGoes ==
  ASSUME StoreInv, NEW m \in Manager, NEW s \in Session, NEW k \in Start,
         disp[m][s].process[k] # "none",
         NEW d, NEW c \in Processes \ {"none"}, NEW pid \in {0, disp[m][s].pid}, NEW idle \in BOOLEAN,
         d = [disp[m][s] EXCEPT !.process = [@ EXCEPT ![k] = c], !.pid = pid, !.idle = idle],
         disp' = [disp EXCEPT ![m][s] = d], UNCHANGED <<store, serial>>
  PROVE  Goes(m, s, d)
<1>1. disp[m][s] \in Displays /\ Sound(disp[m][s])
  BY DEF StoreInv
<1>2. pid \in Start \cup {0}
  BY <1>1 DEF Displays
<1>3. [disp[m][s].process EXCEPT ![k] = c] \in [Start -> Processes]
  BY <1>1 DEF Displays
<1>4. /\ d \in Displays /\ d.status = disp[m][s].status /\ d.term = disp[m][s].term
      /\ d.chooser = disp[m][s].chooser
      /\ d.pid = pid /\ d.process = [disp[m][s].process EXCEPT ![k] = c]
  BY <1>1, <1>2, <1>3 DEF Displays
<1>5. \A j \in Start : d.process[j] = IF j = k THEN c ELSE disp[m][s].process[j]
  BY <1>1, <1>4 DEF Displays
<1>6. Began(d) /\ Began(disp[m][s])
  BY <1>5 DEF Began
<1>7. Sound(d)
  BY <1>1, <1>2, <1>4, <1>5, <1>6 DEF Sound
<1> QED
  BY <1>4, <1>6, <1>7 DEF Goes

\* A REQUEST that is declined takes no display out of the store: it is declined
\* before, or when no display is ever accepted.
LEMMA DeclinedStore ==
  ASSUME StoreInv, NEW p \in Packets, DeclineRequest(p)
  PROVE  UNCHANGED <<disp, store, serial>>
<1> DEFINE m == p.to
<1>1. m \in Manager /\ store[m] \subseteq Session /\ MaxPending \in Nat
  BY PacketFields, LimitsAssumption DEF DeclineRequest, StoreInv
<1>2. CASE store' = [store EXCEPT ![m] = DisposeChecked(m, p.term)]
           /\ \E n \in PendingCounts(m, store'[m]) : n >= MaxPending
  <2>1. store'[m] \subseteq store[m]
    BY <1>1, <1>2 DEF DisposeChecked, StoreInv
  <2>2. \A s \in store'[m] : disp[m][s].status # "UNMANAGED"
    BY <1>1, <2>1 DEF StoreInv, OneDisplayPerTerminal
  <2>3. PendingCounts(m, store'[m]) \subseteq {0}
    BY <2>2 DEF PendingCounts
  <2>4. ~(MaxPending > 0)
    BY <1>1, <1>2, <2>3
  <2>5. store[m] = {}
    BY <1>1, <2>4 DEF StoreInv
  <2>6. DisposeChecked(m, p.term) = store[m]
    BY <2>5 DEF DisposeChecked
  <2>7. store' = store
    BY <1>2, <2>6 DEF StoreInv
  <2> QED
    BY <2>7 DEF DeclineRequest
<1> QED
  BY <1>2 DEF DeclineRequest

LEMMA EnteredStore ==
  ASSUME StoreInv, NEW p \in Packets, EnterRequest(p)
  PROVE  /\ p.to \in Manager /\ p.term \in Terminal /\ MaxPending > 0
         /\ serial[p.to] + 1 \in Session
         /\ serial' = [serial EXCEPT ![p.to] = serial[p.to] + 1]
<1>1. p.to \in Manager /\ p.term \in Terminal
  BY PacketFields DEF EnterRequest
<1>2. serial[p.to] + 1 \in Session
  <2>1. serial[p.to] \in Session \cup {0}
    BY <1>1 DEF StoreInv
  <2>2. serial[p.to] \in Nat
    BY <2>1, SessionNumbers
  <2>3. serial[p.to] + 1 \in Nat \ {0}
    BY <2>2
  <2>4. serial[p.to] + 1 <= LastSession[p.to]
    BY DEF EnterRequest
  <2> QED
    BY <1>1, <2>3, <2>4, SessionNumbers
<1>3. MaxPending > 0
  <2>1. PICK n \in PendingCounts(p.to, DisposeChecked(p.to, p.term)) : n < MaxPending
    BY DEF EnterRequest
  <2>2. n \in {0, 1}
    BY DEF PendingCounts
  <2> QED
    BY <2>1, <2>2, LimitsAssumption
<1> QED
  BY <1>1, <1>2, <1>3 DEF EnterRequest

LEMMA AcceptedStore ==
  ASSUME StoreInv, NEW p \in Packets, AcceptRequest(p)
  PROVE  p.to \in Manager /\ p.term \in Terminal /\ Offers(p.to, p.term)
BY EnteredStore DEF AcceptRequest, Offers

LEMMA FailedStore ==
  ASSUME StoreInv, NEW p \in Packets, FailToPrepare(p)
  PROVE  p.to \in Manager /\ p.term \in Terminal /\ Wastes(p.to, p.term)
BY EnteredStore DEF FailToPrepare, Wastes

LEMMA ManagedStore ==
  ASSUME StoreInv, NEW p \in Packets, HandleManage(p)
  PROVE  StoreStep
<1> DEFINE m == p.to
           s == p.sid
<1>1. m \in Manager /\ s \in Session /\ s \in store[m]
  BY PacketFields DEF HandleManage, Known
<1>2. CASE UNCHANGED disp
  BY <1>2 DEF HandleManage, StoreStep
<1>3. ASSUME NEW k \in NextStart(disp[m][s]),
             disp' = [disp EXCEPT ![m][s] = Spawned(@, k)]
      PROVE  StoreStep
  <2> DEFINE d == Spawned(disp[m][s], k)
  <2>1. k \in Start /\ disp[m][s] \in Displays /\ Sound(disp[m][s])
    BY <1>1 DEF NextStart, StoreInv
  <2>2. /\ d \in Displays /\ Sound(d) /\ Began(d)
        /\ d.status = disp[m][s].status /\ d.term = disp[m][s].term
        /\ d.chooser = disp[m][s].chooser
    BY <2>1, SpawnedDisplay
  <2>3. disp' = [disp EXCEPT ![m][s] = d]
    BY <1>3
  <2> HIDE DEF d
  <2>4. Goes(m, s, d)
    BY <1>1, <2>2, <2>3 DEF Goes, HandleManage
  <2> QED
    BY <1>1, <2>2, <2>4 DEF StoreStep
<1> QED
  BY <1>2, <1>3 DEF HandleManage

LEMMA HandledStore ==
  ASSUME StoreInv, NEW p \in Packets, HandlePacket(p)
  PROVE  StoreStep
<1>1. CASE DeclineRequest(p)
  BY <1>1, DeclinedStore DEF StoreStep
<1>2. CASE AcceptRequest(p) \/ FailToPrepare(p)
  BY <1>2, AcceptedStore, FailedStore DEF StoreStep
<1>3. CASE HandleManage(p)
  BY <1>3, ManagedStore
<1>4. CASE UNCHANGED <<disp, store, serial>>
  BY <1>4 DEF StoreStep
<1> QED
  BY <1>1, <1>2, <1>3, <1>4
     DEF HandlePacket, HandleQuery, IgnoreIndirectQuery, HandleIndirectQuery,
         HandleForwardQuery, RefuseManage, HandleKeepAlive, HandleManagedForward,
         HandleGotManagedForward, factoryVars

LEMMA ChildWatchStore ==
  ASSUME StoreInv, NEW m \in Manager, NEW s \in Session, NEW k \in Start, ChildWatch(m, s, k)
  PROVE  StoreStep
<1> DEFINE c == "reaped"
           pid == 0
           idle == ~disp[m][s].freed
           d == [disp[m][s] EXCEPT !.process = [@ EXCEPT ![k] = c], !.pid = pid, !.idle = idle]
<1>1. disp[m][s] \in Displays
  BY DEF StoreInv
<1>2. c \in Processes \ {"none"} /\ pid \in {0, disp[m][s].pid} /\ idle \in BOOLEAN
  BY <1>1 DEF Processes, Displays
<1>3. disp' = [disp EXCEPT ![m][s] = d]
  BY <1>1 DEF ChildWatch, StoreInv, Displays
<1>4. disp[m][s].process[k] # "none" /\ UNCHANGED <<store, serial>>
  BY DEF ChildWatch
<1>5. d = [disp[m][s] EXCEPT !.process = [@ EXCEPT ![k] = c], !.pid = pid, !.idle = idle]
  OBVIOUS
<1> HIDE DEF c, pid, idle, d
<1>6. Goes(m, s, d)
  BY <1>2, <1>3, <1>4, <1>5, SlaveGoes
<1> QED
  BY <1>6 DEF StoreStep, Goes

LEMMA SlaveEndsStore ==
  ASSUME StoreInv, NEW m \in Manager, NEW s \in Session, NEW k \in Start,
         disp[m][s].process[k] = "running",
         disp' = [disp EXCEPT ![m][s].process[k] = "zombie"], UNCHANGED <<store, serial>>
  PROVE  StoreStep
<1> DEFINE c == "zombie"
           pid == disp[m][s].pid
           idle == disp[m][s].idle
           d == [disp[m][s] EXCEPT !.process = [@ EXCEPT ![k] = c], !.pid = pid, !.idle = idle]
<1>1. disp[m][s] \in Displays
  BY DEF StoreInv
<1>2. c \in Processes \ {"none"} /\ pid \in {0, disp[m][s].pid} /\ idle \in BOOLEAN
  BY <1>1 DEF Processes, Displays
<1>3. disp' = [disp EXCEPT ![m][s] = d]
  BY <1>1 DEF StoreInv, Displays
<1>4. d = [disp[m][s] EXCEPT !.process = [@ EXCEPT ![k] = c], !.pid = pid, !.idle = idle]
  OBVIOUS
<1> HIDE DEF c, pid, idle, d
<1>5. Goes(m, s, d)
  BY <1>2, <1>3, <1>4, SlaveGoes
<1> QED
  BY <1>5 DEF StoreStep, Goes

LEMMA IdleStore ==
  ASSUME StoreInv, NEW m \in Manager, NEW s \in Session,
         FinishChooser(m, s) \/ FinishGreeter(m, s)
  PROVE  StoreStep
<1>1. disp[m][s] \in Displays /\ Sound(disp[m][s]) /\ Began(disp[m][s])
  BY DEF StoreInv, FinishChooser, FinishGreeter, Sound
<1>2. CASE FinishChooser(m, s)
  <2> DEFINE d == [disp[m][s] EXCEPT !.idle = FALSE, !.status = "FINISHED"]
  <2>1. disp' = [disp EXCEPT ![m][s] = d]
    BY <1>2 DEF FinishChooser, StoreInv
  <2>2. /\ d \in Displays /\ d.term = disp[m][s].term /\ ~d.idle
        /\ d.process = disp[m][s].process /\ d.pid = disp[m][s].pid
        /\ d.chooser = disp[m][s].chooser
    BY <1>1 DEF Displays
  <2> HIDE DEF d
  <2>3. Sound(d) /\ Began(d)
    BY <1>1, <2>2 DEF Sound, Began
  <2>4. Ends(m, s, d)
    BY <1>1, <1>2, <2>1, <2>2, <2>3 DEF Ends, FinishChooser
  <2> QED
    BY <2>2, <2>4 DEF StoreStep
<1>3. CASE FinishGreeter(m, s)
  <2>1. PICK status \in {"FAILED", "UNMANAGED"} :
          disp' = [disp EXCEPT ![m][s] =
            [@ EXCEPT !.idle = FALSE, !.status = status, !.freed = TRUE, !.pid = 0,
               !.process = [k \in Start |-> IF k = disp[m][s].pid THEN "killed"
                                            ELSE disp[m][s].process[k]]]]
    BY <1>3 DEF FinishGreeter
  <2> DEFINE pr == [k \in Start |-> IF k = disp[m][s].pid THEN "killed"
                                    ELSE disp[m][s].process[k]]
             d == [disp[m][s] EXCEPT !.idle = FALSE, !.status = status, !.freed = TRUE,
                                     !.pid = 0, !.process = pr]
  <2>2. disp' = [disp EXCEPT ![m][s] = d]
    BY <1>1, <2>1 DEF StoreInv, Displays
  <2>3. pr \in [Start -> Processes]
    BY <1>1 DEF Displays, Processes
  <2>4. \A k \in Start : disp[m][s].process[k] # "none" => pr[k] # "none"
    OBVIOUS
  <2> HIDE DEF pr
  <2>5. /\ d \in Displays /\ d.term = disp[m][s].term /\ ~d.idle /\ d.pid = 0
        /\ d.process = pr /\ d.chooser = disp[m][s].chooser
    BY <1>1, <2>3 DEF Displays
  <2> HIDE DEF d
  <2>6. Sound(d) /\ Began(d)
    BY <1>1, <2>4, <2>5 DEF Sound, Began
  <2>7. Ends(m, s, d)
    BY <1>1, <1>3, <2>2, <2>5, <2>6 DEF Ends, FinishGreeter
  <2> QED
    BY <2>5, <2>7 DEF StoreStep
<1> QED
  BY <1>2, <1>3

LEMMA StoreSteps ==
  ASSUME StoreInv, net \subseteq Packets, [Next]_vars
  PROVE  StoreStep
<1>1. CASE UNCHANGED <<disp, store, serial>>
  BY <1>1 DEF StoreStep
<1>2. ASSUME NEW m \in Manager, Dispatch(m)
      PROVE  StoreStep
  BY <1>2, HandledStore DEF Dispatch
<1>3. ASSUME NEW m \in Manager, ResendForward(m) \/ DispatchChoice(m)
      PROVE  UNCHANGED <<disp, store, serial>>
  BY <1>3 DEF ResendForward, Resend, DispatchChoice, HostnameSelected
<1>4. ASSUME NEW m \in Manager, DispatchChildWatch(m)
      PROVE  StoreStep
  BY <1>4, ChildWatchStore DEF DispatchChildWatch
<1>5. ASSUME NEW m \in Manager, DispatchIdle(m)
      PROVE  StoreStep
  BY <1>5, IdleStore DEF DispatchIdle
<1>6. ASSUME NEW t \in Terminal,
             Ask(t) \/ SwitchOff(t) \/ Repeat(t) \/ AskAlive(t) \/ Get(t)
      PROVE  UNCHANGED factoryVars
  BY <1>6 DEF Ask, SwitchOff, Repeat, AskAlive, Get
<1>7. ASSUME NEW p \in net, Lose(p)
      PROVE  UNCHANGED factoryVars
  BY <1>7 DEF Lose
<1>8. ASSUME NEW m \in Manager, NEW s \in Session, NEW k \in Start, Connect(m, s, k)
      PROVE  UNCHANGED factoryVars
  BY <1>8 DEF Connect
<1>9. ASSUME NEW m \in Manager, NEW s \in Session, NEW k \in Start,
             SlaveEnds(m, s, k) \/ Choose(m, s, k)
      PROVE  StoreStep
  BY <1>9, SlaveEndsStore DEF SlaveEnds, Choose
<1> QED
  BY <1>1, <1>2, <1>3, <1>4, <1>5, <1>6, <1>7, <1>8, <1>9 DEF Next, vars, factoryVars

\* The kinds of steps keep the invariant.
LEMMA OffersKeep ==
  ASSUME StoreInv, NEW m \in Manager, NEW t \in Terminal, Offers(m, t)
  PROVE  StoreInv'
<1> DEFINE s == serial[m] + 1
           d == Prepared(m, t)
<1>1. /\ s \in Session /\ MaxPending > 0 /\ serial[m] \in Session \cup {0}
      /\ serial' = [serial EXCEPT ![m] = s]
      /\ disp' = [disp EXCEPT ![m][s] = d]
      /\ store' = [store EXCEPT ![m] = DisposeChecked(m, t) \cup {s}]
  BY DEF Offers, StoreInv
<1>2. /\ d \in Displays /\ d.status = "PREPARED" /\ d.term = t
      /\ Sound(d) /\ ~Began(d)
  BY PreparedDisplay, LimitsAssumption
<1>3. Session \subseteq Nat \ {0} /\ s > serial[m]
  BY <1>1, SessionNumbers
<1> HIDE DEF s, d
<1>4. /\ disp' \in [Manager -> [Session -> Displays]]
      /\ disp'[m][s] = d
      /\ \A n \in Manager, r \in Session : n # m \/ r # s => disp'[n][r] = disp[n][r]
  BY <1>1, <1>2, OneDisplay DEF StoreInv
<1>5. DisposeChecked(m, t) = {r \in store[m] : disp[m][r].term # t}
  BY DEF DisposeChecked
<1>6. /\ store' \in [Manager -> SUBSET Session]
      /\ store'[m] = {r \in store[m] : disp[m][r].term # t} \cup {s}
      /\ \A n \in Manager : n # m => store'[n] = store[n]
      /\ s \notin store[m]
  BY <1>1, <1>3, <1>5 DEF StoreInv
<1>7. /\ serial' \in [Manager -> Session \cup {0}]
      /\ serial'[m] = s
      /\ \A n \in Manager : n # m => serial'[n] = serial[n]
  BY <1>1 DEF StoreInv
<1>8. OneDisplayPerTerminal'
  <2>1. ASSUME NEW r \in store'[m]
        PROVE  /\ disp'[m][r].status = "PREPARED"
               /\ r # s => r \in store[m] /\ disp'[m][r] = disp[m][r] /\ disp[m][r].term # t
    BY <1>2, <1>4, <1>6 DEF StoreInv, OneDisplayPerTerminal
  <2>2. ASSUME NEW r \in store'[m], NEW q \in store'[m], disp'[m][r].term = disp'[m][q].term
        PROVE  r = q
    BY <1>2, <1>4, <2>1, <2>2 DEF StoreInv, OneDisplayPerTerminal
  <2>3. ASSUME NEW n \in Manager, n # m, NEW r \in store'[n]
        PROVE  r \in store[n] /\ disp'[n][r] = disp[n][r]
    BY <1>4, <1>6, <2>3 DEF StoreInv
  <2> QED
    BY <2>1, <2>2, <2>3, <1>6 DEF StoreInv, OneDisplayPerTerminal
<1>9. ASSUME NEW n \in Manager, NEW r \in Session
      PROVE  /\ Sound(disp'[n][r])
             /\ r > serial'[n] => r \notin store'[n] /\ ~Began(disp'[n][r])
             /\ r \in store'[n] => MaxPending > 0
  <2>1. CASE n # m
    BY <1>4, <1>6, <1>7, <2>1 DEF StoreInv
  <2>2. CASE n = m /\ r = s
    BY <1>1, <1>2, <1>3, <1>4, <1>7, <2>2
  <2>3. CASE n = m /\ r # s
    <3>1. r > s => r > serial[m]
      BY <1>1, <1>3
    <3> QED
      BY <1>1, <1>4, <1>6, <1>7, <2>3, <3>1 DEF StoreInv
  <2> QED
    BY <2>1, <2>2, <2>3
<1> QED
  BY <1>4, <1>6, <1>7, <1>8, <1>9 DEF StoreInv, Sound, Began

LEMMA WastesKeep ==
  ASSUME StoreInv, NEW m \in Manager, NEW t \in Terminal, Wastes(m, t)
  PROVE  StoreInv'
<1>0. \A x \in Session \cup {0} : x \in Nat
  BY SessionNumbers
<1>1. /\ serial[m] + 1 \in Session /\ serial[m] \in Session \cup {0}
      /\ Session \subseteq Nat \ {0} /\ disp' = disp
      /\ serial' = [serial EXCEPT ![m] = serial[m] + 1]
      /\ store' = [store EXCEPT ![m] = DisposeChecked(m, t)]
  BY SessionNumbers DEF Wastes, StoreInv
<1>2. /\ store' \in [Manager -> SUBSET Session]
      /\ \A n \in Manager : store'[n] \subseteq store[n]
  BY <1>1 DEF StoreInv, DisposeChecked
<1>3. /\ serial' \in [Manager -> Session \cup {0}]
      /\ \A n \in Manager, r \in Session : r > serial'[n] => r > serial[n]
  <2>1. serial' \in [Manager -> Session \cup {0}]
    BY <1>1 DEF StoreInv
  <2>2. ASSUME NEW n \in Manager, NEW r \in Session, r > serial'[n]
        PROVE  r > serial[n]
    <3>1. serial'[n] = IF n = m THEN serial[m] + 1 ELSE serial[n]
      BY <1>1 DEF StoreInv
    <3>2. serial[n] \in Session \cup {0}
      BY <2>2 DEF StoreInv
    <3>3. serial[n] \in Nat /\ r \in Nat
      BY <1>0, <2>2, <3>2
    <3>4. CASE n = m
      BY <2>2, <3>1, <3>3, <3>4
    <3>5. CASE n # m
      BY <2>2, <3>1, <3>5
    <3> QED
      BY <3>4, <3>5
  <2> QED
    BY <2>1, <2>2
<1>4. OneDisplayPerTerminal'
  BY <1>1, <1>2 DEF StoreInv, OneDisplayPerTerminal
<1>5. \A n \in Manager, r \in Session :
        /\ Sound(disp'[n][r])
        /\ r > serial'[n] => r \notin store'[n] /\ ~Began(disp'[n][r])
        /\ r \in store'[n] => MaxPending > 0
  BY <1>1, <1>2, <1>3 DEF StoreInv
<1> QED
  BY <1>1, <1>2, <1>3, <1>4, <1>5 DEF StoreInv, Sound, Began

LEMMA GoesKeeps ==
  ASSUME StoreInv, NEW m \in Manager, NEW s \in Session, NEW d \in Displays, Goes(m, s, d)
  PROVE  StoreInv'
<1>1. /\ disp' = [disp EXCEPT ![m][s] = d] /\ store' = store /\ serial' = serial
      /\ Sound(d) /\ d.status = disp[m][s].status /\ d.term = disp[m][s].term
      /\ s \in store[m] \/ Began(disp[m][s])
  BY DEF Goes
<1>2. /\ disp' \in [Manager -> [Session -> Displays]]
      /\ disp'[m][s] = d
      /\ \A n \in Manager, r \in Session : n # m \/ r # s => disp'[n][r] = disp[n][r]
  BY <1>1, OneDisplay DEF StoreInv
<1>3. \A n \in Manager, r \in Session :
        disp'[n][r].status = disp[n][r].status /\ disp'[n][r].term = disp[n][r].term
  BY <1>1, <1>2
<1>4. OneDisplayPerTerminal'
  BY <1>1, <1>3 DEF StoreInv, OneDisplayPerTerminal
<1>5. ASSUME NEW n \in Manager, NEW r \in Session
      PROVE  /\ Sound(disp'[n][r])
             /\ r > serial'[n] => r \notin store'[n] /\ ~Began(disp'[n][r])
             /\ r \in store'[n] => MaxPending > 0
  BY <1>1, <1>2 DEF StoreInv
<1> QED
  BY <1>1, <1>2, <1>4, <1>5 DEF StoreInv, Sound, Began

LEMMA EndsKeeps ==
  ASSUME StoreInv, NEW m \in Manager, NEW s \in Session, NEW d \in Displays, Ends(m, s, d)
  PROVE  StoreInv'
<1>1. /\ disp' = [disp EXCEPT ![m][s] = d] /\ serial' = serial
      /\ store' = [store EXCEPT ![m] = @ \ {s}]
      /\ Sound(d) /\ Began(disp[m][s])
  BY DEF Ends
<1>2. /\ disp' \in [Manager -> [Session -> Displays]]
      /\ disp'[m][s] = d
      /\ \A n \in Manager, r \in Session : n # m \/ r # s => disp'[n][r] = disp[n][r]
  BY <1>1, OneDisplay DEF StoreInv
<1>3. /\ store' \in [Manager -> SUBSET Session]
      /\ s \notin store'[m] /\ \A n \in Manager : store'[n] \subseteq store[n]
  BY <1>1 DEF StoreInv
<1>4. ASSUME NEW n \in Manager, NEW r \in store'[n]
      PROVE  r \in store[n] /\ r \in Session /\ disp'[n][r] = disp[n][r]
  BY <1>2, <1>3 DEF StoreInv
<1>5. OneDisplayPerTerminal'
  BY <1>4 DEF StoreInv, OneDisplayPerTerminal
<1>6. ASSUME NEW n \in Manager, NEW r \in Session
      PROVE  /\ Sound(disp'[n][r])
             /\ r > serial'[n] => r \notin store'[n] /\ ~Began(disp'[n][r])
             /\ r \in store'[n] => MaxPending > 0
  BY <1>1, <1>2, <1>3 DEF StoreInv
<1> QED
  BY <1>1, <1>2, <1>3, <1>5, <1>6 DEF StoreInv, Sound, Began

LEMMA StoreKeeps ==
  ASSUME StoreInv, StoreStep
  PROVE  StoreInv'
<1>1. CASE UNCHANGED <<disp, store, serial>>
  BY <1>1 DEF StoreInv, OneDisplayPerTerminal, Sound, Began
<1> QED
  BY <1>1, OffersKeep, WastesKeep, GoesKeeps, EndsKeeps DEF StoreStep

-----------------------------------------------------------------------------
(* The types of the rest.                                                   *)

\* A terminal knows the session it manages.
SidsKnown ==
  \A t \in Terminal : term[t].phase \in {"manage", "up"} => term[t].sid \in Session

CountsOK ==
  /\ numSessions \in [Manager -> Nat]
  /\ indirect \in [Manager -> [Host -> Clients]]
  /\ crashed \subseteq Manager

OutsideOK ==
  /\ term \in [Terminal -> TerminalStates] /\ SidsKnown
  /\ bus \in [Manager -> Seq([sid : Session, choice : Choices])]
  /\ troubles \in 0 .. MaxTroubles

IInv == ListsOK /\ StoreInv /\ CountsOK /\ net \subseteq Packets /\ OutsideOK

LEMMA PacketTypes ==
  ASSUME NEW m \in Manager, NEW n \in Manager, NEW t \in Terminal
  PROVE  /\ \A type \in {"QUERY", "INDIRECT_QUERY"} : Query(type, m, t) \in Packets
         /\ ForwardQuery(m, n, t) \in Packets /\ Request(m, t) \in Packets
         /\ Willing(t, m) \in Packets /\ Decline(t, m) \in Packets
         /\ \A h \in Host :
              ManagedForward(m, n, h) \in Packets /\ GotManagedForward(m, n, h) \in Packets
         /\ \A s \in Session :
              /\ Manage(m, t, s) \in Packets /\ KeepAlive(m, t, s) \in Packets
              /\ Accept(t, m, s) \in Packets /\ Refuse(t, m, s) \in Packets
         /\ \A s \in Session \cup {0} : Alive(t, m, s, FALSE) \in Packets
<1>1. /\ \A type \in {"QUERY", "INDIRECT_QUERY"} : Query(type, m, t) \in Packets
      /\ Request(m, t) \in Packets
  BY DEF Packets, Query, Request
<1>2. ForwardQuery(m, n, t) \in Packets
  BY DEF Packets, ForwardQuery
<1>3. Willing(t, m) \in Packets /\ Decline(t, m) \in Packets
  BY DEF Packets, Willing, Decline
<1>4. \A h \in Host :
        ManagedForward(m, n, h) \in Packets /\ GotManagedForward(m, n, h) \in Packets
  BY DEF Packets, ManagedForward, GotManagedForward
<1>5. \A s \in Session : Manage(m, t, s) \in Packets /\ KeepAlive(m, t, s) \in Packets
  BY DEF Packets, Manage, KeepAlive
<1>6. \A s \in Session : Accept(t, m, s) \in Packets /\ Refuse(t, m, s) \in Packets
  BY DEF Packets, Accept, Refuse
<1>7. \A s \in Session \cup {0} : Alive(t, m, s, FALSE) \in Packets
  BY DEF Packets, Alive
<1> QED
  BY <1>1, <1>2, <1>3, <1>4, <1>5, <1>6, <1>7

LEMMA ResolutionPackets ==
  ASSUME IInv, NEW m \in Manager, NEW h \in Host
  PROVE  Resolution(m, h) \subseteq Packets
<1> SUFFICES ASSUME NEW i \in ForwardOf(m, h)
             PROVE  ManagedForward(forwards[m][i].from, m, h) \in Packets
  BY DEF Resolution
<1>1. i \in DOMAIN forwards[m] /\ forwards[m] \in Seq(Forwards)
  BY DEF ForwardOf, IInv, ListsOK
<1>2. forwards[m][i] \in Forwards
  BY <1>1, LenProperties
<1>3. forwards[m][i].from \in Manager
  BY <1>2 DEF Forwards
<1>4. PICK h2 \in Host, n2 \in Number : TRUE
  BY TerminalsAssumption
<1>5. <<h2, n2>> \in Terminal
  BY <1>4 DEF Terminal
<1> QED
  BY <1>3, <1>5, PacketTypes

\* The packets a handler sends.
LEMMA HandledPackets ==
  ASSUME IInv, NEW p \in net, HandlePacket(p)
  PROVE  net' \subseteq Packets
<1> USE DEF Answer
<1>0. p \in Packets /\ net \subseteq Packets
  BY DEF IInv
<1>1. CASE HandleQuery(p) \/ HandleForwardQuery(p)
  <2>1. p.to \in Manager /\ p.term \in Terminal
    BY <1>0, <1>1, PacketFields DEF HandleQuery, HandleForwardQuery
  <2>2. Willing(p.term, p.to) \in Packets
    BY <2>1, PacketTypes
  <2> QED
    BY <1>0, <1>1, <2>2 DEF HandleQuery, HandleForwardQuery
<1>2. CASE IgnoreIndirectQuery(p) \/ HandleGotManagedForward(p)
  BY <1>0, <1>2 DEF IgnoreIndirectQuery, HandleGotManagedForward
<1>3. CASE HandleIndirectQuery(p)
  <2>1. p.to \in Manager /\ p.term \in Terminal
    BY <1>0, <1>3, PacketFields DEF HandleIndirectQuery
  <2>2. /\ Willing(p.term, p.to) \in Packets
        /\ \A n \in Manager : ForwardQuery(n, p.to, p.term) \in Packets
    BY <2>1, PacketTypes
  <2> QED
    BY <1>0, <1>3, <2>2 DEF HandleIndirectQuery
<1>4. CASE DeclineRequest(p)
  <2>1. p.to \in Manager /\ p.term \in Terminal /\ HostOf(p.term) \in Host
    BY <1>0, <1>4, PacketFields, HostOfTerminal DEF DeclineRequest
  <2>2. Decline(p.term, p.to) \in Packets /\ Resolution(p.to, HostOf(p.term)) \subseteq Packets
    BY <2>1, PacketTypes, ResolutionPackets
  <2> QED
    BY <1>0, <1>4, <2>2 DEF DeclineRequest
<1>5. CASE AcceptRequest(p)
  <2>1. p.to \in Manager /\ p.term \in Terminal /\ serial[p.to] + 1 \in Session
    BY <1>0, <1>5, AcceptedStore DEF IInv, Offers
  <2>2. Accept(p.term, p.to, serial[p.to] + 1) \in Packets
    BY <2>1, PacketTypes
  <2> QED
    BY <1>0, <1>5, <2>2 DEF AcceptRequest
<1>10. CASE FailToPrepare(p)
  BY <1>0, <1>10 DEF FailToPrepare
<1>6. CASE HandleManage(p)
  <2>1. p.to \in Manager /\ HostOf(p.term) \in Host
    BY <1>0, <1>6, PacketFields, HostOfTerminal DEF HandleManage
  <2>2. Resolution(p.to, HostOf(p.term)) \subseteq Packets
    BY <2>1, ResolutionPackets
  <2> QED
    BY <1>0, <1>6, <2>2 DEF HandleManage
<1>7. CASE RefuseManage(p)
  <2>1. /\ p.to \in Manager /\ p.term \in Terminal /\ HostOf(p.term) \in Host
        /\ p.sid \in Session
    BY <1>0, <1>7, PacketFields, HostOfTerminal DEF RefuseManage
  <2>2. /\ Refuse(p.term, p.to, p.sid) \in Packets
        /\ Resolution(p.to, HostOf(p.term)) \subseteq Packets
    BY <2>1, PacketTypes, ResolutionPackets
  <2> QED
    BY <1>0, <1>7, <2>2 DEF RefuseManage
<1>8. CASE HandleKeepAlive(p)
  <2> DEFINE same == {s \in store[p.to] : disp[p.to][s].term = p.term}
             found == IF p.sid \in store[p.to] THEN {p.sid} ELSE same
             sids == IF found = {} THEN {0} ELSE found
  <2>1. p.to \in Manager /\ p.term \in Terminal /\ store[p.to] \subseteq Session
    BY <1>0, <1>8, PacketFields DEF HandleKeepAlive, IInv, StoreInv
  <2>2. sids \subseteq Session \cup {0}
    BY <2>1
  <2>3. \E s \in sids : net' = (net \ {p}) \cup {Alive(p.term, p.to, s, FALSE)}
    BY <1>8 DEF HandleKeepAlive
  <2> HIDE DEF sids
  <2> QED
    BY <1>0, <2>1, <2>2, <2>3, PacketTypes
<1>9. CASE HandleManagedForward(p)
  <2>1. p.to \in Manager /\ p.from \in Manager /\ p.host \in Host
    BY <1>0, <1>9, PacketFields DEF HandleManagedForward
  <2>2. GotManagedForward(p.from, p.to, p.host) \in Packets
    BY <2>1 DEF GotManagedForward, Packets
  <2> QED
    BY <1>0, <1>9, <2>2 DEF HandleManagedForward
<1> QED
  BY <1>1, <1>2, <1>3, <1>4, <1>5, <1>6, <1>7, <1>8, <1>9, <1>10 DEF HandlePacket

\* The packets of a step.
LEMMA NetStep ==
  ASSUME IInv, [Next]_vars
  PROVE  net' \subseteq Packets
<1>0. net \subseteq Packets
  BY DEF IInv
<1>1. ASSUME NEW m \in Manager, Dispatch(m)
      PROVE  net' \subseteq Packets
  BY <1>1, HandledPackets DEF Dispatch
<1>2. ASSUME NEW m \in Manager, ResendForward(m)
      PROVE  net' \subseteq Packets
  <2>1. PICK i \in DOMAIN managed[m] : Resend(m, i)
    BY <1>2 DEF ResendForward
  <2>2. managed[m][i] \in ManagedForwards
    BY LenProperties DEF IInv, ListsOK
  <2>3. ManagedForward(managed[m][i].to, m, managed[m][i].host) \in Packets
    BY <2>2 DEF ManagedForwards, ManagedForward, Packets
  <2> QED
    BY <1>0, <2>1, <2>3 DEF Resend
<1>3. ASSUME NEW m \in Manager, DispatchChoice(m) \/ DispatchChildWatch(m) \/ DispatchIdle(m)
      PROVE  UNCHANGED net
  <2>1. CASE DispatchChoice(m)
    BY <2>1 DEF DispatchChoice, HostnameSelected
  <2>2. CASE DispatchChildWatch(m)
    BY <2>2 DEF DispatchChildWatch, ChildWatch
  <2>3. CASE DispatchIdle(m)
    BY <2>3 DEF DispatchIdle, FinishChooser, FinishGreeter
  <2> QED
    BY <1>3, <2>1, <2>2, <2>3
<1>4. ASSUME NEW t \in Terminal, Ask(t)
      PROVE  net' \subseteq Packets
  <2>1. PICK type \in QueryTypes : net' = net \cup {Query(type, Server, t)}
    BY <1>4 DEF Ask
  <2>2. Query(type, Server, t) \in Packets
    BY <2>1, ServerAssumption, PacketTypes
  <2> QED
    BY <1>0, <2>1, <2>2
<1>5. ASSUME NEW t \in Terminal, SwitchOff(t)
      PROVE  UNCHANGED net
  BY <1>5 DEF SwitchOff
<1>6. ASSUME NEW t \in Terminal
      PROVE  /\ term[t].ask \in {"QUERY", "INDIRECT_QUERY"} /\ term[t].mgr \in Manager
             /\ term[t].phase \in {"manage", "up"} => term[t].sid \in Session
  BY DEF IInv, OutsideOK, TerminalStates, SidsKnown
<1>7. ASSUME NEW t \in Terminal, Repeat(t)
      PROVE  net' \subseteq Packets
  <2>1. Sent(t) \subseteq Packets
    <3>1. Query(term[t].ask, Server, t) \in Packets /\ Request(term[t].mgr, t) \in Packets
      BY <1>6, ServerAssumption, PacketTypes
    <3>2. term[t].phase = "manage" => Manage(term[t].mgr, t, term[t].sid) \in Packets
      BY <1>6, PacketTypes
    <3> QED
      BY <3>1, <3>2 DEF Sent
  <2> QED
    BY <1>0, <1>7, <2>1 DEF Repeat
<1>8. ASSUME NEW t \in Terminal, AskAlive(t)
      PROVE  net' \subseteq Packets
  <2>1. KeepAlive(term[t].mgr, t, term[t].sid) \in Packets
    BY <1>6, <1>8, PacketTypes DEF AskAlive
  <2> QED
    BY <1>0, <1>8, <2>1 DEF AskAlive
<1>9. ASSUME NEW t \in Terminal, Get(t)
      PROVE  net' \subseteq Packets
  <2>1. PICK p \in net :
          GetWilling(t, p) \/ GetAccept(t, p) \/ GetDenial(t, p) \/ GetStray(t, p)
    BY <1>9 DEF Get
  <2>2. CASE GetWilling(t, p)
    <3>1. p.from \in Manager
      BY <1>0, <2>2, PacketFields DEF GetWilling
    <3> QED
      BY <1>0, <2>2, <3>1, PacketTypes DEF GetWilling, Answer
  <2>3. CASE GetAccept(t, p)
    <3>1. p.from \in Manager /\ p.sid \in Session
      BY <1>0, <2>3, PacketFields DEF GetAccept
    <3> QED
      BY <1>0, <2>3, <3>1, PacketTypes DEF GetAccept, Answer
  <2>4. CASE GetDenial(t, p) \/ GetStray(t, p)
    BY <1>0, <2>4 DEF GetDenial, GetStray, Answer
  <2> QED
    BY <2>1, <2>2, <2>3, <2>4
<1>10. ASSUME NEW p \in net, Lose(p)
       PROVE  net' \subseteq Packets
  BY <1>0, <1>10 DEF Lose, Answer
<1>11. ASSUME NEW m \in Manager, NEW s \in Session, NEW k \in Start,
              Connect(m, s, k) \/ SlaveEnds(m, s, k) \/ Choose(m, s, k)
       PROVE  UNCHANGED net
  BY <1>11 DEF Connect, SlaveEnds, Choose
<1>12. CASE UNCHANGED vars
  BY <1>0, <1>12 DEF vars
<1> QED
  BY <1>0, <1>1, <1>2, <1>3, <1>4, <1>5, <1>7, <1>8, <1>9, <1>10, <1>11, <1>12 DEF Next

\* The counts and the clients.
LEMMA HandledCounts ==
  ASSUME CountsOK, NEW p \in Packets, HandlePacket(p)
  PROVE  CountsOK'
<1>1. CASE UNCHANGED <<numSessions, indirect, crashed>>
  BY <1>1 DEF CountsOK
<1>2. CASE HandleIndirectQuery(p)
  <2>1. p.to \in Manager /\ HostOf(p.term) \in Host
    BY <1>2, PacketFields, HostOfTerminal DEF HandleIndirectQuery
  <2>2. PICK v \in {NoClient, Unchosen, indirect[p.to][HostOf(p.term)]} :
          \/ UNCHANGED indirect
          \/ indirect' = [indirect EXCEPT ![p.to][HostOf(p.term)] = v]
    BY <1>2 DEF HandleIndirectQuery
  <2>3. v \in Clients
    BY <2>1 DEF CountsOK, Clients
  <2>4. UNCHANGED <<numSessions, crashed>>
    BY <1>2 DEF HandleIndirectQuery
  <2> QED
    BY <2>1, <2>2, <2>3, <2>4 DEF CountsOK
<1>3. CASE DeclineRequest(p) \/ AcceptRequest(p) \/ FailToPrepare(p)
  BY <1>3 DEF DeclineRequest, AcceptRequest, FailToPrepare, EnterRequest, CountsOK, Recounted
<1>4. CASE HandleManage(p)
  <2>1. p.to \in Manager /\ HostOf(p.term) \in Host
    BY <1>4, PacketFields, HostOfTerminal DEF HandleManage
  <2>2. numSessions' \in [Manager -> Nat]
    BY <1>4, <2>1 DEF HandleManage, CountsOK
  <2>3. indirect' \in [Manager -> [Host -> Clients]]
    <3>1. \/ UNCHANGED indirect
          \/ indirect' = [indirect EXCEPT ![p.to][HostOf(p.term)] = NoClient]
      BY <1>4 DEF HandleManage
    <3> DEFINE row == [indirect[p.to] EXCEPT ![HostOf(p.term)] = NoClient]
    <3>2. row \in [Host -> Clients]
      BY <2>1 DEF CountsOK, Clients
    <3>3. indirect' = indirect \/ indirect' = [indirect EXCEPT ![p.to] = row]
      BY <3>1
    <3> HIDE DEF row
    <3> QED
      BY <2>1, <3>2, <3>3 DEF CountsOK
  <2> QED
    BY <1>4, <2>2, <2>3 DEF HandleManage, CountsOK
<1>5. CASE HandleManagedForward(p)
  BY <1>5 DEF HandleManagedForward, CountsOK, Clients
<1> QED
  BY <1>1, <1>2, <1>3, <1>4, <1>5
     DEF HandlePacket, HandleQuery, IgnoreIndirectQuery, HandleForwardQuery, RefuseManage,
         HandleKeepAlive, HandleGotManagedForward, factoryVars

LEMMA CountsStep ==
  ASSUME IInv, [Next]_vars
  PROVE  CountsOK'
<1>0. CountsOK /\ net \subseteq Packets
  BY DEF IInv
<1>1. CASE UNCHANGED <<numSessions, indirect, crashed>>
  BY <1>0, <1>1 DEF CountsOK
<1>2. ASSUME NEW m \in Manager, Dispatch(m)
      PROVE  CountsOK'
  BY <1>0, <1>2, HandledCounts DEF Dispatch
<1>3. ASSUME NEW m \in Manager, DispatchChoice(m)
      PROVE  CountsOK'
  <2>1. Head(bus[m]) \in [sid : Session, choice : Choices]
    BY <1>3, HeadTailProperties DEF DispatchChoice, IInv, OutsideOK
  <2> DEFINE c == Head(bus[m]).choice
             choice == IF c = Unresolvable THEN Unchosen ELSE c
  <2>2. choice \in Clients /\ Head(bus[m]).sid \in Session
    BY <2>1, ChoicesAssumption DEF Clients
  <2>3. HostnameSelected(m, Head(bus[m]).sid, choice)
    BY <1>3 DEF DispatchChoice
  <2> HIDE DEF choice
  <2>4. HostOf(disp[m][Head(bus[m]).sid].term) \in Host
    BY <2>2, HostOfTerminal DEF IInv, StoreInv, Displays
  <2> DEFINE h == HostOf(disp[m][Head(bus[m]).sid].term)
  <2>5. /\ crashed' = crashed \/ crashed' = crashed \cup {m}
        /\ UNCHANGED indirect \/ indirect' = [indirect EXCEPT ![m][h] = choice]
        /\ UNCHANGED numSessions
    BY <2>3 DEF HostnameSelected
  <2> HIDE DEF h
  <2>6. indirect' \in [Manager -> [Host -> Clients]]
    BY <1>0, <2>2, <2>4, <2>5 DEF CountsOK, h
  <2> QED
    BY <1>0, <2>5, <2>6 DEF CountsOK
<1>4. ASSUME NEW m \in Manager, DispatchChildWatch(m)
      PROVE  CountsOK'
  <2>1. /\ crashed' = crashed \/ crashed' = crashed \cup {m}
        /\ UNCHANGED <<numSessions, indirect>>
    BY <1>4 DEF DispatchChildWatch, ChildWatch
  <2> QED
    BY <1>0, <2>1 DEF CountsOK
<1>5. ASSUME NEW m \in Manager, ResendForward(m) \/ DispatchIdle(m)
      PROVE  UNCHANGED <<numSessions, indirect, crashed>>
  BY <1>5 DEF ResendForward, Resend, DispatchIdle, FinishChooser, FinishGreeter
<1>6. ASSUME NEW t \in Terminal,
             Ask(t) \/ SwitchOff(t) \/ Repeat(t) \/ AskAlive(t) \/ Get(t)
      PROVE  UNCHANGED factoryVars
  BY <1>6 DEF Ask, SwitchOff, Repeat, AskAlive, Get
<1>7. ASSUME NEW p \in net, Lose(p)
      PROVE  UNCHANGED factoryVars
  BY <1>7 DEF Lose
<1>8. ASSUME NEW m \in Manager, NEW s \in Session, NEW k \in Start,
             Connect(m, s, k) \/ SlaveEnds(m, s, k) \/ Choose(m, s, k)
      PROVE  UNCHANGED <<numSessions, indirect, crashed>>
  BY <1>8 DEF Connect, SlaveEnds, Choose, factoryVars
<1> QED
  BY <1>1, <1>2, <1>3, <1>4, <1>5, <1>6, <1>7, <1>8 DEF Next, vars, factoryVars

\* The terminals, the bus and the bound on troubles.
LEMMA OffState == Off \in TerminalStates /\ Off.phase = "off"
BY ServerAssumption DEF Off, TerminalStates

LEMMA OneTerminal ==
  ASSUME OutsideOK, NEW t \in Terminal, NEW x \in TerminalStates,
         x.phase \in {"manage", "up"} => x.sid \in Session, term' = [term EXCEPT ![t] = x]
  PROVE  term' \in [Terminal -> TerminalStates] /\ SidsKnown'
BY DEF OutsideOK, SidsKnown

LEMMA TerminalStep ==
  ASSUME IInv, [Next]_vars
  PROVE  term' \in [Terminal -> TerminalStates] /\ SidsKnown'
<1>0. OutsideOK /\ net \subseteq Packets
  BY DEF IInv
<1>1. CASE UNCHANGED term
  BY <1>0, <1>1 DEF OutsideOK, SidsKnown
<1>2. ASSUME NEW m \in Manager,
             Dispatch(m) \/ ResendForward(m) \/ DispatchChoice(m)
               \/ DispatchChildWatch(m) \/ DispatchIdle(m)
      PROVE  UNCHANGED term
  BY <1>2 DEF Dispatch, ResendForward, DispatchChoice, DispatchChildWatch, DispatchIdle
<1>3. ASSUME NEW t \in Terminal, Ask(t)
      PROVE  term' \in [Terminal -> TerminalStates] /\ SidsKnown'
  <2>1. PICK type \in QueryTypes :
          term' = [term EXCEPT ![t] = [Off EXCEPT !.phase = "query", !.ask = type]]
    BY <1>3 DEF Ask
  <2> DEFINE x == [Off EXCEPT !.phase = "query", !.ask = type]
  <2>2. x \in TerminalStates /\ x.phase = "query"
    BY OffState, ServerAssumption DEF TerminalStates
  <2> HIDE DEF x
  <2>3. term' = [term EXCEPT ![t] = x]
    BY <2>1 DEF x
  <2> QED
    BY <1>0, <2>2, <2>3, OneTerminal
<1>4. ASSUME NEW t \in Terminal, SwitchOff(t)
      PROVE  term' \in [Terminal -> TerminalStates] /\ SidsKnown'
  BY <1>0, <1>4, OffState, OneTerminal DEF SwitchOff
<1>5. ASSUME NEW t \in Terminal, Repeat(t) \/ AskAlive(t)
      PROVE  UNCHANGED term
  BY <1>5 DEF Repeat, AskAlive
<1>6. ASSUME NEW t \in Terminal, Get(t)
      PROVE  term' \in [Terminal -> TerminalStates] /\ SidsKnown'
  <2>1. PICK p \in net :
          GetWilling(t, p) \/ GetAccept(t, p) \/ GetDenial(t, p) \/ GetStray(t, p)
    BY <1>6 DEF Get
  <2>2. term[t] \in TerminalStates /\ p \in Packets
    BY <1>0 DEF OutsideOK
  <2>3. CASE GetWilling(t, p)
    <3> DEFINE x == [term[t] EXCEPT !.phase = "request", !.mgr = p.from]
    <3>1. p.from \in Manager
      BY <2>2, <2>3, PacketFields DEF GetWilling
    <3>2. term' = [term EXCEPT ![t] = x]
      BY <1>0, <2>3 DEF GetWilling, OutsideOK
    <3>3. x \in TerminalStates /\ x.phase = "request"
      BY <2>2, <3>1 DEF TerminalStates
    <3> HIDE DEF x
    <3> QED
      BY <1>0, <3>2, <3>3, OneTerminal
  <2>4. CASE GetAccept(t, p)
    <3> DEFINE x == [term[t] EXCEPT !.phase = "manage", !.sid = p.sid]
    <3>1. p.sid \in Session
      BY <2>2, <2>4, PacketFields DEF GetAccept
    <3>2. term' = [term EXCEPT ![t] = x]
      BY <1>0, <2>4 DEF GetAccept, OutsideOK
    <3>3. x \in TerminalStates /\ x.sid = p.sid
      BY <2>2, <3>1 DEF TerminalStates
    <3> HIDE DEF x
    <3> QED
      BY <1>0, <3>1, <3>2, <3>3, OneTerminal
  <2>5. CASE GetDenial(t, p)
    BY <1>0, <2>5, OffState, OneTerminal DEF GetDenial
  <2>6. CASE GetStray(t, p)
    BY <1>1, <2>6 DEF GetStray
  <2> QED
    BY <2>1, <2>3, <2>4, <2>5, <2>6
<1>7. ASSUME NEW p \in net, Lose(p)
      PROVE  UNCHANGED term
  BY <1>7 DEF Lose
<1>8. ASSUME NEW m \in Manager, NEW s \in Session, NEW k \in Start, Connect(m, s, k)
      PROVE  term' \in [Terminal -> TerminalStates] /\ SidsKnown'
  <2> DEFINE t == disp[m][s].term
             x == [term[t] EXCEPT !.phase = "up", !.slave = k]
  <2>1. t \in Terminal
    BY DEF IInv, StoreInv, Displays
  <2>2. term' = [term EXCEPT ![t] = x]
    BY <1>0, <1>8, <2>1 DEF Connect, OutsideOK
  <2>3. term[t] \in TerminalStates /\ term[t].sid = s
    BY <1>0, <1>8, <2>1 DEF Connect, OutsideOK
  <2> HIDE DEF t
  <2>4. x \in TerminalStates /\ x.sid = s
    BY <2>3 DEF TerminalStates
  <2> HIDE DEF x
  <2> QED
    BY <1>0, <2>1, <2>2, <2>4, OneTerminal
<1>9. ASSUME NEW m \in Manager, NEW s \in Session, NEW k \in Start,
             SlaveEnds(m, s, k) \/ Choose(m, s, k)
      PROVE  UNCHANGED term
  BY <1>9 DEF SlaveEnds, Choose
<1> QED
  BY <1>1, <1>2, <1>3, <1>4, <1>5, <1>6, <1>7, <1>8, <1>9 DEF Next, vars

LEMMA TroublesAdded ==
  ASSUME [Next]_vars
  PROVE  UNCHANGED troubles \/ Trouble
<1>1. ASSUME NEW m \in Manager,
             Dispatch(m) \/ ResendForward(m) \/ DispatchChoice(m)
               \/ DispatchChildWatch(m) \/ DispatchIdle(m)
      PROVE  UNCHANGED troubles \/ Trouble
  BY <1>1 DEF Dispatch, ResendForward, DispatchChoice, DispatchChildWatch, DispatchIdle
<1>2. ASSUME NEW t \in Terminal,
             Ask(t) \/ SwitchOff(t) \/ Repeat(t) \/ AskAlive(t) \/ Get(t)
      PROVE  UNCHANGED troubles \/ Trouble
  BY <1>2 DEF Ask, SwitchOff, Repeat, AskAlive, Get
<1>3. ASSUME NEW p \in net, Lose(p)
      PROVE  Trouble
  BY <1>3 DEF Lose
<1>4. ASSUME NEW m \in Manager, NEW s \in Session, NEW k \in Start,
             Connect(m, s, k) \/ SlaveEnds(m, s, k) \/ Choose(m, s, k)
      PROVE  UNCHANGED troubles \/ Trouble
  BY <1>4 DEF Connect, SlaveEnds, Choose
<1> QED
  BY <1>1, <1>2, <1>3, <1>4 DEF Next, vars

LEMMA TroublesStep ==
  ASSUME troubles \in 0 .. MaxTroubles, [Next]_vars
  PROVE  troubles' \in 0 .. MaxTroubles
BY TroublesAdded, TroublesAssumption DEF Trouble

LEMMA BusStep ==
  ASSUME bus \in [Manager -> Seq([sid : Session, choice : Choices])], [Next]_vars
  PROVE  bus' \in [Manager -> Seq([sid : Session, choice : Choices])]
<1>1. ASSUME NEW m \in Manager, DispatchChoice(m)
      PROVE  bus' \in [Manager -> Seq([sid : Session, choice : Choices])]
  <2>1. Tail(bus[m]) \in Seq([sid : Session, choice : Choices])
    BY <1>1, HeadTailProperties DEF DispatchChoice
  <2> QED
    BY <1>1, <2>1 DEF DispatchChoice
<1>2. ASSUME NEW m \in Manager, NEW s \in Session, NEW k \in Start, Choose(m, s, k)
      PROVE  bus' \in [Manager -> Seq([sid : Session, choice : Choices])]
  <2>1. PICK c \in Choices : bus' = [bus EXCEPT ![m] = Append(@, [sid |-> s, choice |-> c])]
    BY <1>2 DEF Choose
  <2>2. Append(bus[m], [sid |-> s, choice |-> c]) \in Seq([sid : Session, choice : Choices])
    BY AppendProperties
  <2> QED
    BY <2>1, <2>2
<1>3. ASSUME NEW m \in Manager,
             Dispatch(m) \/ ResendForward(m) \/ DispatchChildWatch(m) \/ DispatchIdle(m)
      PROVE  UNCHANGED bus
  BY <1>3 DEF Dispatch, ResendForward, DispatchChildWatch, DispatchIdle
<1>4. ASSUME NEW t \in Terminal,
             Ask(t) \/ SwitchOff(t) \/ Repeat(t) \/ AskAlive(t) \/ Get(t)
      PROVE  UNCHANGED bus
  BY <1>4 DEF Ask, SwitchOff, Repeat, AskAlive, Get
<1>5. ASSUME NEW p \in net, Lose(p)
      PROVE  UNCHANGED bus
  BY <1>5 DEF Lose
<1>6. ASSUME NEW m \in Manager, NEW s \in Session, NEW k \in Start,
             Connect(m, s, k) \/ SlaveEnds(m, s, k)
      PROVE  UNCHANGED bus
  BY <1>6 DEF Connect, SlaveEnds
<1> QED
  BY <1>1, <1>2, <1>3, <1>4, <1>5, <1>6 DEF Next, vars

-----------------------------------------------------------------------------
(* The inductive invariant.                                                 *)

LEMMA InitIInv == Init => IInv
<1> SUFFICES ASSUME Init PROVE IInv
  OBVIOUS
<1>1. ListsOK
  BY DEF Init, FactoryInit, ListsOK, ForwardsOnce
<1>2. StoreInv
  BY AbsentDisplay DEF Init, FactoryInit, StoreInv, OneDisplayPerTerminal, Sound, Began
<1>3. CountsOK /\ net \subseteq Packets
  BY DEF Init, FactoryInit, CountsOK, Clients
<1>4. OutsideOK
  <2>1. bus \in [Manager -> Seq([sid : Session, choice : Choices])]
    BY DEF Init
  <2>2. troubles \in 0 .. MaxTroubles
    BY TroublesAssumption DEF Init
  <2> QED
    BY <2>1, <2>2, OffState DEF Init, OutsideOK, SidsKnown
<1> QED
  BY <1>1, <1>2, <1>3, <1>4 DEF IInv

LEMMA StepIInv == IInv /\ [Next]_vars => IInv'
<1> SUFFICES ASSUME IInv, [Next]_vars PROVE IInv'
  OBVIOUS
<1>1. ListsOK'
  BY ListsStep DEF IInv
<1>2. StoreInv'
  BY StoreSteps, StoreKeeps DEF IInv
<1>3. CountsOK' /\ net' \subseteq Packets
  BY CountsStep, NetStep
<1>4. OutsideOK'
  BY TerminalStep, TroublesStep, BusStep DEF IInv, OutsideOK
<1> QED
  BY <1>1, <1>2, <1>3, <1>4 DEF IInv

THEOREM Invariant == Spec => []IInv
BY InitIInv, StepIInv, PTL DEF Spec

\* Every variable has its type: in particular no packet names a session or a
\* manager that does not exist, and a managed forward is sent three times at most.
THEOREM TypeCorrect == Spec => []TypeOK
<1>1. IInv => TypeOK
  BY DEF IInv, ListsOK, StoreInv, CountsOK, OutsideOK, TypeOK
<1> QED
  BY <1>1, Invariant, PTL

\* Whatever is lost, repeated or restarted, display_dispose_check leaves one
\* display for a terminal, and the store holds only displays that wait for a
\* MANAGE or are served.
THEOREM OneDisplay_Holds == Spec => []OneDisplayPerTerminal
<1>1. IInv => OneDisplayPerTerminal
  BY DEF IInv, StoreInv
<1> QED
  BY <1>1, Invariant, PTL

\* The lists of forwarded queries and of managers to tell agree in every order of
\* the packets: a manager is not told again about a query that a newer one follows.
THEOREM ForwardsOnce_Holds == Spec => []ForwardsOnce
<1>1. IInv => ForwardsOnce
  BY DEF IInv, ListsOK
<1> QED
  BY <1>1, Invariant, PTL

-----------------------------------------------------------------------------
(* XdmcpSessions is implemented.                                            *)

\* The state of XdmcpSessions.
Counting(m, t) == IF DisplayOf(m, t) = {} THEN 0 ELSE CHOOSE s \in DisplayOf(m, t) : TRUE
Current == [m \in Manager |-> [t \in Terminal |-> Counting(m, t)]]
BeganOf(m) == {s \in Session : Began(disp[m][s])}
Served == [m \in Manager |-> BeganOf(m)]

\* The display of a terminal is the one that counts.
LEMMA CountingDisplay ==
  ASSUME StoreInv, NEW m \in Manager, NEW s \in store[m]
  PROVE  /\ disp[m][s].term \in Terminal
         /\ Counting(m, disp[m][s].term) = s
<1> DEFINE t == disp[m][s].term
<1>1. s \in Session /\ t \in Terminal
  BY DEF StoreInv, Displays
<1>2. DisplayOf(m, t) = {s}
  BY DEF DisplayOf, StoreInv, OneDisplayPerTerminal
<1>3. (CHOOSE r \in {s} : TRUE) = s
  OBVIOUS
<1> QED
  BY <1>1, <1>2, <1>3 DEF Counting

\* A display that is offered.
LEMMA OffersMap ==
  ASSUME StoreInv, NEW m \in Manager, NEW t \in Terminal, Offers(m, t)
  PROVE  /\ Current' = [Current EXCEPT ![m][t] = serial[m] + 1]
         /\ serial' = [serial EXCEPT ![m] = serial[m] + 1]
         /\ serial[m] + 1 \in Session
         /\ Served' = Served
<1> DEFINE s == serial[m] + 1
           d == Prepared(m, t)
<1>1. /\ s \in Session /\ serial[m] \in Session \cup {0}
      /\ serial' = [serial EXCEPT ![m] = s]
      /\ disp' = [disp EXCEPT ![m][s] = d]
      /\ store' = [store EXCEPT ![m] = DisposeChecked(m, t) \cup {s}]
  BY DEF Offers, StoreInv
<1>2. d \in Displays /\ d.term = t /\ ~Began(d)
  BY PreparedDisplay, LimitsAssumption
<1>3. s > serial[m]
  BY <1>1, SessionNumbers
<1> HIDE DEF s, d
<1>4. /\ disp'[m][s] = d
      /\ \A n \in Manager, r \in Session : n # m \/ r # s => disp'[n][r] = disp[n][r]
  BY <1>1, <1>2, OneDisplay DEF StoreInv
<1>5. /\ store'[m] = {r \in store[m] : disp[m][r].term # t} \cup {s}
      /\ \A n \in Manager : n # m => store'[n] = store[n]
      /\ \A n \in Manager : store[n] \subseteq Session
      /\ s \notin store[m] /\ ~Began(disp[m][s])
  BY <1>1, <1>3 DEF StoreInv, DisposeChecked
<1>6. DisplayOf(m, t)' = {s}
  BY <1>2, <1>4, <1>5 DEF DisplayOf
<1>7. Counting(m, t)' = s
  <2>1. (CHOOSE r \in {s} : TRUE) = s
    OBVIOUS
  <2> QED
    BY <1>6, <2>1 DEF Counting
<1>8. ASSUME NEW n \in Manager, NEW u \in Terminal, n # m \/ u # t
      PROVE  Counting(n, u)' = Counting(n, u)
  <2>1. DisplayOf(n, u)' = DisplayOf(n, u)
    BY <1>2, <1>4, <1>5, <1>8 DEF DisplayOf
  <2> QED
    BY <2>1 DEF Counting
<1>9. Current' = [Current EXCEPT ![m][t] = s]
  BY <1>7, <1>8 DEF Current
<1>10. \A n \in Manager : BeganOf(n)' = BeganOf(n)
  BY <1>2, <1>4, <1>5 DEF BeganOf, Began
<1>11. Served' = Served
  BY <1>10 DEF Served
<1> QED
  BY <1>1, <1>9, <1>11 DEF s

\* A number that is used up.
LEMMA WastesMap ==
  ASSUME StoreInv, NEW m \in Manager, NEW t \in Terminal, Wastes(m, t)
  PROVE  /\ Current' = [Current EXCEPT ![m][t] = 0]
         /\ serial' = [serial EXCEPT ![m] = serial[m] + 1]
         /\ serial[m] + 1 \in Session
         /\ Served' = Served
<1>1. /\ disp' = disp
      /\ store'[m] = {r \in store[m] : disp[m][r].term # t}
      /\ \A n \in Manager : n # m => store'[n] = store[n]
  BY DEF Wastes, StoreInv, DisposeChecked
<1>2. Counting(m, t)' = 0
  <2>1. DisplayOf(m, t)' = {}
    BY <1>1 DEF DisplayOf
  <2> QED
    BY <2>1 DEF Counting
<1>3. ASSUME NEW n \in Manager, NEW u \in Terminal, n # m \/ u # t
      PROVE  Counting(n, u)' = Counting(n, u)
  <2>1. DisplayOf(n, u)' = DisplayOf(n, u)
    BY <1>1, <1>3 DEF DisplayOf
  <2> QED
    BY <2>1 DEF Counting
<1>4. Current' = [Current EXCEPT ![m][t] = 0]
  BY <1>2, <1>3 DEF Current
<1>5. Served' = Served
  BY <1>1 DEF Served, BeganOf, Began
<1> QED
  BY <1>4, <1>5 DEF Wastes

\* A display whose slave goes on or is started.
LEMMA GoesMap ==
  ASSUME StoreInv, NEW m \in Manager, NEW s \in Session, NEW d \in Displays, Goes(m, s, d)
  PROVE  /\ Current' = Current /\ serial' = serial
         /\ \/ Served' = Served
            \/ \E t \in Terminal :
                 /\ Current[m][t] # 0
                 /\ Served' = [Served EXCEPT ![m] = @ \cup {Current[m][t]}]
<1>1. /\ disp' = [disp EXCEPT ![m][s] = d] /\ store' = store /\ serial' = serial
      /\ Began(d) /\ d.term = disp[m][s].term
      /\ s \in store[m] \/ Began(disp[m][s])
  BY DEF Goes
<1>2. /\ disp'[m][s] = d
      /\ \A n \in Manager, r \in Session : n # m \/ r # s => disp'[n][r] = disp[n][r]
  BY <1>1, OneDisplay DEF StoreInv
<1>3. \A n \in Manager, r \in Session : disp'[n][r].term = disp[n][r].term
  BY <1>1, <1>2
<1>4. \A n \in Manager, u \in Terminal : DisplayOf(n, u)' = DisplayOf(n, u)
  BY <1>1, <1>3 DEF DisplayOf, StoreInv
<1>5. Current' = Current
  <2>1. ASSUME NEW n \in Manager, NEW u \in Terminal
        PROVE  Counting(n, u)' = Counting(n, u)
    <3>1. DisplayOf(n, u)' = DisplayOf(n, u)
      BY <1>4
    <3> QED
      BY <3>1 DEF Counting
  <2> QED
    BY <2>1 DEF Current
<1>6. /\ BeganOf(m)' = BeganOf(m) \cup {s}
      /\ \A n \in Manager : n # m => BeganOf(n)' = BeganOf(n)
  BY <1>1, <1>2 DEF BeganOf, Began
<1>7. CASE Began(disp[m][s])
  <2>1. BeganOf(m) \cup {s} = BeganOf(m)
    BY <1>7 DEF BeganOf
  <2>2. Served' = Served
    BY <1>6, <2>1 DEF Served
  <2> QED
    BY <1>1, <1>5, <2>2
<1>8. CASE s \in store[m]
  <2> DEFINE t == disp[m][s].term
  <2>1. t \in Terminal /\ Current[m][t] = s
    BY <1>8, CountingDisplay DEF Current
  <2>2. s # 0
    BY SessionNumbers
  <2>3. Served' = [Served EXCEPT ![m] = @ \cup {s}]
    BY <1>6 DEF Served
  <2> QED
    BY <1>1, <1>5, <2>1, <2>2, <2>3
<1> QED
  BY <1>1, <1>7, <1>8

\* A display that is dropped.
LEMMA EndsMap ==
  ASSUME StoreInv, NEW m \in Manager, NEW s \in Session, NEW d \in Displays, Ends(m, s, d)
  PROVE  /\ Served' = Served /\ serial' = serial
         /\ \/ Current' = Current
            \/ \E t \in Terminal :
                 /\ Current[m][t] \in Served[m]
                 /\ Current' = [Current EXCEPT ![m][t] = 0]
<1>1. /\ disp' = [disp EXCEPT ![m][s] = d] /\ serial' = serial
      /\ store' = [store EXCEPT ![m] = @ \ {s}]
      /\ Began(d) /\ Began(disp[m][s]) /\ d.term = disp[m][s].term
  BY DEF Ends
<1>2. /\ disp'[m][s] = d
      /\ \A n \in Manager, r \in Session : n # m \/ r # s => disp'[n][r] = disp[n][r]
  BY <1>1, OneDisplay DEF StoreInv
<1>3. \A n \in Manager, r \in Session : disp'[n][r].term = disp[n][r].term
  BY <1>1, <1>2
<1>4. /\ store'[m] = store[m] \ {s} /\ \A n \in Manager : n # m => store'[n] = store[n]
      /\ \A n \in Manager : store[n] \subseteq Session
  BY <1>1 DEF StoreInv
<1>5. \A n \in Manager : BeganOf(n)' = BeganOf(n)
  BY <1>1, <1>2 DEF BeganOf, Began
<1>6. Served' = Served
  BY <1>5 DEF Served
<1>7. CASE s \notin store[m]
  <2>1. \A n \in Manager : store'[n] = store[n]
    BY <1>4, <1>7
  <2>2. \A n \in Manager, u \in Terminal : DisplayOf(n, u)' = DisplayOf(n, u)
    BY <1>3, <1>4, <2>1 DEF DisplayOf
  <2>3. Current' = Current
    <3>1. ASSUME NEW n \in Manager, NEW u \in Terminal
          PROVE  Counting(n, u)' = Counting(n, u)
      <4>1. DisplayOf(n, u)' = DisplayOf(n, u)
        BY <2>2
      <4> QED
        BY <4>1 DEF Counting
    <3> QED
      BY <3>1 DEF Current
  <2> QED
    BY <1>1, <1>6, <2>3
<1>8. CASE s \in store[m]
  <2>1. PICK t \in Terminal : t = disp[m][s].term /\ Current[m][t] = s
    BY <1>8, CountingDisplay DEF Current
  <2>2. s \in Served[m]
    BY <1>1 DEF Served, BeganOf
  <2>3. DisplayOf(m, t)' = {}
    BY <1>3, <1>4, <1>8, <2>1 DEF DisplayOf, StoreInv, OneDisplayPerTerminal
  <2>4. Counting(m, t)' = 0
    BY <2>3 DEF Counting
  <2>5. ASSUME NEW n \in Manager, NEW u \in Terminal, n # m \/ u # t
        PROVE  Counting(n, u)' = Counting(n, u)
    <3>1. DisplayOf(n, u)' = DisplayOf(n, u)
      BY <1>3, <1>4, <2>1, <2>5 DEF DisplayOf
    <3> QED
      BY <3>1 DEF Counting
  <2>6. Current' = [Current EXCEPT ![m][t] = 0]
    BY <2>4, <2>5 DEF Current
  <2> QED
    BY <1>1, <1>6, <2>1, <2>2, <2>6
<1> QED
  BY <1>7, <1>8

\* Initially nothing is given.
LEMMA InitMaps == Init => Sessions!Init
<1> SUFFICES ASSUME Init PROVE Sessions!Init
  OBVIOUS
<1>1. serial = [m \in Manager |-> 0]
  BY DEF Init, FactoryInit
<1>2. Current = [m \in Manager |-> [t \in Terminal |-> 0]]
  <2>1. \A m \in Manager, t \in Terminal : DisplayOf(m, t) = {}
    BY DEF Init, FactoryInit, DisplayOf
  <2> QED
    BY <2>1 DEF Current, Counting
<1>3. Served = [m \in Manager |-> {}]
  <2>1. \A m \in Manager : BeganOf(m) = {}
    BY AbsentDisplay DEF Init, FactoryInit, BeganOf, Began
  <2> QED
    BY <2>1 DEF Served
<1> QED
  BY <1>1, <1>2, <1>3 DEF Sessions!Init, Current, Counting, Served, BeganOf, Began

\* Each kind of step is a step of XdmcpSessions, or changes nothing of it.
LEMMA OfferMaps ==
  ASSUME StoreInv, NEW m \in Manager, NEW t \in Terminal, Offers(m, t)
  PROVE  Sessions!Offer(m, t)
BY OffersMap DEF Sessions!Offer, Current, Counting, Served, BeganOf, Began

LEMMA WasteMaps ==
  ASSUME StoreInv, NEW m \in Manager, NEW t \in Terminal, Wastes(m, t)
  PROVE  Sessions!Waste(m, t)
BY WastesMap DEF Sessions!Waste, Current, Counting, Served, BeganOf, Began

LEMMA GoesMaps ==
  ASSUME StoreInv, NEW m \in Manager, NEW s \in Session, NEW d \in Displays, Goes(m, s, d)
  PROVE  UNCHANGED Sessions!vars \/ \E t \in Terminal : Sessions!Serve(m, t)
<1>1. CASE Served' = Served
  BY <1>1, GoesMap DEF Sessions!vars, Current, Counting, Served, BeganOf, Began
<1>2. ASSUME NEW t \in Terminal, Current[m][t] # 0,
             Served' = [Served EXCEPT ![m] = @ \cup {Current[m][t]}]
      PROVE  Sessions!Serve(m, t)
  BY <1>2, GoesMap DEF Sessions!Serve, Current, Counting, Served, BeganOf, Began
<1> QED
  BY <1>1, <1>2, GoesMap

LEMMA EndsMaps ==
  ASSUME StoreInv, NEW m \in Manager, NEW s \in Session, NEW d \in Displays, Ends(m, s, d)
  PROVE  UNCHANGED Sessions!vars \/ \E t \in Terminal : Sessions!Finish(m, t)
<1>1. CASE Current' = Current
  BY <1>1, EndsMap DEF Sessions!vars, Current, Counting, Served, BeganOf, Began
<1>2. ASSUME NEW t \in Terminal, Current[m][t] \in Served[m],
             Current' = [Current EXCEPT ![m][t] = 0]
      PROVE  Sessions!Finish(m, t)
  BY <1>2, EndsMap DEF Sessions!Finish, Current, Counting, Served, BeganOf, Began
<1> QED
  BY <1>1, <1>2, EndsMap

LEMMA StepMaps ==
  ASSUME StoreInv, StoreStep
  PROVE  [Sessions!Next]_(Sessions!vars)
<1>1. CASE UNCHANGED <<disp, store, serial>>
  BY <1>1 DEF Sessions!vars, DisplayOf
<1>2. ASSUME NEW m \in Manager, NEW t \in Terminal, Offers(m, t) \/ Wastes(m, t)
      PROVE  Sessions!Next
  BY <1>2, OfferMaps, WasteMaps DEF Sessions!Next
<1>3. ASSUME NEW m \in Manager, NEW s \in Session, NEW d \in Displays,
             Goes(m, s, d) \/ Ends(m, s, d)
      PROVE  UNCHANGED Sessions!vars \/ Sessions!Next
  BY <1>3, GoesMaps, EndsMaps DEF Sessions!Next
<1> QED
  BY <1>1, <1>2, <1>3 DEF StoreStep

\* Whatever is lost, repeated, overtaken or restarted: a session number is given
\* once, to one terminal, it is served only while it is the terminal's newest, and
\* the terminal loses it only when it was served or asks again.
THEOREM SessionsKept_Holds == Spec => SessionsKept
<1>1. Init => Sessions!Init
  BY InitMaps
<1>2. IInv /\ [Next]_vars => [Sessions!Next]_(Sessions!vars)
  BY StoreSteps, StepMaps DEF IInv
<1> QED
  BY <1>1, <1>2, Invariant, PTL DEF Spec, SessionsKept, Sessions!Spec

-----------------------------------------------------------------------------
(***************************************************************************)
(* The choosers.  Without trouble a terminal has one packet under way at     *)
(* most, and it is the one its phase waits for; so nothing is handled for a  *)
(* terminal that has a chooser, and the client of its host stays as it was   *)
(* when the chooser was offered.  This is about terminals whose hosts differ, *)
(* since a factory knows a client by its host.                              *)
(***************************************************************************)
HostsDiffer == \A t, u \in Terminal : HostOf(t) = HostOf(u) => t = u

\* The packets that say where a terminal is.
Queries == {"QUERY", "INDIRECT_QUERY"}
About(p, t) ==
  \/ p.type \in Queries \cup {"REQUEST", "FORWARD_QUERY", "MANAGE", "KEEPALIVE"}
     /\ p.term = t
  \/ p.type \in {"WILLING", "ACCEPT", "DECLINE", "REFUSE", "ALIVE"} /\ p.to = t

Expected(t) == indirect[Server][HostOf(t)] = Unchosen

\* The display s of m was made for t, and the choice of its chooser is expected.
Offered(m, s, t) ==
  /\ s \in Session /\ s <= serial[m] /\ disp[m][s].term = t
  /\ disp[m][s].chooser => Expected(t)

\* The packet for t is what x, its state, waits for.
Fits(x, p, t) ==
  \/ x.phase = "query" /\ p.type \in Queries /\ p.to = Server
  \/ x.phase = "query" /\ p.type \in {"FORWARD_QUERY", "WILLING"}
  \/ x.phase = "request" /\ p.type = "REQUEST" /\ p.to = x.mgr
  \/ x.phase = "request" /\ p.type = "DECLINE"
  \/ /\ x.phase = "request" /\ p.type = "ACCEPT" /\ p.from = x.mgr
     /\ Offered(x.mgr, p.sid, t) /\ ~Began(disp[x.mgr][p.sid])
  \/ /\ x.phase = "manage" /\ p.type = "MANAGE" /\ p.to = x.mgr /\ p.sid = x.sid
     /\ ~Began(disp[x.mgr][x.sid])
  \/ x.phase = "manage" /\ p.type = "REFUSE" /\ ~Began(disp[x.mgr][x.sid])

\* A slave that serves the terminal, or will, is offered.
Attended(x, t) ==
  /\ x.phase = "manage" => Offered(x.mgr, x.sid, t)
  /\ x.phase = "up" =>
       /\ x.slave \in Start /\ x.sid <= serial[x.mgr] /\ disp[x.mgr][x.sid].term = t
       /\ disp[x.mgr][x.sid].process[x.slave] = "running" => Offered(x.mgr, x.sid, t)

OnTheWay(t) ==
  /\ \A p, q \in net : About(p, t) /\ About(q, t) => p = q
  /\ \A p \in net : About(p, t) => Fits(term[t], p, t)
  /\ Attended(term[t], t)

\* The chooser of t has ended, and no answer to t's next query is under way.
Ended(x) == x.phase = "up" /\ disp[x.mgr][x.sid].process[x.slave] # "running"
Chosen(t) ==
  \/ Ended(term[t])
  \/ term[t].phase = "query" /\ \A p \in net : About(p, t) => p.type \in Queries

\* Each choice that is not dispatched is of another terminal.
BusInv ==
  /\ \A m \in Manager : bus[m] # <<>> => m = Server
  /\ \A i \in DOMAIN bus[Server] :
       LET s == bus[Server][i].sid
           t == disp[Server][s].term
       IN  /\ s <= serial[Server] /\ Expected(t) /\ Chosen(t)
           /\ \A j \in DOMAIN bus[Server] : disp[Server][bus[Server][j].sid].term = t => i = j

\* A display is given one slave, and ends with it.
Single(d) ==
  /\ \A j, k \in Start : d.process[j] # "none" /\ d.process[k] # "none" => j = k
  /\ d.idle \/ d.freed => Began(d) /\ \A k \in Start : d.process[k] \notin {"running", "zombie"}
SingleInv == \A m \in Manager, s \in Session :
  Single(disp[m][s]) /\ (disp[m][s].chooser => m = Server)
ClientInv == \A m \in Manager \ {Server}, h \in Host : indirect[m][h] # Unchosen

Undisturbed ==
  /\ crashed = {} /\ BusInv /\ SingleInv /\ ClientInv
  /\ \A t \in Terminal : OnTheWay(t)
ChoiceInv == troubles = 0 /\ PromptBus => Undisturbed

\* What a step leaves to every display that was made, and to the terminal t.
Lasting ==
  \A m \in Manager :
    /\ serial[m] <= serial'[m] /\ serial'[m] \in Nat
    /\ \A s \in Session : s <= serial[m] =>
         /\ disp'[m][s].term = disp[m][s].term /\ disp'[m][s].chooser = disp[m][s].chooser
Ages(d, e) ==
  /\ Began(e) => Began(d)
  /\ \A k \in Start : e.process[k] = "running" => d.process[k] = "running"
Kept(t) ==
  /\ term'[t] = term[t]
  /\ \A p \in net' : About(p, t) => p \in net
  /\ Expected(t) => Expected(t)'
  /\ \A m \in Manager, s \in Session :
       s <= serial[m] /\ disp[m][s].term = t => Ages(disp[m][s], disp'[m][s])

LEMMA WhatFits ==
  ASSUME NEW t \in Terminal, OnTheWay(t), NEW p \in net, About(p, t)
  PROVE  Fits(term[t], p, t) /\ \A q \in net : About(q, t) => q = p
BY DEF OnTheWay

\* The types that are needed of a terminal and of the numbers.
LEMMA TerminalTypes ==
  ASSUME IInv, NEW t \in Terminal
  PROVE  /\ term[t] \in TerminalStates /\ term[t].mgr \in Manager
         /\ term[t].phase \in {"manage", "up"} => term[t].sid \in Session
BY DEF IInv, OutsideOK, SidsKnown, TerminalStates

LEMMA SerialTypes ==
  ASSUME IInv
  PROVE  /\ Session \subseteq Nat /\ \A m \in Manager : serial[m] \in Nat
         /\ \A m \in Manager, s \in Session :
              disp[m][s] \in Displays /\ disp[m][s].term \in Terminal
<1>1. Session \subseteq Nat /\ Session \cup {0} \subseteq Nat
  BY SessionNumbers
<1>2. \A m \in Manager : serial[m] \in Session \cup {0}
  BY DEF IInv, StoreInv
<1>3. ASSUME NEW m \in Manager, NEW s \in Session
      PROVE  disp[m][s] \in Displays /\ disp[m][s].term \in Terminal
  <2>1. disp[m][s] \in Displays
    BY DEF IInv, StoreInv
  <2> QED
    BY <2>1 DEF Displays
<1> QED
  BY <1>1, <1>2, <1>3

\* No step takes a number back or changes what a display was made for.
LEMMA StepLasts ==
  ASSUME IInv, IInv', StoreStep
  PROVE  Lasting
<1>1. \A m \in Manager : serial[m] \in Nat /\ serial'[m] \in Nat
  <2>1. Session \cup {0} \subseteq Nat
    BY SessionNumbers
  <2>2. \A m \in Manager : serial[m] \in Session \cup {0} /\ serial'[m] \in Session \cup {0}
    BY DEF IInv, StoreInv
  <2> QED
    BY <2>1, <2>2
<1>2. CASE UNCHANGED <<disp, store, serial>>
  BY <1>1, <1>2 DEF Lasting
<1>3. ASSUME NEW m \in Manager, NEW t \in Terminal, Offers(m, t)
      PROVE  Lasting
  <2>1. Prepared(m, t) \in Displays /\ serial[m] + 1 \in Session /\ Session \subseteq Nat
    BY <1>3, PreparedDisplay, LimitsAssumption, SessionNumbers DEF Offers
  <2>2. \A n \in Manager, r \in Session :
          n # m \/ r # serial[m] + 1 => disp'[n][r] = disp[n][r]
    BY <1>3, <2>1, OneDisplay DEF Offers, IInv, StoreInv
  <2>3. \A n \in Manager : serial'[n] = IF n = m THEN serial[m] + 1 ELSE serial[n]
    BY <1>3 DEF Offers, IInv, StoreInv
  <2>4. \A n \in Manager : serial[n] <= serial'[n]
    BY <1>1, <2>3
  <2>5. ASSUME NEW n \in Manager, NEW r \in Session, r <= serial[n]
        PROVE  disp'[n][r] = disp[n][r]
    <3>1. r \in Nat /\ serial[n] \in Nat
      BY <1>1, <2>1
    <3>2. ~ (n = m /\ r = serial[m] + 1)
      BY <2>5, <3>1
    <3> QED
      BY <2>2, <3>2
  <2> QED
    BY <1>1, <2>4, <2>5 DEF Lasting
<1>4. ASSUME NEW m \in Manager, NEW s \in Session, NEW d \in Displays,
             Goes(m, s, d) \/ Ends(m, s, d)
      PROVE  Lasting
  <2>1. \A n \in Manager, r \in Session :
          disp'[n][r].term = disp[n][r].term /\ disp'[n][r].chooser = disp[n][r].chooser
    BY <1>4, OneDisplay DEF Goes, Ends, IInv, StoreInv
  <2>2. serial' = serial
    BY <1>4 DEF Goes, Ends
  <2> QED
    BY <1>1, <2>1, <2>2 DEF Lasting
<1>5. ASSUME NEW m \in Manager, NEW t \in Terminal, Wastes(m, t)
      PROVE  Lasting
  <2>1. \A n \in Manager : serial'[n] = IF n = m THEN serial[m] + 1 ELSE serial[n]
    BY <1>5 DEF Wastes, IInv, StoreInv
  <2>2. \A n \in Manager : serial[n] <= serial'[n]
    BY <1>1, <2>1
  <2> QED
    BY <1>1, <1>5, <2>2 DEF Lasting, Wastes
<1> QED
  BY <1>2, <1>3, <1>4, <1>5 DEF StoreStep

\* An offer is one of the terminal's still, if the terminal is kept.
LEMMA OfferKept ==
  ASSUME IInv, Lasting, NEW t \in Terminal, NEW m \in Manager, NEW s,
         Expected(t) => Expected(t)', Offered(m, s, t)
  PROVE  Offered(m, s, t)'
<1>1. s \in Session /\ s <= serial[m] /\ disp[m][s].term = t
      /\ (disp[m][s].chooser => Expected(t))
  BY DEF Offered
<1>2. serial[m] <= serial'[m] /\ disp'[m][s].term = t
      /\ disp'[m][s].chooser = disp[m][s].chooser
  BY <1>1 DEF Lasting
<1>3. s \in Nat /\ serial[m] \in Nat /\ serial'[m] \in Nat
  BY <1>1, SerialTypes DEF Lasting
<1>4. s <= serial'[m]
  BY <1>1, <1>2, <1>3
<1> QED
  BY <1>1, <1>2, <1>4 DEF Offered

LEMMA TerminalKept ==
  ASSUME IInv, Lasting, NEW t \in Terminal, OnTheWay(t), Kept(t)
  PROVE  OnTheWay(t)'
<1>1. PICK x : x = term[t]
  OBVIOUS
<1>2. /\ term'[t] = x /\ (Expected(t) => Expected(t)')
      /\ \A p \in net' : About(p, t) => p \in net
  BY <1>1 DEF Kept
<1>3. x.mgr \in Manager /\ (x.phase \in {"manage", "up"} => x.sid \in Session)
  BY <1>1, TerminalTypes
<1>4. ASSUME NEW m \in Manager, NEW s, Offered(m, s, t)
      PROVE  Offered(m, s, t)' /\ (~Began(disp[m][s]) => ~Began(disp'[m][s]))
  <2>1. Offered(m, s, t)'
    BY <1>2, <1>4, OfferKept
  <2>2. ~Began(disp[m][s]) => ~Began(disp'[m][s])
    BY <1>4 DEF Offered, Kept, Ages
  <2> QED
    BY <2>1, <2>2
<1>5. Attended(x, t)
  BY <1>1 DEF OnTheWay
<1>6. ASSUME NEW p \in net', About(p, t)
      PROVE  Fits(x, p, t)'
  <2>1. Fits(x, p, t)
    BY <1>1, <1>2, <1>6 DEF OnTheWay
  <2>2. CASE x.phase = "query" \/ p.type \in {"REQUEST", "DECLINE"}
    BY <2>1, <2>2 DEF Fits, Queries
  <2>3. CASE /\ x.phase = "request" /\ p.type = "ACCEPT" /\ p.from = x.mgr
             /\ Offered(x.mgr, p.sid, t) /\ ~Began(disp[x.mgr][p.sid])
    <3>1. Offered(x.mgr, p.sid, t)' /\ ~Began(disp'[x.mgr][p.sid])
      BY <1>3, <1>4, <2>3
    <3> QED
      BY <2>3, <3>1 DEF Fits
  <2>4. CASE x.phase = "manage" /\ ~Began(disp[x.mgr][x.sid])
    <3>1. ~Began(disp'[x.mgr][x.sid])
      BY <1>3, <1>4, <1>5, <2>4 DEF Attended
    <3> QED
      BY <2>1, <2>4, <3>1 DEF Fits, Queries
  <2> QED
    BY <2>1, <2>2, <2>3, <2>4 DEF Fits
<1>7. Attended(x, t)'
  <2>1. CASE x.phase = "manage"
    BY <1>3, <1>4, <1>5, <2>1 DEF Attended
  <2>2. CASE x.phase = "up"
    <3> DEFINE d == disp[x.mgr][x.sid]
               e == disp'[x.mgr][x.sid]
    <3>1. /\ x.sid \in Session /\ x.sid <= serial[x.mgr] /\ d.term = t /\ x.slave \in Start
          /\ d.process[x.slave] = "running" => Offered(x.mgr, x.sid, t)
      BY <1>3, <1>5, <2>2 DEF Attended
    <3>2. /\ serial[x.mgr] <= serial'[x.mgr] /\ serial'[x.mgr] \in Nat /\ e.term = t
      BY <1>3, <3>1 DEF Lasting
    <3>3. x.sid <= serial'[x.mgr]
      BY <1>3, <3>1, <3>2, SerialTypes
    <3>4. Ages(d, e)
      BY <1>3, <3>1 DEF Kept
    <3> QED
      BY <1>3, <1>4, <2>2, <3>1, <3>2, <3>3, <3>4 DEF Attended, Ages
  <2> QED
    BY <2>1, <2>2 DEF Attended
<1> QED
  <2>1. \A p, q \in net' : About(p, t) /\ About(q, t) => p = q
    BY <1>2 DEF OnTheWay
  <2> QED
    BY <1>2, <1>6, <1>7, <2>1 DEF OnTheWay

\* A terminal that has chosen: nothing but its query is handled for it.
LEMMA ChosenPackets ==
  ASSUME NEW t \in Terminal, OnTheWay(t), Chosen(t), NEW p \in net, About(p, t)
  PROVE  term[t].phase = "query" /\ p.type \in Queries /\ p.to = Server
<1>1. Fits(term[t], p, t)
  BY DEF OnTheWay
<1>2. term[t].phase # "up"
  BY <1>1 DEF Fits
<1>3. term[t].phase = "query" /\ p.type \in Queries
  BY <1>2 DEF Chosen, Ended
<1> QED
  BY <1>1, <1>3 DEF Fits, Queries

LEMMA ChosenKept ==
  ASSUME IInv, NEW t \in Terminal, OnTheWay(t), Kept(t), Chosen(t)
  PROVE  Chosen(t)'
<1>1. PICK x : x = term[t]
  OBVIOUS
<1>2. term'[t] = x /\ \A p \in net' : About(p, t) => p \in net
  BY <1>1 DEF Kept
<1>3. CASE Ended(x)
  <2>1. /\ x.mgr \in Manager /\ x.sid \in Session
        /\ x.slave \in Start /\ x.sid <= serial[x.mgr] /\ disp[x.mgr][x.sid].term = t
    BY <1>1, <1>3, TerminalTypes DEF Ended, OnTheWay, Attended
  <2>2. Ages(disp[x.mgr][x.sid], disp'[x.mgr][x.sid])
    BY <2>1 DEF Kept
  <2>3. disp'[x.mgr][x.sid].process[x.slave] # "running"
    BY <1>3, <2>1, <2>2 DEF Ages, Ended
  <2> QED
    BY <1>2, <1>3, <2>3 DEF Chosen, Ended
<1>4. CASE x.phase = "query" /\ \A p \in net : About(p, t) => p.type \in Queries
  BY <1>2, <1>4 DEF Chosen
<1> QED
  BY <1>1, <1>3, <1>4 DEF Chosen

\* The terminals whose choices are not dispatched.
Named(i) == disp[Server][bus[Server][i].sid].term
Awaits(t) == \E i \in DOMAIN bus[Server] : Named(i) = t

LEMMA AwaitsChosen ==
  ASSUME BusInv, NEW t, Awaits(t)
  PROVE  Expected(t) /\ Chosen(t)
BY DEF BusInv, Awaits, Named

LEMMA BusTypes ==
  ASSUME IInv
  PROVE  /\ Server \in Manager /\ bus[Server] \in Seq([sid : Session, choice : Choices])
         /\ \A i \in DOMAIN bus[Server] : bus[Server][i].sid \in Session /\ Named(i) \in Terminal
<1>1. Server \in Manager
  BY ServerAssumption
<1>2. bus[Server] \in Seq([sid : Session, choice : Choices])
  BY <1>1 DEF IInv, OutsideOK
<1>3. \A i \in DOMAIN bus[Server] : bus[Server][i] \in [sid : Session, choice : Choices]
  BY <1>2, LenProperties
<1>4. \A i \in DOMAIN bus[Server] : bus[Server][i].sid \in Session
  BY <1>3
<1> QED
  BY <1>1, <1>2, <1>4, SerialTypes DEF Named

\* The choices that stay.
LEMMA NamedKept ==
  ASSUME IInv, Lasting, BusInv, NEW i \in DOMAIN bus[Server]
  PROVE  LET s == bus[Server][i].sid
         IN  s \in Session /\ s <= serial'[Server] /\ disp'[Server][s].term = Named(i)
<1> DEFINE s == bus[Server][i].sid
<1>1. Server \in Manager /\ s \in Session /\ s <= serial[Server]
  BY BusTypes DEF BusInv
<1>2. serial[Server] <= serial'[Server] /\ disp'[Server][s].term = disp[Server][s].term
  BY <1>1 DEF Lasting
<1>3. s \in Nat /\ serial[Server] \in Nat /\ serial'[Server] \in Nat
  BY <1>1, SerialTypes DEF Lasting
<1>4. s <= serial'[Server]
  BY <1>1, <1>2, <1>3
<1> QED
  BY <1>1, <1>2, <1>4 DEF Named

LEMMA BusKept ==
  ASSUME IInv, Lasting, BusInv, UNCHANGED bus,
         \A t \in Terminal : Awaits(t) => Expected(t)' /\ Chosen(t)'
  PROVE  BusInv'
<1>1. ASSUME NEW i \in DOMAIN bus[Server], NEW t, t = Named(i)
      PROVE  /\ bus[Server][i].sid <= serial'[Server] /\ Expected(t)' /\ Chosen(t)'
             /\ disp'[Server][bus[Server][i].sid].term = t
  BY <1>1, BusTypes, NamedKept DEF Awaits
<1>2. ASSUME NEW i \in DOMAIN bus[Server], NEW j \in DOMAIN bus[Server], Named(i) = Named(j)
      PROVE  i = j
  BY <1>2 DEF BusInv, Named
<1>3. \A m \in Manager : bus[m] # <<>> => m = Server
  BY DEF BusInv
<1> QED
  BY <1>1, <1>2, <1>3 DEF BusInv

\* A step that moves one terminal.
LEMMA OneMoves ==
  ASSUME IInv, Lasting, Undisturbed, UNCHANGED bus, NEW t \in Terminal,
         \A u \in Terminal \ {t} : Kept(u),
         OnTheWay(t)', Awaits(t) => Expected(t)' /\ Chosen(t)',
         crashed' = {}, SingleInv', ClientInv'
  PROVE  Undisturbed'
<1>1. \A u \in Terminal : OnTheWay(u)'
  BY TerminalKept DEF Undisturbed
<1>2. ASSUME NEW u \in Terminal, Awaits(u)
      PROVE  Expected(u)' /\ Chosen(u)'
  <2>1. CASE u = t
    BY <1>2, <2>1
  <2>2. CASE u # t
    <3>1. Expected(u) /\ Chosen(u)
      BY <1>2, AwaitsChosen DEF Undisturbed
    <3> QED
      BY <2>2, <3>1, ChosenKept DEF Undisturbed, Kept
  <2> QED
    BY <2>1, <2>2
<1>3. BusInv'
  BY <1>2, BusKept DEF Undisturbed
<1> QED
  BY <1>1, <1>3 DEF Undisturbed

\* A step that moves none.
LEMMA NoneMoves ==
  ASSUME IInv, Lasting, Undisturbed, UNCHANGED bus, \A u \in Terminal : Kept(u),
         crashed' = {}, SingleInv', ClientInv'
  PROVE  Undisturbed'
<1>1. \A u \in Terminal : OnTheWay(u)'
  BY TerminalKept DEF Undisturbed
<1>2. \A u \in Terminal : Awaits(u) => Expected(u)' /\ Chosen(u)'
  BY AwaitsChosen, ChosenKept DEF Undisturbed, Kept
<1>3. BusInv'
  BY <1>2, BusKept DEF Undisturbed
<1> QED
  BY <1>1, <1>3 DEF Undisturbed

\* Which terminal the packets are about.
LEMMA Subjects ==
  ASSUME NEW t, NEW u, NEW m
  PROVE  /\ About(Willing(t, m), u) <=> t = u
         /\ About(Request(m, t), u) <=> t = u
         /\ About(Decline(t, m), u) <=> t = u
         /\ \A type \in Queries : About(Query(type, m, t), u) <=> t = u
         /\ \A n : About(ForwardQuery(m, n, t), u) <=> t = u
         /\ \A s : About(Manage(m, t, s), u) <=> t = u
         /\ \A s : About(Accept(t, m, s), u) <=> t = u
         /\ \A s : About(Refuse(t, m, s), u) <=> t = u
BY DEF About, Queries, Willing, ForwardQuery, Request, Manage, Accept, Decline, Refuse, Query

LEMMA NoSubject ==
  ASSUME NEW m, NEW n, NEW h, NEW u
  PROVE  ~About(ManagedForward(m, n, h), u) /\ ~About(GotManagedForward(m, n, h), u)
BY DEF About, Queries, ManagedForward, GotManagedForward

LEMMA ResolutionAbout ==
  ASSUME NEW m, NEW h, NEW q \in Resolution(m, h), NEW u
  PROVE  ~About(q, u)
<1>1. PICK i : q = ManagedForward(forwards[m][i].from, m, h)
  BY DEF Resolution
<1> QED
  BY <1>1, NoSubject

\* A handler that answers a packet about t.
Replies(out, t) ==
  /\ \A q \in out, u \in Terminal : About(q, u) => u = t
  /\ \A q, r \in out : About(q, t) /\ About(r, t) => q = r

LEMMA Answered ==
  ASSUME NEW t \in Terminal, OnTheWay(t), NEW p \in net, About(p, t),
         NEW out, Answer(p, out), Replies(out, t)
  PROVE  /\ \A u \in Terminal \ {t}, q \in net' : About(q, u) => q \in net
         /\ \A q \in net' : About(q, t) => q \in out
         /\ \A q, r \in net' : About(q, t) /\ About(r, t) => q = r
<1>1. net' = (net \ {p}) \cup out
  BY DEF Answer
<1>2. \A q \in net : About(q, t) => q = p
  BY DEF OnTheWay
<1>3. \A q \in net' : About(q, t) => q \in out
  BY <1>1, <1>2
<1> QED
  BY <1>1, <1>3 DEF Replies

\* A terminal whose packet a main loop without choices handles awaits none.
LEMMA NotAwaiting ==
  ASSUME IInv, Undisturbed, NEW t \in Terminal, NEW p \in net, About(p, t), bus[p.to] = <<>>
  PROVE  ~Awaits(t)
<1> SUFFICES ASSUME Awaits(t) PROVE FALSE
  OBVIOUS
<1>1. p.to = Server
  BY AwaitsChosen, ChosenPackets DEF Undisturbed
<1> QED
  BY <1>1 DEF Awaits

\* The answer is all that the handler does for the terminals.
LEMMA AnsweredOnly ==
  ASSUME IInv, Lasting, Undisturbed, NEW t \in Terminal, NEW p \in net, About(p, t), ~Awaits(t),
         NEW out, Answer(p, out), Replies(out, t),
         \A q \in out : About(q, t) => Fits(term[t], q, t),
         UNCHANGED <<disp, serial, indirect, crashed, term, bus>>
  PROVE  Undisturbed'
<1>1. OnTheWay(t)
  BY DEF Undisturbed
<1>2. /\ \A u \in Terminal \ {t}, q \in net' : About(q, u) => q \in net
      /\ \A q \in net' : About(q, t) => Fits(term[t], q, t)
      /\ \A q, r \in net' : About(q, t) /\ About(r, t) => q = r
  BY <1>1, Answered
<1>3. \A u \in Terminal \ {t} : Kept(u)
  BY <1>2 DEF Kept, Expected, Ages
<1>4. OnTheWay(t)'
  <2>1. \A q \in net' : About(q, t) => Fits(term[t], q, t)'
    BY <1>2 DEF Fits, Offered, Expected
  <2>2. Attended(term[t], t)'
    BY <1>1 DEF OnTheWay, Attended, Offered, Expected
  <2> QED
    BY <1>2, <2>1, <2>2 DEF OnTheWay
<1>5. crashed' = {} /\ SingleInv' /\ ClientInv'
  BY DEF Undisturbed, SingleInv, ClientInv
<1> QED
  BY <1>3, <1>4, <1>5, OneMoves

\* The packets that are answered and change nothing else of a terminal.
LEMMA QueriesAnswered ==
  ASSUME IInv, Lasting, Undisturbed, NEW p \in net, bus[p.to] = <<>>,
         HandleQuery(p) \/ IgnoreIndirectQuery(p) \/ HandleForwardQuery(p),
         UNCHANGED <<term, bus>>
  PROVE  Undisturbed'
<1> DEFINE t == p.term
<1>1. t \in Terminal /\ About(p, t)
  BY PacketFields DEF IInv, HandleQuery, IgnoreIndirectQuery, HandleForwardQuery, About, Queries
<1>2. ~Awaits(t) /\ Fits(term[t], p, t)
  BY <1>1, NotAwaiting DEF Undisturbed, OnTheWay
<1>3. term[t].phase = "query"
  BY <1>2 DEF HandleQuery, IgnoreIndirectQuery, HandleForwardQuery, Fits
<1>4. UNCHANGED <<disp, serial, indirect, crashed, term, bus>>
  BY DEF HandleQuery, IgnoreIndirectQuery, HandleForwardQuery, factoryVars
<1>5. ASSUME Answer(p, {Willing(t, p.to)})
      PROVE  Undisturbed'
  <2>1. Fits(term[t], Willing(t, p.to), t)
    BY <1>3 DEF Fits, Willing
  <2>2. Replies({Willing(t, p.to)}, t)
    <3>1. \A u : About(Willing(t, p.to), u) => u = t
      BY Subjects
    <3> QED
      BY <3>1 DEF Replies
  <2> QED
    BY <1>1, <1>2, <1>4, <1>5, <2>1, <2>2, AnsweredOnly
<1>6. ASSUME Answer(p, {})
      PROVE  Undisturbed'
  <2>1. Replies({}, t)
    BY DEF Replies
  <2> QED
    BY <1>1, <1>2, <1>4, <1>6, <2>1, AnsweredOnly
<1> QED
  BY <1>5, <1>6 DEF HandleQuery, IgnoreIndirectQuery, HandleForwardQuery

LEMMA DenialsSent ==
  ASSUME IInv, Lasting, Undisturbed, NEW p \in net, bus[p.to] = <<>>,
         DeclineRequest(p) \/ RefuseManage(p), UNCHANGED <<term, bus>>
  PROVE  Undisturbed'
<1> DEFINE t == p.term
<1>1. t \in Terminal /\ About(p, t)
  BY PacketFields DEF IInv, DeclineRequest, RefuseManage, About, Queries
<1>2. ~Awaits(t) /\ Fits(term[t], p, t)
  BY <1>1, NotAwaiting DEF Undisturbed, OnTheWay
<1>3. UNCHANGED <<disp, serial, indirect, crashed, term, bus>>
  BY DEF DeclineRequest, RefuseManage
<1>4. ASSUME NEW q, NEW h, About(q, t), \A u : About(q, u) => u = t, Fits(term[t], q, t),
             Answer(p, {q} \cup Resolution(p.to, h))
      PROVE  Undisturbed'
  <2>1. Replies({q} \cup Resolution(p.to, h), t)
    BY <1>4, ResolutionAbout DEF Replies
  <2>2. \A r \in {q} \cup Resolution(p.to, h) : About(r, t) => Fits(term[t], r, t)
    BY <1>4, ResolutionAbout
  <2> QED
    BY <1>1, <1>2, <1>3, <1>4, <2>1, <2>2, AnsweredOnly
<1>5. CASE DeclineRequest(p)
  <2>1. Fits(term[t], Decline(t, p.to), t)
    BY <1>2, <1>5 DEF DeclineRequest, Fits, Decline, Queries
  <2>2. \A u : About(Decline(t, p.to), u) <=> t = u
    BY Subjects
  <2>3. Answer(p, {Decline(t, p.to)} \cup Resolution(p.to, HostOf(t)))
    BY <1>5 DEF DeclineRequest
  <2> HIDE DEF t
  <2> QED
    BY <1>4, <2>1, <2>2, <2>3
<1>6. CASE RefuseManage(p)
  <2>1. Fits(term[t], Refuse(t, p.to, p.sid), t)
    BY <1>2, <1>6 DEF RefuseManage, Fits, Refuse, Queries
  <2>2. \A u : About(Refuse(t, p.to, p.sid), u) <=> t = u
    BY Subjects
  <2>3. Answer(p, {Refuse(t, p.to, p.sid)} \cup Resolution(p.to, HostOf(t)))
    BY <1>6 DEF RefuseManage
  <2> HIDE DEF t
  <2> QED
    BY <1>4, <2>1, <2>2, <2>3
<1> QED
  BY <1>5, <1>6

\* The client of one host changes.
LEMMA OneHost ==
  ASSUME HostsDiffer, indirect \in [Manager -> [Host -> Clients]],
         NEW m \in Manager, NEW t \in Terminal, NEW v,
         indirect' = [indirect EXCEPT ![m][HostOf(t)] = v]
  PROVE  /\ indirect'[m][HostOf(t)] = v
         /\ \A n \in Manager : n # m => indirect'[n] = indirect[n]
         /\ \A u \in Terminal \ {t} : Expected(u)' = Expected(u)
<1>1. HostOf(t) \in Host /\ \A u \in Terminal : HostOf(u) \in Host
  BY HostOfTerminal
<1>2. \A u \in Terminal \ {t} : HostOf(u) # HostOf(t)
  BY DEF HostsDiffer
<1>3. \A n \in Manager, h \in Host :
        indirect'[n][h] = IF n = m /\ h = HostOf(t) THEN v ELSE indirect[n][h]
  BY <1>1
<1>4. \A n \in Manager : n # m => indirect'[n] = indirect[n]
  OBVIOUS
<1> QED
  BY <1>1, <1>2, <1>3, <1>4, ServerAssumption DEF Expected

LEMMA IndirectQueryAnswered ==
  ASSUME HostsDiffer, IInv, Lasting, Undisturbed, NEW p \in net, bus[p.to] = <<>>,
         HandleIndirectQuery(p), UNCHANGED <<term, bus>>
  PROVE  Undisturbed'
<1> DEFINE t == p.term
<1>1. t \in Terminal /\ About(p, t) /\ OnTheWay(t)
  BY PacketFields DEF IInv, HandleIndirectQuery, About, Queries, Undisturbed
<1>2. ~Awaits(t) /\ Fits(term[t], p, t)
  BY <1>1, NotAwaiting DEF OnTheWay
<1>3. term[t].phase = "query" /\ p.to = Server
  BY <1>2 DEF HandleIndirectQuery, Fits, Queries
<1>4. UNCHANGED <<disp, serial, crashed>>
  BY DEF HandleIndirectQuery
<1>5. \/ UNCHANGED indirect
      \/ \E v : indirect' = [indirect EXCEPT ![Server][HostOf(t)] = v]
  BY <1>3 DEF HandleIndirectQuery
<1>6. /\ \A n \in Manager : n # Server => indirect'[n] = indirect[n]
      /\ \A u \in Terminal \ {t} : Expected(u)' = Expected(u)
  <2>1. CASE UNCHANGED indirect
    BY <2>1 DEF Expected
  <2>2. ASSUME NEW v, indirect' = [indirect EXCEPT ![Server][HostOf(t)] = v]
        PROVE  /\ \A n \in Manager : n # Server => indirect'[n] = indirect[n]
               /\ \A u \in Terminal \ {t} : Expected(u)' = Expected(u)
    <3> HIDE DEF t
    <3> QED
      BY <1>1, <2>2, OneHost, ServerAssumption DEF IInv, CountsOK
  <2> QED
    BY <1>5, <2>1, <2>2
<1>7. \E q : /\ q.type \in {"WILLING", "FORWARD_QUERY"} /\ \A u : About(q, u) => u = t
             /\ Answer(p, {q})
  <2>1. /\ \A u : About(Willing(t, p.to), u) => u = t
        /\ \A n, u : About(ForwardQuery(n, p.to, t), u) => u = t
    BY Subjects
  <2>2. Willing(t, p.to).type = "WILLING" /\ \A n : ForwardQuery(n, p.to, t).type = "FORWARD_QUERY"
    BY DEF Willing, ForwardQuery
  <2>3. Answer(p, {Willing(t, p.to)}) \/ \E n : Answer(p, {ForwardQuery(n, p.to, t)})
    BY DEF HandleIndirectQuery
  <2> QED
    BY <2>1, <2>2, <2>3
<1>8. PICK q : /\ q.type \in {"WILLING", "FORWARD_QUERY"} /\ \A u : About(q, u) => u = t
               /\ Answer(p, {q})
  BY <1>7
<1> HIDE DEF t
<1>9. /\ \A u \in Terminal \ {t}, r \in net' : About(r, u) => r \in net
      /\ \A r \in net' : About(r, t) => r = q
      /\ \A r, s \in net' : About(r, t) /\ About(s, t) => r = s
  <2>1. Replies({q}, t)
    BY <1>8 DEF Replies
  <2> QED
    BY <1>1, <1>8, <2>1, Answered
<1>10. \A u \in Terminal \ {t} : Kept(u)
  BY <1>4, <1>6, <1>9 DEF Kept, Ages
<1>11. OnTheWay(t)'
  BY <1>3, <1>8, <1>9 DEF OnTheWay, Fits, Attended
<1>12. crashed' = {} /\ SingleInv' /\ ClientInv'
  BY <1>4, <1>6 DEF Undisturbed, SingleInv, ClientInv
<1> QED
  BY <1>1, <1>2, <1>10, <1>11, <1>12, OneMoves

\* The other packets, which are about no terminal.
LEMMA ForwardsHandled ==
  ASSUME HostsDiffer, IInv, Lasting, Undisturbed, NEW p \in net,
         HandleManagedForward(p) \/ HandleGotManagedForward(p), UNCHANGED <<term, bus>>
  PROVE  Undisturbed'
<1>1. UNCHANGED <<disp, serial, crashed>>
  BY DEF HandleManagedForward, HandleGotManagedForward
<1>2. \A q \in net' : \A u : About(q, u) => q \in net
  BY NoSubject DEF HandleManagedForward, HandleGotManagedForward, Answer
<1>3. \A m \in Manager, h \in Host : indirect[m][h] = Unchosen <=> indirect'[m][h] = Unchosen
  <2>1. CASE UNCHANGED indirect
    BY <2>1
  <2>2. CASE /\ indirect[p.to][p.host] = p.from /\ p.from \in Manager
             /\ indirect' = [indirect EXCEPT ![p.to][p.host] = NoClient]
    BY <2>2, MarksAssumption DEF NoClient, Unchosen, IInv, CountsOK
  <2> QED
    BY <2>1, <2>2, PacketFields DEF IInv, HandleManagedForward, HandleGotManagedForward
<1>4. \A u \in Terminal : Kept(u)
  BY <1>1, <1>2, <1>3, HostOfTerminal, ServerAssumption DEF Kept, Expected, Ages
<1>5. crashed' = {} /\ SingleInv' /\ ClientInv'
  BY <1>1, <1>3 DEF Undisturbed, SingleInv, ClientInv
<1> QED
  BY <1>1, <1>4, <1>5, NoneMoves

LEMMA PreparedSingle ==
  ASSUME NEW m \in Manager, NEW t \in Terminal
  PROVE  /\ Single(Prepared(m, t))
         /\ Prepared(m, t).chooser => indirect[m][HostOf(t)] = Unchosen
<1>1. /\ Prepared(m, t).process = [k \in Start |-> "none"]
      /\ Prepared(m, t).idle = FALSE /\ Prepared(m, t).freed = FALSE
      /\ Prepared(m, t).chooser = (HonorIndirect /\ indirect[m][HostOf(t)] = Unchosen)
  BY DEF Prepared, Absent
<1> QED
  BY <1>1 DEF Single

LEMMA RequestAccepted ==
  ASSUME IInv, Lasting, Undisturbed, NEW p \in net, bus[p.to] = <<>>,
         AcceptRequest(p), UNCHANGED <<term, bus>>
  PROVE  Undisturbed'
<1> DEFINE t == p.term
           m == p.to
<1>0. PICK s : s = serial[m] + 1
  OBVIOUS
<1> DEFINE q == Accept(t, m, s)
<1>1. t \in Terminal /\ m \in Manager /\ About(p, t) /\ OnTheWay(t)
  BY PacketFields DEF IInv, AcceptRequest, EnterRequest, About, Queries, Undisturbed
<1>2. ~Awaits(t) /\ Fits(term[t], p, t)
  BY <1>1, NotAwaiting DEF OnTheWay
<1>3. term[t].phase = "request" /\ m = term[t].mgr
  BY <1>2 DEF AcceptRequest, EnterRequest, Fits, Queries
<1>4. /\ UNCHANGED <<indirect, crashed>> /\ Answer(p, {q}) /\ Offers(m, t)
      /\ s \in Session /\ serial' = [serial EXCEPT ![m] = s]
      /\ disp' = [disp EXCEPT ![m][s] = Prepared(m, t)]
  BY <1>0, AcceptedStore DEF IInv, AcceptRequest, EnterRequest, Offers
<1>5. (\A u : About(q, u) => u = t) /\ q.type = "ACCEPT" /\ q.from = m /\ q.sid = s
  <2> HIDE DEF t, m
  <2>1. \A u : About(Accept(t, m, s), u) => u = t
    BY Subjects
  <2> QED
    BY <2>1 DEF Accept
<1>6. /\ Prepared(m, t) \in Displays /\ Prepared(m, t).term = t /\ ~Began(Prepared(m, t))
      /\ Single(Prepared(m, t))
      /\ Prepared(m, t).chooser => m = Server /\ Expected(t)
  BY <1>1, PreparedDisplay, PreparedSingle, LimitsAssumption, HostOfTerminal
     DEF Undisturbed, ClientInv, Expected
<1>7. (\A n \in Manager : serial[n] \in Nat) /\ s = serial[m] + 1 /\ s <= s
  BY <1>0, <1>1, SerialTypes
<1> HIDE DEF t, m, q
<1>8. /\ \A u \in Terminal \ {t}, r \in net' : About(r, u) => r \in net
      /\ \A r \in net' : About(r, t) => r = q
      /\ \A r, r2 \in net' : About(r, t) /\ About(r2, t) => r = r2
  <2>1. Replies({q}, t)
    BY <1>5 DEF Replies
  <2> QED
    BY <1>1, <1>4, <2>1, Answered
<1>9. /\ disp'[m][s] = Prepared(m, t) /\ serial'[m] = s
      /\ \A n \in Manager, r \in Session : n # m \/ r # s => disp'[n][r] = disp[n][r]
  BY <1>1, <1>4, <1>6, OneDisplay DEF IInv, StoreInv
<1>10. \A n \in Manager, r \in Session : r <= serial[n] => disp'[n][r] = disp[n][r]
  <2>1. ASSUME NEW n \in Manager, NEW r \in Session, r <= serial[n]
        PROVE  n # m \/ r # s
    BY <1>7, <2>1, SerialTypes
  <2> QED
    BY <1>9, <2>1
<1>11. \A u \in Terminal \ {t} : Kept(u)
  BY <1>4, <1>8, <1>10 DEF Kept, Expected, Ages
<1>12. Offered(m, s, t)' /\ ~Began(disp'[m][s])
  BY <1>4, <1>6, <1>7, <1>9 DEF Offered, Expected
<1>13. OnTheWay(t)'
  <2>1. \A r \in net' : About(r, t) => Fits(term[t], r, t)'
    BY <1>3, <1>5, <1>8, <1>12 DEF Fits
  <2> QED
    BY <1>3, <1>8, <2>1 DEF OnTheWay, Attended
<1>14. SingleInv'
  BY <1>6, <1>9 DEF Undisturbed, SingleInv
<1>15. crashed' = {} /\ ClientInv'
  BY <1>4 DEF Undisturbed, ClientInv
<1> QED
  BY <1>1, <1>2, <1>11, <1>13, <1>14, <1>15, OneMoves

\* The slave of a display that has none.
LEMMA SpawnedSingle ==
  ASSUME NEW d \in Displays, NEW k \in Start, ~Began(d), Single(d)
  PROVE  Single(Spawned(d, k))
<1>1. /\ Spawned(d, k).process = [d.process EXCEPT ![k] = "running"]
      /\ Spawned(d, k).idle = d.idle /\ Spawned(d, k).freed = d.freed
  BY DEF Spawned, Displays
<1>2. ~d.idle /\ ~d.freed /\ \A j \in Start : d.process[j] = "none"
  BY DEF Began, Single
<1>3. \A j \in Start : j # k => Spawned(d, k).process[j] = "none"
  BY <1>1, <1>2 DEF Displays
<1> QED
  BY <1>1, <1>2, <1>3 DEF Single

LEMMA ManageServed ==
  ASSUME IInv, Lasting, Undisturbed, NEW p \in net, bus[p.to] = <<>>,
         HandleManage(p), ~SpawnFailed(p), UNCHANGED <<term, bus>>
  PROVE  Undisturbed'
<1> DEFINE t == p.term
           m == p.to
           s == p.sid
<1>1. t \in Terminal /\ m \in Manager /\ s \in Session /\ About(p, t) /\ OnTheWay(t)
  BY PacketFields DEF IInv, HandleManage, About, Queries, Undisturbed
<1>2. ~Awaits(t) /\ Fits(term[t], p, t)
  BY <1>1, NotAwaiting DEF OnTheWay
<1>3. /\ term[t].phase = "manage" /\ m = term[t].mgr /\ s = term[t].sid
      /\ ~Began(disp[m][s])
  BY <1>2 DEF HandleManage, Fits, Queries
<1>4. Offered(m, s, t)
  BY <1>1, <1>3 DEF OnTheWay, Attended
<1>5. PICK k \in NextStart(disp[m][s]) : disp' = [disp EXCEPT ![m][s] = Spawned(@, k)]
  BY DEF HandleManage, SpawnFailed
<1> DEFINE d == Spawned(disp[m][s], k)
<1>6. /\ disp[m][s] \in Displays /\ k \in Start /\ Sound(disp[m][s]) /\ Single(disp[m][s])
  BY <1>1, <1>5 DEF NextStart, IInv, StoreInv, Undisturbed, SingleInv
<1>7. d \in Displays /\ d.chooser = disp[m][s].chooser /\ Single(d)
  BY <1>3, <1>6, SpawnedDisplay, SpawnedSingle
<1>8. disp' = [disp EXCEPT ![m][s] = d] /\ UNCHANGED crashed
  BY <1>5 DEF HandleManage
<1>9. Answer(p, Resolution(m, HostOf(t)))
  BY DEF HandleManage
<1>10. \A n \in Manager, h \in Host : indirect[n][h] = Unchosen <=> indirect'[n][h] = Unchosen
  <2>1. CASE UNCHANGED indirect
    BY <2>1
  <2>2. CASE /\ indirect[m][HostOf(t)] \in Manager
             /\ indirect' = [indirect EXCEPT ![m][HostOf(t)] = NoClient]
    <3> HIDE DEF t, m
    <3> QED
      BY <1>1, <2>2, MarksAssumption, HostOfTerminal DEF IInv, CountsOK, NoClient, Unchosen
  <2> QED
    BY <2>1, <2>2 DEF HandleManage
<1> HIDE DEF t, m, s, d
<1>11. /\ \A u \in Terminal \ {t}, r \in net' : About(r, u) => r \in net
       /\ \A r \in net' : ~About(r, t)
  <2>1. Replies(Resolution(m, HostOf(t)), t)
    BY ResolutionAbout DEF Replies
  <2> QED
    BY <1>1, <1>9, <2>1, Answered, ResolutionAbout
<1>12. /\ disp'[m][s] = d
       /\ \A n \in Manager, r \in Session : n # m \/ r # s => disp'[n][r] = disp[n][r]
  BY <1>1, <1>7, <1>8, OneDisplay DEF IInv, StoreInv
<1>13. \A u \in Terminal : Expected(u)' = Expected(u)
  BY <1>10, HostOfTerminal, ServerAssumption DEF Expected
<1>14. \A u \in Terminal \ {t} : Kept(u)
  BY <1>4, <1>11, <1>12, <1>13 DEF Kept, Offered, Ages
<1>15. Offered(m, s, t)'
  BY <1>1, <1>4, <1>13, OfferKept
<1>16. OnTheWay(t)'
  BY <1>3, <1>11, <1>15 DEF OnTheWay, Attended
<1>17. SingleInv'
  BY <1>7, <1>12 DEF Undisturbed, SingleInv
<1>18. crashed' = {} /\ ClientInv'
  BY <1>8, <1>10 DEF Undisturbed, ClientInv
<1> QED
  BY <1>1, <1>2, <1>14, <1>16, <1>17, <1>18, OneMoves

\* A main loop that has no choice to dispatch.
LEMMA DispatchUndisturbed ==
  ASSUME HostsDiffer, IInv, Lasting, Undisturbed, PromptBus, troubles = 0, troubles' = 0,
         NEW m \in Manager, Dispatch(m)
  PROVE  Undisturbed'
<1>1. PICK p \in net : /\ p.to = m /\ HandlePacket(p)
                       /\ IF SpawnFailed(p) \/ PrepareFailed THEN Trouble ELSE UNCHANGED troubles
  BY DEF Dispatch
<1>2. UNCHANGED <<term, bus>> /\ bus[p.to] = <<>> /\ ~SpawnFailed(p) /\ ~PrepareFailed
  BY <1>1 DEF Dispatch, Trouble
<1>3. CASE HandleKeepAlive(p)
  <2>1. p.term \in Terminal /\ About(p, p.term) /\ p.type = "KEEPALIVE"
    BY <1>3, PacketFields DEF IInv, HandleKeepAlive, About
  <2>2. ~Fits(term[p.term], p, p.term)
    BY <2>1 DEF Fits, Queries
  <2> QED
    BY <2>1, <2>2 DEF Undisturbed, OnTheWay
<1>4. ~FailToPrepare(p)
  <2> SUFFICES ASSUME FailToPrepare(p) PROVE FALSE
    OBVIOUS
  <2>1. /\ p.to \in Manager /\ disp' = disp
        /\ serial' = [serial EXCEPT ![p.to] = serial[p.to] + 1]
    BY FailedStore DEF IInv, Wastes
  <2>2. serial'[p.to] = serial[p.to] + 1 /\ serial[p.to] \in Nat
    BY <2>1, SerialTypes DEF IInv, StoreInv
  <2> QED
    BY <1>2, <2>1, <2>2 DEF PrepareFailed
<1> QED
  BY <1>1, <1>2, <1>3, <1>4, QueriesAnswered, DenialsSent, IndirectQueryAnswered, ForwardsHandled,
     RequestAccepted, ManageServed DEF HandlePacket

LEMMA ResendUndisturbed ==
  ASSUME IInv, Lasting, Undisturbed, NEW m \in Manager, ResendForward(m)
  PROVE  Undisturbed'
<1>1. PICK i \in DOMAIN managed[m] : Resend(m, i)
  BY DEF ResendForward
<1>2. UNCHANGED <<disp, serial, indirect, crashed, term, bus>>
  BY <1>1 DEF ResendForward, Resend
<1>3. \A q \in net' : \A u : About(q, u) => q \in net
  BY <1>1, NoSubject DEF Resend
<1>4. \A u \in Terminal : Kept(u)
  BY <1>2, <1>3 DEF Kept, Expected, Ages
<1>5. crashed' = {} /\ SingleInv' /\ ClientInv'
  BY <1>2 DEF Undisturbed, SingleInv, ClientInv
<1> QED
  BY <1>2, <1>4, <1>5, NoneMoves

\* One display changes and the packets, the clients and the terminals do not.
LEMMA OneDisplayChanges ==
  ASSUME IInv, Lasting, Undisturbed, NEW m \in Manager, NEW s \in Session, NEW d,
         disp' = [disp EXCEPT ![m][s] = d],
         Ages(disp[m][s], d), Single(d), d.chooser = disp[m][s].chooser,
         crashed' = {}, UNCHANGED <<indirect, net, term>>
  PROVE  (\A u \in Terminal : Kept(u)) /\ SingleInv' /\ ClientInv'
<1>1. /\ disp'[m][s] = d
      /\ \A n \in Manager, r \in Session : n # m \/ r # s => disp'[n][r] = disp[n][r]
  BY DEF IInv, StoreInv
<1>2. \A n \in Manager, r \in Session : Ages(disp[n][r], disp'[n][r])
  BY <1>1 DEF Ages
<1>3. \A u \in Terminal : Kept(u)
  BY <1>2 DEF Kept, Expected
<1>4. SingleInv' /\ ClientInv'
  BY <1>1 DEF Undisturbed, SingleInv, ClientInv
<1> QED
  BY <1>3, <1>4

LEMMA ChildWatchUndisturbed ==
  ASSUME IInv, Lasting, Undisturbed, NEW m \in Manager, DispatchChildWatch(m)
  PROVE  Undisturbed'
<1>1. PICK s \in Session, k \in Start : ChildWatch(m, s, k)
  BY DEF DispatchChildWatch
<1> DEFINE c == disp[m][s]
           pr == [c.process EXCEPT ![k] = "reaped"]
           d == [c EXCEPT !.process = pr, !.pid = 0, !.idle = ~c.freed]
<1>2. c \in Displays /\ Single(c) /\ c.process[k] = "zombie"
  BY <1>1 DEF IInv, StoreInv, Undisturbed, SingleInv, ChildWatch
<1>3. ~c.freed
  BY <1>2 DEF Single
<1>4. crashed' = {} /\ UNCHANGED <<indirect, net, term, bus>>
  BY <1>1, <1>3 DEF ChildWatch, DispatchChildWatch, Undisturbed
<1>5. disp' = [disp EXCEPT ![m][s] = d]
  BY <1>1, <1>2 DEF ChildWatch, IInv, StoreInv, Displays
<1>6. /\ d.process = pr /\ d.chooser = c.chooser /\ ~d.freed
  BY <1>2, <1>3 DEF Displays
<1>7. \A j \in Start : j # k => c.process[j] = "none" /\ pr[j] = "none"
  BY <1>2 DEF Single, Displays
<1>8. pr[k] = "reaped"
  BY <1>2 DEF Displays
<1> HIDE DEF c, pr, d
<1>9. Single(d) /\ Ages(c, d)
  BY <1>2, <1>6, <1>7, <1>8 DEF Single, Ages, Began
<1>10. (\A u \in Terminal : Kept(u)) /\ SingleInv' /\ ClientInv'
  BY <1>4, <1>5, <1>6, <1>9, OneDisplayChanges DEF c
<1> QED
  BY <1>4, <1>10, NoneMoves

LEMMA IdleUndisturbed ==
  ASSUME IInv, Lasting, Undisturbed, NEW m \in Manager, DispatchIdle(m)
  PROVE  Undisturbed'
<1>1. PICK s \in Session : FinishChooser(m, s) \/ FinishGreeter(m, s)
  BY DEF DispatchIdle
<1> DEFINE c == disp[m][s]
<1>2. /\ c \in Displays /\ Single(c) /\ Sound(c) /\ c.idle /\ Began(c)
      /\ \A k \in Start : c.process[k] \notin {"running", "zombie"}
  BY <1>1 DEF IInv, StoreInv, Undisturbed, SingleInv, Single, FinishChooser, FinishGreeter
<1>3. crashed' = {} /\ UNCHANGED <<indirect, net, term, bus>>
  BY <1>1 DEF FinishChooser, FinishGreeter, DispatchIdle, Undisturbed
<1>4. ASSUME NEW d, disp' = [disp EXCEPT ![m][s] = d], Ages(c, d), Single(d),
             d.chooser = c.chooser
      PROVE  Undisturbed'
  <2>1. (\A u \in Terminal : Kept(u)) /\ SingleInv' /\ ClientInv'
    BY <1>3, <1>4, OneDisplayChanges
  <2> QED
    BY <1>3, <2>1, NoneMoves
<1>5. CASE FinishChooser(m, s)
  <2> DEFINE d == [c EXCEPT !.idle = FALSE, !.status = "FINISHED"]
  <2>1. disp' = [disp EXCEPT ![m][s] = d]
    BY <1>5 DEF FinishChooser, IInv, StoreInv
  <2>2. d.process = c.process /\ d.chooser = c.chooser /\ ~d.idle /\ d.freed = c.freed
    BY <1>2 DEF Displays
  <2> HIDE DEF c, d
  <2>3. Ages(c, d) /\ Single(d)
    BY <1>2, <2>2 DEF Ages, Single, Began
  <2> QED
    BY <1>4, <2>1, <2>2, <2>3
<1>6. CASE FinishGreeter(m, s)
  <2>1. PICK status \in {"FAILED", "UNMANAGED"} :
          disp' = [disp EXCEPT ![m][s] =
            [@ EXCEPT !.idle = FALSE, !.status = status, !.freed = TRUE, !.pid = 0,
               !.process = [k \in Start |-> IF k = disp[m][s].pid THEN "killed"
                                            ELSE disp[m][s].process[k]]]]
    BY <1>6 DEF FinishGreeter
  <2> DEFINE pr == [k \in Start |-> IF k = c.pid THEN "killed" ELSE c.process[k]]
             d == [c EXCEPT !.idle = FALSE, !.status = status, !.freed = TRUE,
                            !.pid = 0, !.process = pr]
  <2>2. disp' = [disp EXCEPT ![m][s] = d]
    BY <1>2, <2>1 DEF IInv, StoreInv, Displays
  <2>3. d.process = pr /\ d.chooser = c.chooser
    BY <1>2 DEF Displays
  <2>4. \A k \in Start : /\ pr[k] \notin {"running", "zombie"}
                         /\ pr[k] # "none" <=> c.process[k] # "none"
    <3>1. 0 \notin Start
      BY DEF Start
    <3>2. \A k \in Start : k = c.pid => c.process[k] # "none"
      BY <1>2, <3>1 DEF Sound
    <3> QED
      BY <1>2, <3>2
  <2> HIDE DEF c, pr, d
  <2>5. Ages(c, d) /\ Single(d)
    BY <1>2, <2>3, <2>4 DEF Ages, Single, Began
  <2> QED
    BY <1>4, <2>2, <2>3, <2>5
<1> QED
  BY <1>1, <1>5, <1>6

\* One terminal goes on, and the managers do nothing.
LEMMA TerminalMoves ==
  ASSUME IInv, Lasting, Undisturbed, UNCHANGED <<factoryVars, bus>>,
         NEW t \in Terminal, NEW y, term' = [term EXCEPT ![t] = y],
         \A u \in Terminal \ {t}, q \in net' : About(q, u) => q \in net,
         \A q, r \in net' : About(q, t) /\ About(r, t) => q = r,
         \A q \in net' : About(q, t) => Fits(y, q, t),
         Attended(y, t), Awaits(t) => Chosen(t)'
  PROVE  Undisturbed'
<1>1. UNCHANGED <<disp, serial, indirect, crashed>>
  BY DEF factoryVars
<1>2. term'[t] = y /\ \A u \in Terminal \ {t} : term'[u] = term[u]
  BY DEF IInv, OutsideOK
<1>3. \A u \in Terminal \ {t} : Kept(u)
  BY <1>1, <1>2 DEF Kept, Expected, Ages
<1>4. OnTheWay(t)'
  <2>1. \A q \in net' : About(q, t) => Fits(y, q, t)'
    BY <1>1 DEF Fits, Offered, Expected
  <2>2. Attended(y, t)'
    BY <1>1 DEF Attended, Offered, Expected
  <2> QED
    BY <1>2, <2>1, <2>2 DEF OnTheWay
<1>5. Awaits(t) => Expected(t)' /\ Chosen(t)'
  BY <1>1, AwaitsChosen DEF Undisturbed, Expected
<1>6. crashed' = {} /\ SingleInv' /\ ClientInv'
  BY <1>1 DEF Undisturbed, SingleInv, ClientInv
<1> QED
  BY <1>3, <1>4, <1>5, <1>6, OneMoves

LEMMA AskUndisturbed ==
  ASSUME IInv, Lasting, Undisturbed, NEW t \in Terminal, Ask(t)
  PROVE  Undisturbed'
<1>1. PICK type \in QueryTypes :
        /\ term[t].phase = "off" \/ term[t].phase = "up"
        /\ term' = [term EXCEPT ![t] = [Off EXCEPT !.phase = "query", !.ask = type]]
        /\ net' = net \cup {Query(type, Server, t)}
  BY DEF Ask
<1> DEFINE y == [Off EXCEPT !.phase = "query", !.ask = type]
           q == Query(type, Server, t)
<1>2. type \in Queries /\ UNCHANGED <<factoryVars, bus>>
  BY <1>1, ServerAssumption DEF Queries, Ask
<1>3. q.type = type /\ q.to = Server /\ \A u : About(q, u) <=> t = u
  <2>1. q.type = type /\ q.to = Server
    BY DEF Query
  <2> QED
    BY <1>2, <2>1, Subjects
<1>4. y.phase = "query"
  BY DEF Off
<1> HIDE DEF y, q
<1>5. \A p \in net : ~About(p, t)
  BY <1>1 DEF Undisturbed, OnTheWay, Fits
<1>6. \A p \in net' : About(p, t) => p = q
  BY <1>1, <1>5 DEF q
<1>7. \A u \in Terminal \ {t}, p \in net' : About(p, u) => p \in net
  BY <1>1, <1>3 DEF q
<1>8. Fits(y, q, t) /\ Attended(y, t)
  BY <1>2, <1>3, <1>4 DEF Fits, Attended
<1>9. term' = [term EXCEPT ![t] = y]
  BY <1>1 DEF y
<1>10. Chosen(t)'
  <2>1. term'[t] = y
    BY <1>9 DEF IInv, OutsideOK
  <2> QED
    BY <1>2, <1>3, <1>4, <1>6, <2>1 DEF Chosen
<1> QED
  BY <1>2, <1>6, <1>7, <1>8, <1>9, <1>10, TerminalMoves

\* An answer to t that is no query.
LEMMA AnswerTaken ==
  ASSUME IInv, Lasting, Undisturbed, UNCHANGED <<factoryVars, bus>>,
         NEW t \in Terminal, NEW p \in net, About(p, t), p.type \notin Queries,
         NEW y, term' = [term EXCEPT ![t] = y],
         NEW out, Answer(p, out), Replies(out, t),
         \A q \in out : About(q, t) => Fits(y, q, t), Attended(y, t)
  PROVE  Undisturbed'
<1>1. OnTheWay(t)
  BY DEF Undisturbed
<1>2. ~Awaits(t)
  BY <1>1, AwaitsChosen, ChosenPackets DEF Undisturbed
<1>3. /\ \A u \in Terminal \ {t}, q \in net' : About(q, u) => q \in net
      /\ \A q \in net' : About(q, t) => Fits(y, q, t)
      /\ \A q, r \in net' : About(q, t) /\ About(r, t) => q = r
  BY <1>1, Answered
<1> QED
  BY <1>2, <1>3, TerminalMoves

LEMMA GetUndisturbed ==
  ASSUME IInv, Lasting, Undisturbed, NEW t \in Terminal, Get(t)
  PROVE  Undisturbed'
<1>1. PICK p \in net :
        /\ p.to = t
        /\ GetWilling(t, p) \/ GetAccept(t, p) \/ GetDenial(t, p) \/ GetStray(t, p)
  BY DEF Get
<1>2. UNCHANGED <<factoryVars, bus>> /\ OnTheWay(t)
  BY DEF Get, Undisturbed
<1>3. CASE GetWilling(t, p)
  <2> DEFINE y == [term[t] EXCEPT !.phase = "request", !.mgr = p.from]
             q == Request(p.from, t)
  <2>1. About(p, t) /\ p.type \notin Queries
    BY <1>1, <1>3 DEF GetWilling, About, Queries
  <2>2. term' = [term EXCEPT ![t] = y] /\ Answer(p, {q})
    BY <1>3 DEF GetWilling
  <2>3. y.phase = "request" /\ y.mgr = p.from
    BY DEF IInv, OutsideOK, TerminalStates
  <2>4. q.type = "REQUEST" /\ q.to = p.from /\ \A u : About(q, u) => u = t
    BY Subjects DEF Request
  <2> HIDE DEF y, q
  <2>5. Fits(y, q, t) /\ Attended(y, t) /\ Replies({q}, t)
    BY <2>3, <2>4 DEF Fits, Attended, Replies
  <2> QED
    BY <1>2, <2>1, <2>2, <2>5, AnswerTaken
<1>4. CASE GetAccept(t, p)
  <2> DEFINE y == [term[t] EXCEPT !.phase = "manage", !.sid = p.sid]
             q == Manage(p.from, t, p.sid)
  <2>1. About(p, t) /\ p.type = "ACCEPT" /\ p.type \notin Queries
    BY <1>1, <1>4 DEF GetAccept, About, Queries
  <2>2. term' = [term EXCEPT ![t] = y] /\ Answer(p, {q})
    BY <1>4 DEF GetAccept
  <2>3. /\ term[t].mgr = p.from /\ Offered(p.from, p.sid, t)
        /\ ~Began(disp[p.from][p.sid])
    BY <1>2, <2>1 DEF OnTheWay, Fits, Queries
  <2>4. y.phase = "manage" /\ y.mgr = p.from /\ y.sid = p.sid
    BY <2>3 DEF IInv, OutsideOK, TerminalStates
  <2>5. q.type = "MANAGE" /\ q.to = p.from /\ q.sid = p.sid /\ \A u : About(q, u) => u = t
    BY Subjects DEF Manage
  <2> HIDE DEF y, q
  <2>6. Fits(y, q, t) /\ Attended(y, t) /\ Replies({q}, t)
    BY <2>3, <2>4, <2>5 DEF Fits, Attended, Replies
  <2> QED
    BY <1>2, <2>1, <2>2, <2>6, AnswerTaken
<1>5. CASE GetDenial(t, p)
  <2>1. About(p, t) /\ p.type \notin Queries
    BY <1>1, <1>5 DEF GetDenial, About, Queries
  <2>2. PICK out : out = {}
    OBVIOUS
  <2>3. term' = [term EXCEPT ![t] = Off] /\ Answer(p, out)
    BY <1>5, <2>2 DEF GetDenial
  <2>4. Replies(out, t) /\ Attended(Off, t) /\ \A q \in out : About(q, t) => Fits(Off, q, t)
    BY <2>2, OffState DEF Attended, Replies
  <2> QED
    BY <1>2, <2>1, <2>3, <2>4, AnswerTaken
<1>6. CASE GetStray(t, p)
  <2>1. UNCHANGED <<disp, serial, indirect, crashed, term>> /\ net' \subseteq net
    BY <1>2, <1>6 DEF GetStray, Answer, factoryVars
  <2>2. \A u \in Terminal : Kept(u)
    BY <2>1 DEF Kept, Expected, Ages
  <2>3. crashed' = {} /\ SingleInv' /\ ClientInv'
    BY <2>1 DEF Undisturbed, SingleInv, ClientInv
  <2> QED
    BY <1>2, <2>2, <2>3, NoneMoves
<1> QED
  BY <1>1, <1>3, <1>4, <1>5, <1>6

LEMMA ConnectUndisturbed ==
  ASSUME IInv, Lasting, Undisturbed, NEW m \in Manager, NEW s \in Session, NEW k \in Start,
         Connect(m, s, k)
  PROVE  Undisturbed'
<1> DEFINE t == disp[m][s].term
           y == [term[t] EXCEPT !.phase = "up", !.slave = k]
<1>1. t \in Terminal /\ Began(disp[m][s]) /\ disp[m][s].process[k] = "running"
  BY SerialTypes DEF Connect, Began
<1>2. term[t].phase = "manage" /\ term[t].mgr = m /\ term[t].sid = s
  BY DEF Connect
<1>3. term' = [term EXCEPT ![t] = y] /\ UNCHANGED <<factoryVars, net, bus>>
  BY DEF Connect
<1>4. y.phase = "up" /\ y.mgr = m /\ y.sid = s /\ y.slave = k
  BY <1>1, <1>2 DEF IInv, OutsideOK, TerminalStates
<1>5. PICK u \in Terminal : u = t
  BY <1>1
<1> HIDE DEF t, y
<1>6. OnTheWay(u)
  BY DEF Undisturbed
<1>7. \A q \in net : ~About(q, u)
  BY <1>1, <1>2, <1>5, <1>6 DEF OnTheWay, Fits
<1>8. Attended(y, u)
  BY <1>2, <1>4, <1>5, <1>6 DEF OnTheWay, Attended, Offered
<1>9. ~Awaits(u)
  BY <1>1, <1>2, <1>5, AwaitsChosen DEF Undisturbed, Chosen, Ended
<1> QED
  BY <1>3, <1>5, <1>7, <1>8, <1>9, TerminalMoves

\* The end of a slave.
LEMMA SlaveEnded ==
  ASSUME IInv, Lasting, Undisturbed, NEW m \in Manager, NEW s \in Session, NEW k \in Start,
         disp[m][s].process[k] = "running",
         disp' = [disp EXCEPT ![m][s].process[k] = "zombie"],
         UNCHANGED <<indirect, net, term, crashed>>
  PROVE  /\ (\A u \in Terminal : Kept(u)) /\ SingleInv' /\ ClientInv' /\ crashed' = {}
         /\ disp'[m][s].process[k] = "zombie"
<1> DEFINE c == disp[m][s]
           pr == [c.process EXCEPT ![k] = "zombie"]
           d == [c EXCEPT !.process = pr]
<1>1. c \in Displays /\ Single(c) /\ c.process[k] = "running"
  BY DEF IInv, StoreInv, Undisturbed, SingleInv
<1>2. disp' = [disp EXCEPT ![m][s] = d]
  BY <1>1 DEF IInv, StoreInv, Displays
<1>3. /\ d.process = pr /\ d.chooser = c.chooser /\ d.idle = c.idle /\ d.freed = c.freed
      /\ pr[k] = "zombie"
  BY <1>1 DEF Displays
<1>4. \A j \in Start : j # k => pr[j] = "none"
  BY <1>1 DEF Displays, Single
<1>5. d \in Displays
  <2>1. pr \in [Start -> Processes]
    BY <1>1 DEF Displays, Processes
  <2> QED
    BY <1>1, <2>1 DEF Displays
<1> HIDE DEF pr, d
<1>6. Single(d) /\ Ages(c, d)
  BY <1>1, <1>3, <1>4 DEF Single, Ages, Began
<1>7. disp'[m][s] = d
  BY <1>2, <1>5, OneDisplay DEF IInv, StoreInv
<1>8. crashed' = {}
  BY DEF Undisturbed
<1>9. (\A u \in Terminal : Kept(u)) /\ SingleInv' /\ ClientInv'
  BY <1>2, <1>3, <1>6, <1>8, OneDisplayChanges
<1> QED
  BY <1>3, <1>7, <1>8, <1>9

LEMMA SlaveEndsUndisturbed ==
  ASSUME IInv, Lasting, Undisturbed, NEW m \in Manager, NEW s \in Session, NEW k \in Start,
         SlaveEnds(m, s, k)
  PROVE  Undisturbed'
BY SlaveEnded, NoneMoves DEF SlaveEnds

LEMMA AwaitsKept ==
  ASSUME IInv, Undisturbed, NEW u \in Terminal, Kept(u), Awaits(u)
  PROVE  Expected(u)' /\ Chosen(u)'
BY AwaitsChosen, ChosenKept DEF Undisturbed, Kept

\* The choice of a chooser that is on the terminal is added to the others.
LEMMA ChooseUndisturbed ==
  ASSUME IInv, Lasting, Undisturbed, NEW m \in Manager, NEW s \in Session, NEW k \in Start,
         Choose(m, s, k)
  PROVE  Undisturbed'
<1>1. PICK t \in Terminal : t = disp[m][s].term
  BY SerialTypes
<1>2. /\ term[t].phase = "up" /\ term[t].mgr = m /\ term[t].sid = s /\ term[t].slave = k
      /\ disp[m][s].process[k] = "running" /\ disp[m][s].chooser
  BY <1>1 DEF Choose, Serves
<1>3. m = Server
  BY <1>2 DEF Undisturbed, SingleInv
<1>4. s <= serial[m] /\ Expected(t) /\ ~Awaits(t)
  <2>1. OnTheWay(t)
    BY DEF Undisturbed
  <2>2. Offered(m, s, t)
    BY <1>2, <2>1 DEF OnTheWay, Attended
  <2>3. ~Awaits(t)
    BY <1>2, AwaitsChosen DEF Undisturbed, Chosen, Ended
  <2> QED
    BY <1>2, <2>2, <2>3 DEF Offered
<1>5. /\ \A u \in Terminal : Kept(u)
      /\ SingleInv' /\ ClientInv' /\ crashed' = {} /\ disp'[m][s].process[k] = "zombie"
  <2>1. /\ disp' = [disp EXCEPT ![m][s].process[k] = "zombie"]
        /\ UNCHANGED <<indirect, net, term, crashed>>
    BY DEF Choose
  <2>2. disp[m][s].process[k] = "running"
    BY <1>2
  <2> QED
    BY <2>1, <2>2, SlaveEnded
<1>6. Expected(t)' /\ Chosen(t)'
  BY <1>2, <1>4, <1>5 DEF Kept, Chosen, Ended, Choose
<1>7. PICK c \in Choices : bus' = [bus EXCEPT ![Server] = Append(@, [sid |-> s, choice |-> c])]
  BY <1>3 DEF Choose
<1> DEFINE b == [sid |-> s, choice |-> c]
<1>8. bus'[Server] = Append(bus[Server], b) /\ \A n \in Manager : n # Server => bus'[n] = bus[n]
  BY <1>7, BusTypes DEF IInv, OutsideOK
<1>9. b \in [sid : Session, choice : Choices] /\ b.sid = s
  OBVIOUS
<1> HIDE DEF b
<1> DEFINE n == Len(bus[Server])
<1>10. n \in Nat /\ DOMAIN bus[Server] = 1 .. n
  BY BusTypes, LenProperties
<1>11. /\ DOMAIN bus'[Server] = 1 .. n + 1 /\ bus'[Server][n + 1] = b
       /\ \A i \in 1 .. n : bus'[Server][i] = bus[Server][i]
  <2>1. Append(bus[Server], b) \in Seq([sid : Session, choice : Choices])
    BY <1>9, BusTypes, AppendProperties
  <2> QED
    BY <1>8, <1>9, <1>10, <2>1, BusTypes, AppendProperties, LenProperties
<1> HIDE DEF n
<1>12. s <= serial'[Server] /\ disp'[Server][s].term = t
  <2>1. /\ serial[m] \in Nat /\ serial'[m] \in Nat /\ s \in Nat /\ serial[m] <= serial'[m]
        /\ disp'[m][s].term = t
    BY <1>1, <1>4, SerialTypes DEF Lasting
  <2> QED
    BY <1>3, <1>4, <2>1
<1>13. BusInv'
  <2> DEFINE sid(i) == bus'[Server][i].sid
             named(i) == disp'[Server][sid(i)].term
  <2>1. ASSUME NEW i \in 1 .. n
        PROVE  /\ sid(i) <= serial'[Server] /\ named(i) # t /\ named(i) = Named(i)
               /\ \A u : u = named(i) => Expected(u)' /\ Chosen(u)'
    <3>1. i \in DOMAIN bus[Server] /\ sid(i) = bus[Server][i].sid
      BY <1>10, <1>11
    <3>2. sid(i) <= serial'[Server] /\ named(i) = Named(i)
      BY <3>1, NamedKept DEF Undisturbed
    <3>3. Named(i) \in Terminal /\ Awaits(Named(i))
      BY <3>1, BusTypes DEF Awaits
    <3> QED
      BY <1>4, <1>5, <3>2, <3>3, AwaitsKept
  <2>2. sid(n + 1) <= serial'[Server] /\ named(n + 1) = t
    BY <1>9, <1>11, <1>12
  <2>3. ASSUME NEW i \in 1 .. n + 1
        PROVE  /\ sid(i) <= serial'[Server]
               /\ \A u : u = named(i) => Expected(u)' /\ Chosen(u)'
               /\ \A j \in 1 .. n + 1 : named(j) = named(i) => i = j
    <3>1. \A j \in 1 .. n + 1 : j \in 1 .. n \/ j = n + 1
      BY <1>10
    <3>2. \A j \in 1 .. n : i \in 1 .. n /\ Named(j) = Named(i) => i = j
      BY <1>10 DEF Undisturbed, BusInv, Named
    <3> HIDE DEF sid, named
    <3> QED
      BY <1>6, <2>1, <2>2, <3>1, <3>2
  <2>4. \A r \in Manager : bus'[r] # <<>> => r = Server
    BY <1>8 DEF Undisturbed, BusInv
  <2> QED
    BY <1>11, <2>3, <2>4 DEF BusInv
<1>14. \A u \in Terminal : OnTheWay(u)'
  BY <1>5, TerminalKept DEF Undisturbed
<1> QED
  BY <1>5, <1>13, <1>14 DEF Undisturbed

\* The first choice is dispatched: its client is there, and nothing is under way
\* for its terminal that waits for what the client is.
LEMMA ChoiceUndisturbed ==
  ASSUME HostsDiffer, IInv, Lasting, Undisturbed, NEW m \in Manager, DispatchChoice(m)
  PROVE  Undisturbed'
<1> DEFINE n == Len(bus[Server])
<1>1. m = Server /\ bus[Server] # <<>>
  BY DEF DispatchChoice, Undisturbed, BusInv
<1>2. n \in Nat /\ DOMAIN bus[Server] = 1 .. n /\ n >= 1
  BY <1>1, BusTypes, LenProperties, EmptySeq
<1>3. PICK t \in Terminal : t = Named(1)
  BY <1>2, BusTypes
<1>4. Awaits(t) /\ Head(bus[Server]) = bus[Server][1]
  BY <1>1, <1>2, <1>3, BusTypes, HeadTailProperties DEF Awaits
<1>5. Expected(t) /\ Chosen(t) /\ OnTheWay(t)
  BY <1>4, AwaitsChosen DEF Undisturbed
<1>6. UNCHANGED <<disp, serial, crashed, net, term>>
      /\ \E v : indirect' = [indirect EXCEPT ![Server][HostOf(t)] = v]
  <2>1. indirect[Server][HostOf(t)] # NoClient
    BY <1>5 DEF Expected, NoClient, Unchosen
  <2>2. \E v : HostnameSelected(Server, bus[Server][1].sid, v)
    BY <1>1, <1>4 DEF DispatchChoice
  <2> QED
    BY <1>1, <1>3, <2>1, <2>2 DEF HostnameSelected, DispatchChoice, Named
<1>7. /\ \A r \in Manager : r # Server => indirect'[r] = indirect[r]
      /\ \A u \in Terminal \ {t} : Expected(u)' = Expected(u)
  BY <1>6, OneHost, ServerAssumption DEF IInv, CountsOK
<1>8. \A u \in Terminal \ {t} : Kept(u)
  BY <1>6, <1>7 DEF Kept, Ages
<1>9. OnTheWay(t)'
  <2>1. CASE Ended(term[t])
    <3>1. \A p \in net : ~About(p, t)
      BY <1>5, <2>1 DEF OnTheWay, Fits, Ended
    <3>2. Attended(term[t], t)'
      BY <1>5, <1>6, <2>1 DEF OnTheWay, Attended, Ended
    <3> QED
      BY <1>6, <3>1, <3>2 DEF OnTheWay
  <2>2. CASE term[t].phase = "query"
    BY <1>5, <1>6, <2>2 DEF OnTheWay, Fits, Attended
  <2> QED
    BY <1>5, <2>1, <2>2 DEF Chosen
<1>10. /\ bus'[Server] = Tail(bus[Server])
       /\ \A r \in Manager : r # Server => bus'[r] = bus[r]
  BY <1>1, BusTypes DEF DispatchChoice, IInv, OutsideOK
<1>11. /\ DOMAIN bus'[Server] = 1 .. n - 1
       /\ \A i \in 1 .. n - 1 : bus'[Server][i] = bus[Server][i + 1]
  <2>1. /\ Tail(bus[Server]) \in Seq([sid : Session, choice : Choices])
        /\ Len(Tail(bus[Server])) = n - 1
        /\ \A i \in 1 .. n - 1 : Tail(bus[Server])[i] = bus[Server][i + 1]
    BY <1>1, <1>2, BusTypes, HeadTailProperties
  <2> QED
    BY <1>10, <2>1, LenProperties
<1> HIDE DEF n
<1>12. BusInv'
  <2> DEFINE sid(i) == bus'[Server][i].sid
             named(i) == disp'[Server][sid(i)].term
  <2>1. ASSUME NEW i \in 1 .. n - 1
        PROVE  /\ sid(i) <= serial'[Server] /\ named(i) = Named(i + 1)
               /\ \A u : u = named(i) => Expected(u)' /\ Chosen(u)'
    <3>1. i + 1 \in DOMAIN bus[Server] /\ i + 1 # 1 /\ 1 \in DOMAIN bus[Server]
      BY <1>2
    <3>2. sid(i) = bus[Server][i + 1].sid
      BY <1>11
    <3>3. sid(i) <= serial'[Server] /\ named(i) = Named(i + 1)
      BY <3>1, <3>2, NamedKept DEF Undisturbed
    <3>4. Named(i + 1) \in Terminal /\ Awaits(Named(i + 1))
      BY <3>1, BusTypes DEF Awaits
    <3>5. Named(i + 1) # t
      BY <1>3, <3>1 DEF Undisturbed, BusInv, Named
    <3> QED
      BY <1>8, <3>3, <3>4, <3>5, AwaitsKept
  <2>2. ASSUME NEW i \in 1 .. n - 1, NEW j \in 1 .. n - 1, named(j) = named(i)
        PROVE  i = j
    <3>1. i + 1 \in DOMAIN bus[Server] /\ j + 1 \in DOMAIN bus[Server]
      BY <1>2
    <3>2. Named(i + 1) = Named(j + 1)
      BY <2>1, <2>2
    <3>3. i + 1 = j + 1
      BY <3>1, <3>2 DEF Undisturbed, BusInv, Named
    <3> QED
      BY <1>2, <3>3
  <2>3. \A r \in Manager : bus'[r] # <<>> => r = Server
    BY <1>10 DEF Undisturbed, BusInv
  <2> QED
    BY <1>11, <2>1, <2>2, <2>3 DEF BusInv
<1>13. \A u \in Terminal : OnTheWay(u)'
  BY <1>8, <1>9, TerminalKept DEF Undisturbed
<1>14. crashed' = {} /\ SingleInv' /\ ClientInv'
  BY <1>6, <1>7 DEF Undisturbed, SingleInv, ClientInv
<1> QED
  BY <1>12, <1>13, <1>14 DEF Undisturbed

-----------------------------------------------------------------------------
LEMMA InitUndisturbed == Init => Undisturbed
<1> SUFFICES ASSUME Init PROVE Undisturbed
  OBVIOUS
<1>1. crashed = {} /\ BusInv
  BY ServerAssumption DEF Init, FactoryInit, BusInv
<1>2. SingleInv
  <2>1. Absent.idle = FALSE /\ Absent.freed = FALSE /\ Absent.chooser = FALSE
        /\ Absent.process = [k \in Start |-> "none"]
    BY DEF Absent
  <2>2. Single(Absent)
    BY <2>1 DEF Single
  <2> QED
    BY <2>1, <2>2 DEF Init, FactoryInit, SingleInv
<1>3. ClientInv
  BY DEF Init, FactoryInit, ClientInv, NoClient, Unchosen
<1>4. \A t \in Terminal : OnTheWay(t)
  BY OffState DEF Init, FactoryInit, OnTheWay, Attended
<1> QED
  BY <1>1, <1>2, <1>3, <1>4 DEF Undisturbed

LEMMA StepUndisturbed ==
  ASSUME HostsDiffer, IInv, IInv', PromptBus, Undisturbed, [Next]_vars,
         troubles = 0, troubles' = 0
  PROVE  Undisturbed'
<1>1. Lasting
  BY StoreSteps, StepLasts DEF IInv
<1>2. ~Trouble
  BY DEF Trouble
<1>3. ASSUME NEW m \in Manager,
             Dispatch(m) \/ ResendForward(m) \/ DispatchChoice(m)
               \/ DispatchChildWatch(m) \/ DispatchIdle(m)
      PROVE  Undisturbed'
  BY <1>1, <1>3, DispatchUndisturbed, ResendUndisturbed, ChoiceUndisturbed,
     ChildWatchUndisturbed, IdleUndisturbed
<1>4. ASSUME NEW t \in Terminal,
             Ask(t) \/ SwitchOff(t) \/ Repeat(t) \/ AskAlive(t) \/ Get(t)
      PROVE  Undisturbed'
  BY <1>1, <1>2, <1>4, AskUndisturbed, GetUndisturbed DEF SwitchOff, Repeat, AskAlive
<1>5. ASSUME NEW p \in net, Lose(p)
      PROVE  FALSE
  BY <1>2, <1>5 DEF Lose
<1>6. ASSUME NEW m \in Manager, NEW s \in Session, NEW k \in Start,
             Connect(m, s, k) \/ SlaveEnds(m, s, k) \/ Choose(m, s, k)
      PROVE  Undisturbed'
  BY <1>1, <1>6, ConnectUndisturbed, SlaveEndsUndisturbed, ChooseUndisturbed
<1>7. CASE UNCHANGED vars
  <2>1. UNCHANGED <<disp, serial, indirect, crashed, net, term, bus>>
    BY <1>7 DEF vars, factoryVars
  <2>2. \A u \in Terminal : Kept(u)
    BY <2>1 DEF Kept, Expected, Ages
  <2>3. crashed' = {} /\ SingleInv' /\ ClientInv'
    BY <2>1 DEF Undisturbed, SingleInv, ClientInv
  <2> QED
    BY <1>1, <2>1, <2>2, <2>3, NoneMoves
<1> QED
  BY <1>3, <1>4, <1>5, <1>6, <1>7 DEF Next

\* Troubles are only added to.
LEMMA TroublesGrow ==
  ASSUME IInv, IInv', [Next]_vars, troubles' = 0
  PROVE  troubles = 0
<1>1. troubles \in Nat /\ (UNCHANGED troubles \/ troubles' = troubles + 1)
  BY TroublesAdded, TroublesAssumption DEF Trouble, IInv, OutsideOK
<1> QED
  BY <1>1

\* Wherever the packets are overtaken, and as long as none is lost or repeated,
\* nothing fails and choices are dispatched in time: who chooses in a chooser is
\* expected, and the chosen host does not crash the factory.  For terminals on
\* different hosts: a client is one of a host.
THEOREM ChoiceExpected_Holds ==
  ASSUME HostsDiffer
  PROVE  Spec => []ChoiceExpected
<1>1. Init => ChoiceInv
  BY InitUndisturbed DEF ChoiceInv
<1>2. IInv /\ IInv' /\ ChoiceInv /\ [Next]_vars => ChoiceInv'
  BY StepUndisturbed, TroublesGrow DEF ChoiceInv
<1>3. IInv /\ ChoiceInv => ChoiceExpected
  <2> SUFFICES ASSUME IInv, Undisturbed,
                      NEW m \in Manager, NEW s \in Session, NEW k \in Start,
                      disp[m][s].process[k] = "running", disp[m][s].chooser, Serves(m, s, k)
               PROVE  indirect[m][HostOf(disp[m][s].term)] = Unchosen
    BY DEF ChoiceInv, ChoiceExpected, Undisturbed
  <2>1. PICK t \in Terminal : t = disp[m][s].term
    BY SerialTypes
  <2>2. m = Server
    BY DEF Undisturbed, SingleInv
  <2>3. OnTheWay(t)
    BY DEF Undisturbed
  <2>4. Offered(m, s, t)
    BY <2>1, <2>3 DEF Serves, OnTheWay, Attended
  <2> QED
    BY <2>1, <2>2, <2>4 DEF Offered, Expected
<1> QED
  BY <1>1, <1>2, <1>3, Invariant, PTL DEF Spec
=============================================================================
