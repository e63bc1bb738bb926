------------------------- MODULE JournalPlaneProofs -------------------------
(***************************************************************************)
(* JournalPlane, for any number of clients and sessions and any sequence of *)
(* edits, joins, lost connections and handshakes: journals stay well formed *)
(* and no peer loses an edit it holds; when the Twin of every peer was open *)
(* at startup, an id names one edit wherever it is held, and no edit of the *)
(* host falls between a client's replay and its live tail; and when clients *)
(* edit only while they are joined, a peer holds an edit once and no edit   *)
(* of a client falls behind its own cursor.                                 *)
(***************************************************************************)
EXTENDS JournalPlane, JournalProofs, Recursion

----------------------------------------------------------------------------
(* What is shipped. *)

\* The entries that bear an author's name.
Bearing(a, E, s) == {e \in E : e.id.author = a /\ \E m \in DOMAIN s : s[m] = e}

\* By runs over the entries once, and f is what it has picked after each.
IsByRun(a, E, s, n, f) ==
  /\ f \in [0..n -> Seq(Bearing(a, E, s))]
  /\ f[0] = <<>>
  /\ \A i \in 1..n : f[i] = IF s[i].id.author = a THEN Append(f[i - 1], s[i]) ELSE f[i - 1]
  /\ By(a, s) = f[n]

LEMMA ByRuns ==
  ASSUME NEW a, NEW E, NEW s \in Seq(E)
  PROVE  \E f : IsByRun(a, E, s, Len(s), f)
<1> DEFINE n == Len(s)
           Picked == Bearing(a, E, s)
           V == Seq(Picked)
           By1(f) == f = [k \in 0..n |->
                       IF k = 0 THEN <<>>
                       ELSE IF s[k].id.author = a THEN Append(f[k - 1], s[k]) ELSE f[k - 1]]
<1>1. n \in Nat /\ \A i \in 1..n : s[i] \in E /\ (s[i].id.author = a => s[i] \in Picked)
  BY DEF Bearing
<1>2. By(a, s) = (CHOOSE f : By1(f))[n]
  BY DEF By
<1> HIDE DEF n, Picked
<1>3. <<>> \in V /\ \A t \in V, e \in Picked : Append(t, e) \in V
  OBVIOUS
<1> HIDE DEF V
<1>4. \E f \in [0..n -> V] : By1(f)
  <2> DEFINE step == [i \in 1..n |-> [t \in V |->
                        IF s[i].id.author = a THEN Append(t, s[i]) ELSE t]]
  <2>1. step \in [1..n -> [V -> V]]
    BY <1>1, <1>3
  <2>2. \A i \in 1..n, t \in V :
          step[i][t] = IF s[i].id.author = a THEN Append(t, s[i]) ELSE t
    OBVIOUS
  <2> HIDE DEF step
  <2>3. PICK f \in [0..n -> V] : Runs(f, <<>>, step, n)
    BY <1>1, <1>3, <2>1, RecursionExists
  <2>4. ASSUME NEW i \in 1..n
        PROVE  f[i] = IF s[i].id.author = a THEN Append(f[i - 1], s[i]) ELSE f[i - 1]
    <3>1. f[i - 1] \in V
      BY <1>1
    <3> QED
      BY <2>2, <2>3, <3>1 DEF Runs
  <2>5. \A i \in 0..n : i # 0 => i \in 1..n
    BY <1>1
  <2> QED
    BY <2>3, <2>4, <2>5 DEF Runs
<1> DEFINE f == CHOOSE f : By1(f)
<1>5. By1(f)
  <2>1. \E g : By1(g)
    BY <1>4
  <2> HIDE DEF By1
  <2> QED
    BY <2>1, Zenon
<1> HIDE DEF f
<1>6. /\ f[0] = <<>>
      /\ \A i \in 1..n : f[i] = IF s[i].id.author = a THEN Append(f[i - 1], s[i]) ELSE f[i - 1]
  <2>1. 0 \in 0..n /\ \A i \in 1..n : i \in 0..n /\ i # 0
    BY <1>1
  <2> QED
    BY <1>5, <2>1
<1>7. \A i \in 0..n : f[i] \in V
  <2>1. ASSUME NEW i \in 1..n, f[i - 1] \in V
        PROVE  f[i] \in V
    BY <1>1, <1>3, <1>6, <2>1
  <2> QED
    BY <1>1, <1>3, <1>6, <2>1, RecursionStays
<1>8. f \in [0..n -> V]
  BY <1>5, <1>7
<1> QED
  BY <1>2, <1>6, <1>8 DEF f, V, Picked, n, IsByRun

\* The entries By picks are among those given and bear the author's name.
LEMMA ByPicks ==
  ASSUME NEW a, NEW E, NEW s \in Seq(E)
  PROVE  By(a, s) \in Seq({e \in E : e.id.author = a /\ \E m \in DOMAIN s : s[m] = e})
<1>1. PICK f : IsByRun(a, E, s, Len(s), f)
  BY ByRuns
<1>2. PICK n : n = Len(s) /\ n \in 0..n
  OBVIOUS
<1>3. f \in [0..n -> Seq(Bearing(a, E, s))] /\ By(a, s) = f[n]
  BY <1>1, <1>2 DEF IsByRun
<1>4. By(a, s) \in Seq(Bearing(a, E, s))
  BY <1>2, <1>3
<1> QED
  BY <1>4 DEF Bearing

\* What is in a sequence that grows, or gives its head away.
LEMMA InFlightParts ==
  ASSUME NEW S, NEW s \in Seq(S)
  PROVE  /\ \A e \in S : InFlight(Append(s, e)) = InFlight(s) \cup {e}
         /\ \A t \in Seq(S) : InFlight(s \o t) = InFlight(s) \cup InFlight(t)
         /\ s # <<>> => InFlight(s) = {Head(s)} \cup InFlight(Tail(s))
<1>1. DOMAIN s = 1..Len(s) /\ Len(s) \in Nat
  OBVIOUS
<1>2. ASSUME NEW e \in S
      PROVE  InFlight(Append(s, e)) = InFlight(s) \cup {e}
  <2> DEFINE u == Append(s, e)
  <2>1. /\ DOMAIN u = 1..(Len(s) + 1) /\ u[Len(s) + 1] = e
        /\ \A n \in 1..Len(s) : u[n] = s[n]
    BY <1>1
  <2> HIDE DEF u
  <2>2. \A n : n \in 1..(Len(s) + 1) <=> n \in 1..Len(s) \/ n = Len(s) + 1
    BY <1>1
  <2> QED
    BY <1>1, <2>1, <2>2 DEF InFlight, u
<1>3. ASSUME NEW t \in Seq(S)
      PROVE  InFlight(s \o t) = InFlight(s) \cup InFlight(t)
  <2> DEFINE u == s \o t
  <2>1. DOMAIN t = 1..Len(t) /\ Len(t) \in Nat
    OBVIOUS
  <2>2. /\ u \in Seq(S) /\ Len(u) = Len(s) + Len(t)
        /\ \A n \in 1..Len(u) : u[n] = IF n <= Len(s) THEN s[n] ELSE t[n - Len(s)]
    BY ConcatProperties
  <2>3. DOMAIN u = 1..(Len(s) + Len(t))
    BY <2>2
  <2> HIDE DEF u
  <2>4. ASSUME NEW n \in DOMAIN u
        PROVE  u[n] \in InFlight(s) \cup InFlight(t)
    <3>1. n <= Len(s) => n \in DOMAIN s
      BY <1>1, <2>1, <2>3
    <3>2. ~(n <= Len(s)) => n - Len(s) \in DOMAIN t
      BY <1>1, <2>1, <2>3
    <3> QED
      BY <2>2, <2>3, <3>1, <3>2 DEF InFlight
  <2>5. ASSUME NEW n \in DOMAIN s
        PROVE  s[n] \in InFlight(u)
    <3>1. n \in DOMAIN u /\ n \in 1..Len(u) /\ n <= Len(s)
      BY <1>1, <2>1, <2>2, <2>3
    <3> QED
      BY <2>2, <3>1 DEF InFlight
  <2>6. ASSUME NEW n \in DOMAIN t
        PROVE  t[n] \in InFlight(u)
    <3>1. /\ n + Len(s) \in DOMAIN u /\ n + Len(s) \in 1..Len(u)
          /\ ~(n + Len(s) <= Len(s)) /\ (n + Len(s)) - Len(s) = n
      BY <1>1, <2>1, <2>2, <2>3
    <3> QED
      BY <2>2, <3>1 DEF InFlight
  <2> QED
    BY <2>4, <2>5, <2>6 DEF InFlight, u
<1>4. ASSUME s # <<>>
      PROVE  InFlight(s) = {Head(s)} \cup InFlight(Tail(s))
  <2> DEFINE u == Tail(s)
  <2>1. /\ Head(s) = s[1] /\ DOMAIN u = 1..(Len(s) - 1) /\ 1 \in 1..Len(s)
        /\ \A n \in 1..(Len(s) - 1) : u[n] = s[n + 1]
    BY <1>1, <1>4
  <2> HIDE DEF u
  <2>2. ASSUME NEW n \in 1..Len(s), n # 1
        PROVE  n - 1 \in DOMAIN u /\ u[n - 1] = s[n]
    <3>1. n - 1 \in 1..(Len(s) - 1) /\ (n - 1) + 1 = n
      BY <1>1, <2>2
    <3> QED
      BY <2>1, <3>1
  <2>3. ASSUME NEW n \in DOMAIN u
        PROVE  n + 1 \in DOMAIN s /\ u[n] = s[n + 1]
    BY <1>1, <2>1
  <2>4. InFlight(s) \subseteq {Head(s)} \cup InFlight(u)
    BY <1>1, <2>1, <2>2 DEF InFlight
  <2>5. InFlight(u) \subseteq InFlight(s) /\ Head(s) \in InFlight(s)
    BY <1>1, <2>1, <2>3 DEF InFlight
  <2> QED
    BY <2>4, <2>5 DEF u
<1> QED
  BY <1>2, <1>3, <1>4

\* By misses no entry that bears the author's name.
LEMMA ByMissesNone ==
  ASSUME NEW a, NEW E, NEW s \in Seq(E),
         NEW m \in DOMAIN s, s[m].id.author = a
  PROVE  s[m] \in InFlight(By(a, s))
<1>1. PICK n : n = Len(s)
  OBVIOUS
<1>2. n \in Nat /\ m \in 1..n /\ s[m] \in E
  BY <1>1
<1>3. PICK f : IsByRun(a, E, s, n, f)
  BY <1>1, ByRuns
<1>4. ASSUME NEW i \in 1..n
      PROVE  /\ i = m => s[m] \in InFlight(f[i])
             /\ InFlight(f[i - 1]) \subseteq InFlight(f[i])
  <2>1. f[i - 1] \in Seq(Bearing(a, E, s))
    BY <1>2, <1>3 DEF IsByRun
  <2>2. s[i].id.author = a => s[i] \in Bearing(a, E, s)
    BY <1>1 DEF Bearing
  <2>3. f[i] = IF s[i].id.author = a THEN Append(f[i - 1], s[i]) ELSE f[i - 1]
    BY <1>3 DEF IsByRun
  <2> QED
    BY <2>1, <2>2, <2>3, InFlightParts
<1> DEFINE T == {k \in Nat : m <= k /\ k <= n => s[m] \in InFlight(f[k])}
<1>5. 0 \in T
  BY <1>2
<1>6. ASSUME NEW k \in Nat, k \in T
      PROVE  k + 1 \in T
  <2>1. SUFFICES ASSUME m <= k + 1, k + 1 <= n
                 PROVE  s[m] \in InFlight(f[k + 1])
    OBVIOUS
  <2>2. k + 1 \in 1..n /\ (k + 1) - 1 = k /\ k <= n /\ (k + 1 = m \/ m <= k)
    BY <1>2, <2>1
  <2> QED
    BY <1>4, <1>6, <2>2
<1> HIDE DEF T
<1>7. n \in T
  BY <1>2, <1>5, <1>6, InductionOnNat
<1> QED
  BY <1>2, <1>3, <1>7 DEF T, IsByRun

\* The log of a journal lists its entries.
LEMMA LogListsEntries ==
  ASSUME NEW j \in JournalType, LogMatchesMap(j)
  PROVE  /\ Log(j) \in Seq(j.entries)
         /\ Len(Log(j)) = Len(j.order) /\ Len(j.order) \in Nat
<1>1. DOMAIN j.order = 1..Len(j.order) /\ Len(j.order) \in Nat
  BY DEF JournalType
<1>2. ASSUME NEW n \in 1..Len(j.order)
      PROVE  EntryAt(j, j.order[n]) \in j.entries
  <2>1. j.order[n] \in Ids(j)
    BY <1>1 DEF LogMatchesMap
  <2>2. \E e \in j.entries : e.id = j.order[n]
    BY <2>1 DEF Ids
  <2> QED
    BY <2>2 DEF EntryAt
<1>3. Log(j) \in [1..Len(j.order) -> j.entries]
  BY <1>1, <1>2 DEF Log
<1> HIDE DEF Log
<1>4. Log(j) \in Seq(j.entries)
  BY <1>1, <1>3, SeqDef
<1>5. Len(Log(j)) = Len(j.order)
  BY <1>1, <1>3, <1>4
<1> QED
  BY <1>1, <1>4, <1>5

\* The entries that build on earlier ones, as all that are ever made do.
Rooted == {e \in Entry : \A i \in e.parents : i.lamport < e.id.lamport}

LEMMA EntriesAreRooted ==
  ASSUME NEW j \in JournalType, ParentsAreEarlier(j)
  PROVE  j.entries \subseteq Rooted
  BY DEF Rooted, ParentsAreEarlier, JournalType

\* A journal that takes in an entry gains that entry or nothing.
LEMMA TakenIn ==
  ASSUME NEW j \in JournalType, Consistent(j), NEW e \in Rooted,
         NEW k \in AppendRemote(j, e)
  PROVE  /\ k \in JournalType /\ Consistent(k)
         /\ k.author = j.author
         /\ j.entries \subseteq k.entries /\ k.entries \subseteq j.entries \cup {e}
<1>1. CASE e.id \in Ids(j)
  BY <1>1 DEF AppendRemote, Known
<1>2. CASE e.id \notin Ids(j)
  <2>1. e \in Entry /\ \A p \in e.parents : p.lamport < e.id.lamport
    BY DEF Rooted
  <2> QED
    BY <1>2, <2>1, AppendRemoteFields
<1> QED
  BY <1>1, <1>2

----------------------------------------------------------------------------
(* Types and soundness, of every journal and of all that is on its way.     *)

TInv ==
  /\ journal \in [Peers -> JournalType]
  /\ \A p \in Peers : Consistent(journal[p])
  /\ edits \in 0..MaxEntries /\ sent \in [Peers -> Nat]
  /\ link \in [Clients -> Links]
  /\ session \in [Clients -> Sessions \cup {NoSession}]
  /\ hello \in [Clients -> Sessions \cup {NoSession}]
  /\ replay \in [Clients -> Seq(Rooted)]
  /\ toClient \in [Clients -> Seq(Rooted)]
  /\ toHost \in [Clients -> Seq(Rooted)]
  /\ late \in [Sessions -> Seq(Rooted)]
  /\ \A c \in Clients : /\ session[c] # NoSession <=> link[c] = "up"
                        /\ hello[c] \in {session[c], NoSession}
                        /\ toHost[c] # <<>> => session[c] # NoSession

LEMMA UnshippedType ==
  ASSUME TInv, NEW p \in Peers
  PROVE  /\ Unshipped(p) \in Seq(journal[p].entries)
         /\ Unshipped(p) \in Seq(Rooted)
         /\ Log(journal[p]) \in Seq(journal[p].entries)
         /\ Log(journal[p]) \in Seq(Rooted)
         /\ Len(journal[p].order) \in Nat
<1> DEFINE j == journal[p]
           n == Len(j.order)
           from == IF n < sent[p] THEN 0 ELSE sent[p]
<1>1. j \in JournalType /\ LogMatchesMap(j) /\ j.entries \subseteq Rooted
  BY EntriesAreRooted DEF TInv, Consistent
<1>2. Log(j) \in Seq(j.entries) /\ Len(Log(j)) = n /\ n \in Nat
  BY <1>1, LogListsEntries
<1>3. from \in Nat
  BY <1>2 DEF TInv
<1>4. Unshipped(p) = SubSeq(Log(j), from + 1, n)
  BY DEF Unshipped
<1> HIDE DEF n, from, j
<1>5. \A i \in (from + 1)..n : Log(j)[i] \in j.entries
  <2>1. \A i \in (from + 1)..n : i \in 1..n
    BY <1>2, <1>3
  <2> QED
    BY <1>2, <2>1, ElementOfSeq
<1>6. from + 1 \in Int /\ n \in Int
  BY <1>2, <1>3
<1>7. Unshipped(p) \in Seq(j.entries)
  <2> DEFINE log == Log(j)
             S == j.entries
             m == from + 1
  <2>1. m \in Int /\ n \in Int /\ \A i \in m..n : log[i] \in S
    BY <1>5, <1>6
  <2> HIDE DEF log, S, m
  <2>2. SubSeq(log, m, n) \in Seq(S)
    BY <2>1, SubSeqProperties
  <2> QED
    BY <1>4, <2>2 DEF log, S, m
<1>8. Log(j) \in Seq(Rooted) /\ Unshipped(p) \in Seq(Rooted)
  BY <1>1, <1>2, <1>7, SeqMonotonic
<1> QED
  BY <1>2, <1>7, <1>8 DEF j, n

LEMMA InitTInv == Init => TInv
<1> SUFFICES ASSUME Init
             PROVE  TInv
  OBVIOUS
<1>1. \A p \in Peers : LET a == IF p \in Reopened THEN Local ELSE p IN
        a \in Authors /\ EmptyJournal(a, Strategy) \in JournalType
        /\ Consistent(EmptyJournal(a, Strategy))
  BY PlaneAssumption, EmptyJournalConsistent
<1>2. journal \in [Peers -> JournalType] /\ \A p \in Peers : Consistent(journal[p])
  BY <1>1 DEF Init
<1>3. <<>> \in Seq(Rooted) /\ 0 \in 0..MaxEntries
  BY PlaneOpsAssumption
<1> QED
  BY <1>2, <1>3 DEF Init, TInv, Links, NoSession

\* One peer's journal becomes another sound one, and no entry comes to be on
\* its way.
LEMMA JournalStep ==
  ASSUME TInv, NEW p \in Peers, NEW k \in JournalType, Consistent(k),
         journal' = [journal EXCEPT ![p] = k]
  PROVE  /\ journal' \in [Peers -> JournalType]
         /\ \A q \in Peers : Consistent(journal[q])'
         /\ journal'[p] = k
         /\ \A q \in Peers \ {p} : journal'[q] = journal[q]
<1>1. /\ journal' \in [Peers -> JournalType]
      /\ journal'[p] = k
      /\ \A q \in Peers \ {p} : journal'[q] = journal[q]
  BY DEF TInv
<1>2. ASSUME NEW q \in Peers
      PROVE  Consistent(journal'[q])
  BY <1>1 DEF TInv
<1> QED
  BY <1>1, <1>2

LEMMA EditTInv ==
  ASSUME TInv, NEW p \in Peers, Edit(p)
  PROVE  TInv'
<1> DEFINE k == AppendLocal(journal[p], edits + 1)
<1>1. edits + 1 \in Ops /\ edits + 1 \in 0..MaxEntries
  BY PlaneOpsAssumption DEF TInv, Edit
<1>2. k \in JournalType /\ Consistent(k)
  BY <1>1, AppendLocalConsistent DEF TInv
<1>3. journal' = [journal EXCEPT ![p] = k]
  BY DEF Edit
<1> HIDE DEF k
<1> QED
  BY <1>1, <1>2, <1>3, JournalStep DEF Edit, TInv, wires

LEMMA ShipTInv ==
  ASSUME TInv, ShipFromHost \/ \E c \in Clients : ShipFromClient(c)
  PROVE  TInv'
<1>1. Host \in Peers /\ Clients \subseteq Peers
  BY DEF Peers
<1>2. CASE ShipFromHost
  <2>1. Unshipped(Host) \in Seq(Rooted) /\ Len(journal[Host].order) \in Nat
    BY <1>1, UnshippedType
  <2> DEFINE sends == [c \in Clients |->
               IF session[c] # NoSession THEN toClient[c] \o Unshipped(Host) ELSE <<>>]
  <2>2. \A c \in Clients : toClient[c] \o Unshipped(Host) \in Seq(Rooted)
    BY <2>1, ConcatProperties DEF TInv
  <2>3. sends \in [Clients -> Seq(Rooted)]
    BY <2>2
  <2>4. toClient' = sends /\ sent' = [sent EXCEPT ![Host] = Len(journal[Host].order)]
    BY <1>2 DEF ShipFromHost
  <2>5. UNCHANGED <<journal, edits, link, session, hello, replay, toHost, late>>
    BY <1>2 DEF ShipFromHost
  <2> HIDE DEF sends
  <2> QED
    BY <2>1, <2>3, <2>4, <2>5 DEF TInv
<1>3. ASSUME NEW c \in Clients, ShipFromClient(c)
      PROVE  TInv'
  <2> DEFINE own == Own(c, Unshipped(c))
  <2>1. Unshipped(c) \in Seq(Rooted) /\ Len(journal[c].order) \in Nat
    BY <1>1, UnshippedType
  <2>2. own \in Seq(Rooted)
    <3>1. own \in Seq({e \in Rooted : e.id.author = journal[c].author
                                      /\ \E m \in DOMAIN Unshipped(c) : Unshipped(c)[m] = e})
      BY <2>1, ByPicks DEF Own
    <3> QED
      BY <3>1, SeqMonotonic
  <2> HIDE DEF own
  <2>3. toHost[c] \o own \in Seq(Rooted)
    BY <2>2, ConcatProperties DEF TInv
  <2>4. toHost' = [toHost EXCEPT ![c] = IF link[c] = "up" THEN @ \o own ELSE @]
    BY <1>3 DEF ShipFromClient, own
  <2>5. /\ sent' = [sent EXCEPT ![c] = Len(journal[c].order)]
        /\ UNCHANGED <<journal, edits, link, session, hello, replay, toClient, late>>
    BY <1>3 DEF ShipFromClient
  <2>6. link[c] = "up" => session[c] # NoSession
    BY DEF TInv
  <2> QED
    BY <1>1, <2>1, <2>3, <2>4, <2>5, <2>6 DEF TInv
<1> QED
  BY <1>2, <1>3

\* The entry the host binds to a connection builds on earlier ones too.
LEMMA CanonicalFields ==
  ASSUME NEW s \in Sessions, NEW x \in Rooted
  PROVE  LET e == Canonical(s, x) IN
         /\ e \in Rooted
         /\ e.id = [author |-> s, lamport |-> x.id.lamport]
         /\ e.id.author = s /\ e.id.lamport = x.id.lamport
         /\ e.op = x.op
<1>1. s \in Authors
  BY PlaneAssumption
<1> QED
  BY <1>1 DEF Canonical, Rooted, Entry, EntryId

LEMMA SentIsRooted ==
  ASSUME TInv, NEW c \in Clients, HostReceive(c)
  PROVE  Canonical(session[c], Head(toHost[c])) \in Rooted
<1>1. Head(toHost[c]) \in Rooted
  BY HeadTailProperties DEF TInv, HostReceive
<1>2. session[c] \in Sessions
  BY DEF TInv, HostReceive
<1> QED
  BY <1>1, <1>2, CanonicalFields

LEMMA HostReceiveTInv ==
  ASSUME TInv, NEW c \in Clients, HostReceive(c)
  PROVE  TInv'
<1> DEFINE e == Canonical(session[c], Head(toHost[c]))
<1>1. Host \in Peers /\ Clients \subseteq Peers
  BY DEF Peers
<1>2. Head(toHost[c]) \in Rooted /\ Tail(toHost[c]) \in Seq(Rooted)
  BY HeadTailProperties DEF TInv, HostReceive
<1>4. e \in Rooted
  BY SentIsRooted
<1> HIDE DEF e
<1>5. PICK k \in AppendRemote(journal[Host], e) : journal' = [journal EXCEPT ![Host] = k]
  BY DEF HostReceive, e
<1>6. k \in JournalType /\ Consistent(k)
  BY <1>1, <1>4, <1>5, TakenIn DEF TInv
<1>7. /\ toHost' = [toHost EXCEPT ![c] = Tail(@)]
      /\ UNCHANGED <<edits, sent, link, session, hello, replay, toClient, late>>
  BY DEF HostReceive
<1>8. session[c] # NoSession
  BY DEF TInv, HostReceive
<1> QED
  BY <1>1, <1>2, <1>5, <1>6, <1>7, <1>8, JournalStep DEF TInv

LEMMA LateTInv ==
  ASSUME TInv, NEW s \in Sessions, LateReceive(s) \/ ForgetSession(s)
  PROVE  TInv'
<1>1. Host \in Peers
  BY DEF Peers
<1>2. CASE LateReceive(s)
  <2>1. Head(late[s]) \in Rooted /\ Tail(late[s]) \in Seq(Rooted)
    BY <1>2, HeadTailProperties DEF TInv, LateReceive
  <2>2. PICK e : e = Canonical(s, Head(late[s]))
    OBVIOUS
  <2>3. PICK k \in AppendRemote(journal[Host], e) : journal' = [journal EXCEPT ![Host] = k]
    BY <1>2, <2>2 DEF LateReceive
  <2>4. k \in JournalType /\ Consistent(k)
    BY <1>1, <2>1, <2>2, <2>3, CanonicalFields, TakenIn DEF TInv
  <2>5. /\ late' = [late EXCEPT ![s] = Tail(@)]
        /\ UNCHANGED <<edits, sent, link, session, hello, replay, toClient, toHost>>
    BY <1>2 DEF LateReceive
  <2> QED
    BY <1>1, <2>1, <2>3, <2>4, <2>5, JournalStep DEF TInv
<1>3. CASE ForgetSession(s)
  <2>1. <<>> \in Seq(Rooted)
    OBVIOUS
  <2> QED
    BY <1>3, <2>1 DEF ForgetSession, TInv
<1> QED
  BY <1>2, <1>3

LEMMA ClientReceiveTInv ==
  ASSUME TInv, NEW c \in Clients, ClientReceive(c)
  PROVE  TInv'
<1> DEFINE e == Head(toClient[c])
<1>1. Clients \subseteq Peers
  BY DEF Peers
<1>2. e \in Rooted /\ Tail(toClient[c]) \in Seq(Rooted)
  BY HeadTailProperties DEF TInv, ClientReceive
<1>3. PICK k \in AppendRemote(journal[c], e) : journal' = [journal EXCEPT ![c] = k]
  BY DEF ClientReceive
<1> HIDE DEF e
<1>4. k \in JournalType /\ Consistent(k)
  BY <1>1, <1>2, <1>3, TakenIn DEF TInv
<1>5. /\ toClient' = [toClient EXCEPT ![c] = Tail(@)]
      /\ UNCHANGED <<edits, sent, link, session, hello, replay, toHost, late>>
  BY DEF ClientReceive
<1> QED
  BY <1>1, <1>2, <1>3, <1>4, <1>5, JournalStep DEF TInv

LEMMA ReplayTInv ==
  ASSUME TInv, NEW c \in Clients, ReplayChunk(c)
  PROVE  TInv'
<1>1. Head(replay[c]) \in Rooted /\ Tail(replay[c]) \in Seq(Rooted)
  BY HeadTailProperties DEF TInv, ReplayChunk
<1>2. Append(toClient[c], Head(replay[c])) \in Seq(Rooted)
  BY <1>1 DEF TInv
<1> QED
  BY <1>1, <1>2 DEF TInv, ReplayChunk

LEMMA ConnectTInv ==
  ASSUME TInv, NEW c \in Clients, Connect(c)
  PROVE  TInv'
<1>1. PICK s \in Sessions : /\ session' = [session EXCEPT ![c] = s]
                            /\ hello' = [hello EXCEPT ![c] = s]
                            /\ replay' = [replay EXCEPT ![c] = Owed(s)]
  BY DEF Connect
<1>2. Owed(s) \in Seq(Rooted)
  BY UnshippedType DEF Owed, Peers
<1>3. s # NoSession
  BY PlaneAssumption, AuthorsAssumption DEF NoSession
<1>4. link' = [link EXCEPT ![c] = "up"] /\ "up" \in Links
  BY DEF Connect, Links
<1>5. UNCHANGED <<journal, edits, sent, toClient, toHost, late>>
  BY DEF Connect
<1> HIDE DEF Owed
<1> QED
  BY <1>1, <1>2, <1>3, <1>4, <1>5 DEF TInv

LEMMA TakeHandshakeTInv ==
  ASSUME TInv, NEW c \in Clients, TakeHandshake(c)
  PROVE  TInv'
<1> DEFINE k == RebindLocalAuthor(journal[c], hello[c])
<1>1. Clients \subseteq Peers /\ hello[c] \in Authors
  BY PlaneAssumption DEF Peers, TakeHandshake, TInv
<1>2. k \in JournalType /\ Consistent(k)
  <2>1. CASE hello[c] = journal[c].author
    BY <1>1, <2>1 DEF RebindLocalAuthor, TInv
  <2>2. CASE hello[c] # journal[c].author
    <3>1. CanRebind(journal[c], hello[c]) /\ journal[c] \in JournalType /\ Consistent(journal[c])
      BY <1>1 DEF TakeHandshake, TInv
    <3> QED
      BY <1>1, <2>2, <3>1, RebindFields
  <2> QED
    BY <2>1, <2>2
<1>3. journal' = [journal EXCEPT ![c] = k]
  BY DEF TakeHandshake
<1>4. /\ hello' = [hello EXCEPT ![c] = NoSession]
      /\ UNCHANGED <<edits, sent, link, session, replay, toClient, toHost, late>>
  BY DEF TakeHandshake
<1> HIDE DEF k
<1> QED
  BY <1>1, <1>2, <1>3, <1>4, JournalStep DEF TInv

\* A connection that goes takes all with it; the journal at most changes its
\* author.
LEMMA CutTInv ==
  ASSUME TInv, NEW c \in Clients, Cut(c),
         NEW l \in Links \ {"up"}, link' = [link EXCEPT ![c] = l],
         journal' \in {journal, [journal EXCEPT ![c] = SetLocalAuthor(@, c)]},
         UNCHANGED <<edits, sent>>
  PROVE  TInv'
<1>1. Clients \subseteq Peers /\ c \in Authors
  BY PlaneAssumption DEF Peers
<1>2. /\ journal' \in [Peers -> JournalType]
      /\ \A q \in Peers : Consistent(journal[q])'
  <2>1. CASE journal' = journal
    BY <2>1 DEF TInv
  <2>2. CASE journal' = [journal EXCEPT ![c] = SetLocalAuthor(@, c)]
    <3>1. SetLocalAuthor(journal[c], c) \in JournalType /\ Consistent(SetLocalAuthor(journal[c], c))
      BY <1>1, SetLocalAuthorFields DEF TInv
    <3>2. journal' = [journal EXCEPT ![c] = SetLocalAuthor(journal[c], c)]
      BY <1>1, <2>2 DEF TInv
    <3> QED
      BY <1>1, <3>1, <3>2, JournalStep
  <2> QED
    BY <2>1, <2>2
<1>3. <<>> \in Seq(Rooted)
  OBVIOUS
<1>4. late' \in [Sessions -> Seq(Rooted)]
  BY DEF TInv, Cut
<1> QED
  BY <1>2, <1>3, <1>4 DEF TInv, Cut

LEMMA DisconnectTInv ==
  ASSUME TInv, NEW c \in Clients,
         JoinServer(c) \/ RefuseHandshake(c) \/ LeaveServer(c) \/ Drop(c)
  PROVE  TInv'
<1>1. {"dialing", "standalone", "lost"} \subseteq Links \ {"up"}
  BY DEF Links
<1>2. CASE JoinServer(c)
  BY <1>1, <1>2, CutTInv DEF JoinServer
<1>3. CASE RefuseHandshake(c)
  BY <1>1, <1>3, CutTInv DEF RefuseHandshake
<1>4. CASE LeaveServer(c)
  BY <1>1, <1>4, CutTInv DEF LeaveServer
<1>5. CASE Drop(c)
  BY <1>1, <1>5, CutTInv DEF Drop
<1> QED
  BY <1>2, <1>3, <1>4, <1>5

LEMMA NextTInv ==
  ASSUME TInv, [Next]_vars
  PROVE  TInv'
<1>1. CASE UNCHANGED vars
  BY <1>1 DEF vars, wires, TInv
<1> QED
  BY <1>1, EditTInv, ShipTInv, HostReceiveTInv, ClientReceiveTInv, ReplayTInv,
     ConnectTInv, TakeHandshakeTInv, DisconnectTInv, LateTInv DEF Next, Ferry

\* The journals and everything in flight keep their types, and every journal its
\* log, map and clock in agreement, through loss, replay, rebinding and renaming
\* (append_remote, rebind_local_author).
THEOREM TypeCorrect == Spec => []TypeOK
<1>1. TInv => TypeOK
  <2> SUFFICES ASSUME TInv
               PROVE  TypeOK
    OBVIOUS
  <2>1. \A p \in Peers : LogMatchesMap(journal[p]) /\ ClockCoversEntries(journal[p])
    BY DEF TInv, Consistent
  <2>2. \A s \in Seq(Rooted) : s \in Seq(Entry)
    BY SeqMonotonic DEF Rooted
  <2> QED
    BY <2>1, <2>2 DEF TInv, TypeOK
<1> QED
  BY <1>1, InitTInv, NextTInv, PTL DEF Spec

----------------------------------------------------------------------------
(* No edit is lost. *)

\* Whatever happens to a journal, the edits in it stay: entries are added or
\* renamed, never removed or rewritten.
LEMMA NextKeepsEdits ==
  ASSUME TInv, [Next]_vars, NEW p \in Peers
  PROVE  EditsHeld(journal[p]) \subseteq EditsHeld(journal'[p])
<1> DEFINE Kept == EditsHeld(journal[p]) \subseteq EditsHeld(journal'[p])
<1>1. Host \in Peers /\ Clients \subseteq Peers /\ Clients \subseteq Authors
  BY PlaneAssumption DEF Peers
<1>2. \A j, k : j.entries \subseteq k.entries => EditsHeld(j) \subseteq EditsHeld(k)
  BY DEF EditsHeld
<1>3. ASSUME NEW q \in Peers, NEW k,
             EditsHeld(journal[q]) \subseteq EditsHeld(k),
             journal' = [journal EXCEPT ![q] = k]
      PROVE  Kept
  BY <1>3 DEF TInv
<1>4. ASSUME UNCHANGED journal
      PROVE  Kept
  BY <1>4
<1> HIDE DEF Kept
<1>5. ASSUME NEW q \in Peers, Edit(q)
      PROVE  Kept
  <2>1. edits + 1 \in Ops
    BY <1>5, PlaneOpsAssumption DEF TInv, Edit
  <2>2. journal[q].entries \subseteq AppendLocal(journal[q], edits + 1).entries
    BY <2>1, AppendLocalConsistent DEF TInv
  <2> QED
    BY <1>2, <1>3, <1>5, <2>2 DEF Edit
<1>6. ASSUME NEW c \in Clients, HostReceive(c)
      PROVE  Kept
  <2>1. Canonical(session[c], Head(toHost[c])) \in Rooted
    BY <1>6, SentIsRooted
  <2>2. PICK k \in AppendRemote(journal[Host], Canonical(session[c], Head(toHost[c]))) :
          journal' = [journal EXCEPT ![Host] = k]
    BY <1>6 DEF HostReceive
  <2>3. journal[Host].entries \subseteq k.entries
    BY <1>1, <2>1, TakenIn DEF TInv
  <2> QED
    BY <1>1, <1>2, <1>3, <2>2, <2>3
<1>11. ASSUME NEW s \in Sessions, LateReceive(s) \/ ForgetSession(s)
       PROVE  Kept
  <2>1. CASE LateReceive(s)
    <3>1. Canonical(s, Head(late[s])) \in Rooted
      BY <2>1, HeadTailProperties, CanonicalFields DEF TInv, LateReceive
    <3>2. PICK k \in AppendRemote(journal[Host], Canonical(s, Head(late[s]))) :
            journal' = [journal EXCEPT ![Host] = k]
      BY <2>1 DEF LateReceive
    <3>3. journal[Host].entries \subseteq k.entries
      BY <1>1, <3>1, <3>2, TakenIn DEF TInv
    <3> QED
      BY <1>1, <1>2, <1>3, <3>2, <3>3
  <2>2. CASE ForgetSession(s)
    BY <1>4, <2>2 DEF ForgetSession
  <2> QED
    BY <1>11, <2>1, <2>2
<1>7. ASSUME NEW c \in Clients, ClientReceive(c)
      PROVE  Kept
  <2>1. Head(toClient[c]) \in Rooted
    BY <1>7, HeadTailProperties DEF TInv, ClientReceive
  <2>2. PICK k \in AppendRemote(journal[c], Head(toClient[c])) :
          journal' = [journal EXCEPT ![c] = k]
    BY <1>7 DEF ClientReceive
  <2>3. journal[c].entries \subseteq k.entries
    BY <1>1, <2>1, TakenIn DEF TInv
  <2> QED
    BY <1>1, <1>2, <1>3, <2>2, <2>3
<1>8. ASSUME NEW c \in Clients, TakeHandshake(c)
      PROVE  Kept
  <2> DEFINE k == RebindLocalAuthor(journal[c], hello[c])
  <2>1. EditsHeld(journal[c]) \subseteq EditsHeld(k)
    <3>1. CASE hello[c] = journal[c].author
      BY <3>1 DEF RebindLocalAuthor
    <3>2. CASE hello[c] # journal[c].author
      <4>1. hello[c] \in Authors /\ CanRebind(journal[c], hello[c])
            /\ journal[c] \in JournalType /\ Consistent(journal[c])
        BY <1>1, <1>8, PlaneAssumption DEF TInv, TakeHandshake
      <4>2. k.entries = {Moved(journal[c], hello[c], e) : e \in journal[c].entries}
        BY <3>2, <4>1, RebindFields
      <4>3. \A e \in journal[c].entries : Moved(journal[c], hello[c], e).op = e.op
        BY <4>1, MovedFields DEF JournalType
      <4> QED
        BY <4>2, <4>3 DEF EditsHeld
    <3> QED
      BY <3>1, <3>2
  <2>2. journal' = [journal EXCEPT ![c] = k]
    BY <1>8 DEF TakeHandshake
  <2> QED
    BY <1>1, <1>3, <2>1, <2>2
<1>9. ASSUME NEW c \in Clients, JoinServer(c) \/ RefuseHandshake(c) \/ LeaveServer(c)
      PROVE  Kept
  <2>1. journal' = [journal EXCEPT ![c] = SetLocalAuthor(journal[c], c)]
    BY <1>1, <1>9 DEF JoinServer, RefuseHandshake, LeaveServer
  <2>2. SetLocalAuthor(journal[c], c).entries = journal[c].entries
    BY <1>1, SetLocalAuthorFields DEF TInv
  <2> QED
    BY <1>1, <1>2, <1>3, <2>1, <2>2
<1>10. ASSUME \/ ShipFromHost \/ UNCHANGED vars
              \/ \E c \in Clients : ShipFromClient(c) \/ ReplayChunk(c) \/ Connect(c) \/ Drop(c)
       PROVE  Kept
  BY <1>4, <1>10 DEF ShipFromHost, ShipFromClient, ReplayChunk, Connect, Drop, vars
<1> QED
  BY <1>5, <1>6, <1>7, <1>8, <1>9, <1>10, <1>11 DEF Next, Ferry, Kept

\* No peer ever loses an edit it holds, for any history of joins, losses and
\* handshakes (append_remote, rebind_local_author, set_local_author).
THEOREM EditsStay == Spec => EditsAreKept
<1>1. TInv /\ [Next]_vars =>
        [\A p \in Peers : EditsHeld(journal[p]) \subseteq EditsHeld(journal'[p])]_vars
  BY NextKeepsEdits
<1> QED
  BY <1>1, InitTInv, NextTInv, PTL DEF Spec, EditsAreKept

----------------------------------------------------------------------------
(* An id names one edit, when the Twin of every peer was open at startup.   *)

\* The names that a peer's entries get: its journal's author, and the session
\* the host binds what it sends to.
Names(p) ==
  {journal[p].author} \cup (IF p \in Clients THEN {session[p]} \ {NoSession} ELSE {})

\* A client goes by its install's author or by a session, by the session once
\* the handshake is taken; no name is two peers'.
NamesAreOwn ==
  /\ journal[Host].author = Host
  /\ \A c \in Clients :
       /\ journal[c].author \in {c} \cup Sessions
       /\ session[c] # NoSession =>
            journal[c].author = IF hello[c] = NoSession THEN session[c] ELSE c
       /\ link[c] = "dialing" => journal[c].author = c
  /\ \A p, q \in Peers : p # q => Names(p) \cap Names(q) = {}

\* What a client made before it joined is under its install's author on that
\* client only.
InstallsStayHome ==
  \A c \in Clients : \A p \in Peers \ {c} : \A e \in journal[p].entries : e.id.author # c

\* The edit of an entry is in a peer's journal, under the author's name.
Original(p, e) ==
  \E f \in journal[p].entries :
    f.id = [author |-> journal[p].author, lamport |-> e.id.lamport] /\ f.op = e.op

\* What bears one of a peer's names is a copy of what the peer holds.
CopiesHaveOriginals ==
  \A p, q \in Peers : \A e \in journal[q].entries : e.id.author \in Names(p) => Original(p, e)

SentHaveOriginals == \A c \in Clients : toHost[c] \in Seq({e \in Rooted : Original(c, e)})

FromHost ==
  \A c \in Clients : {replay[c], toClient[c]} \subseteq Seq(journal[Host].entries)

NInv ==
  /\ TInv
  /\ NamesAreOwn /\ InstallsStayHome
  /\ CopiesHaveOriginals /\ SentHaveOriginals /\ FromHost
  /\ IdsNameOneEdit

LEMMA PeersAreKinds == Host \in Peers /\ Clients \subseteq Peers /\ Clients \subseteq Authors
                       /\ Host \notin Clients /\ Sessions \cap Peers = {}
                       /\ Sessions \subseteq Authors /\ NoSession \notin Authors
  BY PlaneAssumption, AuthorsAssumption DEF Peers, NoSession

LEMMA InitNInv == Reopened = {} /\ Init => NInv
<1> SUFFICES ASSUME Reopened = {}, Init
             PROVE  NInv
  OBVIOUS
<1>1. \A p \in Peers : journal[p].author = p /\ journal[p].entries = {}
  BY DEF Init, EmptyJournal
<1>2. NamesAreOwn
  BY <1>1, PeersAreKinds DEF Init, NamesAreOwn, Names
<1>3. SentHaveOriginals /\ FromHost
  BY DEF Init, SentHaveOriginals, FromHost
<1>4. InstallsStayHome /\ CopiesHaveOriginals /\ IdsNameOneEdit
  BY <1>1, PeersAreKinds DEF InstallsStayHome, CopiesHaveOriginals, IdsNameOneEdit
<1> QED
  BY <1>2, <1>3, <1>4, InitTInv DEF NInv

\* An entry that a peer writes or receives keeps names apart when it stays with
\* the peer whose install it names, its original is where its name says, and it
\* has the edit of every entry of its id.
LEMMA EntryArrives ==
  ASSUME NInv, NEW p \in Peers, NEW k, NEW e,
         journal' = [journal EXCEPT ![p] = k],
         UNCHANGED <<link, session, hello>>,
         k.author = journal[p].author,
         journal[p].entries \subseteq k.entries, k.entries \subseteq journal[p].entries \cup {e},
         e.id.author \notin Clients \ {p},
         \A q \in Peers : e.id.author \in Names(q) => Original(q, e)',
         \A q \in Peers : \A f \in journal[q].entries : f.id = e.id => f.op = e.op
  PROVE  /\ NamesAreOwn' /\ InstallsStayHome' /\ CopiesHaveOriginals' /\ IdsNameOneEdit'
         /\ journal[Host].entries \subseteq journal'[Host].entries
         /\ \A c \in Clients : {x \in Rooted : Original(c, x)} \subseteq {x \in Rooted : Original(c, x)'}
<1>1. /\ \A q \in Peers : /\ journal'[q].author = journal[q].author
                          /\ journal[q].entries \subseteq journal'[q].entries
      /\ \A q \in Peers : \A f \in journal'[q].entries :
            f \in journal[q].entries \/ (q = p /\ f = e)
  BY DEF NInv, TInv
<1>2. \A q \in Peers : Names(q)' = Names(q)
  BY <1>1 DEF Names
<1>3. \A q \in Peers : \A f : Original(q, f) => Original(q, f)'
  BY <1>1 DEF Original
<1>4. NamesAreOwn'
  BY <1>1, <1>2, PeersAreKinds DEF NInv, NamesAreOwn
<1>5. InstallsStayHome'
  BY <1>1 DEF NInv, InstallsStayHome
<1>6. CopiesHaveOriginals'
  BY <1>1, <1>2, <1>3 DEF NInv, CopiesHaveOriginals
<1>7. IdsNameOneEdit'
  BY <1>1 DEF NInv, IdsNameOneEdit
<1> QED
  BY <1>1, <1>3, <1>4, <1>5, <1>6, <1>7, PeersAreKinds

LEMMA EditNInv ==
  ASSUME NInv, NEW p \in Peers, Edit(p)
  PROVE  NInv'
<1>1. PICK j, e, k : j = journal[p] /\ e = LocalEntry(j, edits + 1) /\ k = AppendLocal(j, edits + 1)
  OBVIOUS
<1>0. edits + 1 \in Ops /\ j \in JournalType /\ Consistent(j)
  BY <1>1, PlaneOpsAssumption DEF NInv, TInv, Edit
<1>2. /\ e.id \notin Ids(j)
      /\ k.entries = j.entries \cup {e}
      /\ k.author = j.author
  BY <1>0, <1>1, AppendLocalConsistent
<1>3. e.id = [author |-> j.author, lamport |-> e.id.lamport] /\ e.id.author = j.author
  BY <1>0, <1>1, LocalEntryFields
<1>4. journal' = [journal EXCEPT ![p] = k]
  BY <1>1 DEF Edit
<1>5. e.id.author \notin Clients \ {p}
  BY <1>1, <1>3, PeersAreKinds DEF NInv, NamesAreOwn, Peers
<1>6. ASSUME NEW q \in Peers, e.id.author \in Names(q)
      PROVE  Original(q, e)'
  <2>1. q = p
    BY <1>1, <1>3, <1>6 DEF NInv, NamesAreOwn, Names
  <2>2. journal'[p].author = j.author /\ e \in journal'[p].entries
    BY <1>1, <1>2, <1>4 DEF NInv, TInv
  <2> QED
    BY <1>3, <2>1, <2>2 DEF Original
<1>7. ASSUME NEW q \in Peers, NEW f \in journal[q].entries, f.id = e.id
      PROVE  f.op = e.op
  <2>1. Original(p, f)
    BY <1>1, <1>3, <1>7 DEF NInv, CopiesHaveOriginals, Names
  <2> QED
    BY <1>1, <1>2, <1>3, <1>7, <2>1 DEF Original, Ids
<1>8. UNCHANGED <<link, session, hello, replay, toClient, toHost>>
  BY DEF Edit, wires
<1>9. /\ k.author = journal[p].author
      /\ journal[p].entries \subseteq k.entries /\ k.entries \subseteq journal[p].entries \cup {e}
      /\ UNCHANGED <<link, session, hello>>
  BY <1>1, <1>2, <1>8
<1>10. /\ NamesAreOwn' /\ InstallsStayHome' /\ CopiesHaveOriginals' /\ IdsNameOneEdit'
       /\ journal[Host].entries \subseteq journal'[Host].entries
       /\ \A c \in Clients : {x \in Rooted : Original(c, x)} \subseteq {x \in Rooted : Original(c, x)'}
  BY <1>4, <1>5, <1>6, <1>7, <1>9, EntryArrives
<1>11. SentHaveOriginals' /\ FromHost'
  BY <1>8, <1>10, SeqMonotonic DEF NInv, SentHaveOriginals, FromHost
<1> QED
  BY <1>10, <1>11, EditTInv DEF NInv

LEMMA HostReceiveNInv ==
  ASSUME NInv, NEW c \in Clients, HostReceive(c)
  PROVE  NInv'
<1>0. PICK x, e : x = Head(toHost[c]) /\ e = Canonical(session[c], x)
  OBVIOUS
<1>1. x \in Rooted /\ Original(c, x) /\ Tail(toHost[c]) \in Seq({y \in Rooted : Original(c, y)})
  <2> DEFINE Sent == {y \in Rooted : Original(c, y)}
  <2>1. toHost[c] \in Seq(Sent) /\ toHost[c] # <<>>
    BY DEF NInv, SentHaveOriginals, HostReceive
  <2>2. Head(toHost[c]) \in Sent /\ Tail(toHost[c]) \in Seq(Sent)
    <3> HIDE DEF Sent
    <3> QED
      BY <2>1, HeadTailProperties
  <2> QED
    BY <1>0, <2>2
<1>2. session[c] \in Sessions /\ session[c] # NoSession
  BY DEF NInv, TInv, HostReceive
<1>3. /\ e.id = [author |-> session[c], lamport |-> x.id.lamport]
      /\ e.id.author = session[c] /\ e.id.lamport = x.id.lamport
      /\ e.op = x.op
      /\ e \in Rooted
  BY <1>0, <1>1, <1>2, PeersAreKinds DEF Canonical, Rooted, Entry, EntryId
<1>4. PICK k \in AppendRemote(journal[Host], e) : journal' = [journal EXCEPT ![Host] = k]
  BY <1>0 DEF HostReceive
<1>5. /\ k.author = journal[Host].author
      /\ journal[Host].entries \subseteq k.entries
      /\ k.entries \subseteq journal[Host].entries \cup {e}
  BY <1>3, PeersAreKinds, TakenIn DEF NInv, TInv
<1>6. Original(c, e) /\ session[c] \in Names(c)
  BY <1>1, <1>2, <1>3 DEF Original, Names
<1>7. ASSUME NEW q \in Peers, e.id.author \in Names(q)
      PROVE  Original(q, e)'
  <2>1. q = c
    BY <1>3, <1>6, <1>7, PeersAreKinds DEF NInv, NamesAreOwn
  <2>2. journal'[c] = journal[c]
    BY <1>4, PeersAreKinds DEF NInv, TInv
  <2> QED
    BY <1>6, <2>1, <2>2 DEF Original
<1>8. ASSUME NEW q \in Peers, NEW f \in journal[q].entries, f.id = e.id
      PROVE  f.op = e.op
  <2>1. Original(c, f)
    BY <1>3, <1>6, <1>8, PeersAreKinds DEF NInv, CopiesHaveOriginals
  <2>2. LogMatchesMap(journal[c])
    BY PeersAreKinds DEF NInv, TInv, Consistent
  <2> QED
    BY <1>6, <1>8, <2>1, <2>2 DEF Original, LogMatchesMap
<1>9. /\ toHost' = [toHost EXCEPT ![c] = Tail(@)]
      /\ UNCHANGED <<link, session, hello, replay, toClient>>
  BY DEF HostReceive
<1>10. e.id.author \notin Clients \ {Host}
  BY <1>2, <1>3, PeersAreKinds
<1>11. /\ NamesAreOwn' /\ InstallsStayHome' /\ CopiesHaveOriginals' /\ IdsNameOneEdit'
       /\ journal[Host].entries \subseteq journal'[Host].entries
       /\ \A d \in Clients : {y \in Rooted : Original(d, y)} \subseteq {y \in Rooted : Original(d, y)'}
  BY <1>4, <1>5, <1>7, <1>8, <1>9, <1>10, PeersAreKinds, EntryArrives
<1>12. ASSUME NEW d \in Clients
       PROVE  toHost'[d] \in Seq({y \in Rooted : Original(d, y)'})
  <2>1. toHost'[d] \in Seq({y \in Rooted : Original(d, y)})
    BY <1>1, <1>9 DEF NInv, TInv, SentHaveOriginals
  <2> QED
    BY <1>11, <2>1, SeqMonotonic
<1>13. FromHost'
  BY <1>9, <1>11, SeqMonotonic DEF NInv, FromHost
<1> QED
  BY <1>11, <1>12, <1>13, HostReceiveTInv DEF NInv, SentHaveOriginals

LEMMA ClientReceiveNInv ==
  ASSUME NInv, NEW c \in Clients, ClientReceive(c)
  PROVE  NInv'
<1>0. PICK e : e = Head(toClient[c])
  OBVIOUS
<1>1. e \in journal[Host].entries /\ Tail(toClient[c]) \in Seq(journal[Host].entries)
  BY <1>0, HeadTailProperties DEF NInv, FromHost, ClientReceive
<1>2. e \in Rooted
  BY <1>0, HeadTailProperties DEF NInv, TInv, ClientReceive
<1>3. PICK k \in AppendRemote(journal[c], e) : journal' = [journal EXCEPT ![c] = k]
  BY <1>0 DEF ClientReceive
<1>4. /\ k.author = journal[c].author
      /\ journal[c].entries \subseteq k.entries
      /\ k.entries \subseteq journal[c].entries \cup {e}
  BY <1>2, PeersAreKinds, TakenIn DEF NInv, TInv
<1>5. e.id.author \notin Clients \ {c}
  BY <1>1, PeersAreKinds DEF NInv, InstallsStayHome
<1>6. ASSUME NEW q \in Peers, e.id.author \in Names(q)
      PROVE  Original(q, e)'
  <2>1. Original(q, e)
    BY <1>1, <1>6, PeersAreKinds DEF NInv, CopiesHaveOriginals
  <2>2. journal'[q].author = journal[q].author /\ journal[q].entries \subseteq journal'[q].entries
    BY <1>3, <1>4 DEF NInv, TInv
  <2> QED
    BY <2>1, <2>2 DEF Original
<1>7. \A q \in Peers : \A f \in journal[q].entries : f.id = e.id => f.op = e.op
  BY <1>1, PeersAreKinds DEF NInv, IdsNameOneEdit
<1>8. /\ toClient' = [toClient EXCEPT ![c] = Tail(@)]
      /\ UNCHANGED <<link, session, hello, replay, toHost>>
  BY DEF ClientReceive
<1>9. /\ NamesAreOwn' /\ InstallsStayHome' /\ CopiesHaveOriginals' /\ IdsNameOneEdit'
      /\ journal[Host].entries \subseteq journal'[Host].entries
      /\ \A d \in Clients : {y \in Rooted : Original(d, y)} \subseteq {y \in Rooted : Original(d, y)'}
  BY <1>3, <1>4, <1>5, <1>6, <1>7, <1>8, PeersAreKinds, EntryArrives
<1>10. SentHaveOriginals'
  BY <1>8, <1>9, SeqMonotonic DEF NInv, SentHaveOriginals
<1>11. FromHost'
  <2>1. \A d \in Clients : {replay[d], toClient'[d]} \subseteq Seq(journal[Host].entries)
    BY <1>1, <1>8 DEF NInv, TInv, FromHost
  <2> QED
    BY <1>8, <1>9, <2>1, SeqMonotonic DEF FromHost
<1> QED
  BY <1>9, <1>10, <1>11, ClientReceiveTInv DEF NInv

\* Entries on their way change no journal.
LEMMA WiresNInv ==
  ASSUME NInv, TInv', UNCHANGED <<journal, link, session, hello>>, SentHaveOriginals', FromHost'
  PROVE  NInv'
<1>1. \A p, e : /\ Original(p, e)' = Original(p, e)
                /\ Names(p)' = Names(p)
  BY DEF Original, Names
<1> QED
  BY <1>1 DEF NInv, NamesAreOwn, InstallsStayHome, CopiesHaveOriginals, IdsNameOneEdit

LEMMA ShipNInv ==
  ASSUME NInv, ShipFromHost \/ \E c \in Clients : ShipFromClient(c) \/ ReplayChunk(c)
  PROVE  NInv'
<1>1. CASE ShipFromHost
  <2>1. /\ toClient' = [c \in Clients |->
               IF session[c] # NoSession THEN toClient[c] \o Unshipped(Host) ELSE <<>>]
        /\ UNCHANGED <<journal, link, session, hello, replay, toHost>>
    BY <1>1 DEF ShipFromHost
  <2>2. Unshipped(Host) \in Seq(journal[Host].entries)
    BY UnshippedType, PeersAreKinds DEF NInv
  <2>3. \A c \in Clients : toClient[c] \o Unshipped(Host) \in Seq(journal[Host].entries)
    BY <2>2, ConcatProperties DEF NInv, FromHost
  <2> DEFINE S == journal[Host].entries
  <2>4. \A c \in Clients : toClient'[c] \in Seq(S)
    <3>1. <<>> \in Seq(S)
      OBVIOUS
    <3> HIDE DEF S
    <3> QED
      BY <2>1, <2>3, <3>1 DEF S
  <2>5. FromHost' /\ SentHaveOriginals'
    BY <2>1, <2>4 DEF NInv, FromHost, SentHaveOriginals, Original
  <2> QED
    BY <1>1, <2>1, <2>5, ShipTInv, WiresNInv DEF NInv
<1>2. ASSUME NEW c \in Clients, ShipFromClient(c)
      PROVE  NInv'
  <2> DEFINE sends == Unshipped(c)
             a     == journal[c].author
             E     == journal[c].entries
             Mine  == {x \in Rooted : Original(c, x)}
  <2>1. sends \in Seq(E) /\ E \subseteq Rooted /\ E \subseteq Entry
    BY UnshippedType, EntriesAreRooted, PeersAreKinds DEF NInv, TInv, Consistent, JournalType
  <2>2. \A e \in E : e.id.author = a => e \in Mine
    <3>1. \A e \in Entry : e.id.author = a => e.id = [author |-> a, lamport |-> e.id.lamport]
      BY DEF Entry, EntryId
    <3> QED
      BY <2>1, <3>1 DEF Original
  <2>3. Own(c, sends) \in Seq(Mine)
    <3>1. Own(c, sends) \in Seq({e \in E : e.id.author = a /\ \E m \in DOMAIN sends : sends[m] = e})
      BY <2>1, ByPicks DEF Own
    <3>2. {e \in E : e.id.author = a /\ \E m \in DOMAIN sends : sends[m] = e} \subseteq Mine
      BY <2>2
    <3> QED
      BY <3>1, <3>2, SeqMonotonic
  <2>4. /\ toHost' = [toHost EXCEPT ![c] = IF link[c] = "up" THEN @ \o Own(c, sends) ELSE @]
        /\ UNCHANGED <<journal, link, session, hello, replay, toClient>>
    BY <1>2 DEF ShipFromClient
  <2>5. toHost[c] \o Own(c, sends) \in Seq(Mine)
    BY <2>3, ConcatProperties DEF NInv, SentHaveOriginals
  <2> HIDE DEF sends
  <2>6. \A d \in Clients : toHost'[d] \in Seq({x \in Rooted : Original(d, x)})
    BY <2>4, <2>5 DEF NInv, TInv, SentHaveOriginals
  <2>7. FromHost' /\ SentHaveOriginals'
    <3>1. FromHost'
      BY <2>4 DEF NInv, FromHost
    <3>2. \A d \in Clients, x \in Rooted : Original(d, x)' <=> Original(d, x)
      BY <2>4 DEF Original
    <3>3. SentHaveOriginals'
      BY <2>6, <3>2 DEF SentHaveOriginals
    <3> QED
      BY <3>1, <3>3
  <2> QED
    BY <1>2, <2>4, <2>7, ShipTInv, WiresNInv DEF NInv
<1>3. ASSUME NEW c \in Clients, ReplayChunk(c)
      PROVE  NInv'
  <2> DEFINE S == journal[Host].entries
  <2>1. Head(replay[c]) \in S /\ Tail(replay[c]) \in Seq(S)
    BY <1>3, HeadTailProperties DEF NInv, FromHost, ReplayChunk
  <2>2. Append(toClient[c], Head(replay[c])) \in Seq(S)
    BY <2>1, AppendProperties DEF NInv, FromHost
  <2>3. /\ toClient' = [toClient EXCEPT ![c] = Append(@, Head(replay[c]))]
        /\ replay' = [replay EXCEPT ![c] = Tail(@)]
        /\ UNCHANGED <<journal, link, session, hello, toHost>>
    BY <1>3 DEF ReplayChunk
  <2>4. \A d \in Clients : {replay'[d], toClient'[d]} \subseteq Seq(S)
    BY <2>1, <2>2, <2>3 DEF NInv, TInv, FromHost
  <2>5. FromHost' /\ SentHaveOriginals'
    <3>1. FromHost'
      BY <2>3, <2>4 DEF FromHost
    <3>2. SentHaveOriginals'
      BY <2>3 DEF NInv, SentHaveOriginals, Original
    <3> QED
      BY <3>1, <3>2
  <2> QED
    BY <1>3, <2>3, <2>5, ReplayTInv, WiresNInv DEF NInv
<1> QED
  BY <1>1, <1>2, <1>3

LEMMA ConnectNInv ==
  ASSUME NInv, NEW c \in Clients, Connect(c)
  PROVE  NInv'
<1>1. PICK s \in Sessions :
        /\ \A d \in Clients : session[d] # s
        /\ \A p \in Peers : s # journal[p].author /\ \A i \in Ids(journal[p]) : i.author # s
        /\ session' = [session EXCEPT ![c] = s]
        /\ hello' = [hello EXCEPT ![c] = s]
        /\ replay' = [replay EXCEPT ![c] = Owed(s)]
  BY DEF Connect
<1>2. /\ link[c] = "dialing" /\ link' = [link EXCEPT ![c] = "up"]
      /\ UNCHANGED <<journal, toClient, toHost>>
  BY DEF Connect
<1>3. s # NoSession /\ journal[c].author = c
  BY <1>2, PeersAreKinds DEF NInv, NamesAreOwn
<1>4. /\ session'[c] = s /\ hello'[c] = s /\ link'[c] = "up"
      /\ \A d \in Clients \ {c} : /\ session'[d] = session[d] /\ hello'[d] = hello[d]
                                  /\ link'[d] = link[d] /\ replay'[d] = replay[d]
  BY <1>1, <1>2 DEF NInv, TInv
<1>5. \A p \in Peers : Names(p)' \subseteq Names(p) \cup (IF p = c THEN {s} ELSE {})
  BY <1>2, <1>4 DEF Names
<1>6. \A p \in Peers : s \notin Names(p)
  BY <1>1 DEF Names
<1>7. NamesAreOwn'
  <2>1. \A p, q \in Peers : p # q => Names(p)' \cap Names(q)' = {}
    BY <1>5, <1>6 DEF NInv, NamesAreOwn
  <2>2. ASSUME NEW d \in Clients
        PROVE  /\ journal'[d].author \in {d} \cup Sessions
               /\ session'[d] # NoSession =>
                    journal'[d].author = IF hello'[d] = NoSession THEN session'[d] ELSE d
               /\ link'[d] = "dialing" => journal'[d].author = d
    BY <1>2, <1>3, <1>4 DEF NInv, NamesAreOwn
  <2> QED
    BY <1>2, <2>1, <2>2 DEF NInv, NamesAreOwn
<1>8. \A p, e : Original(p, e)' = Original(p, e)
  BY <1>2 DEF Original
<1>9. CopiesHaveOriginals'
  <2>1. \A q \in Peers : \A e \in journal[q].entries : e.id.author # s
    BY <1>1 DEF Ids
  <2> QED
    BY <1>2, <1>5, <1>8, <2>1 DEF NInv, CopiesHaveOriginals
<1>10. SentHaveOriginals'
  BY <1>2, <1>8 DEF NInv, SentHaveOriginals
<1>11. FromHost'
  <2>1. Owed(s) \in Seq(journal[Host].entries)
    BY UnshippedType, PeersAreKinds DEF NInv, Owed
  <2>2. replay'[c] = Owed(s)
    BY <1>1 DEF NInv, TInv
  <2> QED
    BY <1>2, <1>4, <2>1, <2>2 DEF NInv, FromHost
<1>12. InstallsStayHome' /\ IdsNameOneEdit'
  BY <1>2 DEF NInv, InstallsStayHome, IdsNameOneEdit
<1> QED
  BY <1>7, <1>9, <1>10, <1>11, <1>12, ConnectTInv DEF NInv

\* A client that renames its entries to its session's author was the only one
\* to have them under the old name, and has the original of every copy under
\* the new.
LEMMA TakeHandshakeNInv ==
  ASSUME NInv, NEW c \in Clients, TakeHandshake(c)
  PROVE  NInv'
<1>1. PICK s, j, k : s = hello[c] /\ j = journal[c] /\ k = RebindLocalAuthor(j, s)
  OBVIOUS
<1>2. /\ s \in Sessions /\ session[c] = s /\ j.author = c /\ s # c
      /\ j \in JournalType /\ Consistent(j) /\ CanRebind(j, s)
  BY <1>1, PeersAreKinds DEF TakeHandshake, NInv, TInv, NamesAreOwn
<1>3. /\ k.author = s
      /\ k.entries = {Moved(j, s, e) : e \in j.entries}
      /\ Consistent(k)
  BY <1>1, <1>2, PeersAreKinds, RebindFields
<1>4. ASSUME NEW e \in j.entries
      PROVE  /\ Moved(j, s, e).op = e.op
             /\ Moved(j, s, e).id.lamport = e.id.lamport
             /\ e.id.author = c => /\ Moved(j, s, e).id = [author |-> s, lamport |-> e.id.lamport]
                                   /\ Moved(j, s, e).id.author = s
             /\ e.id.author # c => Moved(j, s, e).id = e.id
  <2>1. e \in Entry /\ e.id \in EntryId /\ e.id \in Ids(j)
    BY <1>2 DEF JournalType, Entry, Ids
  <2>2. Moved(j, s, e).id = Rebound(j, s, e.id) /\ Moved(j, s, e).op = e.op
    BY <1>2, <2>1, PeersAreKinds, MovedFields
  <2>3. j \in JournalType /\ s \in Authors /\ Consistent(j) /\ CanRebind(j, s)
    BY <1>2, PeersAreKinds
  <2>4. /\ Rebound(j, s, e.id).lamport = e.id.lamport
        /\ e.id.author = c => Rebound(j, s, e.id) = [author |-> s, lamport |-> e.id.lamport]
        /\ e.id.author # c => Rebound(j, s, e.id) = e.id
    BY <1>2, <2>1, <2>3, ReboundId
  <2> QED
    BY <2>2, <2>4
<1>5. /\ journal' = [journal EXCEPT ![c] = k]
      /\ hello' = [hello EXCEPT ![c] = NoSession]
      /\ UNCHANGED <<link, session, replay, toClient, toHost>>
  BY <1>1 DEF TakeHandshake
<1>6. /\ journal'[c] = k /\ \A q \in Peers \ {c} : journal'[q] = journal[q]
      /\ hello'[c] = NoSession /\ \A d \in Clients \ {c} : hello'[d] = hello[d]
      /\ journal'[Host] = journal[Host]
  BY <1>5, PeersAreKinds DEF NInv, TInv
<1>7. /\ s \in Names(c) /\ Names(c)' = {s}
      /\ \A q \in Peers \ {c} : Names(q)' = Names(q) /\ s \notin Names(q) /\ c \notin Names(q)
  <2>1. {c, s} \subseteq Names(c)
    BY <1>1, <1>2, PeersAreKinds DEF Names
  <2>2. Names(c)' = {s}
    BY <1>2, <1>3, <1>5, <1>6, PeersAreKinds DEF Names
  <2>3. \A q \in Peers \ {c} : Names(q)' = Names(q)
    BY <1>5, <1>6 DEF Names
  <2>4. \A q \in Peers \ {c} : Names(c) \cap Names(q) = {}
    BY PeersAreKinds DEF NInv, NamesAreOwn
  <2> QED
    BY <2>1, <2>2, <2>3, <2>4
<1>8. NamesAreOwn'
  <2>1. \A p, q \in Peers : p # q => Names(p)' \cap Names(q)' = {}
    BY <1>7 DEF NInv, NamesAreOwn
  <2>2. ASSUME NEW d \in Clients
        PROVE  /\ journal'[d].author \in {d} \cup Sessions
               /\ session'[d] # NoSession =>
                    journal'[d].author = IF hello'[d] = NoSession THEN session'[d] ELSE d
               /\ link'[d] = "dialing" => journal'[d].author = d
    <3>1. link[c] = "up" /\ session[c] # NoSession
      BY <1>2, PeersAreKinds DEF NInv, TInv
    <3> QED
      BY <1>2, <1>3, <1>5, <1>6, <3>1, PeersAreKinds DEF NInv, NamesAreOwn
  <2> QED
    BY <1>6, <2>1, <2>2 DEF NInv, NamesAreOwn
<1>9. InstallsStayHome'
  <2>1. ASSUME NEW d \in Clients, NEW p \in Peers \ {d}, NEW e \in journal'[p].entries
        PROVE  e.id.author # d
    <3>1. CASE p # c
      BY <1>6, <3>1 DEF NInv, InstallsStayHome
    <3>2. CASE p = c
      <4>1. PICK f \in j.entries : e = Moved(j, s, f)
        BY <1>3, <1>6, <3>2
      <4>2. f.id.author # d
        BY <1>1, <3>2 DEF NInv, InstallsStayHome
      <4> QED
        BY <1>2, <1>4, <4>1, <4>2, PeersAreKinds
    <3> QED
      BY <3>1, <3>2
  <2> QED
    BY <2>1 DEF InstallsStayHome
<1>10. \A q \in Peers : \A e : Original(q, e) => Original(q, e)'
  <2>1. ASSUME NEW e, Original(c, e)
        PROVE  Original(c, e)'
    <3>1. PICK f \in j.entries : f.id = [author |-> c, lamport |-> e.id.lamport] /\ f.op = e.op
      BY <1>1, <1>2, <2>1 DEF Original
    <3>2. Moved(j, s, f) \in k.entries /\ Moved(j, s, f).op = e.op
          /\ Moved(j, s, f).id = [author |-> k.author, lamport |-> e.id.lamport]
      BY <1>3, <1>4, <3>1
    <3> QED
      BY <1>6, <3>2 DEF Original
  <2> QED
    BY <1>6, <2>1 DEF Original
<1>11. CopiesHaveOriginals'
  <2>1. ASSUME NEW p \in Peers, NEW q \in Peers, NEW e \in journal'[q].entries,
               e.id.author \in Names(p)'
        PROVE  Original(p, e)'
    <3>1. CASE q # c
      <4>1. Original(p, e)
        BY <1>6, <1>7, <2>1, <3>1 DEF NInv, CopiesHaveOriginals
      <4> QED
        BY <1>10, <4>1
    <3>2. CASE q = c
      <4>1. PICK f \in j.entries : e = Moved(j, s, f)
        BY <1>3, <1>6, <3>2
      <4>2. CASE f.id.author = c
        <5>1. e.id.author = s /\ p = c
          BY <1>4, <1>7, <2>1, <4>1, <4>2
        <5>2. e.id = [author |-> k.author, lamport |-> e.id.lamport]
          BY <1>3, <1>4, <4>1, <4>2
        <5> QED
          BY <1>6, <2>1, <3>2, <5>1, <5>2 DEF Original
      <4>3. CASE f.id.author # c
        <5>1. e.id = f.id /\ e.op = f.op
          BY <1>4, <4>1, <4>3
        <5>2. Original(p, f)
          BY <1>1, <1>7, <2>1, <5>1, PeersAreKinds DEF NInv, CopiesHaveOriginals
        <5>3. Original(p, f)'
          BY <1>10, <5>2
        <5> QED
          BY <5>1, <5>3 DEF Original
      <4> QED
        BY <4>2, <4>3
    <3> QED
      BY <3>1, <3>2
  <2> QED
    BY <2>1 DEF CopiesHaveOriginals
<1>12. SentHaveOriginals'
  <2>1. \A d \in Clients : {x \in Rooted : Original(d, x)} \subseteq {x \in Rooted : Original(d, x)'}
    BY <1>10, PeersAreKinds
  <2> QED
    BY <1>5, <2>1, SeqMonotonic DEF NInv, SentHaveOriginals
<1>13. FromHost'
  BY <1>5, <1>6 DEF NInv, FromHost
<1>14. ASSUME NEW e \in k.entries, NEW q \in Peers \ {c}, NEW f \in journal[q].entries, e.id = f.id
       PROVE  e.op = f.op
  <2>1. PICK d \in j.entries : e = Moved(j, s, d)
    BY <1>3
  <2>2. CASE d.id.author = c
    <3>1. f.id = [author |-> s, lamport |-> d.id.lamport] /\ f.id.author = s
          /\ f.id.lamport = d.id.lamport
      BY <1>4, <1>14, <2>1, <2>2
    <3>2. Original(c, f)
      BY <1>7, <3>1, PeersAreKinds DEF NInv, CopiesHaveOriginals
    <3>3. PICK g \in j.entries : g.id = [author |-> c, lamport |-> d.id.lamport] /\ g.op = f.op
      BY <1>1, <1>2, <3>1, <3>2 DEF Original
    <3>4. d.id = [author |-> c, lamport |-> d.id.lamport]
      BY <1>2, <2>2 DEF JournalType, Entry, EntryId
    <3>5. d = g
      BY <1>2, <3>3, <3>4 DEF Consistent, LogMatchesMap
    <3> QED
      BY <1>4, <2>1, <3>3, <3>5
  <2>3. CASE d.id.author # c
    <3>1. e.id = d.id /\ e.op = d.op
      BY <1>4, <2>1, <2>3
    <3>2. d \in journal[c].entries /\ c \in Peers /\ q \in Peers
      BY <1>1, PeersAreKinds
    <3>3. \A u \in journal[c].entries, v \in journal[q].entries : u.id = v.id => u.op = v.op
      BY <3>2 DEF NInv, IdsNameOneEdit
    <3> QED
      BY <1>14, <3>1, <3>2, <3>3
  <2> QED
    BY <2>2, <2>3
<1>15. IdsNameOneEdit'
  <2>1. ASSUME NEW p \in Peers, NEW q \in Peers,
               NEW e \in journal'[p].entries, NEW f \in journal'[q].entries, e.id = f.id
        PROVE  e.op = f.op
    <3>1. CASE p = c /\ q = c
      BY <1>3, <1>6, <2>1, <3>1 DEF Consistent, LogMatchesMap
    <3>2. CASE p = c /\ q # c
      BY <1>6, <1>14, <2>1, <3>2
    <3>3. CASE p # c /\ q = c
      BY <1>6, <1>14, <2>1, <3>3
    <3>4. CASE p # c /\ q # c
      BY <1>6, <2>1, <3>4 DEF NInv, IdsNameOneEdit
    <3> QED
      BY <3>1, <3>2, <3>3, <3>4
  <2> QED
    BY <2>1 DEF IdsNameOneEdit
<1> QED
  BY <1>8, <1>9, <1>11, <1>12, <1>13, <1>15, TakeHandshakeTInv DEF NInv

LEMMA DisconnectNInv ==
  ASSUME NInv, NEW c \in Clients,
         JoinServer(c) \/ RefuseHandshake(c) \/ LeaveServer(c) \/ Drop(c)
  PROVE  NInv'
<1> DEFINE Renamed == JoinServer(c) \/ RefuseHandshake(c) \/ LeaveServer(c)
<1>1. /\ session' = [session EXCEPT ![c] = NoSession]
      /\ hello' = [hello EXCEPT ![c] = NoSession]
      /\ replay' = [replay EXCEPT ![c] = <<>>]
      /\ toClient' = [toClient EXCEPT ![c] = <<>>]
      /\ toHost' = [toHost EXCEPT ![c] = <<>>]
  BY DEF JoinServer, RefuseHandshake, LeaveServer, Drop, Cut
<1>2. /\ session'[c] = NoSession
      /\ \A d \in Clients \ {c} : /\ session'[d] = session[d] /\ hello'[d] = hello[d]
                                  /\ link'[d] = link[d]
  BY <1>1 DEF NInv, TInv, JoinServer, RefuseHandshake, LeaveServer, Drop
<1>3. /\ \A q \in Peers : journal'[q].entries = journal[q].entries
      /\ \A q \in Peers \ {c} : journal'[q].author = journal[q].author
      /\ journal'[c].author = IF Renamed THEN c ELSE journal[c].author
      /\ ~Renamed => link'[c] = "lost"
  <2>1. CASE Renamed
    <3>1. journal' = [journal EXCEPT ![c] = SetLocalAuthor(@, c)]
      BY <2>1 DEF JoinServer, RefuseHandshake, LeaveServer
    <3>2. SetLocalAuthor(journal[c], c).author = c
          /\ SetLocalAuthor(journal[c], c).entries = journal[c].entries
      BY PeersAreKinds, SetLocalAuthorFields DEF NInv, TInv
    <3> QED
      BY <2>1, <3>1, <3>2, PeersAreKinds DEF NInv, TInv
  <2>2. CASE ~Renamed
    BY <2>2 DEF Drop, NInv, TInv
  <2> QED
    BY <2>1, <2>2
<1>4. c \in Peers /\ c # Host /\ \A q \in Peers \ {c} : c \notin Names(q)
  BY PeersAreKinds DEF Names, NInv, TInv, NamesAreOwn, Peers
<1> HIDE DEF Renamed
<1>5. /\ Names(c)' = {IF Renamed THEN c ELSE journal[c].author}
      /\ \A q \in Peers \ {c} : Names(q)' = Names(q)
  BY <1>2, <1>3, <1>4 DEF Names
<1>6. NamesAreOwn'
  <2>1. journal[c].author \in Names(c)
    BY DEF Names
  <2>2. \A p, q \in Peers : p # q => Names(p)' \cap Names(q)' = {}
    BY <1>4, <1>5, <2>1 DEF NInv, NamesAreOwn
  <2>3. ASSUME NEW d \in Clients
        PROVE  /\ journal'[d].author \in {d} \cup Sessions
               /\ session'[d] # NoSession =>
                    journal'[d].author = IF hello'[d] = NoSession THEN session'[d] ELSE d
               /\ link'[d] = "dialing" => journal'[d].author = d
    BY <1>2, <1>3, PeersAreKinds DEF NInv, NamesAreOwn
  <2> QED
    BY <1>3, <1>4, <2>2, <2>3, PeersAreKinds DEF NInv, NamesAreOwn
<1>7. InstallsStayHome' /\ IdsNameOneEdit'
  BY <1>3 DEF NInv, InstallsStayHome, IdsNameOneEdit
<1>8. \A q \in Peers \ {c} : \A e : Original(q, e)' = Original(q, e)
  BY <1>3 DEF Original
<1>9. CopiesHaveOriginals'
  <2>1. ASSUME NEW p \in Peers, NEW q \in Peers, NEW e \in journal[q].entries,
               e.id.author \in Names(p)'
        PROVE  Original(p, e)'
    <3>1. CASE p # c
      BY <1>5, <1>8, <2>1, <3>1 DEF NInv, CopiesHaveOriginals
    <3>2. CASE p = c /\ Renamed
      <4>1. e.id.author = c /\ q = c
        BY <1>4, <1>5, <2>1, <3>2 DEF NInv, InstallsStayHome
      <4>2. e \in Entry
        BY DEF NInv, TInv, JournalType
      <4>3. e.id = [author |-> c, lamport |-> e.id.lamport]
        BY <4>1, <4>2 DEF Entry, EntryId
      <4> QED
        BY <1>3, <2>1, <3>2, <4>1, <4>3 DEF Original
    <3>3. CASE p = c /\ ~Renamed
      <4>1. e.id.author \in Names(c)
        BY <1>5, <2>1, <3>3 DEF Names
      <4>2. Original(c, e)
        BY <1>4, <2>1, <4>1 DEF NInv, CopiesHaveOriginals
      <4> QED
        BY <1>3, <1>4, <3>3, <4>2 DEF Original
    <3> QED
      BY <3>1, <3>2, <3>3
  <2> QED
    BY <1>3, <2>1 DEF CopiesHaveOriginals
<1>10. SentHaveOriginals'
  <2>1. ASSUME NEW d \in Clients
        PROVE  toHost'[d] \in Seq({x \in Rooted : Original(d, x)'})
    <3>1. CASE d = c
      <4>1. toHost'[c] = <<>>
        BY <1>1 DEF NInv, TInv
      <4> QED
        BY <3>1, <4>1
    <3>2. CASE d # c
      <4>1. toHost'[d] = toHost[d]
        BY <1>1, <3>2 DEF NInv, TInv
      <4>2. {x \in Rooted : Original(d, x)'} = {x \in Rooted : Original(d, x)}
        BY <1>8, <3>2, PeersAreKinds
      <4> QED
        BY <4>1, <4>2 DEF NInv, SentHaveOriginals
    <3> QED
      BY <3>1, <3>2
  <2> QED
    BY <2>1 DEF SentHaveOriginals
<1>11. FromHost'
  <2> DEFINE S == journal[Host].entries
  <2>1. \A d \in Clients : {replay'[d], toClient'[d]} \subseteq Seq(S)
    <3>1. <<>> \in Seq(S)
      OBVIOUS
    <3>2. \A d \in Clients : {replay[d], toClient[d]} \subseteq Seq(S)
      BY DEF NInv, FromHost
    <3> HIDE DEF S
    <3> QED
      BY <1>1, <3>1, <3>2 DEF NInv, TInv
  <2> QED
    BY <1>3, <2>1, PeersAreKinds DEF FromHost
<1> QED
  BY <1>6, <1>7, <1>9, <1>10, <1>11, DisconnectTInv DEF NInv

----------------------------------------------------------------------------
(* The same for what a client that is gone has sent.                        *)

\* What the host would take in of a session whose client is gone.
Late(s) == {Canonical(s, late[s][n]) : n \in DOMAIN late[s]}

\* It is under a peer's name only while its client goes by the session still.
LateHaveOriginals ==
  \A s \in Sessions, p \in Peers : \A e \in Late(s) : s \in Names(p) => Original(p, e)

LateNameOneEdit ==
  \A s \in Sessions : \A e \in Late(s) :
    /\ \A p \in Peers : \A f \in journal[p].entries : f.id = e.id => f.op = e.op
    /\ \A f \in Late(s) : f.id = e.id => f.op = e.op

SessionsStartClean == \A c \in Clients : session[c] # NoSession => late[session[c]] = <<>>

LateAreKnown == LateHaveOriginals /\ LateNameOneEdit /\ SessionsStartClean

IInv == NInv /\ LateAreKnown

LEMMA SeqElement ==
  ASSUME NEW S, NEW q \in Seq(S), NEW n \in DOMAIN q
  PROVE  q[n] \in S
  OBVIOUS

LEMMA LateFields ==
  ASSUME TInv, NEW s \in Sessions
  PROVE  /\ \A e \in Late(s) : e \in Rooted /\ e.id.author = s
         /\ late[s] = <<>> <=> Late(s) = {}
         /\ late[s] # <<>> => /\ Canonical(s, Head(late[s])) \in Late(s)
                              /\ \A n \in DOMAIN Tail(late[s]) :
                                    Canonical(s, Tail(late[s])[n]) \in Late(s)
<1>1. late[s] \in Seq(Rooted)
  BY DEF TInv
<1>2. \A n \in DOMAIN late[s] : late[s][n] \in Rooted
  BY <1>1
<1>3. ASSUME NEW e \in Late(s)
      PROVE  e \in Rooted /\ e.id.author = s
  <2>1. PICK n \in DOMAIN late[s] : e = Canonical(s, late[s][n])
    BY DEF Late
  <2>2. PICK x \in Rooted : x = late[s][n]
    BY <1>2, <2>1
  <2>3. Canonical(s, x) \in Rooted /\ Canonical(s, x).id.author = s
    BY CanonicalFields
  <2> QED
    BY <2>1, <2>2, <2>3
<1>4. late[s] = <<>> <=> Late(s) = {}
  <2>1. ASSUME late[s] # <<>>
        PROVE  1 \in DOMAIN late[s]
    BY <1>1, <2>1
  <2>2. late[s] = <<>> => DOMAIN late[s] = {}
    OBVIOUS
  <2> QED
    BY <2>1, <2>2 DEF Late
<1>5. ASSUME late[s] # <<>>
      PROVE  /\ Canonical(s, Head(late[s])) \in Late(s)
             /\ \A n \in DOMAIN Tail(late[s]) : Canonical(s, Tail(late[s])[n]) \in Late(s)
  <2>1. 1 \in DOMAIN late[s] /\ Head(late[s]) = late[s][1]
    BY <1>1, <1>5
  <2>2. \A n \in DOMAIN Tail(late[s]) : n + 1 \in DOMAIN late[s] /\ Tail(late[s])[n] = late[s][n + 1]
    BY <1>1, <1>5
  <2> QED
    BY <2>1, <2>2 DEF Late
<1> QED
  BY <1>3, <1>4, <1>5

\* What is late only grows less, but where a client gives its connection up.
LateShrinks ==
  \A s \in Sessions : Late(s)' \subseteq Late(s) /\ (late[s] = <<>> => late'[s] = <<>>)

LEMMA LateOnly ==
  ASSUME TInv, NEW s \in Sessions, LateReceive(s) \/ ForgetSession(s)
  PROVE  LateShrinks
<1>1. late' = [late EXCEPT ![s] = IF LateReceive(s) THEN Tail(@) ELSE <<>>]
      /\ late[s] # <<>>
  BY DEF LateReceive, ForgetSession
<1>2. ASSUME NEW t \in Sessions
      PROVE  Late(t)' \subseteq Late(t) /\ (late[t] = <<>> => late'[t] = <<>>)
  <2>1. CASE t # s
    <3>1. late'[t] = late[t]
      BY <1>1, <2>1 DEF TInv
    <3> QED
      BY <3>1 DEF Late
  <2>2. CASE t = s /\ LateReceive(s)
    <3>1. late'[s] = Tail(late[s])
      BY <1>1, <2>2 DEF TInv
    <3>2. \A n \in DOMAIN late'[s] : Canonical(s, late'[s][n]) \in Late(s)
      BY <1>1, <3>1, LateFields
    <3>3. Late(s)' = {Canonical(s, late'[s][n]) : n \in DOMAIN late'[s]}
      BY DEF Late
    <3> QED
      BY <1>1, <2>2, <3>2, <3>3
  <2>3. CASE t = s /\ ~LateReceive(s)
    <3>1. late'[s] = <<>>
      BY <1>1, <2>3 DEF TInv
    <3>2. Late(s)' = {}
      BY <3>1 DEF Late
    <3> QED
      BY <1>1, <2>3, <3>2
  <2> QED
    BY <2>1, <2>2, <2>3
<1> QED
  BY <1>2 DEF LateShrinks

\* A journal comes to hold an entry that has the edit of what is late under its
\* id.
LEMMA LateMeets ==
  ASSUME IInv, NEW p \in Peers, NEW k, NEW e,
         journal' = [journal EXCEPT ![p] = k],
         UNCHANGED session, LateShrinks,
         k.author = journal[p].author,
         journal[p].entries \subseteq k.entries, k.entries \subseteq journal[p].entries \cup {e},
         \A s \in Sessions : \A x \in Late(s) : x.id = e.id => x.op = e.op
  PROVE  LateAreKnown'
<1>1. /\ \A q \in Peers : /\ journal'[q].author = journal[q].author
                          /\ journal[q].entries \subseteq journal'[q].entries
      /\ \A q \in Peers : \A f \in journal'[q].entries :
            f \in journal[q].entries \/ (q = p /\ f = e)
  BY DEF IInv, NInv, TInv
<1>2. \A q \in Peers : Names(q)' = Names(q)
  BY <1>1 DEF Names
<1>3. \A q \in Peers : \A f : Original(q, f) => Original(q, f)'
  BY <1>1 DEF Original
<1>4. LateHaveOriginals'
  BY <1>2, <1>3 DEF IInv, LateAreKnown, LateHaveOriginals, LateShrinks
<1>5. LateNameOneEdit'
  BY <1>1 DEF IInv, LateAreKnown, LateNameOneEdit, LateShrinks
<1>6. SessionsStartClean'
  BY DEF IInv, NInv, TInv, LateAreKnown, SessionsStartClean, LateShrinks
<1> QED
  BY <1>4, <1>5, <1>6 DEF LateAreKnown

LEMMA LateKept ==
  ASSUME IInv, UNCHANGED <<journal, session>>, LateShrinks
  PROVE  LateAreKnown'
<1>1. \A p, e : Names(p)' = Names(p) /\ Original(p, e)' = Original(p, e)
  BY DEF Names, Original
<1>2. LateHaveOriginals' /\ LateNameOneEdit'
  BY <1>1 DEF IInv, LateAreKnown, LateHaveOriginals, LateNameOneEdit, LateShrinks
<1>3. SessionsStartClean'
  BY DEF IInv, NInv, TInv, LateAreKnown, SessionsStartClean, LateShrinks
<1> QED
  BY <1>2, <1>3 DEF LateAreKnown

LEMMA InitIInv == Reopened = {} /\ Init => IInv
<1> SUFFICES ASSUME Reopened = {}, Init
             PROVE  IInv
  OBVIOUS
<1>1. \A s \in Sessions : late[s] = <<>> /\ Late(s) = {}
  BY DEF Init, Late
<1> QED
  BY <1>1, InitNInv
  DEF Init, IInv, LateAreKnown, LateHaveOriginals, LateNameOneEdit, SessionsStartClean

\* What waits of a session is of one that no connection has, and so shares no id
\* with what a connection brings or its client renames.
LEMMA NotLate ==
  ASSUME IInv, NEW c \in Clients, session[c] # NoSession
  PROVE  \A s \in Sessions : \A x \in Late(s) : x.id.author = s /\ s # session[c]
<1>1. session[c] \in Sessions /\ late[session[c]] = <<>>
  BY DEF IInv, NInv, TInv, LateAreKnown, SessionsStartClean
<1>2. Late(session[c]) = {}
  BY <1>1, LateFields DEF IInv, NInv
<1> QED
  BY <1>2, LateFields DEF IInv, NInv

LEMMA EditLate ==
  ASSUME IInv, NEW p \in Peers, Edit(p)
  PROVE  LateAreKnown'
<1>1. PICK j, e, k : j = journal[p] /\ e = LocalEntry(j, edits + 1) /\ k = AppendLocal(j, edits + 1)
  OBVIOUS
<1>2. edits + 1 \in Ops /\ j \in JournalType /\ Consistent(j)
  BY <1>1, PlaneOpsAssumption DEF IInv, NInv, TInv, Edit
<1>3. /\ e.id \notin Ids(j)
      /\ k.entries = j.entries \cup {e}
      /\ k.author = j.author
  BY <1>1, <1>2, AppendLocalConsistent
<1>4. e.id = [author |-> j.author, lamport |-> e.id.lamport] /\ e.id.author = j.author
  BY <1>1, <1>2, LocalEntryFields
<1>5. ASSUME NEW s \in Sessions, NEW x \in Late(s), x.id = e.id
      PROVE  x.op = e.op
  <2>1. s = j.author /\ s \in Names(p)
    BY <1>1, <1>4, <1>5, LateFields DEF Names, IInv, NInv
  <2>2. Original(p, x)
    BY <1>5, <2>1 DEF IInv, LateAreKnown, LateHaveOriginals
  <2> QED
    BY <1>1, <1>3, <1>4, <1>5, <2>2 DEF Original, Ids
<1>6. journal' = [journal EXCEPT ![p] = k] /\ session' = session /\ late' = late
  BY <1>1 DEF Edit, wires
<1>7. LateShrinks
  BY <1>6 DEF LateShrinks, Late
<1>8. /\ k.author = journal[p].author
      /\ journal[p].entries \subseteq k.entries
      /\ k.entries \subseteq journal[p].entries \cup {e}
  BY <1>1, <1>3
<1>9. \A s \in Sessions : \A x \in Late(s) : x.id = e.id => x.op = e.op
  BY <1>5
<1> QED
  BY <1>6, <1>7, <1>8, <1>9, LateMeets

LEMMA HostReceiveLate ==
  ASSUME IInv, NEW c \in Clients, HostReceive(c)
  PROVE  LateAreKnown'
<1>1. PICK e : e = Canonical(session[c], Head(toHost[c]))
  OBVIOUS
<1>2. PICK k \in AppendRemote(journal[Host], e) : journal' = [journal EXCEPT ![Host] = k]
  BY <1>1 DEF HostReceive
<1>3. session[c] \in Sessions /\ session[c] # NoSession /\ Head(toHost[c]) \in Rooted
  BY HeadTailProperties DEF IInv, NInv, TInv, HostReceive
<1>4. e \in Rooted /\ e.id.author = session[c]
  BY <1>1, <1>3, CanonicalFields
<1>5. /\ k.author = journal[Host].author
      /\ journal[Host].entries \subseteq k.entries
      /\ k.entries \subseteq journal[Host].entries \cup {e}
  BY <1>2, <1>4, PeersAreKinds, TakenIn DEF IInv, NInv, TInv
<1>6. \A s \in Sessions : \A x \in Late(s) : x.id # e.id
  BY <1>3, <1>4, NotLate
<1>7. UNCHANGED <<session, late>> /\ LateShrinks
  BY DEF HostReceive, LateShrinks, Late
<1> QED
  BY <1>2, <1>5, <1>6, <1>7, PeersAreKinds, LateMeets

LEMMA ClientReceiveLate ==
  ASSUME IInv, NEW c \in Clients, ClientReceive(c)
  PROVE  LateAreKnown'
<1>1. PICK e : e = Head(toClient[c])
  OBVIOUS
<1>2. e \in journal[Host].entries /\ e \in Rooted
  BY <1>1, HeadTailProperties DEF IInv, NInv, TInv, FromHost, ClientReceive
<1>3. PICK k \in AppendRemote(journal[c], e) : journal' = [journal EXCEPT ![c] = k]
  BY <1>1 DEF ClientReceive
<1>4. /\ k.author = journal[c].author
      /\ journal[c].entries \subseteq k.entries
      /\ k.entries \subseteq journal[c].entries \cup {e}
  BY <1>2, <1>3, PeersAreKinds, TakenIn DEF IInv, NInv, TInv
<1>5. \A s \in Sessions : \A x \in Late(s) : x.id = e.id => x.op = e.op
  BY <1>2, PeersAreKinds DEF IInv, LateAreKnown, LateNameOneEdit
<1>6. UNCHANGED <<session, late>> /\ LateShrinks
  BY DEF ClientReceive, LateShrinks, Late
<1> QED
  BY <1>3, <1>4, <1>5, <1>6, PeersAreKinds, LateMeets

LEMMA LateIInv ==
  ASSUME IInv, NEW s \in Sessions, LateReceive(s) \/ ForgetSession(s)
  PROVE  IInv'
<1>1. TInv /\ LateShrinks
  BY LateOnly DEF IInv, NInv
<1>2. CASE LateReceive(s)
  <2>1. PICK e : e = Canonical(s, Head(late[s]))
    OBVIOUS
  <2>2. PICK k \in AppendRemote(journal[Host], e) : journal' = [journal EXCEPT ![Host] = k]
    BY <1>2, <2>1 DEF LateReceive
  <2>3. e \in Late(s) /\ e \in Rooted /\ e.id.author = s
    BY <1>1, <1>2, <2>1, LateFields DEF LateReceive
  <2>4. /\ k.author = journal[Host].author
        /\ journal[Host].entries \subseteq k.entries
        /\ k.entries \subseteq journal[Host].entries \cup {e}
    BY <1>1, <2>2, <2>3, PeersAreKinds, TakenIn DEF TInv
  <2>5. UNCHANGED <<link, session, hello, replay, toClient, toHost>>
    BY <1>2 DEF LateReceive
  <2>6. ASSUME NEW q \in Peers, e.id.author \in Names(q)
        PROVE  Original(q, e)'
    <3>1. Original(q, e)
      BY <2>3, <2>6 DEF IInv, LateAreKnown, LateHaveOriginals
    <3>2. journal'[q].author = journal[q].author /\ journal[q].entries \subseteq journal'[q].entries
      BY <1>1, <2>2, <2>4 DEF TInv
    <3> QED
      BY <3>1, <3>2 DEF Original
  <2>7. \A q \in Peers : \A f \in journal[q].entries : f.id = e.id => f.op = e.op
    BY <2>3 DEF IInv, LateAreKnown, LateNameOneEdit
  <2>8. e.id.author \notin Clients \ {Host}
    BY <2>3, PeersAreKinds
  <2>9. NInv /\ UNCHANGED <<link, session, hello>>
    BY <2>5 DEF IInv
  <2>10. /\ NamesAreOwn' /\ InstallsStayHome' /\ CopiesHaveOriginals' /\ IdsNameOneEdit'
         /\ journal[Host].entries \subseteq journal'[Host].entries
         /\ \A d \in Clients : {y \in Rooted : Original(d, y)} \subseteq {y \in Rooted : Original(d, y)'}
    BY <2>2, <2>4, <2>6, <2>7, <2>8, <2>9, PeersAreKinds, EntryArrives
  <2>11. SentHaveOriginals' /\ FromHost'
    BY <2>5, <2>10, SeqMonotonic DEF IInv, NInv, SentHaveOriginals, FromHost
  <2>12. NInv'
    BY <1>1, <1>2, <2>10, <2>11, LateTInv DEF NInv
  <2>13. \A t \in Sessions : \A x \in Late(t) : x.id = e.id => x.op = e.op
    <3>1. \A t \in Sessions : \A x \in Late(t) : x.id = e.id => t = s
      BY <1>1, <2>3, LateFields
    <3> QED
      BY <2>3, <3>1 DEF IInv, LateAreKnown, LateNameOneEdit
  <2>14. LateAreKnown'
    BY <1>1, <2>2, <2>4, <2>5, <2>13, PeersAreKinds, LateMeets
  <2> QED
    BY <2>12, <2>14 DEF IInv
<1>3. CASE ForgetSession(s)
  <2>1. UNCHANGED <<journal, link, session, hello, replay, toClient, toHost>>
    BY <1>3 DEF ForgetSession
  <2>2. SentHaveOriginals' /\ FromHost'
    BY <2>1 DEF IInv, NInv, SentHaveOriginals, FromHost, Original
  <2>3. NInv'
    BY <1>1, <1>3, <2>1, <2>2, LateTInv, WiresNInv DEF IInv
  <2>4. LateAreKnown'
    BY <1>1, <2>1, LateKept
  <2> QED
    BY <2>3, <2>4 DEF IInv
<1> QED
  BY <1>2, <1>3

LEMMA ConnectLate ==
  ASSUME IInv, NEW c \in Clients, Connect(c)
  PROVE  LateAreKnown'
<1>1. PICK s \in Sessions : late[s] = <<>> /\ session' = [session EXCEPT ![c] = s]
  BY DEF Connect
<1>2. UNCHANGED <<journal, late>>
  BY DEF Connect
<1>3. /\ session'[c] = s
      /\ \A d \in Clients \ {c} : session'[d] = session[d]
      /\ Late(s) = {} /\ \A t : Late(t)' = Late(t)
  BY <1>1, <1>2, LateFields DEF IInv, NInv, TInv, Late
<1>4. \A p \in Peers : Names(p)' \subseteq Names(p) \cup {s}
  BY <1>2, <1>3 DEF Names
<1>5. \A p, e : Original(p, e)' = Original(p, e)
  BY <1>2 DEF Original
<1>6. LateHaveOriginals'
  BY <1>3, <1>4, <1>5 DEF IInv, LateAreKnown, LateHaveOriginals
<1>7. LateNameOneEdit'
  BY <1>2, <1>3 DEF IInv, LateAreKnown, LateNameOneEdit
<1>8. SessionsStartClean'
  BY <1>1, <1>2, <1>3 DEF IInv, LateAreKnown, SessionsStartClean
<1> QED
  BY <1>6, <1>7, <1>8 DEF LateAreKnown

LEMMA TakeHandshakeLate ==
  ASSUME IInv, NEW c \in Clients, TakeHandshake(c)
  PROVE  LateAreKnown'
<1>1. PICK s, j, k : s = hello[c] /\ j = journal[c] /\ k = RebindLocalAuthor(j, s)
  OBVIOUS
<1>2. /\ s \in Sessions /\ session[c] = s /\ j.author = c /\ s # c /\ s # NoSession
      /\ j \in JournalType /\ Consistent(j) /\ CanRebind(j, s)
  BY <1>1, PeersAreKinds DEF TakeHandshake, IInv, NInv, TInv, NamesAreOwn
<1>3. k.author = s /\ k.entries = {Moved(j, s, e) : e \in j.entries}
  BY <1>1, <1>2, PeersAreKinds, RebindFields
<1>4. ASSUME NEW e \in j.entries
      PROVE  /\ Moved(j, s, e).op = e.op
             /\ e.id.author = c => Moved(j, s, e).id.author = s
             /\ e.id.author # c => Moved(j, s, e).id = e.id
  <2>1. e \in Entry /\ e.id \in EntryId /\ e.id \in Ids(j)
    BY <1>2 DEF JournalType, Entry, Ids
  <2>2. Moved(j, s, e).id = Rebound(j, s, e.id) /\ Moved(j, s, e).op = e.op
    BY <1>2, <2>1, PeersAreKinds, MovedFields
  <2>3. j \in JournalType /\ s \in Authors /\ Consistent(j) /\ CanRebind(j, s)
    BY <1>2, PeersAreKinds
  <2>4. /\ e.id.author = c => Rebound(j, s, e.id) = [author |-> s, lamport |-> e.id.lamport]
        /\ e.id.author # c => Rebound(j, s, e.id) = e.id
    BY <1>2, <2>1, <2>3, ReboundId
  <2> QED
    BY <2>2, <2>4
<1>5. /\ journal' = [journal EXCEPT ![c] = k]
      /\ UNCHANGED <<session, late>>
  BY <1>1 DEF TakeHandshake
<1>6. /\ journal'[c] = k /\ \A q \in Peers \ {c} : journal'[q] = journal[q]
      /\ \A t : Late(t)' = Late(t)
  BY <1>5, PeersAreKinds DEF IInv, NInv, TInv, Late
<1>7. \A t \in Sessions : \A x \in Late(t) : x.id.author = t /\ t # s
  BY <1>2, NotLate
<1>8. LateHaveOriginals'
  <2>1. ASSUME NEW t \in Sessions, NEW p \in Peers, NEW x \in Late(t), t \in Names(p)'
        PROVE  Original(p, x)'
    <3>1. p # c
      BY <1>2, <1>3, <1>5, <1>6, <1>7, <2>1, PeersAreKinds DEF Names
    <3>2. Names(p)' = Names(p) /\ Original(p, x)' = Original(p, x)
      BY <1>5, <1>6, <3>1 DEF Names, Original
    <3> QED
      BY <2>1, <3>2 DEF IInv, LateAreKnown, LateHaveOriginals
  <2> QED
    BY <1>6, <2>1 DEF LateHaveOriginals
<1>9. LateNameOneEdit'
  <2>1. ASSUME NEW t \in Sessions, NEW x \in Late(t),
               NEW p \in Peers, NEW f \in journal'[p].entries, f.id = x.id
        PROVE  f.op = x.op
    <3>1. CASE p # c
      BY <1>6, <2>1, <3>1 DEF IInv, LateAreKnown, LateNameOneEdit
    <3>2. CASE p = c
      <4>1. PICK g \in j.entries : f = Moved(j, s, g)
        BY <1>3, <1>6, <3>2
      <4>2. g.id = x.id /\ f.op = g.op
        BY <1>4, <1>7, <2>1, <4>1
      <4> QED
        BY <1>1, <2>1, <3>2, <4>2 DEF IInv, LateAreKnown, LateNameOneEdit
    <3> QED
      BY <3>1, <3>2
  <2> QED
    BY <1>6, <2>1 DEF IInv, LateAreKnown, LateNameOneEdit
<1>10. SessionsStartClean'
  BY <1>5 DEF IInv, LateAreKnown, SessionsStartClean
<1> QED
  BY <1>8, <1>9, <1>10 DEF LateAreKnown

\* What was on its way has its originals, as long as its client goes by the
\* session, and as no one else does, no one else has anything to rename it to.
LEMMA DisconnectLate ==
  ASSUME IInv, NEW c \in Clients,
         JoinServer(c) \/ RefuseHandshake(c) \/ LeaveServer(c) \/ Drop(c)
  PROVE  LateAreKnown'
<1>1. PICK s : s = session[c]
  OBVIOUS
<1>2. /\ session' = [session EXCEPT ![c] = NoSession]
      /\ late' = IF s = NoSession THEN late ELSE [late EXCEPT ![s] = toHost[c]]
  BY <1>1 DEF JoinServer, RefuseHandshake, LeaveServer, Drop, Cut
<1>3. /\ \A q \in Peers : journal'[q].entries = journal[q].entries
      /\ \A q \in Peers \ {c} : journal'[q].author = journal[q].author
      /\ journal'[c].author \in {c, journal[c].author}
  <2>1. CASE Drop(c)
    BY <2>1 DEF Drop
  <2>2. CASE ~Drop(c)
    <3>1. journal' = [journal EXCEPT ![c] = SetLocalAuthor(@, c)]
      BY <2>2 DEF JoinServer, RefuseHandshake, LeaveServer
    <3>2. SetLocalAuthor(journal[c], c).author = c
          /\ SetLocalAuthor(journal[c], c).entries = journal[c].entries
      BY PeersAreKinds, SetLocalAuthorFields DEF IInv, NInv, TInv
    <3> QED
      BY <3>1, <3>2, PeersAreKinds DEF IInv, NInv, TInv
  <2> QED
    BY <2>1, <2>2
<1>4. /\ session'[c] = NoSession
      /\ \A d \in Clients \ {c} : session'[d] = session[d]
  BY <1>2 DEF IInv, NInv, TInv
<1>5. \A q \in Peers \ {c} : Names(q)' = Names(q) /\ \A e : Original(q, e)' = Original(q, e)
  BY <1>3, <1>4 DEF Names, Original
<1>6. \A t \in Sessions : t \in Names(c)' => t = journal[c].author /\ journal'[c].author = t
  BY <1>3, <1>4, PeersAreKinds DEF Names
<1>7. ASSUME NEW t \in Sessions, NEW p \in Peers, NEW e, t \in Names(p)', Original(p, e)
      PROVE  Original(p, e)'
  BY <1>3, <1>5, <1>6, <1>7 DEF Original
<1>8. \A t \in Sessions, p \in Peers : t \in Names(p)' => t \in Names(p)
  BY <1>5, <1>6 DEF Names
<1>9. CASE s = NoSession
  <2>1. late' = late /\ session' = session /\ \A t : Late(t)' = Late(t)
    BY <1>1, <1>2, <1>9 DEF IInv, NInv, TInv, Late
  <2>2. LateHaveOriginals'
    BY <1>7, <1>8, <2>1 DEF IInv, LateAreKnown, LateHaveOriginals
  <2>3. LateNameOneEdit'
    BY <1>3, <2>1 DEF IInv, LateAreKnown, LateNameOneEdit
  <2>4. SessionsStartClean'
    BY <2>1 DEF IInv, LateAreKnown, SessionsStartClean
  <2> QED
    BY <2>2, <2>3, <2>4 DEF LateAreKnown
<1>10. CASE s # NoSession
  <2>1. s \in Sessions /\ s \in Names(c) /\ c \in Peers
    BY <1>1, <1>10, PeersAreKinds DEF IInv, NInv, TInv, Names
  <2>2. late'[s] = toHost[c] /\ \A t \in Sessions \ {s} : late'[t] = late[t]
    BY <1>2, <1>10, <2>1 DEF IInv, NInv, TInv
  <2>3. \A t \in Sessions \ {s} : Late(t)' = Late(t)
    BY <2>2 DEF Late
  <2>4. ASSUME NEW e \in Late(s)'
        PROVE  Original(c, e) /\ e.id.author = s
    <3> DEFINE S == {y \in Rooted : Original(c, y)}
    <3>1. PICK n \in DOMAIN toHost[c] : e = Canonical(s, toHost[c][n])
      BY <2>2 DEF Late
    <3>2. toHost[c] \in Seq(S)
      BY DEF IInv, NInv, SentHaveOriginals
    <3>3. toHost[c][n] \in S
      <4> HIDE DEF S
      <4> QED
        BY <3>1, <3>2, SeqElement
    <3>4. PICK x \in Rooted : x = toHost[c][n] /\ Original(c, x)
      BY <3>3
    <3>5. /\ Canonical(s, x).id.author = s
          /\ Canonical(s, x).id.lamport = x.id.lamport /\ Canonical(s, x).op = x.op
      BY <2>1, CanonicalFields
    <3>6. e = Canonical(s, x)
      BY <3>1, <3>4
    <3> QED
      BY <3>4, <3>5, <3>6 DEF Original
  <2>5. ASSUME NEW e \in Late(s)', NEW f, Original(c, f), f.id = e.id
        PROVE  f.op = e.op
    <3>1. LogMatchesMap(journal[c])
      BY <2>1 DEF IInv, NInv, TInv, Consistent
    <3>2. PICK g \in journal[c].entries :
            g.id = [author |-> journal[c].author, lamport |-> f.id.lamport] /\ g.op = f.op
      BY <2>5 DEF Original
    <3>3. PICK h \in journal[c].entries :
            h.id = [author |-> journal[c].author, lamport |-> e.id.lamport] /\ h.op = e.op
      BY <2>4, <2>5 DEF Original
    <3>4. g.id = h.id
      BY <2>5, <3>2, <3>3
    <3>5. g = h
      BY <3>1, <3>2, <3>3, <3>4 DEF LogMatchesMap
    <3> QED
      BY <3>2, <3>3, <3>5
  <2>6. \A p \in Peers : s \in Names(p) => p = c
    BY <2>1 DEF IInv, NInv, NamesAreOwn
  <2>7. LateHaveOriginals'
    <3>1. ASSUME NEW t \in Sessions, NEW p \in Peers, NEW e \in Late(t)', t \in Names(p)'
          PROVE  Original(p, e)
      <4>1. CASE t = s
        BY <1>8, <2>4, <2>6, <3>1, <4>1
      <4>2. CASE t # s
        BY <1>8, <2>3, <3>1, <4>2 DEF IInv, LateAreKnown, LateHaveOriginals
      <4> QED
        BY <4>1, <4>2
    <3> QED
      BY <1>7, <3>1 DEF LateHaveOriginals
  <2>8. LateNameOneEdit'
    <3>1. ASSUME NEW e \in Late(s)', NEW p \in Peers, NEW f \in journal[p].entries, f.id = e.id
          PROVE  f.op = e.op
      <4>1. f.id.author \in Names(c)
        BY <2>1, <2>4, <3>1
      <4>2. Original(c, f)
        BY <2>1, <3>1, <4>1 DEF IInv, NInv, CopiesHaveOriginals
      <4> QED
        BY <2>5, <3>1, <4>2
    <3>2. \A e, f \in Late(s)' : f.id = e.id => f.op = e.op
      BY <2>4, <2>5
    <3>3. ASSUME NEW t \in Sessions, NEW e \in Late(t)'
          PROVE  /\ \A p \in Peers : \A f \in journal[p].entries : f.id = e.id => f.op = e.op
                 /\ \A f \in Late(t)' : f.id = e.id => f.op = e.op
      <4>1. CASE t = s
        BY <3>1, <3>2, <3>3, <4>1
      <4>2. CASE t # s
        BY <2>3, <3>3, <4>2 DEF IInv, LateAreKnown, LateNameOneEdit
      <4> QED
        BY <4>1, <4>2
    <3> QED
      BY <1>3, <3>3 DEF LateNameOneEdit
  <2>9. SessionsStartClean'
    <3>1. \A d \in Clients \ {c} : session[d] # s
      BY <1>10, <2>6, PeersAreKinds DEF Names
    <3>2. \A d \in Clients : session[d] # NoSession => session[d] \in Sessions
      BY DEF IInv, NInv, TInv
    <3> QED
      BY <1>4, <2>2, <3>1, <3>2 DEF IInv, LateAreKnown, SessionsStartClean
  <2> QED
    BY <2>7, <2>8, <2>9 DEF LateAreKnown
<1> QED
  BY <1>9, <1>10

LEMMA NextIInv ==
  ASSUME IInv, [Next]_vars
  PROVE  IInv'
<1>1. CASE \/ UNCHANGED vars \/ ShipFromHost
           \/ \E c \in Clients : ShipFromClient(c) \/ ReplayChunk(c)
  <2>1. UNCHANGED <<journal, session, late>>
    BY <1>1 DEF vars, wires, ShipFromHost, ShipFromClient, ReplayChunk
  <2>2. LateShrinks
    BY <2>1 DEF LateShrinks, Late
  <2>3. LateAreKnown'
    BY <2>1, <2>2, LateKept
  <2>4. CASE UNCHANGED vars
    <3>1. UNCHANGED <<journal, link, session, hello, replay, toClient, toHost>>
      BY <2>4 DEF vars, wires
    <3>2. SentHaveOriginals' /\ FromHost'
      BY <3>1 DEF IInv, NInv, SentHaveOriginals, FromHost, Original
    <3> QED
      BY <2>3, <2>4, <3>1, <3>2, NextTInv, WiresNInv DEF IInv, NInv
  <2> QED
    BY <1>1, <2>3, <2>4, ShipNInv DEF IInv
<1>2. ASSUME NEW p \in Peers, Edit(p)
      PROVE  IInv'
  BY <1>2, EditNInv, EditLate DEF IInv
<1>3. ASSUME NEW c \in Clients,
             HostReceive(c) \/ ClientReceive(c) \/ Connect(c) \/ TakeHandshake(c)
      PROVE  IInv'
  BY <1>3, HostReceiveNInv, HostReceiveLate, ClientReceiveNInv, ClientReceiveLate,
     ConnectNInv, ConnectLate, TakeHandshakeNInv, TakeHandshakeLate DEF IInv
<1>4. ASSUME NEW c \in Clients,
             JoinServer(c) \/ RefuseHandshake(c) \/ LeaveServer(c) \/ Drop(c)
      PROVE  IInv'
  BY <1>4, DisconnectNInv, DisconnectLate DEF IInv
<1> QED
  BY <1>1, <1>2, <1>3, <1>4, LateIInv DEF Next, Ferry

\* When no Twin is opened after startup, an id names one edit on all peers, for
\* any merge strategy and offline edits too: what is renamed is nowhere else
\* under its old name, and what comes back under the new name is the same edit
\* (apply_inbound_entry, rebind_local_author).
THEOREM IdsAreShared ==
  ASSUME Reopened = {}
  PROVE  Spec => []IdsNameOneEdit
<1>1. Init => IInv
  BY InitIInv
<1>2. IInv => IdsNameOneEdit
  BY DEF IInv, NInv
<1> QED
  BY <1>1, <1>2, NextIInv, PTL DEF Spec

----------------------------------------------------------------------------
(* A peer holds an edit once, when clients edit only while they are joined. *)

\* Then nothing is ever under the name of a client's install, and renaming
\* renames nothing.
NoInstallEntries == \A p \in Peers : \A e \in journal[p].entries : e.id.author \notin Clients

\* The edits in the journals have been made.
OpsAreMade == \A p \in Peers : \A e \in journal[p].entries : e.op <= edits

\* The journal has an entry's edit under its id.
Holds(p, e) == \E f \in journal[p].entries : f.id = e.id /\ f.op = e.op

\* What a client has sent it holds, under the author the host will bind it to.
SentAsHeld ==
  \A c \in Clients : toHost[c] \in Seq({e \in Rooted : e.id.author = session[c] /\ Holds(c, e)})

EditsHaveOneId ==
  \A p, q \in Peers : \A e \in journal[p].entries, f \in journal[q].entries :
    e.op = f.op => e.id = f.id

\* What a client had sent when it left is still somewhere, under the same author.
LateAreHeld == \A s \in Sessions : \A e \in Late(s) : \E q \in Peers : Holds(q, e)

OInv == IInv /\ NoInstallEntries /\ OpsAreMade /\ SentAsHeld /\ LateAreHeld /\ EditsHaveOneId

LEMMA InitOInv == Reopened = {} /\ Init => OInv
<1> SUFFICES ASSUME Reopened = {}, Init
             PROVE  OInv
  OBVIOUS
<1>1. \A p \in Peers : journal[p].entries = {}
  BY DEF Init, EmptyJournal
<1>2. SentAsHeld
  BY DEF Init, SentAsHeld
<1>3. LateAreHeld
  BY DEF Init, LateAreHeld, Late
<1> QED
  BY <1>1, <1>2, <1>3, InitIInv DEF OInv, NoInstallEntries, OpsAreMade, EditsHaveOneId

\* A step that makes no edit: every entry was on some peer, and what peers held
\* they still hold.
LEMMA NothingNew ==
  ASSUME OInv, IInv', edits' = edits,
         \A p \in Peers : \A e \in journal'[p].entries : \E q \in Peers : Holds(q, e),
         \A p \in Peers : \A e : Holds(p, e) => Holds(p, e)',
         \A s \in Sessions : \A e \in Late(s)' : e \in Late(s) \/ \E q \in Peers : Holds(q, e),
         \A c \in Clients :
           \/ toHost'[c] = <<>>
           \/ /\ session'[c] = session[c]
              /\ toHost'[c] \in Seq({e \in Rooted : e.id.author = session[c] /\ Holds(c, e)})
  PROVE  OInv'
<1>1. NoInstallEntries'
  BY DEF OInv, NoInstallEntries, Holds
<1>2. OpsAreMade'
  BY DEF OInv, OpsAreMade, Holds
<1>3. EditsHaveOneId'
  <2>1. ASSUME NEW p \in Peers, NEW q \in Peers,
               NEW e \in journal'[p].entries, NEW f \in journal'[q].entries, e.op = f.op
        PROVE  e.id = f.id
    <3>1. PICK r \in Peers : Holds(r, e)
      OBVIOUS
    <3>2. PICK t \in Peers : Holds(t, f)
      OBVIOUS
    <3> QED
      BY <2>1, <3>1, <3>2 DEF OInv, EditsHaveOneId, Holds
  <2> QED
    BY <2>1 DEF EditsHaveOneId
<1>4. ASSUME NEW c \in Clients
      PROVE  toHost'[c] \in Seq({e \in Rooted : e.id.author = session'[c] /\ Holds(c, e)'})
  <2>1. CASE toHost'[c] = <<>>
    BY <2>1
  <2>2. CASE /\ session'[c] = session[c]
             /\ toHost'[c] \in Seq({e \in Rooted : e.id.author = session[c] /\ Holds(c, e)})
    <3>1. {e \in Rooted : e.id.author = session[c] /\ Holds(c, e)}
            \subseteq {e \in Rooted : e.id.author = session'[c] /\ Holds(c, e)'}
      BY <2>2, PeersAreKinds
    <3> QED
      BY <2>2, <3>1, SeqMonotonic
  <2> QED
    BY <2>1, <2>2
<1>5. LateAreHeld'
  BY DEF OInv, LateAreHeld
<1> QED
  BY <1>1, <1>2, <1>3, <1>4, <1>5 DEF OInv, SentAsHeld

LEMMA EditOInv ==
  ASSUME OfflineEdits = FALSE, OInv, IInv', NEW p \in Peers, Edit(p)
  PROVE  OInv'
<1>1. PICK j, e, k : j = journal[p] /\ e = LocalEntry(j, edits + 1) /\ k = AppendLocal(j, edits + 1)
  OBVIOUS
<1>2. edits + 1 \in Ops /\ j \in JournalType /\ Consistent(j)
  BY <1>1, PlaneOpsAssumption DEF OInv, IInv, NInv, TInv, Edit
<1>3. k.entries = j.entries \cup {e}
  BY <1>1, <1>2, AppendLocalConsistent
<1>4. e.id.author = j.author /\ e.op = edits + 1
  BY <1>1, <1>2, LocalEntryFields DEF LocalEntry
<1>5. /\ journal' = [journal EXCEPT ![p] = k]
      /\ edits' = edits + 1 /\ edits \in Int
      /\ UNCHANGED <<session, toHost, late>>
  BY <1>1, PlaneOpsAssumption DEF Edit, wires, OInv, IInv, NInv, TInv
<1>6. /\ \A q \in Peers : journal[q].entries \subseteq journal'[q].entries
      /\ \A q \in Peers : \A f \in journal'[q].entries : f \in journal[q].entries \/ f = e
  BY <1>1, <1>3, <1>5 DEF OInv, IInv, NInv, TInv
<1>7. \A q \in Peers : \A f \in journal[q].entries : f.op \in Int /\ f.op <= edits
  <2>1. \A q \in Peers : \A f \in journal[q].entries : f.op \in Ops
    <3>1. \A q \in Peers : journal[q].entries \subseteq Entry
      <4>1. \A q \in Peers : journal[q] \in JournalType
        BY DEF OInv, IInv, NInv, TInv
      <4> QED
        BY <4>1 DEF JournalType
    <3> QED
      BY <3>1 DEF Entry
  <2> QED
    BY <2>1, PlaneOpsAssumption DEF OInv, OpsAreMade
<1>8. e.id.author \notin Clients
  <2>1. CASE p = Host
    BY <1>1, <1>4, <2>1, PeersAreKinds DEF OInv, IInv, NInv, NamesAreOwn
  <2>2. CASE p \in Clients
    <3>1. j.author = session[p] /\ session[p] \in Sessions \cup {NoSession}
      BY <1>1, <2>2 DEF Edit, Joined, OInv, IInv, NInv, TInv
    <3> QED
      BY <1>4, <3>1, PeersAreKinds
  <2> QED
    BY <2>1, <2>2 DEF Peers
<1>9. NoInstallEntries'
  BY <1>6, <1>8 DEF OInv, NoInstallEntries
<1>10. OpsAreMade'
  <2>1. ASSUME NEW q \in Peers, NEW f \in journal'[q].entries
        PROVE  f.op <= edits + 1
    <3>1. CASE f \in journal[q].entries
      BY <1>5, <1>7, <3>1
    <3>2. CASE f = e
      BY <1>4, <1>5, <3>2
    <3> QED
      BY <1>6, <3>1, <3>2
  <2> QED
    BY <1>5, <2>1 DEF OpsAreMade
<1>11. EditsHaveOneId'
  <2>1. ASSUME NEW q \in Peers, NEW f \in journal[q].entries
        PROVE  f.op # e.op
    BY <1>4, <1>5, <1>7
  <2> QED
    BY <1>6, <2>1 DEF OInv, EditsHaveOneId
<1>12. SentAsHeld'
  <2>1. \A c \in Clients : \A f : Holds(c, f) => Holds(c, f)'
    BY <1>6, PeersAreKinds DEF Holds
  <2>2. ASSUME NEW c \in Clients
        PROVE  toHost'[c] \in Seq({f \in Rooted : f.id.author = session'[c] /\ Holds(c, f)'})
    <3>1. {f \in Rooted : f.id.author = session[c] /\ Holds(c, f)}
            \subseteq {f \in Rooted : f.id.author = session'[c] /\ Holds(c, f)'}
      BY <1>5, <2>1
    <3> QED
      BY <1>5, <3>1, SeqMonotonic DEF OInv, SentAsHeld
  <2> QED
    BY <2>2 DEF SentAsHeld
<1>13. LateAreHeld'
  <2>1. \A q \in Peers : \A f : Holds(q, f) => Holds(q, f)'
    BY <1>6 DEF Holds
  <2>2. \A s : Late(s)' = Late(s)
    BY <1>5 DEF Late
  <2> QED
    BY <2>1, <2>2 DEF OInv, LateAreHeld
<1> QED
  BY <1>9, <1>10, <1>11, <1>12, <1>13 DEF OInv

\* A step that leaves the entries as they are.
LEMMA SameEntries ==
  ASSUME OInv, IInv', edits' = edits,
         \A p \in Peers : journal'[p].entries = journal[p].entries,
         \A s \in Sessions : \A e \in Late(s)' : e \in Late(s) \/ \E q \in Peers : Holds(q, e),
         \A c \in Clients :
           \/ toHost'[c] = <<>>
           \/ /\ session'[c] = session[c]
              /\ toHost'[c] \in Seq({e \in Rooted : e.id.author = session[c] /\ Holds(c, e)})
  PROVE  OInv'
<1>1. \A p \in Peers : \A e \in journal'[p].entries : \E q \in Peers : Holds(q, e)
  BY DEF Holds
<1>2. \A p \in Peers : \A e : Holds(p, e) => Holds(p, e)'
  BY DEF Holds
<1> QED
  BY <1>1, <1>2, NothingNew

LEMMA ShipOInv ==
  ASSUME OInv, IInv', ShipFromHost \/ \E c \in Clients : ShipFromClient(c) \/ ReplayChunk(c)
  PROVE  OInv'
<1>0. UNCHANGED late /\ \A s : Late(s)' = Late(s)
  BY DEF ShipFromHost, ShipFromClient, ReplayChunk, Late
<1>1. CASE UNCHANGED <<journal, edits, session, toHost>>
  BY <1>0, <1>1, SameEntries DEF OInv, SentAsHeld
<1>2. ASSUME NEW c \in Clients, ShipFromClient(c)
      PROVE  OInv'
  <2> DEFINE sends == Unshipped(c)
             E     == journal[c].entries
             Mine  == {e \in Rooted : e.id.author = session[c] /\ Holds(c, e)}
  <2>1. sends \in Seq(E) /\ E \subseteq Rooted
    BY UnshippedType, EntriesAreRooted, PeersAreKinds DEF OInv, IInv, NInv, TInv, Consistent
  <2>2. ASSUME link[c] = "up"
        PROVE  Own(c, sends) \in Seq(Mine)
    <3>1. journal[c].author \in {session[c], c}
      BY <2>2 DEF OInv, IInv, NInv, TInv, NamesAreOwn
    <3>2. \A e \in E : e.id.author = journal[c].author => e \in Mine
      BY <2>1, <3>1, PeersAreKinds DEF OInv, NoInstallEntries, Holds
    <3>3. Own(c, sends) \in Seq({e \in E : e.id.author = journal[c].author
                                           /\ \E m \in DOMAIN sends : sends[m] = e})
      BY <2>1, ByPicks DEF Own
    <3>4. {e \in E : e.id.author = journal[c].author /\ \E m \in DOMAIN sends : sends[m] = e}
            \subseteq Mine
      BY <3>2
    <3> QED
      BY <3>3, <3>4, SeqMonotonic
  <2>3. /\ toHost' = [toHost EXCEPT ![c] = IF link[c] = "up" THEN @ \o Own(c, sends) ELSE @]
        /\ UNCHANGED <<journal, edits, session>>
    BY <1>2 DEF ShipFromClient
  <2> DEFINE own == Own(c, sends)
  <2>4. toHost[c] \in Seq(Mine) /\ (link[c] = "up" => toHost[c] \o own \in Seq(Mine))
    BY <2>2, ConcatProperties DEF OInv, SentAsHeld
  <2> HIDE DEF own, sends, Mine
  <2>5. /\ toHost'[c] \in Seq(Mine)
        /\ \A d \in Clients \ {c} : toHost'[d] = toHost[d]
    BY <2>3, <2>4 DEF OInv, IInv, NInv, TInv, own
  <2> QED
    BY <1>0, <1>2, <2>3, <2>5, SameEntries DEF OInv, SentAsHeld, Mine
<1> QED
  BY <1>1, <1>2 DEF ShipFromHost, ReplayChunk

LEMMA ReceiveOInv ==
  ASSUME OInv, IInv', NEW c \in Clients, HostReceive(c) \/ ClientReceive(c)
  PROVE  OInv'
<1>0. \A s : Late(s)' = Late(s)
  BY DEF HostReceive, ClientReceive, Late
<1>1. CASE HostReceive(c)
  <2> DEFINE Mine == {e \in Rooted : e.id.author = session[c] /\ Holds(c, e)}
  <2>1. PICK x, e : x = Head(toHost[c]) /\ e = Canonical(session[c], x)
    OBVIOUS
  <2>2. x \in Mine /\ Tail(toHost[c]) \in Seq(Mine)
    BY <1>1, <2>1, HeadTailProperties DEF OInv, SentAsHeld, HostReceive
  <2>3. e = x /\ e \in Rooted /\ Holds(c, e)
    <3>1. x.id = [author |-> session[c], lamport |-> x.id.lamport]
      BY <2>2 DEF Rooted, Entry, EntryId
    <3> QED
      BY <2>1, <2>2, <3>1 DEF Canonical, Rooted, Entry, EntryId
  <2>4. PICK k \in AppendRemote(journal[Host], e) : journal' = [journal EXCEPT ![Host] = k]
    BY <1>1, <2>1 DEF HostReceive
  <2>5. journal[Host].entries \subseteq k.entries /\ k.entries \subseteq journal[Host].entries \cup {e}
    BY <2>3, <2>4, PeersAreKinds, TakenIn DEF OInv, IInv, NInv, TInv
  <2>6. /\ toHost' = [toHost EXCEPT ![c] = Tail(@)]
        /\ UNCHANGED <<edits, session>>
    BY <1>1 DEF HostReceive
  <2>7. /\ \A p \in Peers : \A f \in journal'[p].entries : f \in journal[p].entries \/ f = e
        /\ \A p \in Peers : journal[p].entries \subseteq journal'[p].entries
    BY <2>4, <2>5 DEF OInv, IInv, NInv, TInv
  <2>8. \A p \in Peers : \A f \in journal'[p].entries : \E q \in Peers : Holds(q, f)
    BY <2>3, <2>7, PeersAreKinds DEF Holds
  <2>9. \A q \in Peers : \A f : Holds(q, f) => Holds(q, f)'
    BY <2>7 DEF Holds
  <2> HIDE DEF Mine
  <2>10. toHost'[c] \in Seq(Mine) /\ \A d \in Clients \ {c} : toHost'[d] = toHost[d]
    BY <2>2, <2>6 DEF OInv, IInv, NInv, TInv
  <2> QED
    BY <1>0, <1>1, <2>6, <2>8, <2>9, <2>10, NothingNew DEF OInv, SentAsHeld, Mine
<1>2. CASE ClientReceive(c)
  <2>1. PICK e : e = Head(toClient[c])
    OBVIOUS
  <2>2. e \in journal[Host].entries /\ e \in Rooted
    BY <1>2, <2>1, HeadTailProperties DEF OInv, IInv, NInv, TInv, FromHost, ClientReceive
  <2>3. PICK k \in AppendRemote(journal[c], e) : journal' = [journal EXCEPT ![c] = k]
    BY <1>2, <2>1 DEF ClientReceive
  <2>4. journal[c].entries \subseteq k.entries /\ k.entries \subseteq journal[c].entries \cup {e}
    BY <2>2, <2>3, PeersAreKinds, TakenIn DEF OInv, IInv, NInv, TInv
  <2>5. UNCHANGED <<edits, session, toHost>>
    BY <1>2 DEF ClientReceive
  <2>6. /\ \A p \in Peers : \A f \in journal'[p].entries : f \in journal[p].entries \/ f = e
        /\ \A p \in Peers : journal[p].entries \subseteq journal'[p].entries
    BY <2>3, <2>4 DEF OInv, IInv, NInv, TInv
  <2>7. \A p \in Peers : \A f \in journal'[p].entries : \E q \in Peers : Holds(q, f)
    BY <2>2, <2>6, PeersAreKinds DEF Holds
  <2>8. \A q \in Peers : \A f : Holds(q, f) => Holds(q, f)'
    BY <2>6 DEF Holds
  <2> QED
    BY <1>0, <1>2, <2>5, <2>7, <2>8, NothingNew DEF OInv, SentAsHeld
<1> QED
  BY <1>1, <1>2

LEMMA LateOInv ==
  ASSUME OInv, IInv', NEW s \in Sessions, LateReceive(s) \/ ForgetSession(s)
  PROVE  OInv'
<1>1. TInv /\ LateShrinks
  BY LateOnly DEF OInv, IInv, NInv
<1>2. UNCHANGED <<edits, session, toHost>>
  BY DEF LateReceive, ForgetSession
<1>3. \A t \in Sessions : \A e \in Late(t)' : e \in Late(t)
  BY <1>1 DEF LateShrinks
<1>4. CASE LateReceive(s)
  <2>1. PICK e : e = Canonical(s, Head(late[s]))
    OBVIOUS
  <2>2. e \in Late(s) /\ e \in Rooted
    BY <1>1, <1>4, <2>1, LateFields DEF LateReceive
  <2>3. PICK k \in AppendRemote(journal[Host], e) : journal' = [journal EXCEPT ![Host] = k]
    BY <1>4, <2>1 DEF LateReceive
  <2>4. journal[Host].entries \subseteq k.entries /\ k.entries \subseteq journal[Host].entries \cup {e}
    BY <1>1, <2>2, <2>3, PeersAreKinds, TakenIn DEF TInv
  <2>5. /\ \A p \in Peers : \A f \in journal'[p].entries : f \in journal[p].entries \/ f = e
        /\ \A p \in Peers : journal[p].entries \subseteq journal'[p].entries
    BY <1>1, <2>3, <2>4 DEF TInv
  <2>6. \A p \in Peers : \A f \in journal'[p].entries : \E q \in Peers : Holds(q, f)
    BY <2>2, <2>5 DEF OInv, LateAreHeld, Holds
  <2>7. \A q \in Peers : \A f : Holds(q, f) => Holds(q, f)'
    BY <2>5 DEF Holds
  <2> QED
    BY <1>2, <1>3, <2>6, <2>7, NothingNew DEF OInv, SentAsHeld
<1>5. CASE ForgetSession(s)
  BY <1>2, <1>3, <1>5, SameEntries DEF ForgetSession, OInv, SentAsHeld
<1> QED
  BY <1>4, <1>5

LEMMA ConnectionOInv ==
  ASSUME OInv, IInv', NEW c \in Clients,
         \/ Connect(c)
         \/ JoinServer(c) \/ RefuseHandshake(c) \/ LeaveServer(c) \/ Drop(c)
  PROVE  OInv'
<1>1. CASE Connect(c)
  <2>1. UNCHANGED <<journal, edits, toHost>> /\ link[c] = "dialing"
        /\ \A d \in Clients \ {c} : session'[d] = session[d]
    BY <1>1 DEF Connect, OInv, IInv, NInv, TInv
  <2>2. toHost[c] = <<>>
    BY <2>1 DEF OInv, IInv, NInv, TInv
  <2>3. \A s : Late(s)' = Late(s)
    BY <1>1 DEF Connect, Late
  <2> QED
    BY <1>1, <2>1, <2>2, <2>3, SameEntries DEF OInv, SentAsHeld
<1>2. CASE JoinServer(c) \/ RefuseHandshake(c) \/ LeaveServer(c) \/ Drop(c)
  <2>1. /\ session' = [session EXCEPT ![c] = NoSession]
        /\ toHost' = [toHost EXCEPT ![c] = <<>>]
        /\ edits' = edits
    BY <1>2 DEF JoinServer, RefuseHandshake, LeaveServer, Drop, Cut
  <2>2. journal' \in {journal, [journal EXCEPT ![c] = SetLocalAuthor(@, c)]}
    BY <1>2 DEF JoinServer, RefuseHandshake, LeaveServer, Drop
  <2>3. SetLocalAuthor(journal[c], c).entries = journal[c].entries
    BY PeersAreKinds, SetLocalAuthorFields DEF OInv, IInv, NInv, TInv
  <2>4. \A p \in Peers : journal'[p].entries = journal[p].entries
    BY <2>2, <2>3 DEF OInv, IInv, NInv, TInv
  <2>5. toHost'[c] = <<>> /\ \A d \in Clients \ {c} : toHost'[d] = toHost[d] /\ session'[d] = session[d]
    BY <2>1 DEF OInv, IInv, NInv, TInv
  <2>6. ASSUME NEW s \in Sessions, NEW e \in Late(s)'
        PROVE  e \in Late(s) \/ Holds(c, e)
    <3>1. late' = IF session[c] = NoSession THEN late ELSE [late EXCEPT ![session[c]] = toHost[c]]
      BY <1>2 DEF JoinServer, RefuseHandshake, LeaveServer, Drop, Cut
    <3>2. CASE session[c] = s
      <4>1. late'[s] = toHost[c]
        BY <3>1, <3>2, PeersAreKinds DEF OInv, IInv, NInv, TInv
      <4>2. PICK n \in DOMAIN toHost[c] : e = Canonical(s, toHost[c][n])
        BY <2>6, <4>1 DEF Late
      <4>3. /\ toHost[c][n] \in Rooted
            /\ toHost[c][n].id.author = s /\ Holds(c, toHost[c][n])
        <5> DEFINE S == {y \in Rooted : y.id.author = session[c] /\ Holds(c, y)}
        <5>1. toHost[c] \in Seq(S)
          BY DEF OInv, SentAsHeld
        <5>2. toHost[c][n] \in S
          <6> HIDE DEF S
          <6> QED
            BY <4>2, <5>1, SeqElement
        <5> QED
          BY <3>2, <5>2
      <4>4. toHost[c][n].id = e.id /\ toHost[c][n].op = e.op
        <5>1. PICK x \in Rooted : x = toHost[c][n] /\ x.id.author = s
          BY <4>3
        <5>2. /\ Canonical(s, x).id = [author |-> s, lamport |-> x.id.lamport]
              /\ Canonical(s, x).op = x.op
          BY CanonicalFields
        <5>3. x.id = [author |-> s, lamport |-> x.id.lamport]
          BY <5>1 DEF Rooted, Entry, EntryId
        <5> QED
          BY <4>2, <5>1, <5>2, <5>3
      <4> QED
        BY <4>3, <4>4 DEF Holds
    <3>3. CASE session[c] # s
      <4>1. late'[s] = late[s]
        BY <3>1, <3>3 DEF OInv, IInv, NInv, TInv
      <4> QED
        BY <2>6, <4>1 DEF Late
    <3> QED
      BY <3>2, <3>3
  <2> QED
    BY <1>2, <2>1, <2>4, <2>5, <2>6, PeersAreKinds, SameEntries DEF OInv, SentAsHeld
<1> QED
  BY <1>1, <1>2

LEMMA TakeHandshakeOInv ==
  ASSUME OInv, IInv', NEW c \in Clients, TakeHandshake(c)
  PROVE  OInv'
<1>1. PICK s, j, k : s = hello[c] /\ j = journal[c] /\ k = RebindLocalAuthor(j, s)
  OBVIOUS
<1>2. /\ s \in Sessions /\ j.author = c /\ s # c
      /\ j \in JournalType /\ Consistent(j) /\ CanRebind(j, s)
  BY <1>1, PeersAreKinds DEF TakeHandshake, OInv, IInv, NInv, TInv, NamesAreOwn
<1>3. k.entries = {Moved(j, s, e) : e \in j.entries}
  BY <1>1, <1>2, PeersAreKinds, RebindFields
<1>4. ASSUME NEW e \in j.entries
      PROVE  Moved(j, s, e).id = e.id /\ Moved(j, s, e).op = e.op
  <2>1. e \in Entry /\ e.id \in EntryId
    BY <1>2 DEF JournalType, Entry
  <2>2. e.id.author # c
    BY <1>1, PeersAreKinds DEF OInv, NoInstallEntries
  <2>3. Rebound(j, s, e.id) = e.id
    BY <1>2, <2>1, <2>2, PeersAreKinds, ReboundId
  <2> QED
    BY <1>2, <2>1, <2>3, PeersAreKinds, MovedFields
<1>5. /\ journal' = [journal EXCEPT ![c] = k]
      /\ UNCHANGED <<edits, session, toHost, late>>
  BY <1>1 DEF TakeHandshake
<1>6. journal'[c] = k /\ \A q \in Peers \ {c} : journal'[q] = journal[q]
  BY <1>5, PeersAreKinds DEF OInv, IInv, NInv, TInv
<1>7. ASSUME NEW p \in Peers, NEW e \in journal'[p].entries
      PROVE  Holds(p, e)
  BY <1>1, <1>3, <1>4, <1>6 DEF Holds
<1>8. ASSUME NEW d \in Peers, NEW e, Holds(d, e)
      PROVE  Holds(d, e)'
  <2>1. CASE d = c
    <3>1. PICK f \in j.entries : f.id = e.id /\ f.op = e.op
      BY <1>1, <1>8, <2>1 DEF Holds
    <3>2. Moved(j, s, f) \in k.entries
      BY <1>3
    <3> QED
      BY <1>4, <1>6, <2>1, <3>1, <3>2 DEF Holds
  <2>2. CASE d # c
    BY <1>6, <1>8, <2>2, PeersAreKinds DEF Holds
  <2> QED
    BY <2>1, <2>2
<1>9. \A t : Late(t)' = Late(t)
  BY <1>5 DEF Late
<1> QED
  BY <1>5, <1>7, <1>8, <1>9, NothingNew DEF OInv, SentAsHeld

LEMMA NextOInv ==
  ASSUME OfflineEdits = FALSE, OInv, [Next]_vars
  PROVE  OInv'
<1>1. IInv'
  BY NextIInv DEF OInv
<1>2. CASE UNCHANGED vars
  <2>1. UNCHANGED <<journal, edits, session, toHost, late>>
    BY <1>2 DEF vars, wires
  <2>2. \A s : Late(s)' = Late(s)
    BY <2>1 DEF Late
  <2> QED
    BY <1>1, <2>1, <2>2, SameEntries DEF OInv, SentAsHeld
<1> QED
  BY <1>1, <1>2, EditOInv, ShipOInv, ReceiveOInv, ConnectionOInv, TakeHandshakeOInv, LateOInv
  DEF Next, Ferry

\* When besides clients edit only while they are joined, no peer holds an edit
\* twice: an edit keeps the id it was made with, so its echo is known
\* (apply_inbound_entry, append_remote).
THEOREM EditsStaySingle ==
  ASSUME Reopened = {}, OfflineEdits = FALSE
  PROVE  Spec => []EditsAppearOnce
<1>1. Init => OInv
  BY InitOInv
<1>2. OInv /\ [Next]_vars => OInv'
  BY NextOInv
<1>3. OInv => EditsAppearOnce
  BY DEF OInv, IInv, NInv, TInv, Consistent, LogMatchesMap, EditsHaveOneId, EditsAppearOnce
<1> QED
  BY <1>1, <1>2, <1>3, PTL DEF Spec

----------------------------------------------------------------------------
(* Nothing falls between a log, its cursor and the wire.                    *)

\* The ids of a log past a cursor, and the entries they are of.
IdsPast(j, n) == {j.order[m] : m \in (n + 1)..Len(j.order)}

EntriesPast(j, n) == {e \in j.entries : e.id \in IdsPast(j, n)}

LEMMA TailListsEntriesPast ==
  ASSUME NEW j \in JournalType, LogMatchesMap(j), NEW n \in Nat, n <= Len(j.order)
  PROVE  /\ InFlight(SubSeq(Log(j), n + 1, Len(j.order))) = EntriesPast(j, n)
         /\ {e.id : e \in EntriesPast(j, n)} = IdsPast(j, n)
         /\ InFlight(Log(j)) = j.entries
<1>1. PICK len, log : len = Len(j.order) /\ log = Log(j)
  OBVIOUS
<1>2. DOMAIN j.order = 1..len /\ len \in Nat /\ n <= len
  BY <1>1 DEF JournalType
<1>3. ASSUME NEW m \in 1..len
      PROVE  EntryAt(j, j.order[m]) \in j.entries /\ EntryAt(j, j.order[m]).id = j.order[m]
  <2>1. j.order[m] \in Ids(j)
    BY <1>2 DEF LogMatchesMap
  <2>2. \E e \in j.entries : e.id = j.order[m]
    BY <2>1 DEF Ids
  <2> QED
    BY <2>2 DEF EntryAt
<1>4. /\ DOMAIN log = 1..len
      /\ \A m \in 1..len : log[m] \in j.entries /\ log[m].id = j.order[m]
  BY <1>1, <1>2, <1>3 DEF Log
<1>5. ASSUME NEW e \in j.entries, NEW m \in 1..len, j.order[m] = e.id
      PROVE  log[m] = e
  BY <1>4, <1>5 DEF LogMatchesMap
<1>6. ASSUME NEW e \in j.entries
      PROVE  \E m \in 1..len : j.order[m] = e.id
  BY <1>2 DEF LogMatchesMap, Ids
<1>7. InFlight(log) = j.entries
  BY <1>4, <1>5, <1>6 DEF InFlight
<1>8. /\ IdsPast(j, n) = {j.order[m] : m \in (n + 1)..len}
      /\ \A m \in (n + 1)..len : m \in 1..len
  BY <1>1, <1>2 DEF IdsPast
<1>9. {e.id : e \in EntriesPast(j, n)} = IdsPast(j, n)
  BY <1>4, <1>8 DEF EntriesPast
<1>10. PICK tail : tail = SubSeq(log, n + 1, len)
  OBVIOUS
<1>11. DOMAIN tail = 1..(len - n) /\ \A m \in 1..(len - n) : tail[m] = log[m + n]
  <2>1. log \in Seq(j.entries) /\ Len(log) = len
    BY <1>1, LogListsEntries
  <2> QED
    BY <1>2, <1>10, <2>1
<1>12. ASSUME NEW e \in EntriesPast(j, n)
       PROVE  e \in InFlight(tail)
  <2>1. PICK m \in (n + 1)..len : j.order[m] = e.id
    BY <1>8 DEF EntriesPast
  <2>2. log[m] = e
    BY <1>5, <1>8, <2>1 DEF EntriesPast
  <2>3. m - n \in 1..(len - n) /\ (m - n) + n = m
    BY <1>2
  <2> QED
    BY <1>11, <2>2, <2>3 DEF InFlight
<1>13. ASSUME NEW m \in 1..(len - n)
       PROVE  tail[m] \in EntriesPast(j, n)
  <2>1. m + n \in (n + 1)..len
    BY <1>2
  <2> QED
    BY <1>4, <1>8, <1>11, <2>1 DEF EntriesPast
<1>14. InFlight(tail) = EntriesPast(j, n)
  BY <1>11, <1>12, <1>13 DEF InFlight
<1> QED
  BY <1>1, <1>7, <1>9, <1>10, <1>14

\* The journal k is j with one entry more.
Grows(j, k, e) == k.entries = j.entries \cup {e} /\ k.order = Append(j.order, e.id)

LEMMA PastGrows ==
  ASSUME NEW j \in JournalType, NEW k, NEW e \in Entry, Grows(j, k, e),
         NEW n \in Nat, n <= Len(j.order)
  PROVE  /\ n <= Len(k.order)
         /\ IdsPast(j, n) \cup {e.id} \subseteq IdsPast(k, n)
         /\ EntriesPast(j, n) \cup {e} \subseteq EntriesPast(k, n)
<1>1. PICK len : len = Len(j.order)
  OBVIOUS
<1>2. /\ len \in Nat /\ n <= len
      /\ Len(k.order) = len + 1 /\ k.order[len + 1] = e.id
      /\ \A m \in 1..len : k.order[m] = j.order[m]
  <2>1. j.order \in Seq(EntryId) /\ e.id \in EntryId
    BY DEF JournalType, Entry
  <2> QED
    BY <1>1, <2>1, AppendProperties DEF Grows
<1>3. IdsPast(k, n) = {k.order[m] : m \in (n + 1)..(len + 1)}
  BY <1>2 DEF IdsPast
<1>4. IdsPast(j, n) = {j.order[m] : m \in (n + 1)..len}
  BY <1>1 DEF IdsPast
<1>5. len + 1 \in (n + 1)..(len + 1)
      /\ \A m \in (n + 1)..len : m \in (n + 1)..(len + 1) /\ m \in 1..len
  BY <1>2
<1>6. IdsPast(j, n) \cup {e.id} \subseteq IdsPast(k, n)
  BY <1>2, <1>3, <1>4, <1>5
<1>7. n <= len + 1
  BY <1>2
<1> QED
  BY <1>2, <1>6, <1>7 DEF EntriesPast, Grows

\* An entry taken in is the next of the log, or was there.
LEMMA TakenInLog ==
  ASSUME NEW j \in JournalType, Consistent(j), NEW e \in Rooted,
         NEW k \in AppendRemote(j, e)
  PROVE  \/ k = j /\ e.id \in Ids(j)
         \/ Grows(j, k, e)
<1>1. CASE e.id \in Ids(j)
  BY <1>1 DEF AppendRemote, Known
<1>2. CASE e.id \notin Ids(j)
  <2>1. PICK u : u = InsertEntry(j, e)
    OBVIOUS
  <2>2. \E c, h : k = Advance(u, c, h)
    BY <1>2, <2>1 DEF AppendRemote, Known
  <2>3. u.entries = j.entries \cup {e} /\ u.order = Append(j.order, e.id) /\ u \in JournalType
    BY <2>1, InsertEntryFields DEF Rooted
  <2> QED
    BY <2>2, <2>3 DEF Advance, Grows, JournalType
<1> QED
  BY <1>1, <1>2

LEMMA LocalGrows ==
  ASSUME NEW j \in JournalType, NEW op \in Ops
  PROVE  LocalEntry(j, op) \in Entry /\ Grows(j, AppendLocal(j, op), LocalEntry(j, op))
  BY LocalEntryFields, AppendLocalFields DEF Grows

\* No cursor is past the end of its log: no journal is ever replaced.
CursorsInLogs == \A p \in Peers : sent[p] <= Len(journal[p].order)

\* Renaming changes no place in the log.
LEMMA RebindKeepsLength ==
  ASSUME NEW j \in JournalType, NEW a
  PROVE  /\ DOMAIN RebindLocalAuthor(j, a).order = DOMAIN j.order
         /\ Len(RebindLocalAuthor(j, a).order) = Len(j.order)
<1>1. CASE a = j.author
  BY <1>1 DEF RebindLocalAuthor
<1>2. CASE a # j.author
  <2>1. PICK log : log = [n \in DOMAIN j.order |-> Rebound(j, a, j.order[n])]
    OBVIOUS
  <2>2. RebindLocalAuthor(j, a).order = log
    BY <1>2, <2>1 DEF RebindLocalAuthor, JournalType
  <2>3. DOMAIN log = 1..Len(j.order) /\ Len(j.order) \in Nat /\ DOMAIN j.order = 1..Len(j.order)
    BY <2>1 DEF JournalType
  <2>4. Len(log) = Len(j.order)
    BY <2>3, LenProperties
  <2> QED
    BY <2>2, <2>3, <2>4
<1> QED
  BY <1>1, <1>2

LEMMA InitCursors == Init => CursorsInLogs
  BY DEF Init, CursorsInLogs, EmptyJournal

\* One peer's log becomes no shorter, and its cursor stays.
LEMMA LogStep ==
  ASSUME TInv, CursorsInLogs, NEW p \in Peers, NEW k,
         journal' = [journal EXCEPT ![p] = k], sent' = sent,
         \/ Len(k.order) = Len(journal[p].order)
         \/ \E e \in Entry : Grows(journal[p], k, e)
  PROVE  CursorsInLogs'
<1>1. journal'[p] = k /\ \A q \in Peers \ {p} : journal'[q] = journal[q]
  BY DEF TInv
<1>2. sent[p] \in Nat /\ sent[p] <= Len(journal[p].order) /\ journal[p] \in JournalType
  BY DEF TInv, CursorsInLogs
<1>3. sent[p] <= Len(k.order)
  BY <1>2, PastGrows
<1> QED
  BY <1>1, <1>3 DEF CursorsInLogs

\* What comes in of a gone client touches the host's log at most.
LEMMA LateLog ==
  ASSUME TInv, NEW s \in Sessions, LateReceive(s) \/ ForgetSession(s)
  PROVE  \E k : /\ journal' = [journal EXCEPT ![Host] = k]
                /\ k = journal[Host] \/ \E e \in Entry : Grows(journal[Host], k, e)
                /\ k.author = journal[Host].author
                /\ UNCHANGED <<sent, link, session, replay, toClient, toHost>>
<1>1. CASE LateReceive(s)
  <2>1. PICK e : e = Canonical(s, Head(late[s]))
    OBVIOUS
  <2>2. PICK k \in AppendRemote(journal[Host], e) : journal' = [journal EXCEPT ![Host] = k]
    BY <1>1, <2>1 DEF LateReceive
  <2>3. e \in Rooted /\ e \in Entry
    <3>1. e \in Rooted
      BY <1>1, <2>1, LateFields DEF LateReceive
    <3> QED
      BY <3>1 DEF Rooted
  <2>4. /\ k = journal[Host] \/ Grows(journal[Host], k, e)
        /\ k.author = journal[Host].author
    <3>1. journal[Host] \in JournalType /\ Consistent(journal[Host])
      BY PeersAreKinds DEF TInv
    <3> QED
      BY <2>2, <2>3, <3>1, TakenIn, TakenInLog
  <2>5. UNCHANGED <<sent, link, session, replay, toClient, toHost>>
    BY <1>1 DEF LateReceive
  <2> QED
    BY <2>2, <2>3, <2>4, <2>5
<1>2. CASE ForgetSession(s)
  <2>1. UNCHANGED <<journal, sent, link, session, replay, toClient, toHost>>
    BY <1>2 DEF ForgetSession
  <2>2. journal' = [journal EXCEPT ![Host] = journal[Host]]
    BY <2>1, PeersAreKinds DEF TInv
  <2> QED
    BY <2>1, <2>2
<1> QED
  BY <1>1, <1>2

LEMMA NextCursors ==
  ASSUME TInv, CursorsInLogs, [Next]_vars
  PROVE  CursorsInLogs'
<1>1. ASSUME NEW p \in Peers, Edit(p)
      PROVE  CursorsInLogs'
  <2>1. edits + 1 \in Ops /\ journal[p] \in JournalType
    BY <1>1, PlaneOpsAssumption DEF TInv, Edit
  <2>2. \E e \in Entry : Grows(journal[p], AppendLocal(journal[p], edits + 1), e)
    BY <2>1, LocalGrows
  <2> QED
    BY <1>1, <2>2, LogStep DEF Edit
<1>2. ASSUME NEW c \in Clients, HostReceive(c) \/ ClientReceive(c)
      PROVE  CursorsInLogs'
  <2>0. \E p \in Peers : \E e \in Rooted : \E k \in AppendRemote(journal[p], e) :
          journal' = [journal EXCEPT ![p] = k]
    BY <1>2, SentIsRooted, HeadTailProperties, PeersAreKinds DEF HostReceive, ClientReceive, TInv
  <2>1. PICK p \in Peers : \E e \in Rooted : \E k \in AppendRemote(journal[p], e) :
          journal' = [journal EXCEPT ![p] = k]
    BY <2>0
  <2>2. PICK e \in Rooted : \E k \in AppendRemote(journal[p], e) :
          journal' = [journal EXCEPT ![p] = k]
    BY <2>1
  <2>3. PICK k \in AppendRemote(journal[p], e) : journal' = [journal EXCEPT ![p] = k]
    BY <2>2
  <2>4. k = journal[p] \/ Grows(journal[p], k, e)
    BY TakenInLog DEF TInv
  <2>5. e \in Entry /\ sent' = sent
    BY <1>2 DEF Rooted, HostReceive, ClientReceive
  <2> QED
    BY <2>3, <2>4, <2>5, LogStep
<1>3. ASSUME NEW c \in Clients, TakeHandshake(c)
      PROVE  CursorsInLogs'
  <2>1. Len(RebindLocalAuthor(journal[c], hello[c]).order) = Len(journal[c].order)
    BY RebindKeepsLength, PeersAreKinds DEF TInv
  <2> QED
    BY <1>3, <2>1, LogStep, PeersAreKinds DEF TakeHandshake
<1>4. ASSUME NEW c \in Clients,
             \/ JoinServer(c) \/ RefuseHandshake(c) \/ LeaveServer(c)
      PROVE  CursorsInLogs'
  <2>1. Len(SetLocalAuthor(journal[c], c).order) = Len(journal[c].order)
    BY SetLocalAuthorFields, PeersAreKinds DEF TInv
  <2>2. sent' = sent /\ journal' = [journal EXCEPT ![c] = SetLocalAuthor(journal[c], c)]
    BY <1>4, PeersAreKinds DEF TInv, JoinServer, RefuseHandshake, LeaveServer
  <2> QED
    BY <2>1, <2>2, LogStep, PeersAreKinds
<1>5. ASSUME NEW p \in Peers, UNCHANGED journal,
             sent' = [sent EXCEPT ![p] = Len(journal[p].order)]
      PROVE  CursorsInLogs'
  <2>1. Len(journal[p].order) \in Nat
    BY DEF TInv, JournalType
  <2> QED
    BY <1>5, <2>1 DEF CursorsInLogs, TInv
<1>6. ASSUME UNCHANGED <<journal, sent>>
      PROVE  CursorsInLogs'
  BY <1>6 DEF CursorsInLogs
<1>7. CASE ShipFromHost
  BY <1>5, <1>7, PeersAreKinds DEF ShipFromHost
<1>8. ASSUME NEW c \in Clients, ShipFromClient(c)
      PROVE  CursorsInLogs'
  BY <1>5, <1>8, PeersAreKinds DEF ShipFromClient
<1>9. CASE \/ UNCHANGED vars
           \/ \E c \in Clients : ReplayChunk(c) \/ Connect(c) \/ Drop(c)
  BY <1>6, <1>9 DEF vars, ReplayChunk, Connect, Drop
<1>10. ASSUME NEW s \in Sessions, LateReceive(s) \/ ForgetSession(s)
       PROVE  CursorsInLogs'
  <2>1. PICK k : /\ journal' = [journal EXCEPT ![Host] = k]
                 /\ k = journal[Host] \/ \E e \in Entry : Grows(journal[Host], k, e)
                 /\ sent' = sent
    BY <1>10, LateLog
  <2> QED
    BY <2>1, LogStep, PeersAreKinds
<1> QED
  BY <1>1, <1>2, <1>3, <1>4, <1>7, <1>8, <1>9, <1>10 DEF Next, Ferry

\* What a peer is to ship is what its log has past its cursor; what a client is
\* owed when it connects is the host's whole log.
LEMMA ToShip ==
  ASSUME TInv, CursorsInLogs, NEW p \in Peers
  PROVE  /\ InFlight(Unshipped(p)) = EntriesPast(journal[p], sent[p])
         /\ InFlight(Log(journal[p])) = journal[p].entries
         /\ {e.id : e \in EntriesPast(journal[p], sent[p])} = IdsPast(journal[p], sent[p])
<1>1. PICK j, n : j = journal[p] /\ n = sent[p]
  OBVIOUS
<1>2. /\ j \in JournalType /\ LogMatchesMap(j)
      /\ n \in Nat /\ n <= Len(j.order) /\ Len(j.order) \in Nat
  BY <1>1 DEF TInv, Consistent, CursorsInLogs, JournalType
<1>3. Unshipped(p) = SubSeq(Log(j), n + 1, Len(j.order))
  <2>1. ~(Len(j.order) < n)
    BY <1>2
  <2> QED
    BY <1>1, <2>1 DEF Unshipped
<1> QED
  BY <1>1, <1>2, <1>3, TailListsEntriesPast

\* What a connected client holds or is about to receive.
Reached(c) == EditsHeld(journal[c]) \cup OpsOf(replay[c]) \cup OpsOf(toClient[c])

HInv == IInv /\ CursorsInLogs /\ HistoryIsUnderWay

\* A step that leaves the host's log and cursor: what was on its way to a
\* client still is, or has arrived.
LEMMA HostStays ==
  ASSUME HInv, journal'[Host] = journal[Host], sent'[Host] = sent[Host],
         \A c \in Clients : session'[c] # NoSession =>
           session[c] # NoSession /\ Reached(c) \subseteq Reached(c)'
  PROVE  HistoryIsUnderWay'
<1>1. Unshipped(Host)' = Unshipped(Host)
  BY DEF Unshipped
<1>2. ASSUME NEW c \in Clients, session'[c] # NoSession
      PROVE  EditsHeld(journal'[Host]) \subseteq Reached(c)' \cup OpsOf(Unshipped(Host))'
  <2>1. EditsHeld(journal[Host]) \subseteq Reached(c) \cup OpsOf(Unshipped(Host))
    BY <1>2 DEF HInv, HistoryIsUnderWay, Reached
  <2>2. OpsOf(Unshipped(Host))' = OpsOf(Unshipped(Host))
    BY <1>1 DEF OpsOf
  <2> QED
    BY <1>2, <2>1, <2>2
<1> QED
  BY <1>2 DEF HistoryIsUnderWay, Reached

\* Of what a peer holds nothing is lost, so only what is on its way can be.
LEMMA WiresStay ==
  ASSUME TInv, [Next]_vars, NEW c \in Clients, replay'[c] = replay[c], toClient'[c] = toClient[c]
  PROVE  Reached(c) \subseteq Reached(c)'
  BY NextKeepsEdits, PeersAreKinds DEF Reached

\* The host's log gains an entry, past its cursor.
LEMMA HostGrows ==
  ASSUME HInv, TInv', CursorsInLogs', [Next]_vars,
         NEW k, journal' = [journal EXCEPT ![Host] = k],
         k = journal[Host] \/ \E e \in Entry : Grows(journal[Host], k, e),
         UNCHANGED <<sent, session, replay, toClient>>
  PROVE  HistoryIsUnderWay'
<1>1. PICK j, n : j = journal[Host] /\ n = sent[Host]
  OBVIOUS
<1>2. /\ journal'[Host] = k /\ sent'[Host] = n
      /\ j \in JournalType /\ n \in Nat /\ n <= Len(j.order)
  BY <1>1, PeersAreKinds DEF HInv, IInv, NInv, TInv, CursorsInLogs
<1>3. CASE k = j
  <2>1. \A c \in Clients : Reached(c) \subseteq Reached(c)'
    BY WiresStay DEF HInv, IInv, NInv
  <2> QED
    BY <1>1, <1>2, <1>3, <2>1, HostStays
<1>4. ASSUME NEW e \in Entry, Grows(j, k, e)
      PROVE  HistoryIsUnderWay'
  <2>1. EntriesPast(j, n) \cup {e} \subseteq EntriesPast(k, n)
    BY <1>2, <1>4, PastGrows
  <2>2. InFlight(Unshipped(Host)) = EntriesPast(j, n)
    BY <1>1, ToShip, PeersAreKinds DEF HInv, IInv, NInv
  <2>3. InFlight(Unshipped(Host)') = EntriesPast(k, n)
    <3>1. /\ k \in JournalType /\ LogMatchesMap(k) /\ n <= Len(k.order) /\ Len(k.order) \in Nat
      BY <1>2, PeersAreKinds DEF TInv, Consistent, CursorsInLogs, JournalType
    <3>2. Unshipped(Host)' = SubSeq(Log(k), n + 1, Len(k.order))
      <4>1. ~(Len(k.order) < n)
        BY <1>2, <3>1
      <4>2. Unshipped(Host)'
              = SubSeq(Log(journal'[Host]),
                       (IF Len(journal'[Host].order) < sent'[Host] THEN 0 ELSE sent'[Host]) + 1,
                       Len(journal'[Host].order))
        BY DEF Unshipped
      <4> QED
        BY <1>2, <4>1, <4>2
    <3> QED
      BY <1>2, <3>1, <3>2, TailListsEntriesPast
  <2>4. OpsOf(Unshipped(Host)) \cup {e.op} \subseteq OpsOf(Unshipped(Host)')
    BY <2>1, <2>2, <2>3 DEF OpsOf
  <2>5. EditsHeld(k) = EditsHeld(j) \cup {e.op}
    BY <1>4 DEF EditsHeld, Grows
  <2>6. ASSUME NEW c \in Clients, session'[c] # NoSession
        PROVE  EditsHeld(journal'[Host]) \subseteq Reached(c)' \cup OpsOf(Unshipped(Host)')
    <3>1. EditsHeld(j) \subseteq Reached(c) \cup OpsOf(Unshipped(Host))
      BY <1>1, <2>6 DEF HInv, HistoryIsUnderWay, Reached
    <3>2. Reached(c) \subseteq Reached(c)'
      BY WiresStay DEF HInv, IInv, NInv
    <3> QED
      BY <1>2, <2>4, <2>5, <3>1, <3>2
  <2> QED
    BY <2>6 DEF HistoryIsUnderWay, Reached
<1> QED
  BY <1>1, <1>3, <1>4

LEMMA InitHistory == Init => HistoryIsUnderWay
  BY DEF Init, HistoryIsUnderWay

\* The tail past the host's cursor goes to every connected client.
LEMMA ShipHistory ==
  ASSUME HInv, ShipFromHost
  PROVE  HistoryIsUnderWay'
<1>1. /\ toClient' = [c \in Clients |->
               IF session[c] # NoSession THEN toClient[c] \o Unshipped(Host) ELSE <<>>]
      /\ UNCHANGED <<journal, session, replay>>
  BY DEF ShipFromHost
<1>2. ASSUME NEW c \in Clients, session[c] # NoSession
      PROVE  EditsHeld(journal[Host]) \subseteq
               EditsHeld(journal[c]) \cup OpsOf(replay[c]) \cup OpsOf(toClient'[c])
  <2>1. toClient[c] \in Seq(Rooted) /\ Unshipped(Host) \in Seq(Rooted)
    BY UnshippedType, PeersAreKinds DEF HInv, IInv, NInv, TInv
  <2>2. InFlight(toClient'[c]) = InFlight(toClient[c]) \cup InFlight(Unshipped(Host))
    BY <1>1, <1>2, <2>1, InFlightParts
  <2>3. OpsOf(toClient'[c]) = OpsOf(toClient[c]) \cup OpsOf(Unshipped(Host))
    BY <2>2 DEF OpsOf
  <2> QED
    BY <1>2, <2>3 DEF HInv, HistoryIsUnderWay
<1>3. ASSUME NEW c \in Clients, session'[c] # NoSession
      PROVE  EditsHeld(journal'[Host]) \subseteq
               EditsHeld(journal'[c]) \cup OpsOf(replay'[c]) \cup OpsOf(toClient'[c])
                 \cup OpsOf(Unshipped(Host)')
  BY <1>1, <1>2, <1>3
<1> QED
  BY <1>3 DEF HistoryIsUnderWay

\* What was next on the wire is held afterwards: the client takes it in, or
\* knows its id, which names that edit.
LEMMA ClientReceiveHistory ==
  ASSUME HInv, NEW c \in Clients, ClientReceive(c)
  PROVE  HistoryIsUnderWay'
<1>1. PICK e : e = Head(toClient[c])
  OBVIOUS
<1>2. e \in Rooted /\ e \in journal[Host].entries
  BY <1>1, HeadTailProperties DEF HInv, IInv, NInv, TInv, FromHost, ClientReceive
<1>3. PICK k \in AppendRemote(journal[c], e) : journal' = [journal EXCEPT ![c] = k]
  BY <1>1 DEF ClientReceive
<1>4. e.op \in EditsHeld(k)
  <2>1. CASE Grows(journal[c], k, e)
    BY <2>1 DEF Grows, EditsHeld
  <2>2. CASE k = journal[c] /\ e.id \in Ids(journal[c])
    <3>1. PICK f \in journal[c].entries : f.id = e.id
      BY <2>2 DEF Ids
    <3>2. f.op = e.op
      BY <1>2, <3>1, PeersAreKinds DEF HInv, IInv, NInv, IdsNameOneEdit
    <3> QED
      BY <2>2, <3>1, <3>2 DEF EditsHeld
  <2> QED
    BY <1>2, <1>3, <2>1, <2>2, TakenInLog, PeersAreKinds DEF HInv, IInv, NInv, TInv
<1>5. /\ journal'[c] = k /\ journal'[Host] = journal[Host]
      /\ UNCHANGED <<sent, session, replay>>
      /\ toClient'[c] = Tail(toClient[c])
      /\ \A d \in Clients \ {c} : toClient'[d] = toClient[d]
  BY <1>3, PeersAreKinds DEF ClientReceive, HInv, IInv, NInv, TInv
<1>6. [Next]_vars /\ TInv
  BY DEF Next, Ferry, HInv, IInv, NInv
<1>7. Reached(c) \subseteq Reached(c)'
  <2>1. InFlight(toClient[c]) = {e} \cup InFlight(toClient'[c])
    BY <1>1, <1>5, <1>6, InFlightParts DEF ClientReceive, TInv
  <2>2. OpsOf(toClient[c]) \subseteq {e.op} \cup OpsOf(toClient'[c])
    BY <2>1 DEF OpsOf
  <2>3. EditsHeld(journal[c]) \subseteq EditsHeld(journal'[c])
    BY <1>6, NextKeepsEdits, PeersAreKinds
  <2> QED
    BY <1>4, <1>5, <2>2, <2>3 DEF Reached
<1>8. \A d \in Clients \ {c} : Reached(d) \subseteq Reached(d)'
  BY <1>5, <1>6, WiresStay
<1> QED
  BY <1>5, <1>7, <1>8, HostStays

\* What is owed moves on to the wire.
LEMMA ReplayHistory ==
  ASSUME HInv, NEW c \in Clients, ReplayChunk(c)
  PROVE  HistoryIsUnderWay'
<1>1. PICK e : e = Head(replay[c])
  OBVIOUS
<1>2. /\ toClient'[c] = Append(toClient[c], e) /\ replay'[c] = Tail(replay[c])
      /\ \A d \in Clients \ {c} : toClient'[d] = toClient[d] /\ replay'[d] = replay[d]
      /\ UNCHANGED <<journal, sent, session>>
  BY <1>1 DEF ReplayChunk, HInv, IInv, NInv, TInv
<1>3. /\ replay[c] \in Seq(Rooted) /\ replay[c] # <<>>
      /\ toClient[c] \in Seq(Rooted) /\ e \in Rooted
  BY <1>1, HeadTailProperties DEF ReplayChunk, HInv, IInv, NInv, TInv
<1>4. /\ InFlight(replay[c]) = {e} \cup InFlight(replay'[c])
      /\ InFlight(toClient'[c]) = InFlight(toClient[c]) \cup {e}
  BY <1>1, <1>2, <1>3, InFlightParts
<1>5. /\ OpsOf(replay[c]) \subseteq {e.op} \cup OpsOf(replay'[c])
      /\ OpsOf(toClient[c]) \cup {e.op} \subseteq OpsOf(toClient'[c])
  BY <1>4 DEF OpsOf
<1>6. \A d \in Clients : Reached(d) \subseteq Reached(d)'
  BY <1>2, <1>5 DEF Reached
<1> QED
  BY <1>2, <1>6, HostStays

\* A client that connects is owed the whole log.
LEMMA ConnectHistory ==
  ASSUME HInv, NEW c \in Clients, Connect(c)
  PROVE  HistoryIsUnderWay'
<1>1. PICK s \in Sessions : /\ session' = [session EXCEPT ![c] = s]
                            /\ replay' = [replay EXCEPT ![c] = Owed(s)]
  BY DEF Connect
<1>2. /\ replay'[c] = Log(journal[Host])
      /\ \A d \in Clients \ {c} : replay'[d] = replay[d] /\ session'[d] = session[d]
      /\ UNCHANGED <<journal, sent, toClient>>
  BY <1>1 DEF Owed, Connect, HInv, IInv, NInv, TInv
<1>3. EditsHeld(journal[Host]) \subseteq OpsOf(replay'[c])
  BY <1>2, ToShip, PeersAreKinds DEF HInv, IInv, NInv, EditsHeld, OpsOf
<1>4. Unshipped(Host)' = Unshipped(Host)
  BY <1>2 DEF Unshipped
<1>5. ASSUME NEW d \in Clients, session'[d] # NoSession
      PROVE  EditsHeld(journal'[Host]) \subseteq
               EditsHeld(journal'[d]) \cup OpsOf(replay'[d]) \cup OpsOf(toClient'[d])
                 \cup OpsOf(Unshipped(Host)')
  <2>1. CASE d = c
    BY <1>2, <1>3, <2>1
  <2>2. CASE d # c
    BY <1>2, <1>4, <1>5, <2>2 DEF HInv, HistoryIsUnderWay
  <2> QED
    BY <2>1, <2>2
<1> QED
  BY <1>5 DEF HistoryIsUnderWay

LEMMA NextHistory ==
  ASSUME HInv, [Next]_vars
  PROVE  HistoryIsUnderWay'
<1>1. TInv /\ CursorsInLogs /\ TInv' /\ CursorsInLogs'
  BY NextTInv, NextCursors DEF HInv, IInv, NInv
<1>2. ASSUME NEW p \in Peers, Edit(p)
      PROVE  HistoryIsUnderWay'
  <2>1. edits + 1 \in Ops /\ journal[p] \in JournalType
    BY <1>1, <1>2, PlaneOpsAssumption DEF TInv, Edit
  <2>2. /\ journal' = [journal EXCEPT ![p] = AppendLocal(journal[p], edits + 1)]
        /\ UNCHANGED <<sent, session, replay, toClient>>
    BY <1>2 DEF Edit, wires
  <2>3. CASE p = Host
    <3>1. \E e \in Entry : Grows(journal[Host], AppendLocal(journal[Host], edits + 1), e)
      BY <2>1, <2>3, LocalGrows
    <3> QED
      BY <1>1, <2>2, <2>3, <3>1, HostGrows
  <2>4. CASE p # Host
    <3>1. journal'[Host] = journal[Host]
      BY <1>1, <2>2, <2>4, PeersAreKinds DEF TInv
    <3>2. \A c \in Clients : Reached(c) \subseteq Reached(c)'
      BY <1>1, <2>2, WiresStay
    <3> QED
      BY <2>2, <3>1, <3>2, HostStays
  <2> QED
    BY <2>3, <2>4
<1>3. ASSUME NEW c \in Clients, HostReceive(c)
      PROVE  HistoryIsUnderWay'
  <2>1. PICK e \in Rooted : \E k \in AppendRemote(journal[Host], e) :
          journal' = [journal EXCEPT ![Host] = k]
    BY <1>1, <1>3, SentIsRooted DEF HostReceive
  <2>2. PICK k \in AppendRemote(journal[Host], e) : journal' = [journal EXCEPT ![Host] = k]
    BY <2>1
  <2>3. k = journal[Host] \/ \E f \in Entry : Grows(journal[Host], k, f)
    BY <1>1, TakenInLog, PeersAreKinds DEF TInv, Rooted
  <2>4. UNCHANGED <<sent, session, replay, toClient>>
    BY <1>3 DEF HostReceive
  <2> QED
    BY <1>1, <2>2, <2>3, <2>4, HostGrows
<1>4. ASSUME NEW c \in Clients,
             \/ ShipFromClient(c) \/ TakeHandshake(c)
             \/ JoinServer(c) \/ RefuseHandshake(c) \/ LeaveServer(c) \/ Drop(c)
      PROVE  HistoryIsUnderWay'
  <2>1. journal'[Host] = journal[Host]
    BY <1>1, <1>4, PeersAreKinds DEF TInv, ShipFromClient, TakeHandshake, JoinServer,
       RefuseHandshake, LeaveServer, Drop
  <2>2. sent'[Host] = sent[Host]
    BY <1>1, <1>4, PeersAreKinds DEF TInv, ShipFromClient, TakeHandshake, JoinServer,
       RefuseHandshake, LeaveServer, Drop
  <2>3. ASSUME NEW d \in Clients, session'[d] # NoSession
        PROVE  session[d] # NoSession /\ replay'[d] = replay[d] /\ toClient'[d] = toClient[d]
    BY <1>1, <1>4, <2>3 DEF TInv, ShipFromClient, TakeHandshake, JoinServer,
       RefuseHandshake, LeaveServer, Drop, Cut
  <2> QED
    BY <1>1, <2>1, <2>2, <2>3, WiresStay, HostStays
<1>5. CASE UNCHANGED vars
  BY <1>5 DEF HInv, HistoryIsUnderWay, vars, wires, Unshipped
<1>6. ASSUME NEW s \in Sessions, LateReceive(s) \/ ForgetSession(s)
      PROVE  HistoryIsUnderWay'
  <2>1. PICK k : /\ journal' = [journal EXCEPT ![Host] = k]
                 /\ k = journal[Host] \/ \E e \in Entry : Grows(journal[Host], k, e)
                 /\ UNCHANGED <<sent, session, replay, toClient>>
    BY <1>1, <1>6, LateLog
  <2> QED
    BY <1>1, <2>1, HostGrows
<1> QED
  BY <1>2, <1>3, <1>4, <1>5, <1>6, ShipHistory, ClientReceiveHistory, ReplayHistory,
     ConnectHistory DEF Next, Ferry

\* When no Twin is opened after startup, no edit of the host is between the
\* replay and the live tail: a connected client holds it, is owed it, or has it
\* coming, whatever was lost, renamed or sent twice before
\* (on_server_connected, broadcast_journal_entries, replay_journal_chunks).
THEOREM HistoryNeverSlips ==
  ASSUME Reopened = {}
  PROVE  Spec => []HistoryIsUnderWay
<1>1. Init => HInv
  BY InitIInv, InitCursors, InitHistory DEF HInv
<1>2. HInv /\ [Next]_vars => HInv'
  BY NextIInv, NextCursors, NextHistory DEF HInv, IInv, NInv
<1>3. HInv => HistoryIsUnderWay
  BY DEF HInv
<1> QED
  BY <1>1, <1>2, <1>3, PTL DEF Spec

----------------------------------------------------------------------------
(* Nor does a client's own edit, when clients edit only while joined.       *)

\* The ids under a client's session that the host has, that are on their way to
\* it, and that the client is still to ship.
OwnIds(c) == {i \in Ids(journal[c]) : i.author = session[c]}

OwnReached(c) ==
  Ids(journal[Host]) \cup {e.id : e \in InFlight(toHost[c])} \cup IdsPast(journal[c], sent[c])

WInv ==
  /\ OInv /\ CursorsInLogs
  /\ \A c \in Clients : Joined(c) => OwnIds(c) \subseteq OwnReached(c)

\* Before the handshake nothing anywhere bears the session's name: the client
\* would hold the original under its install's.
LEMMA NoneBeforeHandshake ==
  ASSUME OInv, NEW c \in Clients, session[c] # NoSession, journal[c].author # session[c],
         NEW p \in Peers, NEW e \in journal[p].entries
  PROVE  e.id.author # session[c]
<1> SUFFICES ASSUME e.id.author = session[c]
             PROVE  FALSE
  OBVIOUS
<1>1. e.id.author \in Names(c)
  BY DEF Names
<1>2. PICK f \in journal[c].entries : f.id = [author |-> journal[c].author, lamport |-> e.id.lamport]
  BY <1>1, PeersAreKinds DEF OInv, IInv, NInv, CopiesHaveOriginals, Original
<1>3. journal[c].author = c
  BY DEF OInv, IInv, NInv, NamesAreOwn
<1>4. f.id.author = c
  BY <1>2, <1>3
<1> QED
  BY <1>4, PeersAreKinds DEF OInv, NoInstallEntries

\* A step in which what the host has and what the client sent and has still to
\* ship only grows, by no less than what the client holds.
LEMMA OwnStays ==
  ASSUME WInv, NEW c \in Clients, Joined(c)' => Joined(c), session'[c] = session[c],
         OwnReached(c) \cup (Ids(journal'[c]) \ Ids(journal[c])) \subseteq OwnReached(c)'
  PROVE  Joined(c)' => OwnIds(c)' \subseteq OwnReached(c)'
<1> SUFFICES ASSUME Joined(c)', NEW i \in OwnIds(c)'
             PROVE  i \in OwnReached(c)'
  OBVIOUS
<1>1. i \in Ids(journal'[c]) /\ i.author = session[c]
  BY DEF OwnIds, Ids
<1>2. CASE i \in Ids(journal[c])
  BY <1>1, <1>2 DEF OwnIds, WInv
<1> QED
  BY <1>1, <1>2

\* A step that leaves a client's journal, cursor, connection and wire.
LEMMA OwnUntouched ==
  ASSUME WInv, NEW c \in Clients,
         journal'[c] = journal[c], sent'[c] = sent[c], toHost'[c] = toHost[c],
         session'[c] = session[c], link'[c] = link[c],
         journal[Host].entries \subseteq journal'[Host].entries
  PROVE  Joined(c)' => OwnIds(c)' \subseteq OwnReached(c)'
<1>1. Joined(c)' => Joined(c)
  BY DEF Joined
<1>2. Ids(journal[Host]) \subseteq Ids(journal'[Host]) /\ Ids(journal'[c]) = Ids(journal[c])
  BY DEF Ids
<1>3. OwnReached(c) \subseteq OwnReached(c)'
  BY <1>2 DEF OwnReached, IdsPast
<1> QED
  BY <1>1, <1>2, <1>3, OwnStays

\* A peer's log gains an entry, and what leaves the wire to the host is there.
LEMMA OwnGrows ==
  ASSUME WInv, NEW p \in Peers, NEW k, journal' = [journal EXCEPT ![p] = k],
         k = journal[p] \/ \E e \in Entry : Grows(journal[p], k, e),
         k.author = journal[p].author,
         UNCHANGED <<sent, link, session>>,
         \A c \in Clients : {e.id : e \in InFlight(toHost[c])}
                              \subseteq {e.id : e \in InFlight(toHost'[c])} \cup Ids(journal'[Host]),
         NEW c \in Clients
  PROVE  Joined(c)' => OwnIds(c)' \subseteq OwnReached(c)'
<1>1. \A q \in Peers : journal'[q] = IF q = p THEN k ELSE journal[q]
  BY DEF WInv, OInv, IInv, NInv, TInv
<1>2. Joined(c)' => Joined(c)
  BY <1>1, PeersAreKinds DEF Joined
<1>3. Ids(journal[Host]) \subseteq Ids(journal'[Host])
  BY <1>1, PeersAreKinds DEF Ids, Grows
<1>4. IdsPast(journal[c], sent[c]) \cup (Ids(journal'[c]) \ Ids(journal[c]))
        \subseteq IdsPast(journal'[c], sent'[c])
  <2>1. CASE journal'[c] = journal[c]
    BY <2>1 DEF IdsPast
  <2>2. ASSUME NEW e \in Entry, Grows(journal[c], k, e), c = p
        PROVE  IdsPast(journal[c], sent[c]) \cup (Ids(journal'[c]) \ Ids(journal[c]))
                 \subseteq IdsPast(journal'[c], sent'[c])
    <3>1. journal[c] \in JournalType /\ sent[c] \in Nat /\ sent[c] <= Len(journal[c].order)
      BY PeersAreKinds DEF WInv, OInv, IInv, NInv, TInv, CursorsInLogs
    <3>2. IdsPast(journal[c], sent[c]) \cup {e.id} \subseteq IdsPast(k, sent[c])
      BY <2>2, <3>1, PastGrows
    <3>3. Ids(k) = Ids(journal[c]) \cup {e.id}
      BY <2>2 DEF Ids, Grows
    <3>4. journal'[c] = k /\ sent'[c] = sent[c]
      BY <1>1, <2>2, PeersAreKinds
    <3> QED
      BY <3>2, <3>3, <3>4
  <2> QED
    BY <1>1, <2>1, <2>2, PeersAreKinds
<1>5. OwnReached(c) \cup (Ids(journal'[c]) \ Ids(journal[c])) \subseteq OwnReached(c)'
  BY <1>3, <1>4 DEF OwnReached
<1> QED
  BY <1>2, <1>5, OwnStays

\* A joined client ships all it holds under its session past its cursor.
LEMMA ShipOwn ==
  ASSUME WInv, NEW c \in Clients, ShipFromClient(c), NEW d \in Clients
  PROVE  Joined(d)' => OwnIds(d)' \subseteq OwnReached(d)'
<1>1. /\ \A q \in Clients \ {c} : toHost'[q] = toHost[q] /\ sent'[q] = sent[q]
      /\ UNCHANGED <<journal, link, session>>
      /\ toHost'[c] = IF link[c] = "up" THEN toHost[c] \o Own(c, Unshipped(c)) ELSE toHost[c]
  BY PeersAreKinds DEF ShipFromClient, WInv, OInv, IInv, NInv, TInv
<1>2. CASE d # c
  BY <1>1, <1>2, OwnUntouched
<1>3. ASSUME d = c, Joined(c), NEW i \in OwnIds(c)
      PROVE  i \in OwnReached(c)'
  <2>1. i \in OwnReached(c)
    BY <1>3 DEF WInv
  <2>2. PICK tail, own : tail = Unshipped(c) /\ own = Own(c, tail)
    OBVIOUS
  <2>3. tail \in Seq(Rooted) /\ toHost[c] \in Seq(Rooted)
    BY <2>2, UnshippedType, PeersAreKinds DEF WInv, OInv, IInv, NInv, TInv
  <2>4. own \in Seq(Rooted)
    <3>1. own \in Seq({e \in Rooted : e.id.author = journal[c].author
                                      /\ \E m \in DOMAIN tail : tail[m] = e})
      BY <2>2, <2>3, ByPicks DEF Own
    <3> QED
      BY <3>1, SeqMonotonic
  <2>5. InFlight(toHost'[c]) = InFlight(toHost[c]) \cup InFlight(own)
    BY <1>1, <1>3, <2>2, <2>3, <2>4, InFlightParts DEF Joined
  <2>6. CASE i \in IdsPast(journal[c], sent[c])
    <3>1. PICK e \in InFlight(tail) : e.id = i
      BY <2>2, <2>6, ToShip, PeersAreKinds DEF WInv, OInv, IInv, NInv
    <3>2. PICK m \in DOMAIN tail : tail[m] = e
      BY <3>1 DEF InFlight
    <3>3. e.id.author = journal[c].author
      BY <1>3, <3>1 DEF OwnIds, Joined
    <3>4. e \in InFlight(own)
      BY <2>2, <2>3, <3>2, <3>3, ByMissesNone DEF Own
    <3> QED
      BY <2>5, <3>1, <3>4 DEF OwnReached
  <2>7. CASE i \in Ids(journal[Host]) \cup {e.id : e \in InFlight(toHost[c])}
    BY <1>1, <2>5, <2>7 DEF OwnReached
  <2> QED
    BY <2>1, <2>6, <2>7 DEF OwnReached
<1>4. Joined(c)' = Joined(c) /\ OwnIds(c)' = OwnIds(c)
  BY <1>1 DEF Joined, OwnIds
<1> QED
  BY <1>2, <1>3, <1>4

LEMMA ReceiveOwn ==
  ASSUME WInv, NEW c \in Clients, HostReceive(c) \/ ClientReceive(c), NEW d \in Clients
  PROVE  Joined(d)' => OwnIds(d)' \subseteq OwnReached(d)'
<1>1. CASE HostReceive(c)
  <2>1. PICK x, e : x = Head(toHost[c]) /\ e = Canonical(session[c], x)
    OBVIOUS
  <2>2. PICK k \in AppendRemote(journal[Host], e) : journal' = [journal EXCEPT ![Host] = k]
    BY <1>1, <2>1 DEF HostReceive
  <2>3. e \in Rooted /\ e.id = x.id
    <3>1. x \in {y \in Rooted : y.id.author = session[c] /\ Holds(c, y)}
      BY <1>1, <2>1, HeadTailProperties DEF WInv, OInv, SentAsHeld, HostReceive
    <3>2. x.id = [author |-> session[c], lamport |-> x.id.lamport]
      BY <3>1 DEF Rooted, Entry, EntryId
    <3>3. e.id = x.id
      BY <2>1, <3>1, <3>2 DEF Canonical, Rooted, Entry, EntryId
    <3>4. e \in Rooted
      BY <1>1, <2>1, SentIsRooted DEF WInv, OInv, IInv, NInv
    <3> QED
      BY <3>3, <3>4
  <2>4. /\ k = journal[Host] \/ Grows(journal[Host], k, e)
        /\ k.author = journal[Host].author
        /\ e.id \in Ids(k)
    <3>1. journal[Host] \in JournalType /\ Consistent(journal[Host])
      BY PeersAreKinds DEF WInv, OInv, IInv, NInv, TInv
    <3> QED
      BY <2>2, <2>3, <3>1, TakenIn, TakenInLog DEF Grows, Ids
  <2>5. /\ toHost'[c] = Tail(toHost[c])
        /\ \A q \in Clients \ {c} : toHost'[q] = toHost[q]
        /\ journal'[Host] = k
        /\ UNCHANGED <<sent, link, session>>
    BY <1>1, <2>2, PeersAreKinds DEF HostReceive, WInv, OInv, IInv, NInv, TInv
  <2>6. InFlight(toHost[c]) = {x} \cup InFlight(toHost'[c])
    BY <1>1, <2>1, <2>5, InFlightParts DEF HostReceive, WInv, OInv, IInv, NInv, TInv
  <2>7. \A q \in Clients : {f.id : f \in InFlight(toHost[q])}
                             \subseteq {f.id : f \in InFlight(toHost'[q])} \cup Ids(journal'[Host])
    BY <2>3, <2>4, <2>5, <2>6
  <2>8. e \in Entry
    BY <2>3 DEF Rooted
  <2> QED
    BY <2>2, <2>4, <2>5, <2>7, <2>8, OwnGrows, PeersAreKinds
<1>2. CASE ClientReceive(c)
  <2>1. PICK e : e = Head(toClient[c])
    OBVIOUS
  <2>2. PICK k \in AppendRemote(journal[c], e) : journal' = [journal EXCEPT ![c] = k]
    BY <1>2, <2>1 DEF ClientReceive
  <2>3. e \in Rooted /\ e \in Entry
    <3>1. toClient[c] \in Seq(Rooted) /\ toClient[c] # <<>>
      BY <1>2 DEF WInv, OInv, IInv, NInv, TInv, ClientReceive
    <3>2. e \in Rooted
      BY <2>1, <3>1, HeadTailProperties
    <3> QED
      BY <3>2 DEF Rooted
  <2>4. /\ k = journal[c] \/ Grows(journal[c], k, e)
        /\ k.author = journal[c].author
    <3>1. journal[c] \in JournalType /\ Consistent(journal[c])
      BY PeersAreKinds DEF WInv, OInv, IInv, NInv, TInv
    <3> QED
      BY <2>2, <2>3, <3>1, TakenIn, TakenInLog
  <2>5. UNCHANGED <<sent, link, session, toHost>>
    BY <1>2 DEF ClientReceive
  <2> QED
    BY <2>2, <2>3, <2>4, <2>5, OwnGrows, PeersAreKinds
<1> QED
  BY <1>1, <1>2

\* A client that takes its handshake holds nothing under its session yet.
LEMMA HandshakeOwn ==
  ASSUME WInv, NEW c \in Clients, TakeHandshake(c), NEW d \in Clients
  PROVE  Joined(d)' => OwnIds(d)' \subseteq OwnReached(d)'
<1>1. PICK s, j, k : s = hello[c] /\ j = journal[c] /\ k = RebindLocalAuthor(j, s)
  OBVIOUS
<1>2. /\ s \in Sessions /\ s = session[c] /\ j.author = c /\ s # c
      /\ j \in JournalType /\ Consistent(j) /\ CanRebind(j, s)
  BY <1>1, PeersAreKinds DEF TakeHandshake, WInv, OInv, IInv, NInv, TInv, NamesAreOwn
<1>3. /\ \A q \in Peers \ {c} : journal'[q] = journal[q]
      /\ journal'[c] = k
      /\ UNCHANGED <<sent, link, session, toHost>>
  BY <1>1, PeersAreKinds DEF TakeHandshake, WInv, OInv, IInv, NInv, TInv
<1>4. CASE d # c
  BY <1>3, <1>4, OwnUntouched, PeersAreKinds
<1>5. Ids(k) = {Rebound(j, s, i) : i \in Ids(j)}
  BY <1>1, <1>2, RebindFields, PeersAreKinds
<1>6. ASSUME NEW i \in Ids(j)
      PROVE  Rebound(j, s, i).author # s
  <2>1. i \in EntryId
    BY <1>2 DEF Ids, JournalType, Entry
  <2>2. i.author # s /\ i.author # c
    BY <1>1, <1>2, NoneBeforeHandshake, PeersAreKinds DEF Ids, WInv, OInv, NoInstallEntries
  <2>3. Rebound(j, s, i) = i
    BY <1>2, <2>2 DEF Rebound
  <2> QED
    BY <2>2, <2>3
<1>7. CASE d = c
  <2>1. OwnIds(c)' = {}
    <3>1. OwnIds(c)' = {i \in Ids(k) : i.author = session'[c]}
      BY <1>3 DEF OwnIds, Ids
    <3> QED
      BY <1>2, <1>3, <1>5, <1>6, <3>1
  <2> QED
    BY <1>7, <2>1
<1> QED
  BY <1>4, <1>7

\* A connection that comes or goes has nobody joined at its end.
LEMMA ConnectionOwn ==
  ASSUME WInv, NEW c \in Clients,
         \/ Connect(c)
         \/ JoinServer(c) \/ RefuseHandshake(c) \/ LeaveServer(c) \/ Drop(c),
         NEW d \in Clients
  PROVE  Joined(d)' => OwnIds(d)' \subseteq OwnReached(d)'
<1>1. /\ \A q \in Peers \ {c} : journal'[q] = journal[q]
      /\ \A q \in Clients \ {c} : /\ toHost'[q] = toHost[q] /\ session'[q] = session[q]
                                  /\ link'[q] = link[q]
      /\ sent' = sent
  BY PeersAreKinds DEF Connect, JoinServer, RefuseHandshake, LeaveServer, Drop, Cut,
     WInv, OInv, IInv, NInv, TInv
<1>2. CASE d # c
  BY <1>1, <1>2, OwnUntouched, PeersAreKinds
<1>3. CASE d = c
  <2>1. CASE Connect(c)
    <3>1. PICK s \in Sessions : /\ \A p \in Peers : s # journal[p].author
                                /\ session' = [session EXCEPT ![c] = s]
      BY <2>1 DEF Connect
    <3>2. session'[c] = s /\ journal'[c].author # s
      BY <2>1, <3>1, PeersAreKinds DEF Connect, WInv, OInv, IInv, NInv, TInv
    <3> QED
      BY <1>3, <3>2 DEF Joined
  <2>2. CASE JoinServer(c) \/ RefuseHandshake(c) \/ LeaveServer(c) \/ Drop(c)
    <3>1. link'[c] # "up"
      BY <2>2 DEF JoinServer, RefuseHandshake, LeaveServer, Drop, WInv, OInv, IInv, NInv, TInv
    <3> QED
      BY <1>3, <3>1 DEF Joined
  <2> QED
    BY <2>1, <2>2
<1> QED
  BY <1>2, <1>3

LEMMA NextOwn ==
  ASSUME WInv, [Next]_vars, NEW d \in Clients
  PROVE  Joined(d)' => OwnIds(d)' \subseteq OwnReached(d)'
<1>1. ASSUME NEW p \in Peers, Edit(p)
      PROVE  Joined(d)' => OwnIds(d)' \subseteq OwnReached(d)'
  <2>1. edits + 1 \in Ops /\ journal[p] \in JournalType
    BY <1>1, PlaneOpsAssumption DEF WInv, OInv, IInv, NInv, TInv, Edit
  <2>2. PICK k : k = AppendLocal(journal[p], edits + 1)
    OBVIOUS
  <2>3. /\ \E e \in Entry : Grows(journal[p], k, e)
        /\ k.author = journal[p].author
    BY <2>1, <2>2, LocalGrows, AppendLocalFields
  <2>4. /\ journal' = [journal EXCEPT ![p] = k]
        /\ UNCHANGED <<sent, link, session, toHost>>
    BY <1>1, <2>2 DEF Edit, wires
  <2> QED
    BY <2>3, <2>4, OwnGrows
<1>2. CASE \/ ShipFromHost \/ UNCHANGED vars
           \/ \E c \in Clients : ReplayChunk(c)
  <2>1. /\ UNCHANGED <<journal, link, session, toHost>>
        /\ sent'[d] = sent[d]
    BY <1>2, PeersAreKinds DEF ShipFromHost, ReplayChunk, vars, wires, WInv, OInv, IInv, NInv, TInv
  <2> QED
    BY <2>1, OwnUntouched
<1>3. ASSUME NEW s \in Sessions, LateReceive(s) \/ ForgetSession(s)
      PROVE  Joined(d)' => OwnIds(d)' \subseteq OwnReached(d)'
  <2>1. PICK k : /\ journal' = [journal EXCEPT ![Host] = k]
                 /\ k = journal[Host] \/ \E e \in Entry : Grows(journal[Host], k, e)
                 /\ k.author = journal[Host].author
                 /\ UNCHANGED <<sent, link, session, toHost>>
    BY <1>3, LateLog DEF WInv, OInv, IInv, NInv
  <2> QED
    BY <2>1, OwnGrows, PeersAreKinds
<1> QED
  BY <1>1, <1>2, <1>3, ShipOwn, ReceiveOwn, HandshakeOwn, ConnectionOwn DEF Next, Ferry

\* When besides clients edit only while they are joined, no edit of a joined
\* client is behind its cursor without being at the host or on the wire to it
\* (broadcast_journal_entries, rebind_local_author, apply_inbound_entry).
THEOREM OwnEditsNeverSlip ==
  ASSUME Reopened = {}, OfflineEdits = FALSE
  PROVE  Spec => []OwnEditsAreUnderWay
<1>1. Init => WInv
  BY InitOInv, InitCursors DEF WInv, Init, Joined
<1>2. WInv /\ [Next]_vars => WInv'
  <2> SUFFICES ASSUME WInv, [Next]_vars
               PROVE  WInv'
    OBVIOUS
  <2>1. OInv' /\ CursorsInLogs'
    BY NextOInv, NextCursors DEF WInv, OInv, IInv, NInv
  <2> QED
    BY <2>1, NextOwn DEF WInv
<1>3. WInv => OwnEditsAreUnderWay
  <2> SUFFICES ASSUME WInv, NEW c \in Clients, Joined(c)
               PROVE  OwnIds(c) \subseteq Ids(journal[Host]) \cup {e.id : e \in InFlight(toHost[c])}
                                            \cup {e.id : e \in InFlight(Unshipped(c))}
    BY DEF OwnEditsAreUnderWay, OwnIds
  <2>1. {e.id : e \in InFlight(Unshipped(c))} = IdsPast(journal[c], sent[c])
    BY ToShip, PeersAreKinds DEF WInv, OInv, IInv, NInv
  <2> QED
    BY <2>1 DEF WInv, OwnReached
<1> QED
  BY <1>1, <1>2, <1>3, PTL DEF Spec
=============================================================================
