---------------------------- MODULE JournalPlane ----------------------------
(***************************************************************************)
(* The journal plane of lunco-networking: one host and its clients keep     *)
(* their Twin journals in step.  Every peer ships the tail of its log past  *)
(* a cursor: the host everything, to every client; a client its own         *)
(* entries, to the host.  A client that connects is sent a handshake, which *)
(* names the author it must use from then on, and a replay of the host's    *)
(* log, metered over several frames.                                        *)
(*                                                                          *)
(* The transport is external: within a channel, messages of a live          *)
(* connection arrive once and in order; the command channel (handshake) and *)
(* the bulk channel (entries) are not ordered with each other.  A client    *)
(* that loses or leaves its connection hears no more from it; what it sent  *)
(* may reach the host until the host learns of it.  As the comments of      *)
(* client.rs have it, a client has a live sender exactly while its          *)
(* connection is up.                                                        *)
(* Every session may edit: the JournalEdit gate is open by default.         *)
(***************************************************************************)
EXTENDS Journal

CONSTANTS
  Host,          \* the host, named by its install's author id
  Clients,       \* the clients, named by theirs
  Sessions,      \* author_for_session of the sessions the host hands out
  Local,         \* AuthorId::local(), what a Twin opened in the session leaves
  Reopened,      \* the peers that opened their Twin after startup
  Strategy,      \* the merge strategy, the same on every peer
  OfflineEdits,  \* TRUE: clients also edit while they have no session
  MaxEntries     \* bound: edits made

Peers == {Host} \cup Clients

ASSUME PlaneAssumption ==
  /\ Host \notin Clients /\ Local \notin Peers \cup Sessions
  /\ Peers \cap Sessions = {}
  /\ Authors = Peers \cup Sessions \cup {Local}
  /\ Reopened \subseteq Peers /\ Strategy \in Strategies

ASSUME PlaneOpsAssumption == MaxEntries \in Nat /\ Ops = 1..MaxEntries

NoSession == 0

\* A client's side of its connection: `standalone` has NetworkRole Standalone,
\* the others Client; only `up` has a live sender.
Links == {"standalone", "dialing", "up", "lost"}

VARIABLES
  journal,   \* each peer's journal
  edits,     \* edits made so far
  sent,      \* each peer's broadcast cursor
  link,      \* each client's side of its connection
  session,   \* AssignedSessions: the author of each client's live connection
  hello,     \* the handshake on its way to each client
  replay,    \* PendingJournalReplay: what each client is still owed
  toClient,  \* entries in flight to each client
  toHost,    \* entries in flight to the host
  late       \* those of a connection that its client, not yet the host, gave up

wires == <<session, hello, replay, toClient, toHost, late>>
vars == <<journal, edits, sent, link, wires>>

Init ==
  /\ journal = [p \in Peers |-> EmptyJournal(IF p \in Reopened THEN Local ELSE p, Strategy)]
  /\ edits = 0
  /\ sent = [p \in Peers |-> 0]
  /\ link = [c \in Clients |-> "standalone"]
  /\ session = [c \in Clients |-> NoSession]
  /\ hello = [c \in Clients |-> NoSession]
  /\ replay = [c \in Clients |-> <<>>]
  /\ toClient = [c \in Clients |-> <<>>]
  /\ toHost = [c \in Clients |-> <<>>]
  /\ late = [s \in Sessions |-> <<>>]

----------------------------------------------------------------------------
(* Journals *)

\* A client has its session once its connection is up and the handshake taken.
Joined(c) == link[c] = "up" /\ journal[c].author = session[c]

Edit(p) ==
  /\ edits < MaxEntries
  /\ p \in Clients => OfflineEdits \/ Joined(p)
  /\ journal' = [journal EXCEPT ![p] = AppendLocal(@, edits + 1)]
  /\ edits' = edits + 1
  /\ UNCHANGED <<sent, link, wires>>

EntryAt(j, id) == CHOOSE e \in j.entries : e.id = id

Log(j) == [n \in DOMAIN j.order |-> EntryAt(j, j.order[n])]

\* The entries past the cursor; a journal shorter than the cursor was replaced.
Unshipped(p) ==
  LET from == IF Len(journal[p].order) < sent[p] THEN 0 ELSE sent[p]
  IN  SubSeq(Log(journal[p]), from + 1, Len(journal[p].order))

\* Those of the entries that bear an author's name.
By(author, entries) ==
  LET by[n \in 0..Len(entries)] ==
        IF n = 0 THEN <<>>
        ELSE IF entries[n].id.author = author THEN Append(by[n - 1], entries[n]) ELSE by[n - 1]
  IN  by[Len(entries)]

\* What a client ships: its own entries.  The mutants ship everything, and what
\* bears the install's author.
OwnOrAll(c, entries) == entries
OwnByInstall(c, entries) == By(c, entries)
Own(c, entries) == By(journal[c].author, entries)

\* broadcast_journal_entries on the host, and host_send_outbox to every client.
ShipFromHost ==
  /\ Len(journal[Host].order) # sent[Host]
  /\ toClient' = [c \in Clients |->
                    IF session[c] # NoSession THEN toClient[c] \o Unshipped(Host) ELSE <<>>]
  /\ sent' = [sent EXCEPT ![Host] = Len(journal[Host].order)]
  /\ UNCHANGED <<journal, edits, link, session, hello, replay, toHost, late>>

\* broadcast_journal_entries on a client, and client_send_outbox, which drops
\* what it has no live sender for.
ShipFromClient(c) ==
  /\ link[c] # "standalone"
  /\ Len(journal[c].order) # sent[c]
  /\ toHost' = [toHost EXCEPT ![c] = IF link[c] = "up" THEN @ \o Own(c, Unshipped(c)) ELSE @]
  /\ sent' = [sent EXCEPT ![c] = Len(journal[c].order)]
  /\ UNCHANGED <<journal, edits, link, session, hello, replay, toClient, late>>

\* apply_inbound_entry on the host: the entry is bound to the connection that
\* carried it.  The mutant trusts the author the entry names.
AsSent(s, e) == e
Canonical(s, e) == [e EXCEPT !.id.author = s]

HostReceive(c) ==
  /\ toHost[c] # <<>>
  /\ \E j \in AppendRemote(journal[Host], Canonical(session[c], Head(toHost[c]))) :
       journal' = [journal EXCEPT ![Host] = j]
  /\ toHost' = [toHost EXCEPT ![c] = Tail(@)]
  /\ UNCHANGED <<edits, sent, link, session, hello, replay, toClient, late>>

\* host_recv_inbox of a connection whose client is gone: still that session's.
LateReceive(s) ==
  /\ late[s] # <<>>
  /\ \E j \in AppendRemote(journal[Host], Canonical(s, Head(late[s]))) :
       journal' = [journal EXCEPT ![Host] = j]
  /\ late' = [late EXCEPT ![s] = Tail(@)]
  /\ UNCHANGED <<edits, sent, link, session, hello, replay, toClient, toHost>>

ClientReceive(c) ==
  /\ toClient[c] # <<>>
  /\ \E j \in AppendRemote(journal[c], Head(toClient[c])) :
       journal' = [journal EXCEPT ![c] = j]
  /\ toClient' = [toClient EXCEPT ![c] = Tail(@)]
  /\ UNCHANGED <<edits, sent, link, session, hello, replay, toHost, late>>

\* replay_journal_chunks: one frame's budget of the history owed.
ReplayChunk(c) ==
  /\ replay[c] # <<>>
  /\ toClient' = [toClient EXCEPT ![c] = Append(@, Head(replay[c]))]
  /\ replay' = [replay EXCEPT ![c] = Tail(@)]
  /\ UNCHANGED <<journal, edits, sent, link, session, hello, toHost, late>>

----------------------------------------------------------------------------
(* Connections *)

\* A client gives its connection up: what was on its way to it, or owed to it, is
\* nobody's any more; what it sent may still arrive.
Cut(c) ==
  /\ late' = IF session[c] = NoSession THEN late
             ELSE [late EXCEPT ![session[c]] = toHost[c]]
  /\ session' = [session EXCEPT ![c] = NoSession]
  /\ hello' = [hello EXCEPT ![c] = NoSession]
  /\ replay' = [replay EXCEPT ![c] = <<>>]
  /\ toClient' = [toClient EXCEPT ![c] = <<>>]
  /\ toHost' = [toHost EXCEPT ![c] = <<>>]

\* on_server_disconnected: the host learns of it, and hears no more of that session.
ForgetSession(s) ==
  /\ late[s] # <<>>
  /\ late' = [late EXCEPT ![s] = <<>>]
  /\ UNCHANGED <<journal, edits, sent, link, session, hello, replay, toClient, toHost>>

\* on_join_server: drop any connection, dial, edit under the install's author.
JoinServer(c) ==
  /\ link' = [link EXCEPT ![c] = "dialing"]
  /\ journal' = [journal EXCEPT ![c] = SetLocalAuthor(@, c)]
  /\ Cut(c)
  /\ UNCHANGED <<edits, sent>>

\* on_server_connected: a fresh session, its handshake, and the whole log owed.
\* The mutant owes what the broadcast cursor has not covered.
OwedTail(s) == SubSeq(Log(journal[Host]), sent[Host] + 1, Len(journal[Host].order))
Owed(s) == Log(journal[Host])

Connect(c) ==
  /\ link[c] = "dialing"
  /\ \E s \in Sessions :
       /\ late[s] = <<>> /\ \A d \in Clients : session[d] # s
       /\ \A p \in Peers : s # journal[p].author /\ \A i \in Ids(journal[p]) : i.author # s
       /\ session' = [session EXCEPT ![c] = s]
       /\ hello' = [hello EXCEPT ![c] = s]
       /\ replay' = [replay EXCEPT ![c] = Owed(s)]
  /\ link' = [link EXCEPT ![c] = "up"]
  /\ UNCHANGED <<journal, edits, sent, toClient, toHost, late>>

\* The handshake: take over the session's author, moving this install's entries
\* to it; if the new ids are taken, leave.
TakeHandshake(c) ==
  /\ hello[c] # NoSession
  /\ CanRebind(journal[c], hello[c])
  /\ journal' = [journal EXCEPT ![c] = RebindLocalAuthor(@, hello[c])]
  /\ hello' = [hello EXCEPT ![c] = NoSession]
  /\ UNCHANGED <<edits, sent, link, session, replay, toClient, toHost, late>>

RefuseHandshake(c) ==
  /\ hello[c] # NoSession
  /\ ~CanRebind(journal[c], hello[c])
  /\ link' = [link EXCEPT ![c] = "standalone"]
  /\ journal' = [journal EXCEPT ![c] = SetLocalAuthor(@, c)]
  /\ Cut(c)
  /\ UNCHANGED <<edits, sent>>

\* on_leave_server.
LeaveServer(c) ==
  /\ link[c] # "standalone"
  /\ link' = [link EXCEPT ![c] = "standalone"]
  /\ journal' = [journal EXCEPT ![c] = SetLocalAuthor(@, c)]
  /\ Cut(c)
  /\ UNCHANGED <<edits, sent>>

\* on_client_disconnected: the role and the author stay as they were.
Drop(c) ==
  /\ link[c] = "up"
  /\ link' = [link EXCEPT ![c] = "lost"]
  /\ Cut(c)
  /\ UNCHANGED <<journal, edits, sent>>

Ferry(c) ==
  \/ ShipFromClient(c) \/ HostReceive(c) \/ ClientReceive(c)
  \/ ReplayChunk(c) \/ TakeHandshake(c) \/ RefuseHandshake(c)

Next ==
  \/ \E p \in Peers : Edit(p)
  \/ ShipFromHost
  \/ \E c \in Clients : \/ Ferry(c)
                        \/ JoinServer(c) \/ Connect(c) \/ LeaveServer(c) \/ Drop(c)
  \/ \E s \in Sessions : LateReceive(s) \/ ForgetSession(s)

Spec == Init /\ [][Next]_vars

\* The ferry systems run every frame, and a live connection delivers.  Joining,
\* connecting, leaving and losing a connection are nobody's duty.
Fairness ==
  /\ WF_vars(ShipFromHost)
  /\ \A c \in Clients : /\ WF_vars(ShipFromClient(c)) /\ WF_vars(HostReceive(c))
                        /\ WF_vars(ClientReceive(c)) /\ WF_vars(ReplayChunk(c))
                        /\ WF_vars(TakeHandshake(c)) /\ WF_vars(RefuseHandshake(c))

FairSpec == Spec /\ Fairness
----------------------------------------------------------------------------
(* Properties *)

\* Besides the types: whatever was sent, lost, replayed twice, rebound or renamed
\* on the way, the log, the map and the clock of every journal agree
\* (append_remote, rebind_local_author).
TypeOK ==
  /\ journal \in [Peers -> JournalType]
  /\ \A p \in Peers : LogMatchesMap(journal[p]) /\ ClockCoversEntries(journal[p])
  /\ edits \in 0..MaxEntries /\ sent \in [Peers -> Nat]
  /\ link \in [Clients -> Links]
  /\ session \in [Clients -> Sessions \cup {NoSession}]
  /\ \A c \in Clients : /\ hello[c] \in {session[c], NoSession}
                        /\ {replay[c], toClient[c], toHost[c]} \subseteq Seq(Entry)
  /\ late \in [Sessions -> Seq(Entry)]

\* An id names one edit wherever it is held: no peer drops another's edit as a
\* replay of one it has (append_remote, EntryId).
IdsNameOneEdit ==
  \A p, q \in Peers : \A e \in journal[p].entries, f \in journal[q].entries :
    e.id = f.id => e.op = f.op

\* A peer holds an edit once, under one id: what it receives of an edit it has,
\* its own edits echoed back to it included, is a no-op (apply_inbound_entry).
EditsAppearOnce ==
  \A p \in Peers : \A e, f \in journal[p].entries : e.op = f.op => e = f

EditsHeld(j) == {e.op : e \in j.entries}

\* No peer ever loses an edit it holds, whichever way its connection goes.
EditsAreKept ==
  [][\A p \in Peers : EditsHeld(journal[p]) \subseteq EditsHeld(journal'[p])]_vars

InFlight(entries) == {entries[n] : n \in DOMAIN entries}
OpsOf(entries) == {e.op : e \in InFlight(entries)}

\* Nothing falls between the replay and the live tail: an edit of the host that a
\* connected client does not hold is owed to it, on its way to it or past the
\* host's cursor (on_server_connected, broadcast_journal_entries).
HistoryIsUnderWay ==
  \A c \in Clients : session[c] # NoSession =>
    EditsHeld(journal[Host]) \subseteq EditsHeld(journal[c]) \cup OpsOf(replay[c])
                                      \cup OpsOf(toClient[c]) \cup OpsOf(Unshipped(Host))

\* Nor does a client's own edit fall behind its cursor: where clients edit only
\* while joined, the host has it, or it is on its way there, or still to be
\* shipped (broadcast_journal_entries, rebind_local_author).
OwnEditsAreUnderWay ==
  \A c \in Clients : Joined(c) =>
    {i \in Ids(journal[c]) : i.author = session[c]}
      \subseteq Ids(journal[Host]) \cup {e.id : e \in InFlight(toHost[c])}
                                 \cup {e.id : e \in InFlight(Unshipped(c))}

\* A client that stays joined gets what it wrote to the host: what it holds
\* under its own author does not stay behind its cursor
\* (broadcast_journal_entries, rebind_local_author).
EditsReachHost ==
  \A c \in Clients :
    []<>(Joined(c) => {i \in Ids(journal[c]) : i.author = session[c]} \subseteq Ids(journal[Host]))

\* A client that stays joined learns all the host knows: between the replay
\* queued when it connected and the live tail nothing falls through
\* (on_server_connected, broadcast_journal_entries).
HistoryReachesClients ==
  \A c \in Clients : []<>(Joined(c) => EditsHeld(journal[Host]) \subseteq EditsHeld(journal[c]))
=============================================================================
