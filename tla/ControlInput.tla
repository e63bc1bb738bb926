----------------------------- MODULE ControlInput -----------------------------
(***************************************************************************)
(* Remote control of one vessel: the host's ownership table, the inputs its  *)
(* owner sends once per fixed tick, the buffer they wait in, and the         *)
(* acknowledgements by which the owner corrects its prediction.  Vessels do  *)
(* not share any of this; a player who possesses another one releases this.  *)
(*                                                                           *)
(* The wire: possession commands travel on a reliable channel and count as   *)
(* made when the host handles them; inputs may be lost and overtake one      *)
(* another, so they are a set, and a lost one is one never taken from it; a  *)
(* table or a snapshot is taken over when the client looks at it.  Duplicate *)
(* commands are absorbed by SyncDedup.                                       *)
(*                                                                           *)
(* sync_applied_seq_owners finds the vessels that changed hands by comparing *)
(* the slot's owner with the registry, once per fixed tick, and may miss a   *)
(* change: when the slot went to the new owner first, by an input recorded   *)
(* on arrival or by the tick's consumer (the two FixedFirst systems have no  *)
(* order between them), when the owner is back by then, or when there was no *)
(* slot yet.  The history variable `hidden` tells that this has happened.    *)
(***************************************************************************)
EXTENDS Naturals, FiniteSets

CONSTANTS
  Clients,        \* the sessions of remote players
  HostSession,    \* the host's own
  Nobody,         \* no owner
  NoInput, NoSlot,
  Takeover,       \* TRUE: PossessionPolicy::LastWins, or a hook that allows it
  Cap,            \* inputs allowed to wait (8 in the code)
  MaxSeqJump,     \* MAX_SEQ_JUMP (1024 in the code)
  MaxSeq          \* bound: inputs each client numbers

Sessions == Clients \cup {HostSession}
Owners == Sessions \cup {Nobody}

\* An input; its writes stand for themselves as who sent them and when.
Seqno == {0} \cup UNION {0..MaxSeq[c] : c \in Clients}
Input == [by : Clients, seq : Seqno \ {0}]

\* AppliedSlot.
Slot == [owner : Owners, seq : Seqno]

ASSUME ControlAssumption ==
  /\ HostSession \notin Clients /\ Nobody \notin Sessions
  /\ NoInput \notin Input /\ NoSlot \notin Slot
  /\ Takeover \in BOOLEAN
  /\ Cap \in Nat /\ MaxSeqJump \in Nat /\ MaxSeq \in [Clients -> Nat]

VARIABLES
  owner,       \* SessionRegistry.owners of the vessel
  hidden,      \* the sync missed a change, or will, and has cleared nothing since
  host,        \* BufferedClientInputs and AppliedInputSeq of the vessel
  table,       \* the vessel's row in each client's copy of the ownership table
  predicting,  \* OwnedLocally: the client runs the vessel ahead of the host
  nextSeq,     \* VesselInputLog.next_seq
  inFlight,    \* the seqs of each client's numbered SetPorts on their way to the host
  seen,        \* last_input_seq of the newest snapshot each client has
  reconciled   \* BodyPredictionLog.last_reconciled

clients == <<table, predicting, nextSeq, seen, reconciled>>
vars == <<owner, hidden, host, inFlight, clients>>

HostType ==
  [ pending : SUBSET Input,              \* queued, one for each seq
    cursor  : Seqno,                     \* `applied`: the last one consumed
    latched : Input \cup {NoInput},      \* last_writes
    slot    : Slot \cup {NoSlot} ]

Init ==
  /\ owner = Nobody /\ hidden = FALSE
  /\ host = [pending |-> {}, cursor |-> 0, latched |-> NoInput, slot |-> NoSlot]
  /\ table = [c \in Clients |-> "free"]
  /\ predicting = [c \in Clients |-> FALSE]
  /\ nextSeq = [c \in Clients |-> 0]
  /\ inFlight = [c \in Clients |-> {}]
  /\ seen = [c \in Clients |-> 0]
  /\ reconciled = [c \in Clients |-> 0]

----------------------------------------------------------------------------
(* The buffer and the watermark *)

Seqs(h) == {i.seq : i \in h.pending}

\* push: seqs already integrated and implausible jumps are dropped.
Plausible(h, seq) ==
  LET known == (Seqs(h) \cup {h.cursor}) \ {0}
  IN  known = {} \/ \E s \in known : seq <= s + MaxSeqJump

Pushed(h, input) ==
  IF input.seq > h.cursor /\ Plausible(h, input.seq)
  THEN [h EXCEPT !.pending = {i \in @ : i.seq # input.seq} \cup {input}]
  ELSE h

\* AppliedInputSeq::record: a new owner starts from 0, where any seq will do.
Recorded(h, by, seq) ==
  LET slot == IF h.slot # NoSlot /\ h.slot.owner = by THEN h.slot ELSE [owner |-> by, seq |-> 0]
      takes == slot.seq = 0 \/ (seq > slot.seq /\ seq <= slot.seq + MaxSeqJump)
  IN  [h EXCEPT !.slot = IF takes THEN [slot EXCEPT !.seq = seq] ELSE slot]

\* next_for_tick: the next input, or the newest if too many wait.
Due(h) ==
  {i \in h.pending : IF Cardinality(h.pending) > Cap
                     THEN \A s \in Seqs(h) : s <= i.seq
                     ELSE \A s \in Seqs(h) : i.seq <= s}

\* apply_buffered_client_inputs: one input, or the last one again, and the ack.
Applied(h) ==
  IF h.pending = {}
  THEN IF h.latched = NoInput THEN {h} ELSE {Recorded(h, owner, h.cursor)}
  ELSE {Recorded([h EXCEPT !.pending = {k \in @ : k.seq > i.seq},
                           !.cursor = i.seq, !.latched = i], owner, i.seq) : i \in Due(h)}

\* sync_applied_seq_owners: a vessel that changed hands loses its queue and its
\* ack.  (The registry has changed since the last sync if the slot is another's.)
\* The mutant keeps the queue.
SyncedAckOnly(h) ==
  IF h.slot # NoSlot /\ h.slot.owner # owner
  THEN [h EXCEPT !.slot = [owner |-> owner, seq |-> 0]]
  ELSE h
Synced(h) ==
  IF h.slot # NoSlot /\ h.slot.owner # owner
  THEN [pending |-> {}, cursor |-> 0, latched |-> NoInput, slot |-> [owner |-> owner, seq |-> 0]]
  ELSE h

Ack == IF host.slot = NoSlot THEN 0 ELSE host.slot.seq

\* changed_owner_gids: what the sync goes by.
Behind == host.slot # NoSlot /\ host.slot.owner # owner

\* The buffer is as the sync leaves it; the cursor is then 0.
Clean == host.pending = {} /\ host.latched = NoInput

----------------------------------------------------------------------------
(* The host *)

\* With this owner there is nothing for the sync to see, and something to clear.
Unseen(s) ==
  \/ host.slot = NoSlot /\ host.pending # {}
  \/ host.slot # NoSlot /\ host.slot.owner = s /\ ~Clean

Possess(s) ==
  /\ owner # s
  /\ owner = Nobody \/ Takeover
  /\ owner' = s
  /\ hidden' = (hidden \/ Unseen(s))
  /\ UNCHANGED <<host, inFlight, clients>>

\* ReleaseVessel, possession of another vessel, or the session's end.
Release(s) ==
  /\ owner = s
  /\ owner' = Nobody
  /\ hidden' = (hidden \/ Unseen(Nobody))
  /\ UNCHANGED <<host, inFlight, clients>>

\* record_control_input without a number: the slot goes to the owner at once.
RecordOnArrival ==
  /\ host' = Recorded(host, owner, 0)
  /\ hidden' = (hidden \/ (Behind /\ ~Clean))

\* SetPorts on the host itself: its keyboard, its API or a script.
HostDrive ==
  /\ RecordOnArrival
  /\ UNCHANGED <<owner, inFlight, clients>>

\* drive_from_bindings of a client that does not predict.  Such an input leaves
\* nothing at its sender, who may send any number of them before it predicts, so
\* that one may be on its way at any time; the host drops it unless it comes
\* from the owner.  The mutant queues it.
UnnumberedQueued(c) ==
  /\ owner = c
  /\ host' = [host EXCEPT !.pending = @ \cup {[by |-> c, seq |-> 0]}]
  /\ UNCHANGED <<owner, hidden, inFlight, clients>>
DriveUnnumbered(c) ==
  /\ owner = c
  /\ RecordOnArrival
  /\ UNCHANGED <<owner, inFlight, clients>>

\* drain_sync_inbox, authorize, record_control_input of a numbered input.  The
\* mutant acknowledges it on arrival.
ReceiveAndAck(c, seq) ==
  /\ seq \in inFlight[c]
  /\ inFlight' = [inFlight EXCEPT ![c] = @ \ {seq}]
  /\ host' = IF owner # c THEN host
             ELSE Recorded(Pushed(host, [by |-> c, seq |-> seq]), owner, seq)
  /\ UNCHANGED <<owner, hidden, clients>>
Receive(c, seq) ==
  /\ seq \in inFlight[c]
  /\ inFlight' = [inFlight EXCEPT ![c] = @ \ {seq}]
  /\ host' = IF owner # c THEN host ELSE Pushed(host, [by |-> c, seq |-> seq])
  /\ UNCHANGED <<owner, hidden, clients>>

\* The sync, then the consumer, which finds what the sync left.
SyncFirst ==
  /\ host' \in Applied(Synced(host))
  /\ hidden' = (hidden /\ ~Behind)

\* The consumer first: if it has anything to integrate, the sync sees nothing.
ApplyFirst ==
  /\ \E h \in Applied(host) : host' = Synced(h)
  /\ hidden' = (hidden \/ (Behind /\ ~Clean))

FixedTick ==
  /\ SyncFirst \/ ApplyFirst
  /\ UNCHANGED <<owner, inFlight, clients>>

----------------------------------------------------------------------------
(* The clients *)

Row(c) == CASE owner = c -> "mine" [] owner = Nobody -> "free" [] OTHER -> "taken"

LearnOwner(c) ==
  /\ table[c] # Row(c)
  /\ table' = [table EXCEPT ![c] = Row(c)]
  /\ UNCHANGED <<owner, hidden, host, inFlight, predicting, nextSeq, seen, reconciled>>

\* maintain_owned_locally: own it and have driven it lately.
Promote(c) ==
  /\ ~predicting[c] /\ table[c] = "mine"
  /\ predicting' = [predicting EXCEPT ![c] = TRUE]
  /\ UNCHANGED <<owner, hidden, host, inFlight, table, nextSeq, seen, reconciled>>

Demote(c) ==
  /\ predicting[c]
  /\ predicting' = [predicting EXCEPT ![c] = FALSE]
  /\ UNCHANGED <<owner, hidden, host, inFlight, table, nextSeq, seen, reconciled>>

\* drive_from_bindings of a client that predicts.
DriveAhead(c) ==
  /\ predicting[c] /\ table[c] # "taken"
  /\ nextSeq[c] < MaxSeq[c]
  /\ nextSeq' = [nextSeq EXCEPT ![c] = @ + 1]
  /\ inFlight' = [inFlight EXCEPT ![c] = @ \cup {nextSeq[c] + 1}]
  /\ UNCHANGED <<owner, hidden, host, table, predicting, seen, reconciled>>

TakeSnapshot(c) ==
  /\ seen' = [seen EXCEPT ![c] = Ack]
  /\ UNCHANGED <<owner, hidden, host, inFlight, table, predicting, nextSeq, reconciled>>

\* reconcile_owned_prediction: only seqs of one's own, and only newer ones.
Reconcile(c) ==
  /\ predicting[c]
  /\ seen[c] <= nextSeq[c]
  /\ seen[c] > reconciled[c]
  /\ reconciled' = [reconciled EXCEPT ![c] = seen[c]]
  /\ UNCHANGED <<owner, hidden, host, inFlight, table, predicting, nextSeq, seen>>

Next ==
  \/ \E s \in Sessions : Possess(s) \/ Release(s)
  \/ HostDrive \/ FixedTick
  \/ \E c \in Clients : \/ \E seq \in inFlight[c] : Receive(c, seq)
                        \/ LearnOwner(c) \/ Promote(c) \/ Demote(c)
                        \/ DriveAhead(c) \/ DriveUnnumbered(c)
                        \/ TakeSnapshot(c) \/ Reconcile(c)

Spec == Init /\ [][Next]_vars

\* The host's fixed schedule and its snapshots keep coming, and a client keeps
\* reconciling.  Nobody has to drive, possess or release, and no input has to
\* arrive.
Fairness ==
  /\ WF_vars(FixedTick)
  /\ \A c \in Clients : WF_vars(TakeSnapshot(c)) /\ WF_vars(Reconcile(c))

FairSpec == Spec /\ Fairness

----------------------------------------------------------------------------
(* Properties *)

TypeOK ==
  /\ owner \in Owners /\ hidden \in BOOLEAN
  /\ host \in HostType
  /\ table \in [Clients -> {"mine", "free", "taken"}] /\ predicting \in [Clients -> BOOLEAN]
  /\ nextSeq \in [Clients -> Seqno]
  /\ inFlight \in [Clients -> SUBSET (Seqno \ {0})]
  /\ seen \in [Clients -> Seqno] /\ reconciled \in [Clients -> Seqno]

\* The host acknowledges an input only once a fixed tick has integrated it, not
\* when it arrives: what it acknowledges is not past the cursor, and what still
\* waits is (record_control_input, apply_buffered_client_inputs).
AcksAreIntegrated ==
  /\ Ack <= host.cursor
  /\ \A i \in host.pending : host.cursor < i.seq

\* What a fixed tick writes to the vessel, a queued input or the last one
\* again, comes from the session that owns it, whoever owned it when the input
\* arrived, unless a change was hidden from the sync; and the next change that
\* it sees puts an end to that, too (sync_applied_seq_owners).
InputsComeFromTheOwner ==
  [][FixedTick /\ ~hidden' /\ host'.latched # NoInput => host'.latched.by = owner]_vars

\* "Any gid whose owner changed loses BOTH its ack watermark and whatever the
\* previous owner had queued" (lunco-core/src/lib.rs:1043): when the slot passes
\* from one owner to another, nothing of the former's is queued or latched.
LosesBoth ==
  [][ host.slot # NoSlot /\ host'.slot # NoSlot /\ host'.slot.owner # host.slot.owner =>
        \A i \in host'.pending \cup ({host'.latched} \ {NoInput}) : i.by # host.slot.owner ]_vars

\* Whoever keeps the vessel and drives it has its inputs integrated and its
\* prediction reconciled up to the last of them, whatever number the previous
\* owner's stream had reached and however often the vessel changed hands, unless
\* a change was hidden, which leaves the cursor where the other stream had it
\* (AppliedInputSeq, reconcile_owned_prediction).
OwnerIsReconciled ==
  \A c \in Clients :
    []<>(owner = c /\ predicting[c] /\ ~hidden
           => host.pending = {} /\ reconciled[c] >= host.cursor)
=============================================================================
