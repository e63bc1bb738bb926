-------------------------- MODULE ControlInputProofs --------------------------
(***************************************************************************)
(* What the host acknowledges and whose inputs it integrates, for any number *)
(* of players, any buffer and any window.  The bounds play no part.          *)
(***************************************************************************)
EXTENDS ControlInput, TLAPS

\* The assumptions on the constants, one by one.
LEMMA Nulls == NoInput \notin Input /\ NoSlot \notin Slot
BY ControlAssumption DEF ControlAssumption

LEMMA Bounds == MaxSeqJump \in Nat /\ \A c \in Clients : MaxSeq[c] \in Nat
BY ControlAssumption DEF ControlAssumption

----------------------------------------------------------------------------
(* The host's record of the vessel *)

\* What holds of it between any two operations: its type, and the ack behind
\* the cursor behind the queue.
Sound(h) ==
  /\ h \in HostType
  /\ h.slot # NoSlot => h.slot.seq <= h.cursor
  /\ \A i \in h.pending : h.cursor < i.seq

LEMMA SeqnosAreNumbers == Seqno \subseteq Nat /\ 0 \in Seqno
<1>1. \A c \in Clients : 0..MaxSeq[c] \subseteq Nat
  BY Bounds
<1> QED
  BY <1>1 DEF Seqno

LEMMA SoundFields ==
  ASSUME NEW h, Sound(h)
  PROVE  /\ h.cursor \in Seqno /\ h.cursor \in Nat /\ 0 <= h.cursor
         /\ h.slot # NoSlot => h.slot.seq \in Nat /\ h.slot.seq <= h.cursor
         /\ \A i \in h.pending : i \in Input /\ i.seq \in Seqno /\ i.seq \in Nat /\ h.cursor < i.seq
<1>1. h.cursor \in Seqno /\ (h.slot # NoSlot => h.slot \in Slot) /\ h.pending \subseteq Input
  BY DEF Sound, HostType
<1>2. h.slot # NoSlot => h.slot.seq \in Seqno
  BY <1>1 DEF Slot
<1>3. \A i \in h.pending : i.seq \in Seqno
  BY <1>1 DEF Input
<1>4. \A n \in Seqno : n \in Nat /\ 0 <= n
  BY SeqnosAreNumbers
<1> QED
  BY <1>1, <1>2, <1>3, <1>4 DEF Sound

\* Recording a seq the cursor has reached binds the slot to its sender and
\* leaves the buffer alone.
LEMMA RecordedIsSound ==
  ASSUME NEW h, Sound(h), NEW by \in Owners, NEW seq \in Seqno, seq <= h.cursor
  PROVE  /\ Sound(Recorded(h, by, seq))
         /\ Recorded(h, by, seq).pending = h.pending
         /\ Recorded(h, by, seq).latched = h.latched
         /\ Recorded(h, by, seq).slot # NoSlot
         /\ Recorded(h, by, seq).slot.owner = by
<1> DEFINE fresh == [owner |-> by, seq |-> 0]
           slot == IF h.slot # NoSlot /\ h.slot.owner = by THEN h.slot ELSE fresh
           new == IF slot.seq = 0 \/ (seq > slot.seq /\ seq <= slot.seq + MaxSeqJump)
                  THEN [slot EXCEPT !.seq = seq] ELSE slot
<1>1. h.cursor \in Nat /\ h.cursor \in Seqno /\ seq \in Nat
  BY SeqnosAreNumbers DEF Sound, HostType
<1>2. slot \in Slot /\ slot.owner = by /\ slot.seq <= h.cursor
  <2>1. fresh \in Slot /\ fresh.owner = by /\ fresh.seq = 0
    BY SeqnosAreNumbers DEF Slot
  <2>2. CASE h.slot # NoSlot /\ h.slot.owner = by
    BY <2>2 DEF Sound, HostType
  <2>3. CASE ~(h.slot # NoSlot /\ h.slot.owner = by)
    BY <1>1, <2>1, <2>3
  <2> QED
    BY <2>2, <2>3
<1>3. new \in Slot /\ new.owner = by /\ new.seq <= h.cursor
  BY <1>1, <1>2, Bounds DEF Slot
<1>4. Recorded(h, by, seq) = [h EXCEPT !.slot = new]
  BY DEF Recorded
<1> HIDE DEF new
<1>5. /\ [h EXCEPT !.slot = new] \in HostType
      /\ [h EXCEPT !.slot = new].slot = new
      /\ [h EXCEPT !.slot = new].pending = h.pending
      /\ [h EXCEPT !.slot = new].latched = h.latched
      /\ [h EXCEPT !.slot = new].cursor = h.cursor
  BY <1>3 DEF Sound, HostType
<1>6. new # NoSlot
  BY <1>3, Nulls
<1> QED
  BY <1>3, <1>4, <1>5, <1>6 DEF Sound

\* An input that is queued waits past the cursor; the rest of the record stays.
LEMMA PushedIsSound ==
  ASSUME NEW h, Sound(h), NEW input \in Input
  PROVE  /\ Sound(Pushed(h, input))
         /\ Pushed(h, input).pending \subseteq h.pending \cup {input}
         /\ Pushed(h, input).latched = h.latched
         /\ Pushed(h, input).slot = h.slot
<1> DEFINE queue == {i \in h.pending : i.seq # input.seq} \cup {input}
<1>1. CASE input.seq > h.cursor /\ Plausible(h, input.seq)
  <2>1. Pushed(h, input) = [h EXCEPT !.pending = queue]
    BY <1>1 DEF Pushed
  <2>2. queue \subseteq h.pending \cup {input} /\ queue \in SUBSET Input
    BY DEF Sound, HostType
  <2>3. \A i \in queue : h.cursor < i.seq
    <3> TAKE i \in queue
    <3>1. CASE i \in h.pending
      BY <3>1 DEF Sound
    <3>2. CASE i = input
      <4>1. h.cursor \in Nat /\ input.seq \in Nat
        BY SeqnosAreNumbers DEF Sound, HostType, Input
      <4> QED
        BY <1>1, <3>2, <4>1
    <3> QED
      BY <3>1, <3>2
  <2> HIDE DEF queue
  <2>4. /\ [h EXCEPT !.pending = queue] \in HostType
        /\ [h EXCEPT !.pending = queue].pending = queue
        /\ [h EXCEPT !.pending = queue].cursor = h.cursor
        /\ [h EXCEPT !.pending = queue].latched = h.latched
        /\ [h EXCEPT !.pending = queue].slot = h.slot
    BY <2>2 DEF Sound, HostType
  <2> QED
    BY <2>1, <2>2, <2>3, <2>4 DEF Sound
<1>2. CASE ~(input.seq > h.cursor /\ Plausible(h, input.seq))
  BY <1>2 DEF Pushed
<1> QED
  BY <1>1, <1>2

\* After the sync the slot is the owner's or was never there.
LEMMA SyncedIsSound ==
  ASSUME NEW h, Sound(h), owner \in Owners
  PROVE  Sound(Synced(h)) /\ (Synced(h).slot # NoSlot => Synced(h).slot.owner = owner)
<1> DEFINE empty == [pending |-> {}, cursor |-> 0, latched |-> NoInput,
                     slot |-> [owner |-> owner, seq |-> 0]]
<1>1. CASE h.slot # NoSlot /\ h.slot.owner # owner
  <2>1. empty \in HostType
    BY SeqnosAreNumbers DEF HostType, Slot
  <2>2. empty.pending = {} /\ empty.slot.seq <= empty.cursor /\ empty.slot.owner = owner
    OBVIOUS
  <2>3. Synced(h) = empty
    BY <1>1 DEF Synced
  <2> QED
    BY <2>1, <2>2, <2>3 DEF Sound
<1>2. CASE ~(h.slot # NoSlot /\ h.slot.owner # owner)
  BY <1>2 DEF Synced
<1> QED
  BY <1>1, <1>2

\* A tick integrates one queued input, or the last one again, and binds the
\* slot to the owner; or it finds nothing to integrate.
LEMMA AppliedIsSound ==
  ASSUME NEW h, Sound(h), owner \in Owners, NEW k \in Applied(h)
  PROVE  /\ Sound(k)
         /\ k.pending \subseteq h.pending
         /\ k.latched \in h.pending \cup {h.latched}
         /\ \/ k.slot # NoSlot /\ k.slot.owner = owner
            \/ k = h /\ h.pending = {} /\ h.latched = NoInput
<1>1. CASE h.pending = {} /\ h.latched = NoInput
  BY <1>1 DEF Applied
<1>2. CASE h.pending = {} /\ h.latched # NoInput
  <2>1. k = Recorded(h, owner, h.cursor)
    BY <1>2 DEF Applied
  <2>2. h.cursor \in Seqno /\ h.cursor <= h.cursor
    BY SoundFields
  <2> QED
    BY <2>1, <2>2, RecordedIsSound
<1>3. CASE h.pending # {}
  <2>1. PICK i \in h.pending :
          k = Recorded([h EXCEPT !.pending = {m \in @ : m.seq > i.seq},
                                 !.cursor = i.seq, !.latched = i], owner, i.seq)
    BY <1>3 DEF Applied, Due
  <2> DEFINE rest == {m \in h.pending : m.seq > i.seq}
             used == [h EXCEPT !.pending = rest, !.cursor = i.seq, !.latched = i]
  <2>2. i \in Input /\ i.seq \in Seqno /\ i.seq \in Nat /\ h.cursor \in Nat /\ h.cursor < i.seq
    BY SoundFields
  <2>3. rest \in SUBSET Input /\ rest \subseteq h.pending /\ \A m \in rest : i.seq < m.seq
    <3>1. \A m \in h.pending : m \in Input /\ m.seq \in Nat
      BY SoundFields
    <3> QED
      BY <2>2, <3>1
  <2>4. h.slot # NoSlot => h.slot.seq <= i.seq
    BY <2>2, SoundFields
  <2>5. k = Recorded(used, owner, i.seq)
    BY <2>1
  <2> HIDE DEF rest
  <2>6. /\ used \in HostType
        /\ used.pending = rest /\ used.cursor = i.seq /\ used.latched = i /\ used.slot = h.slot
    BY <2>2, <2>3 DEF Sound, HostType
  <2> HIDE DEF used
  <2>7. Sound(used)
    BY <2>3, <2>4, <2>6 DEF Sound
  <2> QED
    BY <2>2, <2>3, <2>5, <2>6, <2>7, RecordedIsSound
<1> QED
  BY <1>1, <1>2, <1>3

\* What the host's two systems make of the record in one tick.
LEMMA TickedIsSound ==
  ASSUME Sound(host), owner \in Owners, FixedTick
  PROVE  Sound(host')
<1>1. CASE SyncFirst
  BY <1>1, SyncedIsSound, AppliedIsSound DEF SyncFirst
<1>2. CASE ApplyFirst
  BY <1>2, SyncedIsSound, AppliedIsSound DEF ApplyFirst
<1> QED
  BY <1>1, <1>2 DEF FixedTick

----------------------------------------------------------------------------
(* Types and acknowledgements *)

IInv == TypeOK /\ Sound(host)

LEMMA InitIInv == Init => IInv
<1> SUFFICES ASSUME Init
             PROVE  IInv
  OBVIOUS
<1>1. Sound(host)
  BY SeqnosAreNumbers DEF Init, Sound, HostType
<1>2. TypeOK
  BY <1>1, SeqnosAreNumbers DEF Init, TypeOK, Sound, Owners
<1> QED
  BY <1>1, <1>2 DEF IInv

\* An unnumbered input is recorded at once.
LEMMA RecordedOnArrival ==
  ASSUME IInv, RecordOnArrival
  PROVE  /\ Sound(host') /\ hidden' \in BOOLEAN
         /\ host'.pending = host.pending /\ host'.latched = host.latched
         /\ host'.slot # NoSlot
<1>1. 0 \in Seqno /\ 0 <= host.cursor /\ owner \in Owners /\ Sound(host)
  BY SoundFields, SeqnosAreNumbers DEF IInv, TypeOK
<1>2. host' = Recorded(host, owner, 0) /\ hidden' \in BOOLEAN
  BY DEF RecordOnArrival
<1> QED
  BY <1>1, <1>2, RecordedIsSound

\* A numbered one waits.
LEMMA ReceivedIsSound ==
  ASSUME IInv, NEW c \in Clients, NEW seq \in inFlight[c]
  PROVE  /\ [by |-> c, seq |-> seq] \in Input
         /\ Sound(Pushed(host, [by |-> c, seq |-> seq]))
<1>1. seq \in Seqno \ {0}
  BY DEF IInv, TypeOK
<1>2. [by |-> c, seq |-> seq] \in Input
  BY <1>1 DEF Input
<1> QED
  BY <1>2, PushedIsSound DEF IInv

LEMMA NextIInv == IInv /\ [Next]_vars => IInv'
<1> SUFFICES ASSUME IInv, [Next]_vars
             PROVE  IInv'
  OBVIOUS
<1> USE DEF IInv
<1>0. TypeOK /\ Sound(host) /\ owner \in Owners
  BY DEF TypeOK
<1>1. ASSUME NEW s \in Sessions, Possess(s) \/ Release(s)
      PROVE  IInv'
  <2>1. hidden' \in BOOLEAN
    BY <1>1 DEF Possess, Release
  <2>2. owner' \in Owners /\ UNCHANGED <<host, inFlight, clients>>
    BY <1>1 DEF Possess, Release, Owners
  <2> QED
    BY <2>1, <2>2 DEF TypeOK, clients, Sound
<1>2. ASSUME HostDrive \/ \E c \in Clients : DriveUnnumbered(c)
      PROVE  IInv'
  <2>1. RecordOnArrival /\ UNCHANGED <<owner, inFlight, clients>>
    BY <1>2 DEF HostDrive, DriveUnnumbered
  <2>2. Sound(host') /\ hidden' \in BOOLEAN
    BY <2>1, RecordedOnArrival
  <2> QED
    BY <2>1, <2>2 DEF TypeOK, clients, Sound
<1>3. CASE FixedTick
  <2>1. Sound(host')
    BY <1>0, <1>3, TickedIsSound
  <2>2. hidden' \in BOOLEAN /\ UNCHANGED <<owner, inFlight, clients>>
    BY <1>3 DEF FixedTick, SyncFirst, ApplyFirst
  <2> QED
    BY <2>1, <2>2 DEF TypeOK, clients, Sound
<1>4. ASSUME NEW c \in Clients, NEW seq \in inFlight[c], Receive(c, seq)
      PROVE  IInv'
  <2>1. Sound(host')
    BY <1>0, <1>4, ReceivedIsSound DEF Receive
  <2> QED
    BY <1>4, <2>1 DEF Receive, TypeOK, clients, Sound
<1>5. ASSUME NEW c \in Clients, LearnOwner(c) \/ Promote(c) \/ Demote(c)
      PROVE  IInv'
  <2>1. Row(c) \in {"mine", "free", "taken"}
    BY DEF Row
  <2> QED
    BY <1>5, <2>1 DEF LearnOwner, Promote, Demote, TypeOK, Sound
<1>6. ASSUME NEW c \in Clients, DriveAhead(c)
      PROVE  IInv'
  <2>1. nextSeq[c] + 1 \in Seqno \ {0}
    <3>1. nextSeq[c] \in Nat /\ MaxSeq[c] \in Nat /\ nextSeq[c] < MaxSeq[c]
      BY <1>6, Bounds, SeqnosAreNumbers DEF TypeOK, DriveAhead
    <3>2. nextSeq[c] + 1 \in 0..MaxSeq[c] /\ nextSeq[c] + 1 # 0
      BY <3>1
    <3> QED
      BY <3>2 DEF Seqno
  <2> QED
    BY <1>6, <2>1 DEF DriveAhead, TypeOK, Sound
<1>7. ASSUME NEW c \in Clients, TakeSnapshot(c) \/ Reconcile(c)
      PROVE  IInv'
  <2>1. Ack \in Seqno
    BY SeqnosAreNumbers DEF Ack, TypeOK, HostType, Slot
  <2> QED
    BY <1>7, <2>1 DEF TakeSnapshot, Reconcile, TypeOK, Sound
<1>8. CASE UNCHANGED vars
  BY <1>8 DEF vars, clients, TypeOK, Sound
<1> QED
  BY <1>1, <1>2, <1>3, <1>4, <1>5, <1>6, <1>7, <1>8 DEF Next

LEMMA Invariant == Spec => []IInv
BY InitIInv, NextIInv, PTL DEF Spec

\* Ownership, buffer, acknowledgements and predictions keep their types.
THEOREM TypeCorrect == Spec => []TypeOK
BY Invariant, PTL DEF IInv

\* The host never acknowledges an input no tick has integrated.
THEOREM AcksFollowTicks == Spec => []AcksAreIntegrated
<1>1. IInv => AcksAreIntegrated
  BY SoundFields DEF IInv, AcksAreIntegrated, Ack
<1> QED
  BY <1>1, Invariant, PTL

----------------------------------------------------------------------------
(* Whose inputs are integrated *)

\* The vessel's record holds nobody's inputs but the owner's.
Held(h) ==
  /\ \A i \in h.pending : i.by = owner
  /\ h.latched # NoInput => h.latched.by = owner

\* Unless a change was hidden, the record is the owner's or the next sync clears
\* it; and what is latched has a slot, by which the sync would see a change.
Traced ==
  /\ host.latched # NoInput => host.slot # NoSlot
  /\ hidden \/ Behind \/ Held(host)

\* After a tick that hid nothing the record is the owner's: the sync cleared it
\* before the consumer took an input, or there was nothing to clear.
LEMMA TickedHeld ==
  ASSUME IInv, Traced, FixedTick
  PROVE  /\ host'.latched # NoInput => host'.slot # NoSlot
         /\ hidden' \/ Held(host')
<1>1. owner \in Owners /\ Sound(host) /\ hidden \in BOOLEAN
  BY DEF IInv, TypeOK
<1>2. ASSUME NEW h, Sound(h), NEW k \in Applied(h)
      PROVE  /\ Held(h) => Held(k)
             /\ k.latched # NoInput => k.slot # NoSlot
  <2>1. /\ k.pending \subseteq h.pending
        /\ k.latched \in h.pending \cup {h.latched}
        /\ \/ k.slot # NoSlot /\ k.slot.owner = owner
           \/ k = h /\ h.pending = {} /\ h.latched = NoInput
    BY <1>1, <1>2, AppliedIsSound
  <2> QED
    BY <2>1 DEF Held
<1>3. ASSUME NEW h
      PROVE  /\ Held(h) => Held(Synced(h))
             /\ (h.latched # NoInput => h.slot # NoSlot)
                  => (Synced(h).latched # NoInput => Synced(h).slot # NoSlot)
  BY DEF Held, Synced
<1>4. Behind => Held(Synced(host))
  BY DEF Behind, Held, Synced
<1>5. CASE SyncFirst
  <2>1. host' \in Applied(Synced(host)) /\ (hidden' \/ ~hidden \/ Behind)
    BY <1>1, <1>5 DEF SyncFirst
  <2>2. hidden' \/ Held(Synced(host))
    BY <1>3, <1>4, <2>1 DEF Traced
  <2> QED
    BY <1>1, <1>2, <2>1, <2>2, SyncedIsSound
<1>6. CASE ApplyFirst
  <2>1. PICK h \in Applied(host) : host' = Synced(h)
    BY <1>6 DEF ApplyFirst
  <2>2. (h.latched # NoInput => h.slot # NoSlot) /\ (Held(host) => Held(h))
    BY <1>1, <1>2
  <2>3. hidden' \/ (~hidden /\ (~Behind \/ Clean))
    BY <1>1, <1>6 DEF ApplyFirst
  <2>4. Clean => Held(host)
    BY DEF Clean, Held
  <2> QED
    BY <1>3, <2>1, <2>2, <2>3, <2>4 DEF Traced
<1> QED
  BY <1>5, <1>6 DEF FixedTick

LEMMA TracedNext ==
  ASSUME IInv, Traced, [Next]_vars
  PROVE  Traced'
<1>1. owner \in Owners /\ Sound(host) /\ hidden \in BOOLEAN
  BY DEF IInv, TypeOK
<1>2. ASSUME NEW s, host' = host, owner' = s, hidden' = (hidden \/ Unseen(s))
      PROVE  Traced'
  <2>1. host.slot = NoSlot /\ host.pending = {} => Held(host)'
    BY <1>2 DEF Traced, Held
  <2>2. host.slot # NoSlot /\ host.slot.owner # s => Behind'
    BY <1>2 DEF Behind
  <2>3. Clean => Held(host)'
    BY <1>2 DEF Clean, Held
  <2>4. hidden' \/ Behind' \/ Held(host)'
    BY <1>2, <2>1, <2>2, <2>3 DEF Unseen
  <2> QED
    BY <1>2, <2>4 DEF Traced
<1>3. ASSUME NEW s \in Sessions, Possess(s) \/ Release(s)
      PROVE  Traced'
  BY <1>2, <1>3 DEF Possess, Release
<1>4. ASSUME HostDrive \/ \E c \in Clients : DriveUnnumbered(c)
      PROVE  Traced'
  <2>1. RecordOnArrival /\ owner' = owner
    BY <1>4 DEF HostDrive, DriveUnnumbered
  <2>2. /\ host'.pending = host.pending /\ host'.latched = host.latched
        /\ host'.slot # NoSlot
    BY <2>1, RecordedOnArrival
  <2>3. hidden' \/ (~hidden /\ (~Behind \/ Clean))
    BY <1>1, <2>1 DEF RecordOnArrival
  <2>4. hidden' \/ Held(host)
    BY <2>3 DEF Traced, Clean, Held
  <2>5. Held(host) => Held(host)'
    BY <2>1, <2>2 DEF Held
  <2> QED
    BY <2>2, <2>4, <2>5 DEF Traced
<1>5. CASE FixedTick
  <2>1. owner' = owner
    BY <1>5 DEF FixedTick
  <2>2. (host'.latched # NoInput => host'.slot # NoSlot) /\ (hidden' \/ Held(host'))
    BY <1>5, TickedHeld
  <2>3. Held(host') => Held(host)'
    BY <2>1 DEF Held
  <2> QED
    BY <2>2, <2>3 DEF Traced
<1>6. ASSUME NEW c \in Clients, NEW seq \in inFlight[c], Receive(c, seq)
      PROVE  Traced'
  <2>1. CASE owner # c
    BY <1>6, <2>1 DEF Receive, Traced, Behind, Held
  <2>2. CASE owner = c
    <3> DEFINE input == [by |-> c, seq |-> seq]
    <3>1. input \in Input /\ input.by = owner
      BY <2>2, ReceivedIsSound
    <3>2. host' = Pushed(host, input) /\ UNCHANGED <<owner, hidden>>
      BY <1>6, <2>2 DEF Receive
    <3> HIDE DEF input
    <3>3. /\ host'.pending \subseteq host.pending \cup {input}
          /\ host'.latched = host.latched /\ host'.slot = host.slot
      BY <1>1, <3>1, <3>2, PushedIsSound
    <3> QED
      BY <3>1, <3>2, <3>3 DEF Traced, Behind, Held
  <2> QED
    BY <2>1, <2>2
<1>7. CASE UNCHANGED <<owner, hidden, host>>
  BY <1>7 DEF Traced, Behind, Held
<1>8. ASSUME NEW c \in Clients,
             \/ LearnOwner(c) \/ Promote(c) \/ Demote(c) \/ DriveAhead(c)
             \/ TakeSnapshot(c) \/ Reconcile(c)
      PROVE  UNCHANGED <<owner, hidden, host>>
  BY <1>8 DEF LearnOwner, Promote, Demote, DriveAhead, TakeSnapshot, Reconcile
<1> QED
  BY <1>3, <1>4, <1>5, <1>6, <1>7, <1>8 DEF Next, vars

\* A tick integrates the inputs of the vessel's owner and nobody else's, unless a
\* change of owner was hidden from the sync and it has cleared nothing since: for
\* any number of players and handovers, in any order of the tick's two systems.
THEOREM InputsAreTheOwners == Spec => InputsComeFromTheOwner
<1>1. Init => Traced
  BY DEF Init, Traced, Held
<1>2. IInv /\ Traced /\ [Next]_vars => Traced'
  BY TracedNext
<1>3. IInv /\ Traced =>
        [FixedTick /\ ~hidden' /\ host'.latched # NoInput => host'.latched.by = owner]_vars
  BY TickedHeld DEF Held
<1> QED
  BY <1>1, <1>2, <1>3, Invariant, PTL DEF Spec, InputsComeFromTheOwner
=============================================================================
