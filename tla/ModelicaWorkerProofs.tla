------------------------ MODULE ModelicaWorkerProofs ------------------------
(* Modelica models and their worker agree, for every cast and any number of *)
(* models: types, the order of what is under way, and one invariant of each *)
(* model that says what its component, the commands that wait, the worker's *)
(* stepper and the answers under way have to do with one another.           *)
EXTENDS ModelicaWorker, TLAPS, SequenceTheorems, FiniteSetTheorems, Recursion

----------------------------------------------------------------------------
(* What has been sent and waits for the worker, and what it has answered.   *)

Sent == Range(batch) \union Range(stepLane) \union Range(compileLane) \union Range(channel)
Told == Range(results)

\* A command and an answer as they are made.
Posted ==
    {c \in Command :
        /\ c.kind = "Load" <=> c.model = Absent
        /\ c.kind \in {"Compile", "Update", "Step"} => c.source \in Source
        /\ c.kind # "Step" => c.id = 0}
Given ==
    {r \in Answer :
        /\ r.kind = "Load" <=> r.model = Absent
        /\ r.kind \notin Lifecycle \union {"Load"} => r.error # "compile"
        /\ r.kind # "Step" => r.id = 0}

Typed ==
    /\ TypeOK
    /\ channel \in Seq(Posted) /\ stepLane \in Seq(Posted)
    /\ compileLane \in Seq(Posted) /\ batch \in Seq(Posted)
    /\ results \in Seq(Given)

----------------------------------------------------------------------------
(* One model's end of the protocol: its component k, the source a it was    *)
(* last asked to compile, the worker's state w of it, the commands s that   *)
(* wait for it, the answers t under way, and the models u of which a        *)
(* failure was dropped.                                                     *)

Removal(x) == x.kind = "Despawn"
Current(k, x) == k # Absent /\ ~Removal(x) /\ x.session = k.session
Sources == {"Compile", "Update"}

\* Nothing was asked of the worker, and the worker knows nothing.
Unasked(k, a, w, s, t) ==
    a = Absent =>
        /\ \A x \in s : Removal(x)
        /\ t = {}
        /\ w = Unknown
        /\ k # Absent => ~k.compiled

\* The class of the component is the class that was asked for.
Classed(m, k, a, s) ==
    /\ k # Absent /\ a # Absent => a.class = k.class
    /\ m \in Workbench => (a # Absent <=> k # Absent) /\ \A x \in s : ~Removal(x)
    /\ m \notin Workbench => (a # Absent => a.class = Own) /\ (k # Absent => k.class = Own)

\* Sessions are begun by the component and only then heard of by the worker.
SessionsFollow(k, w, s, t) ==
    /\ \A x \in s : ~Removal(x) => w.current <= x.session
    /\ k # Absent => /\ w.current <= k.session
                     /\ \A x \in s \union t : ~Removal(x) => x.session <= k.session

\* A step is the only thing under way, and where none is awaited nothing is.
StepsAreAlone(k, s, t) ==
    k # Absent =>
        /\ k.compiled /\ ~k.stepping => t = {} /\ \A x \in s : Removal(x)
        /\ \A x \in s \union t :
              x.kind = "Step" /\ x.session = k.session =>
                  k.compiled /\ k.stepping /\ k.inFlight # 0 /\ x.id = k.inFlight
        /\ \A x \in s : x.kind = "Step" /\ x.session = k.session =>
              t = {} /\ \A y \in s : Removal(y) \/ y = x
        /\ \A x \in t : x.kind = "Step" /\ x.session = k.session =>
              t = {x} /\ \A y \in s : Removal(y)

SourcesAreAsked(k, a, s, t) ==
    \A x \in s \union t : Current(k, x) /\ x.kind \in Sources => x.source = a

\* A component that came after a removal starts from nothing in the worker.
RemovedIsUnknown(k, w, s) == k # Absent /\ (\E x \in s : Removal(x)) => w = Unknown

Pending(s) == {x \in s : x.kind \in Sources}
LostOf(a, r) ==
    \/ r.error = "panic"
    \/ r.kind \in Sources /\ r.error # "none" /\ r.source = a

\* The worker has the source that was asked for or is about to, or the failure
\* to take it is known, about to be known or was dropped.
Settled(m, k, a, w, s, t, u) ==
    IF Pending(s) # {}
    THEN \E x \in Pending(s) :
            x.source = a /\ \A y \in Pending(s) : y = x \/ Earlier(y, x)
    ELSE \/ a = Absent
         \/ w.cache = a
         \/ \E r \in t : LostOf(a, r)
         \/ k # Absent => ~k.compiled
         \/ m \in u

\* The worker's stepper is the one the component has in mind, at this time.
Tuned(k, w, time) ==
    IF w.cache = Absent THEN w.stepper = Absent
    ELSE w.stepper = [session |-> k.session, source |-> w.cache, time |-> time]

AnswersAreTrue(k, w, t) ==
    \A r \in t : Current(k, r) =>
        \/ /\ r.kind \in Lifecycle
           /\ r.error = "none" => Tuned(k, w, 0)
           /\ r.error = "none" /\ r.kind \in Sources => w.cache = r.source
        \/ /\ r.kind = "Step"
           /\ r.error # "clock"
           /\ r.error = "none" => r.time = k.time + 1 /\ Tuned(k, w, k.time + 1)

StepsAreDue(k, w, s) ==
    \A x \in s : Current(k, x) /\ x.kind = "Step" =>
        x.start = k.time /\ x.source.class = k.class /\ Tuned(k, w, k.time)

ReadyIsTuned(k, w) ==
    k # Absent /\ k.compiled /\ ~k.stepping => Tuned(k, w, k.time)

Good(m, k, a, w, s, t, u) ==
    /\ Unasked(k, a, w, s, t)
    /\ Classed(m, k, a, s)
    /\ SessionsFollow(k, w, s, t)
    /\ StepsAreAlone(k, s, t)
    /\ SourcesAreAsked(k, a, s, t)
    /\ RemovedIsUnknown(k, w, s)
    /\ Settled(m, k, a, w, s, t, u)
    /\ AnswersAreTrue(k, w, t)
    /\ StepsAreDue(k, w, s)
    /\ ReadyIsTuned(k, w)

Of(m, items) == {x \in items : x.model = m}
GoodModel(m) ==
    Good(m, model[m], asked[m], worker[m], Of(m, Sent), Of(m, Told), unheard)

----------------------------------------------------------------------------
(* The order of what is under way.                                          *)

\* What may be said of a that is ahead of b.
Before(a, b) ==
    /\ a.model = b.model /\ a.model \in Models \ returned /\ ~Removal(a) =>
          IF Removal(b) THEN ~Present(a.model) ELSE Earlier(a, b)
    /\ b.kind = "Load" => a.model \notin Workbench

Order == {p \in (Posted \union Given) \X (Posted \union Given) : Before(p[1], p[2])}

Row(order, s) == \A i, j \in DOMAIN s : i < j => <<s[i], s[j]>> \in order
Ahead(order, s, t) == \A x \in Range(s), y \in Range(t) : <<x, y>> \in order

\* The answers, the round, the lanes and the channel, each in order and before
\* the next.
Lined(order, told, round, steps, compiles, sent) ==
    /\ Row(order, told) /\ Row(order, round) /\ Row(order, steps)
    /\ Row(order, compiles) /\ Row(order, sent)
    /\ Ahead(order, told, round) /\ Ahead(order, told, steps)
    /\ Ahead(order, told, compiles) /\ Ahead(order, told, sent)
    /\ Ahead(order, round, steps) /\ Ahead(order, round, compiles)
    /\ Ahead(order, round, sent)
    /\ Ahead(order, steps, compiles) /\ Ahead(order, steps, sent)
    /\ Ahead(order, compiles, sent)
Ordered == Lined(Order, results, batch, stepLane, compileLane, channel)

\* The library is asked for once, before anything of the workbench is compiled.
LibraryFirst ==
    /\ roots = "unloaded" =>
          /\ \A m \in Workbench : ~Present(m)
          /\ \A x \in Sent \union Told : x.kind # "Load"
    /\ \A x \in Sent : x.kind = "Load" =>
          /\ \A m \in Workbench : Present(m) => ~model[m].compiled
          /\ \A y \in Sent : y.kind = "Step" => y.model \notin Workbench
          /\ \A y \in Told : y.model \notin Workbench
    /\ returned \subseteq Networks

IInv ==
    /\ Typed
    /\ Ordered
    /\ \A m \in Models \ returned : GoodModel(m)
    /\ LibraryFirst
    /\ NoProtocolFault

----------------------------------------------------------------------------
(* One model.                                                               *)

Sorts(m, k, a, w, s, t) ==
    /\ k \in Component \union {Absent} /\ a \in Source \union {Absent} /\ w \in WorkerOf
    /\ s \in SUBSET Posted /\ t \in SUBSET Given
    /\ \A x \in s \union t : x.model = m

\* Absent is no component and no source.
LEMMA AbsentIsNone ==
    /\ \A k \in Component : k # Absent
    /\ \A x \in Source : x # Absent
    /\ \A x \in Stepper : x # Absent
BY AbsentAssumption

\* What a command and an answer are.
LEMMA PostedFields ==
    ASSUME NEW c \in Posted
    PROVE  /\ c.kind \in {"Compile", "Update", "Reset", "Step", "Despawn", "Load"}
           /\ c.model \in Models \union {Absent} /\ c.session \in Nat /\ c.id \in Nat
           /\ c.start \in Nat /\ c.source \in Source \union {Absent}
           /\ c.kind = "Load" <=> c.model = Absent
           /\ c.kind \in {"Compile", "Update", "Step"} => c.source \in Source
           /\ c.kind # "Step" => c.id = 0
BY DEF Posted, Command

LEMMA GivenFields ==
    ASSUME NEW r \in Given
    PROVE  /\ r.kind \in {"Compile", "Update", "Reset", "Step", "Load", "plain"}
           /\ r.model \in Models \union {Absent} /\ r.session \in Nat /\ r.id \in Nat
           /\ r.time \in Nat /\ r.error \in Error /\ r.source \in Source \union {Absent}
           /\ r.kind = "Load" <=> r.model = Absent
           /\ r.kind \notin Lifecycle \union {"Load"} => r.error # "compile"
           /\ r.kind # "Step" => r.id = 0
BY DEF Given, Answer

LEMMA ComponentFields ==
    ASSUME NEW k \in Component
    PROVE  /\ k # Absent /\ k.session \in Nat /\ k.class \in Classes \union {Own}
           /\ k.paused \in BOOLEAN /\ k.compiled \in BOOLEAN /\ k.compiling \in BOOLEAN
           /\ k.stepping \in BOOLEAN /\ k.resume \in BOOLEAN
           /\ k.inFlight \in Nat /\ k.nextStep \in Nat \ {0} /\ k.time \in Nat
           /\ k.compiledEdition \in Nat /\ k.pendingEdition \in Nat
BY AbsentIsNone DEF Component

\* Only how the component stands to the protocol counts.
LEMMA GoodAlike ==
    ASSUME NEW m, NEW k \in Component, NEW k2 \in Component, NEW a, NEW w, NEW s, NEW t, NEW u,
           Good(m, k, a, w, s, t, u),
           k2.session = k.session, k2.class = k.class, k2.compiled = k.compiled,
           k2.stepping = k.stepping, k2.inFlight = k.inFlight, k2.time = k.time
    PROVE  Good(m, k2, a, w, s, t, u)
<1>1. k # Absent /\ k2 # Absent
  BY ComponentFields
<1>2. \A x : Current(k2, x) <=> Current(k, x)
  BY <1>1 DEF Current
<1>3. \A time : Tuned(k2, w, time) <=> Tuned(k, w, time)
  BY DEF Tuned
<1>4. Unasked(k2, a, w, s, t) /\ Classed(m, k2, a, s) /\ SessionsFollow(k2, w, s, t)
  BY <1>1 DEF Good, Unasked, Classed, SessionsFollow
<1>5. StepsAreAlone(k2, s, t) /\ SourcesAreAsked(k2, a, s, t) /\ RemovedIsUnknown(k2, w, s)
  BY <1>1, <1>2 DEF Good, StepsAreAlone, SourcesAreAsked, RemovedIsUnknown
<1>6. Settled(m, k2, a, w, s, t, u)
  BY <1>1 DEF Good, Settled
<1>7. AnswersAreTrue(k2, w, t) /\ StepsAreDue(k2, w, s) /\ ReadyIsTuned(k2, w)
  BY <1>1, <1>2, <1>3 DEF Good, AnswersAreTrue, StepsAreDue, ReadyIsTuned
<1> QED
  BY <1>4, <1>5, <1>6, <1>7 DEF Good

\* A session the worker has not heard of: nothing under way is current.
LEMMA NothingCurrent ==
    ASSUME NEW m, NEW k, NEW k2 \in Component, NEW a, NEW w, NEW s, NEW t,
           Sorts(m, k, a, w, s, t), Unasked(k, a, w, s, t), SessionsFollow(k, w, s, t),
           IF k = Absent THEN a = Absent ELSE k2.session = k.session + 1
    PROVE  /\ \A x \in s \union t : ~Removal(x) =>
                 x.session < k2.session /\ ~Current(k2, x)
           /\ w.current <= k2.session
<1>1. k2 # Absent /\ k2.session \in Nat
  BY ComponentFields
<1>2. \A x \in s \union t : x.session \in Nat
  BY PostedFields, GivenFields DEF Sorts
<1>3. CASE k = Absent
  <2>1. \A x \in s : Removal(x)
    BY <1>3 DEF Unasked
  <2>2. t = {} /\ w = Unknown
    BY <1>3 DEF Unasked
  <2> QED
    BY <1>1, <2>1, <2>2 DEF Unknown
<1>4. CASE k # Absent
  <2>1. k.session \in Nat
    BY <1>4, ComponentFields DEF Sorts
  <2>2. w.current \in Nat
    BY DEF Sorts, WorkerOf
  <2> QED
    BY <1>1, <1>2, <1>4, <2>1, <2>2 DEF SessionsFollow, Current
<1> QED
  BY <1>3, <1>4

\* A new session and no command: a parameter without a document, or a network
\* that cannot be generated.
LEMMA GoodSilently ==
    ASSUME NEW m, NEW k, NEW k2 \in Component, NEW a, NEW w, NEW s, NEW t, NEW u,
           Sorts(m, k, a, w, s, t), Good(m, k, a, w, s, t, u),
           IF k = Absent THEN a = Absent /\ ~k2.compiled
           ELSE k2.session = k.session + 1 /\ (k2.compiled => k.compiled),
           m \notin Workbench, k2.class = Own, k2.compiled => k2.stepping
    PROVE  Good(m, k2, a, w, s, t, u)
<1>1. k2 # Absent /\ k2.session \in Nat
  BY ComponentFields
<1>2. /\ \A x \in s \union t : ~Removal(x) => x.session < k2.session /\ ~Current(k2, x)
      /\ w.current <= k2.session
  BY NothingCurrent DEF Good
<1>3. Unasked(k2, a, w, s, t)
  BY DEF Good, Unasked
<1>4. Classed(m, k2, a, s)
  BY DEF Good, Classed
<1>5. SessionsFollow(k2, w, s, t)
  <2>1. \A x \in s \union t : x.session \in Nat
    BY PostedFields, GivenFields DEF Sorts
  <2> QED
    BY <1>1, <1>2, <2>1 DEF Good, SessionsFollow
<1>6. StepsAreAlone(k2, s, t)
  BY <1>1, <1>2 DEF StepsAreAlone, Current, Removal
<1>7. SourcesAreAsked(k2, a, s, t) /\ AnswersAreTrue(k2, w, t) /\ StepsAreDue(k2, w, s)
  BY <1>1, <1>2 DEF SourcesAreAsked, AnswersAreTrue, StepsAreDue, Current
<1>8. RemovedIsUnknown(k2, w, s)
  BY DEF Good, RemovedIsUnknown, Unasked
<1>9. Settled(m, k2, a, w, s, t, u)
  BY <1>1 DEF Good, Settled
<1>10. ReadyIsTuned(k2, w)
  BY DEF ReadyIsTuned
<1> QED
  BY <1>3, <1>4, <1>5, <1>6, <1>7, <1>8, <1>9, <1>10 DEF Good

\* A new session and the command that begins it.
LEMMA GoodBegun ==
    ASSUME NEW m \in Models, NEW k, NEW k2 \in Component, NEW a, NEW a2 \in Source, NEW w, NEW s, NEW t,
           NEW u, NEW u2, NEW c \in Posted,
           Sorts(m, k, a, w, s, t), Good(m, k, a, w, s, t, u),
           IF k = Absent THEN a = Absent /\ ~k2.compiled
           ELSE k2.session = k.session + 1 /\ (k2.compiled => k.compiled),
           c.model = m, c.session = k2.session, c.kind \in Lifecycle,
           k2.compiled => k2.stepping,
           m \notin Workbench => k2.class = Own,
           a2.class = k2.class,
           IF c.kind \in Sources THEN a2 = c.source ELSE a2 = a /\ (m \in u => m \in u2)
    PROVE  Good(m, k2, a2, w, s \union {c}, t, u2)
<1>1. k2 # Absent /\ k2.session \in Nat /\ a2 # Absent
  BY ComponentFields, AbsentIsNone
<1>2. /\ \A x \in s \union t : ~Removal(x) => x.session < k2.session /\ ~Current(k2, x)
      /\ w.current <= k2.session
  BY NothingCurrent DEF Good
<1>3. c.id = 0 /\ c.kind # "Step" /\ c.session = k2.session /\ ~Removal(c)
  BY PostedFields DEF Lifecycle, Removal
<1>4. Unasked(k2, a2, w, s \union {c}, t)
  BY <1>1 DEF Unasked
<1>5. Classed(m, k2, a2, s \union {c})
  BY <1>1, <1>3 DEF Good, Classed
<1>6. SessionsFollow(k2, w, s \union {c}, t)
  <2>1. \A x \in s \union t : x.session \in Nat
    BY PostedFields, GivenFields DEF Sorts
  <2> QED
    BY <1>1, <1>2, <1>3, <2>1 DEF Good, SessionsFollow
<1>7. StepsAreAlone(k2, s \union {c}, t)
  BY <1>1, <1>2, <1>3 DEF StepsAreAlone, Current, Removal
<1>8. SourcesAreAsked(k2, a2, s \union {c}, t)
  BY <1>1, <1>2, <1>3 DEF SourcesAreAsked, Current
<1>9. AnswersAreTrue(k2, w, t) /\ StepsAreDue(k2, w, s \union {c})
  BY <1>1, <1>2, <1>3 DEF AnswersAreTrue, StepsAreDue, Current
<1>10. RemovedIsUnknown(k2, w, s \union {c})
  BY <1>1, <1>3 DEF Good, RemovedIsUnknown, Unasked
<1>11. Settled(m, k2, a2, w, s \union {c}, t, u2)
  <2>1. CASE c.kind \in Sources
    <3>1. c \in Pending(s \union {c})
      BY <2>1 DEF Pending
    <3>2. \A y \in Pending(s \union {c}) : y = c \/ Earlier(y, c)
      BY <1>2, <1>3 DEF Pending, Earlier, Removal, Sources
    <3> QED
      BY <2>1, <3>1, <3>2 DEF Settled
  <2>2. CASE c.kind \notin Sources
    <3>1. Pending(s \union {c}) = Pending(s)
      BY <2>2 DEF Pending
    <3> QED
      BY <1>1, <2>2, <3>1 DEF Good, Settled
  <2> QED
    BY <2>1, <2>2
<1>12. ReadyIsTuned(k2, w)
  BY DEF ReadyIsTuned
<1> QED
  BY <1>4, <1>5, <1>6, <1>7, <1>8, <1>9, <1>10, <1>11, <1>12 DEF Good

\* The component goes and the worker is told.
LEMMA GoodRemoved ==
    ASSUME NEW m \in Models \ Workbench, NEW k \in Component, NEW a, NEW w, NEW s, NEW t, NEW u,
           NEW d \in Posted, Good(m, k, a, w, s, t, u), d.kind = "Despawn"
    PROVE  Good(m, Absent, a, w, s \union {d}, t, u)
<1>1. Removal(d) /\ k # Absent
  BY ComponentFields DEF Removal
<1>2. Pending(s \union {d}) = Pending(s)
  BY DEF Pending, Sources
<1>3. Unasked(Absent, a, w, s \union {d}, t) /\ Classed(m, Absent, a, s \union {d})
  BY <1>1 DEF Good, Unasked, Classed
<1>4. SessionsFollow(Absent, w, s \union {d}, t) /\ StepsAreAlone(Absent, s \union {d}, t)
  BY <1>1 DEF Good, SessionsFollow, StepsAreAlone
<1>5. /\ SourcesAreAsked(Absent, a, s \union {d}, t)
      /\ RemovedIsUnknown(Absent, w, s \union {d})
      /\ AnswersAreTrue(Absent, w, t)
      /\ StepsAreDue(Absent, w, s \union {d})
      /\ ReadyIsTuned(Absent, w)
  BY DEF SourcesAreAsked, RemovedIsUnknown, AnswersAreTrue, StepsAreDue, ReadyIsTuned, Current
<1>6. Settled(m, Absent, a, w, s \union {d}, t, u)
  BY <1>2 DEF Good, Settled
<1> QED
  BY <1>3, <1>4, <1>5, <1>6 DEF Good

\* A step of a ready model: nothing else is under way.
LEMMA GoodStepSent ==
    ASSUME NEW m, NEW k \in Component, NEW k2 \in Component, NEW a, NEW w, NEW s, NEW t, NEW u,
           NEW c \in Posted,
           Sorts(m, k, a, w, s, t), Good(m, k, a, w, s, t, u),
           k.compiled, ~k.stepping,
           k2.session = k.session, k2.class = k.class, k2.compiled = k.compiled, k2.time = k.time,
           k2.stepping, k2.inFlight = k.nextStep,
           c.kind = "Step", c.session = k.session, c.id = k.nextStep, c.start = k.time,
           c.source.class = k.class
    PROVE  Good(m, k2, a, w, s \union {c}, t, u)
<1>1. k # Absent /\ k2 # Absent /\ ~Removal(c) /\ c.kind \notin Sources
  BY ComponentFields DEF Removal, Sources
<1>2. t = {} /\ \A x \in s : Removal(x)
  BY <1>1 DEF Good, StepsAreAlone
<1>3. Tuned(k2, w, k2.time)
  BY <1>1 DEF Good, ReadyIsTuned, Tuned
<1>4. a # Absent
  BY <1>1 DEF Good, Unasked
<1>5. Unasked(k2, a, w, s \union {c}, t)
  BY <1>4 DEF Unasked
<1>6. Classed(m, k2, a, s \union {c})
  BY <1>1 DEF Good, Classed
<1>7. SessionsFollow(k2, w, s \union {c}, t)
  <2>1. w.current <= c.session
    BY <1>1 DEF Good, SessionsFollow
  <2>2. k.session \in Nat
    BY ComponentFields
  <2> QED
    BY <1>1, <1>2, <2>1, <2>2 DEF SessionsFollow
<1>8. StepsAreAlone(k2, s \union {c}, t)
  <2>1. k.nextStep # 0
    BY ComponentFields
  <2> QED
    BY <1>1, <1>2, <2>1 DEF StepsAreAlone, Removal
<1>9. SourcesAreAsked(k2, a, s \union {c}, t) /\ AnswersAreTrue(k2, w, t)
  BY <1>1, <1>2 DEF SourcesAreAsked, AnswersAreTrue, Current
<1>10. RemovedIsUnknown(k2, w, s \union {c})
  BY <1>1 DEF Good, RemovedIsUnknown
<1>11. Settled(m, k2, a, w, s \union {c}, t, u)
  <2>1. Pending(s \union {c}) = Pending(s)
    BY <1>1 DEF Pending
  <2> QED
    BY <1>1, <2>1 DEF Good, Settled
<1>12. StepsAreDue(k2, w, s \union {c})
  BY <1>2, <1>3 DEF StepsAreDue, Current
<1>13. ReadyIsTuned(k2, w)
  BY DEF ReadyIsTuned
<1> QED
  BY <1>5, <1>6, <1>7, <1>8, <1>9, <1>10, <1>11, <1>12, <1>13 DEF Good

\* The worker forgets a removed model: it knew nothing of one that is back.
LEMMA GoodDespawned ==
    ASSUME NEW m, NEW k \in Component \union {Absent}, NEW a, NEW w \in WorkerOf, NEW w2,
           NEW s, NEW s2, NEW t, NEW u,
           NEW c \in s, Removal(c), s \ {c} \subseteq s2, s2 \subseteq s,
           w2 = [Unknown EXCEPT !.current = w.current],
           Good(m, k, a, w, s, t, u)
    PROVE  Good(m, k, a, w2, s2, t, u)
<1>1. Pending(s2) = Pending(s)
  BY DEF Pending, Removal, Sources
<1>2. w = Unknown => w2 = w
  BY DEF Unknown
<1>3. w2.current = w.current
  BY DEF Unknown
<1>4. CASE k # Absent
  <2>1. w2 = w
    BY <1>2, <1>4 DEF Good, RemovedIsUnknown
  <2>2. \A y \in s : Removal(y) \/ y \in s2
    OBVIOUS
  <2>3. Unasked(k, a, w, s2, t) /\ Classed(m, k, a, s2) /\ SessionsFollow(k, w, s2, t)
    BY DEF Good, Unasked, Classed, SessionsFollow
  <2>4. StepsAreAlone(k, s2, t) /\ SourcesAreAsked(k, a, s2, t)
    BY DEF Good, StepsAreAlone, SourcesAreAsked
  <2>5. RemovedIsUnknown(k, w, s2) /\ StepsAreDue(k, w, s2)
    BY DEF Good, RemovedIsUnknown, StepsAreDue
  <2>6. Settled(m, k, a, w, s2, t, u)
    BY <1>1 DEF Good, Settled
  <2> QED
    BY <2>1, <2>3, <2>4, <2>5, <2>6 DEF Good
<1>5. CASE k = Absent
  <2>1. Unasked(k, a, w2, s2, t) /\ Classed(m, k, a, s2) /\ SessionsFollow(k, w2, s2, t)
    BY <1>2, <1>3, <1>5 DEF Good, Unasked, Classed, SessionsFollow
  <2>2. /\ StepsAreAlone(k, s2, t) /\ SourcesAreAsked(k, a, s2, t)
        /\ RemovedIsUnknown(k, w2, s2) /\ AnswersAreTrue(k, w2, t)
        /\ StepsAreDue(k, w2, s2) /\ ReadyIsTuned(k, w2)
    BY <1>5 DEF StepsAreAlone, SourcesAreAsked, RemovedIsUnknown, AnswersAreTrue, StepsAreDue,
                ReadyIsTuned, Current
  <2>3. Settled(m, k, a, w2, s2, t, u)
    BY <1>1, <1>5 DEF Good, Settled
  <2> QED
    BY <2>1, <2>2, <2>3 DEF Good
<1> QED
  BY <1>4, <1>5

\* A stale answer, or one of a model that is gone.
LEMMA GoodDropped ==
    ASSUME NEW m, NEW k \in Component \union {Absent}, NEW a, NEW w, NEW s, NEW t, NEW t2, NEW u, NEW u2,
           NEW r \in t, t \ {r} \subseteq t2, t2 \subseteq t, k = Absent \/ r.session < k.session,
           Sorts(m, k, a, w, s, t), Good(m, k, a, w, s, t, u),
           m \in u \/ (k # Absent /\ LostOf(a, r)) => m \in u2
    PROVE  Good(m, k, a, w, s, t2, u2)
<1>1. ~Current(k, r)
  <2>1. r.session \in Nat
    BY GivenFields DEF Sorts
  <2>2. k # Absent => k.session \in Nat
    BY ComponentFields
  <2> QED
    BY <2>1, <2>2 DEF Current
<1>2. Unasked(k, a, w, s, t2) /\ Classed(m, k, a, s) /\ SessionsFollow(k, w, s, t2)
  BY DEF Good, Unasked, Classed, SessionsFollow
<1>3. StepsAreAlone(k, s, t2)
  <2>1. ASSUME NEW x \in t2, k # Absent, x.kind = "Step", x.session = k.session
        PROVE  t2 = {x}
    <3>1. t = {x}
      BY <2>1 DEF Good, StepsAreAlone
    <3> QED
      BY <2>1, <3>1
  <2> QED
    BY <2>1 DEF Good, StepsAreAlone
<1>4. SourcesAreAsked(k, a, s, t2) /\ RemovedIsUnknown(k, w, s)
  BY DEF Good, SourcesAreAsked
<1>5. Settled(m, k, a, w, s, t2, u2)
  BY DEF Good, Settled
<1>6. AnswersAreTrue(k, w, t2) /\ StepsAreDue(k, w, s) /\ ReadyIsTuned(k, w)
  BY DEF Good, AnswersAreTrue
<1> QED
  BY <1>2, <1>3, <1>4, <1>5, <1>6 DEF Good

\* What is still to come of a model whose answer is of its session: nothing.
LEMMA AnswersAreLast ==
    ASSUME NEW m, NEW k \in Component, NEW a, NEW w, NEW s, NEW t, NEW u, NEW r \in t,
           Sorts(m, k, a, w, s, t), Good(m, k, a, w, s, t, u), k.session <= r.session,
           \A x \in s : Removal(x) \/ Earlier(r, x), \A x \in t \ {r} : Earlier(r, x)
    PROVE  /\ Current(k, r) /\ ~Removal(r)
           /\ \A x \in s : Removal(x)
           /\ t = {r}
<1>1. k # Absent /\ k.session \in Nat /\ r.session \in Nat /\ r.id \in Nat
  BY ComponentFields, GivenFields DEF Sorts
<1>2. ~Removal(r) /\ \A x \in t : ~Removal(x)
  BY GivenFields DEF Sorts, Removal
<1>3. r.session = k.session /\ Current(k, r)
  <2>1. r.session <= k.session
    BY <1>1, <1>2 DEF Good, SessionsFollow
  <2> QED
    BY <1>1, <1>2, <2>1 DEF Current
<1>4. ASSUME NEW x \in s \union t, ~Removal(x), Earlier(r, x)
      PROVE  x.session = k.session /\ x.id > r.id
  <2>1. x.session <= k.session
    BY <1>1, <1>4 DEF Good, SessionsFollow
  <2>2. x.session \in Nat /\ x.id \in Nat
    BY PostedFields, GivenFields DEF Sorts
  <2> QED
    BY <1>1, <1>3, <1>4, <2>1, <2>2 DEF Earlier
<1>5. ASSUME NEW x \in s, ~Removal(x)
      PROVE  FALSE
  <2>1. x.session = k.session /\ x.id > r.id
    BY <1>4, <1>5
  <2>2. x.kind = "Step"
    BY <1>1, <2>1, PostedFields DEF Sorts
  <2> QED
    BY <1>1, <2>1, <2>2 DEF Good, StepsAreAlone
<1>6. ASSUME NEW x \in t, x # r
      PROVE  FALSE
  <2>1. x.session = k.session /\ x.id > r.id
    BY <1>2, <1>4, <1>6
  <2>2. x.kind = "Step"
    BY <1>1, <2>1, GivenFields DEF Sorts
  <2>3. t = {x}
    BY <1>1, <2>1, <2>2 DEF Good, StepsAreAlone
  <2> QED
    BY <1>6, <2>3
<1> QED
  BY <1>2, <1>3, <1>5, <1>6

\* What an accepted answer makes of a component.
LEMMA AcceptedFields ==
    ASSUME NEW k \in Component, NEW r \in Given, edition[r.model] \in Nat
    PROVE  /\ Accepted(r, k) \in Component
           /\ Accepted(r, k).session = k.session /\ Accepted(r, k).class = k.class
           /\ ~Accepted(r, k).stepping /\ Accepted(r, k).inFlight = 0
           /\ r.error # "none" => ~Accepted(r, k).compiled
           /\ r.error = "none" => Accepted(r, k).compiled = (k.compiled \/ r.kind = "Compile")
           /\ r.error = "none" => Accepted(r, k).time = IF r.kind \in Lifecycle THEN 0 ELSE r.time
<1> DEFINE base == [k EXCEPT
                    !.inFlight = 0, !.stepping = FALSE,
                    !.nextStep = IF r.kind \in Lifecycle THEN 1 ELSE @,
                    !.compiling = @ /\ r.kind \notin Lifecycle,
                    !.time = IF r.kind \in {"Compile", "Update", "Reset"} THEN 0
                             ELSE IF r.error = "none" THEN r.time ELSE @]
           next == IF r.kind \in Lifecycle THEN 1 ELSE k.nextStep
           compiling == k.compiling /\ r.kind \notin Lifecycle
           time == IF r.kind \in {"Compile", "Update", "Reset"} THEN 0
                   ELSE IF r.error = "none" THEN r.time ELSE k.time
           failed == [base EXCEPT !.paused = TRUE, !.resume = FALSE, !.compiled = FALSE]
           compiled == [base EXCEPT !.paused = ~base.resume, !.resume = FALSE, !.compiled = TRUE,
                          !.compiledEdition = IF base.pendingEdition # 0 THEN base.pendingEdition
                                              ELSE edition[r.model]]
<1>1. r.time \in Nat /\ (r.kind \in Lifecycle <=> r.kind \in {"Compile", "Update", "Reset"})
  BY GivenFields DEF Lifecycle
<1>2. /\ base \in Component
      /\ base.session = k.session /\ base.class = k.class /\ ~base.stepping /\ base.inFlight = 0
      /\ base.compiled = k.compiled
      /\ r.error = "none" => base.time = IF r.kind \in Lifecycle THEN 0 ELSE r.time
  <2>1. next \in Nat \ {0} /\ compiling \in BOOLEAN /\ time \in Nat
    BY <1>1, ComponentFields
  <2>2. base = [k EXCEPT !.inFlight = 0, !.stepping = FALSE, !.nextStep = next,
                         !.compiling = compiling, !.time = time]
    OBVIOUS
  <2>3. r.error = "none" => time = IF r.kind \in Lifecycle THEN 0 ELSE r.time
    BY <1>1
  <2> HIDE DEF base, next, compiling, time
  <2> QED
    BY <2>1, <2>2, <2>3 DEF Component
<1> HIDE DEF base
<1>3. /\ failed \in Component
      /\ failed.session = base.session /\ failed.class = base.class
      /\ failed.stepping = base.stepping /\ failed.inFlight = base.inFlight
      /\ ~failed.compiled
  BY <1>2 DEF Component
<1>4. /\ compiled \in Component
      /\ compiled.session = base.session /\ compiled.class = base.class
      /\ compiled.stepping = base.stepping /\ compiled.inFlight = base.inFlight
      /\ compiled.compiled = TRUE /\ compiled.time = base.time
  <2> DEFINE paused == ~base.resume
             from == IF base.pendingEdition # 0 THEN base.pendingEdition ELSE edition[r.model]
  <2>1. paused \in BOOLEAN /\ from \in Nat
    BY <1>2, ComponentFields
  <2>2. compiled = [base EXCEPT !.paused = paused, !.resume = FALSE, !.compiled = TRUE,
                                !.compiledEdition = from]
    OBVIOUS
  <2> HIDE DEF compiled, paused, from
  <2> QED
    BY <1>2, <2>1, <2>2 DEF Component
<1>5. Accepted(r, k) = IF r.error # "none" THEN failed
                       ELSE IF r.kind = "Compile" THEN compiled ELSE base
  BY DEF Accepted, base
<1> HIDE DEF failed, compiled
<1>6. k.compiled \in BOOLEAN
  BY ComponentFields
<1> QED
  BY <1>2, <1>3, <1>4, <1>5, <1>6

\* An answer of the component's session is no violation, and when it is taken
\* the model and the worker agree.
LEMMA GoodTaken ==
    ASSUME NEW m \in Models, NEW k \in Component, NEW a, NEW w, NEW s, NEW t, NEW u, NEW r \in t,
           Sorts(m, k, a, w, s, t), Good(m, k, a, w, s, t, u), k.session <= r.session,
           \A x \in s : Removal(x) \/ Earlier(r, x), \A x \in t \ {r} : Earlier(r, x),
           edition[r.model] \in Nat
    PROVE  /\ Violation(r, k) = "none"
           /\ r.kind \notin Lifecycle => r.error # "clock"
           /\ Good(m, Accepted(r, k), a, w, s, {}, u)
<1> DEFINE k2 == Accepted(r, k)
<1>1. r \in Given /\ r.model = m /\ k # Absent
  BY ComponentFields DEF Sorts
<1>2. Current(k, r) /\ ~Removal(r) /\ t = {r} /\ \A x \in s : Removal(x)
  BY AnswersAreLast
<1>3. r.kind \in Lifecycle \/ r.kind = "Step"
  BY <1>2 DEF Good, AnswersAreTrue
<1>4. /\ k2 \in Component /\ k2.session = k.session /\ k2.class = k.class
      /\ ~k2.stepping /\ k2.inFlight = 0
      /\ r.error # "none" => ~k2.compiled
      /\ r.error = "none" => k2.compiled = (k.compiled \/ r.kind = "Compile")
      /\ r.error = "none" => k2.time = IF r.kind \in Lifecycle THEN 0 ELSE r.time
  BY <1>1, AcceptedFields
<1> HIDE DEF k2
<1>5. k2 # Absent
  BY <1>4, ComponentFields
<1>6. r.kind \notin Lifecycle =>
        /\ r.kind = "Step" /\ r.error # "clock"
        /\ r.error = "none" => r.time = k.time + 1 /\ Tuned(k, w, k.time + 1)
  BY <1>2 DEF Good, AnswersAreTrue
<1>7. Violation(r, k) = "none"
  <2>1. r.session = k.session /\ r.session \in Nat
    BY <1>1, <1>2, GivenFields DEF Current
  <2>2. r.kind \notin Lifecycle => k.inFlight # 0 /\ r.id = k.inFlight
    BY <1>1, <1>6, <2>1 DEF Good, StepsAreAlone
  <2> QED
    BY <1>6, <2>1, <2>2 DEF Violation
<1>8. a # Absent
  BY <1>2 DEF Good, Unasked
<1>9. r.error = "none" => Tuned(k2, w, k2.time)
  <2>1. SUFFICES ASSUME r.error = "none"
                 PROVE  Tuned(k2, w, k2.time)
    OBVIOUS
  <2>2. CASE r.kind \in Lifecycle
    <3>1. Tuned(k, w, 0) /\ k2.time = 0
      BY <1>2, <1>4, <2>1, <2>2 DEF Good, AnswersAreTrue, Lifecycle
    <3> QED
      BY <1>4, <3>1 DEF Tuned
  <2>3. CASE r.kind \notin Lifecycle
    <3>1. Tuned(k, w, k.time + 1) /\ k2.time = k.time + 1
      BY <1>4, <1>6, <2>1, <2>3
    <3> QED
      BY <1>4, <3>1 DEF Tuned
  <2> QED
    BY <2>2, <2>3
<1>10. Settled(m, k2, a, w, s, {}, u)
  <2>1. Pending(s) = {}
    BY <1>2 DEF Pending, Removal, Sources
  <2>2. CASE r.error # "none"
    BY <1>4, <2>1, <2>2 DEF Settled
  <2>3. CASE r.error = "none" /\ r.kind = "Compile"
    <3>1. w.cache = r.source
      BY <1>2, <2>3 DEF Good, AnswersAreTrue, Sources, Lifecycle
    <3>2. r.source = a
      BY <1>2, <2>3 DEF Good, SourcesAreAsked, Sources
    <3> QED
      BY <2>1, <3>1, <3>2 DEF Settled
  <2>4. CASE r.error = "none" /\ r.kind # "Compile"
    <3>1. ~LostOf(a, r) /\ (k2.compiled => k.compiled)
      BY <1>4, <2>4 DEF LostOf
    <3>2. a = Absent \/ w.cache = a \/ ~k.compiled \/ m \in u
      BY <1>1, <1>2, <2>1, <3>1 DEF Good, Settled
    <3> QED
      BY <2>1, <3>1, <3>2 DEF Settled
  <2> QED
    BY <2>2, <2>3, <2>4
<1>11. Unasked(k2, a, w, s, {}) /\ Classed(m, k2, a, s)
  BY <1>1, <1>4, <1>5, <1>8 DEF Good, Unasked, Classed
<1>12. SessionsFollow(k2, w, s, {}) /\ StepsAreAlone(k2, s, {})
  BY <1>1, <1>2, <1>4, <1>5 DEF Good, SessionsFollow, StepsAreAlone, Removal
<1>13. /\ SourcesAreAsked(k2, a, s, {}) /\ AnswersAreTrue(k2, w, {}) /\ StepsAreDue(k2, w, s)
  BY <1>2 DEF SourcesAreAsked, AnswersAreTrue, StepsAreDue, Current
<1>14. RemovedIsUnknown(k2, w, s)
  BY <1>1 DEF Good, RemovedIsUnknown
<1>15. ReadyIsTuned(k2, w)
  BY <1>4, <1>9 DEF ReadyIsTuned
<1> QED
  BY <1>6, <1>7, <1>10, <1>11, <1>12, <1>13, <1>14, <1>15 DEF Good, k2

----------------------------------------------------------------------------
(* What the worker makes of a command.                                      *)

LEMMA WorkerFields ==
    ASSUME NEW w \in WorkerOf
    PROVE  /\ w.current \in Nat /\ w.cache \in Source \union {Absent}
           /\ w.stepper \in Stepper \union {Absent}
BY DEF WorkerOf

LEMMA StepperFields ==
    ASSUME NEW p \in Stepper
    PROVE  /\ p # Absent /\ p.session \in Nat /\ p.source \in Source /\ p.time \in Nat
           /\ p = [session |-> p.session, source |-> p.source, time |-> p.time]
BY AbsentIsNone DEF Stepper

LEMMA UnknownWorker == Unknown \in WorkerOf
BY DEF Unknown, WorkerOf

\* The answer to a command has its model, its session and its number.
LEMMA ResultFields ==
    ASSUME NEW c \in Posted, c.kind \in Lifecycle \union {"Step"}, NEW time \in Nat,
           NEW error \in Error, error = "compile" => c.kind # "Step", NEW source \in Source \union {Absent}
    PROVE  /\ Result(c, time, error, source) \in Given
           /\ Result(c, time, error, source).kind = c.kind
           /\ Result(c, time, error, source).model = c.model
           /\ Result(c, time, error, source).session = c.session
           /\ Result(c, time, error, source).id = c.id
           /\ Result(c, time, error, source).time = time
           /\ Result(c, time, error, source).error = error
           /\ Result(c, time, error, source).source = source
BY PostedFields DEF Result, Given, Answer, Lifecycle

LEMMA PlainFields ==
    ASSUME NEW m \in Models, NEW session \in Nat
    PROVE  /\ Plain(m, session) \in Given
           /\ Plain(m, session).kind = "plain" /\ Plain(m, session).model = m
           /\ Plain(m, session).session = session /\ Plain(m, session).id = 0
           /\ Plain(m, session).error = "none"
<1>1. Plain(m, session) \in Answer
  BY DEF Plain, Answer, Error
<1>2. m # Absent
  BY AbsentAssumption
<1> QED
  BY <1>1, <1>2 DEF Plain, Given

\* Answers(o, c, w): what holds of an outcome whatever became of the command.
Follows(o, c, w) ==
    /\ o.state \in WorkerOf /\ o.answer \in Given
    /\ o.answer.model = c.model /\ o.answer.session = c.session /\ o.answer.id = c.id
    /\ o.state.current \in {w.current, c.session, 0}
    /\ o.answer.kind = c.kind \/ (o.answer.kind = "plain" /\ c.session < w.current)

Panics(o) == o.answer.error = "panic" /\ o.state = Unknown

LEMMA PanickedOutcome ==
    ASSUME NEW c \in Posted, c.kind \in Lifecycle \union {"Step"}, NEW w \in WorkerOf
    PROVE  Follows(Panicked(c), c, w) /\ Panics(Panicked(c)) /\ Panicked(c).answer.source = c.source
<1>1. c.source \in Source \union {Absent} /\ "panic" \in Error
  BY PostedFields DEF Error
<1>2. Panicked(c).state = Unknown /\ Panicked(c).answer = Result(c, 0, "panic", c.source)
  BY DEF Panicked, Outcome
<1>3. Unknown.current = 0
  BY DEF Unknown
<1> QED
  BY <1>1, <1>2, <1>3, ResultFields, UnknownWorker DEF Follows, Panics

\* A source is taken as it was sent, or refused and nothing changes.
LEMMA SourceOutcome ==
    ASSUME NEW c \in Posted, c.kind \in Sources, NEW w \in WorkerOf, NEW o \in OfCompile(c, w)
    PROVE  /\ Follows(o, c, w) /\ o.answer.kind = c.kind /\ o.answer.source = c.source
           /\ \/ /\ o.answer.error = "compile"
                 /\ o.state.cache = w.cache /\ o.state.stepper = w.stepper
              \/ /\ o.answer.error = "none"
                 /\ o.state.cache = c.source /\ o.state.stepper = Fresh(c.session, c.source)
<1> DEFINE now == [w EXCEPT !.current = c.session]
           done == [now EXCEPT !.cache = c.source, !.stepper = Fresh(c.session, c.source)]
<1>1. c.session \in Nat /\ c.source \in Source /\ c.kind \in Lifecycle
  BY PostedFields DEF Sources, Lifecycle
<1>2. Fresh(c.session, c.source) \in Stepper
  BY <1>1 DEF Fresh, Stepper
<1>3. /\ now \in WorkerOf /\ now.current = c.session
      /\ now.cache = w.cache /\ now.stepper = w.stepper
  BY <1>1 DEF WorkerOf
<1>4. /\ done \in WorkerOf /\ done.current = c.session
      /\ done.cache = c.source /\ done.stepper = Fresh(c.session, c.source)
  BY <1>1, <1>2 DEF WorkerOf
<1>5. \/ o.state = done /\ o.answer = Result(c, 0, "none", c.source)
      \/ o.state = now /\ o.answer = Result(c, 0, "compile", c.source)
  BY DEF OfCompile, Outcome
<1> HIDE DEF now, done
<1>6. "none" \in Error /\ "compile" \in Error /\ c.kind # "Step"
  BY DEF Error, Sources
<1> QED
  BY <1>1, <1>3, <1>4, <1>5, <1>6, ResultFields DEF Follows

\* A reset makes a new stepper of what is cached, or of nothing none.
LEMMA ResetOutcome ==
    ASSUME NEW c \in Posted, c.kind = "Reset", NEW w \in WorkerOf, NEW o \in OfReset(c, w)
    PROVE  /\ Follows(o, c, w) /\ o.answer.kind = c.kind /\ o.state.cache = w.cache
           /\ o.answer.error # "panic"
           /\ o.answer.error = "none" =>
                 o.state.stepper = IF w.cache = Absent THEN Absent ELSE Fresh(c.session, w.cache)
<1> DEFINE now == [w EXCEPT !.current = c.session]
           gone == [now EXCEPT !.stepper = Absent]
           done == [now EXCEPT !.stepper = Fresh(c.session, w.cache)]
<1>1. c.session \in Nat /\ c.kind \in Lifecycle /\ c.kind # "Step"
  BY PostedFields DEF Lifecycle
<1>2. "none" \in Error /\ "rebuild" \in Error
  BY DEF Error
<1>3. now \in WorkerOf /\ now.current = c.session /\ now.cache = w.cache
  BY <1>1 DEF WorkerOf
<1>4. /\ gone \in WorkerOf /\ gone.current = c.session /\ gone.cache = w.cache
      /\ gone.stepper = Absent
  BY <1>1 DEF WorkerOf
<1>5. w.cache # Absent =>
        /\ done \in WorkerOf /\ done.current = c.session /\ done.cache = w.cache
        /\ done.stepper = Fresh(c.session, w.cache)
  <2>1. w.cache # Absent => Fresh(c.session, w.cache) \in Stepper
    BY <1>1 DEF Fresh, Stepper, WorkerOf
  <2> QED
    BY <1>1, <2>1 DEF WorkerOf
<1>6. w.cache \in Source \union {Absent}
  BY WorkerFields
<1>7. CASE w.cache = Absent
  <2>1. o.state = gone /\ o.answer = Result(c, 0, "none", Absent)
    BY <1>7 DEF OfReset, Outcome
  <2> HIDE DEF gone
  <2> QED
    BY <1>1, <1>2, <1>4, <1>7, <2>1, ResultFields DEF Follows
<1>8. CASE w.cache # Absent
  <2>1. \/ o.state = done /\ o.answer = Result(c, 0, "none", w.cache)
        \/ o.state = now /\ o.answer = Result(c, 0, "rebuild", w.cache)
    BY <1>8 DEF OfReset, Outcome
  <2> HIDE DEF done, now
  <2> QED
    BY <1>1, <1>2, <1>3, <1>5, <1>6, <1>8, <2>1, ResultFields DEF Follows
<1> QED
  BY <1>7, <1>8

\* A step's answer, for each of the errors it may have.
StepErrors == {"none", "missing", "clock", "solver", "rebuild"}

LEMMA StepIsAnswered ==
    ASSUME NEW c \in Posted, c.kind = "Step", NEW time \in Nat,
           NEW error \in StepErrors, NEW source \in Source \union {Absent},
           NEW r, r = Result(c, time, error, source)
    PROVE  /\ r \in Given /\ r.kind = c.kind /\ r.model = c.model
           /\ r.session = c.session /\ r.id = c.id /\ r.error = error /\ r.time = time
<1>1. /\ r.kind = c.kind /\ r.model = c.model
      /\ r.session = c.session /\ r.id = c.id /\ r.error = error /\ r.time = time
  BY DEF Result
<1>2. c.kind \in Lifecycle \union {"Step"} /\ error \in Error /\ error # "compile"
  BY DEF StepErrors, Error
<1>3. Result(c, time, error, source) \in Given
  BY <1>2, ResultFields
<1> QED
  BY <1>1, <1>3

\* What a step does to a stepper, and how it is answered: what always holds, and
\* what does when the stepper is none or the one that was expected.
AnswersStep(o, c, w) ==
    /\ Follows(o, c, w) /\ o.answer.kind = c.kind /\ o.state.cache = w.cache
    /\ o.answer.error # "panic"
Advances(o, c, p) ==
    /\ o.answer.error # "clock"
    /\ o.answer.error = "none" =>
          /\ p # Absent /\ o.answer.time = c.start + 1
          /\ o.state.stepper = [session |-> c.session, source |-> p.source, time |-> c.start + 1]

LEMMA IntegratedOutcome ==
    ASSUME NEW c \in Posted, c.kind = "Step", NEW w \in WorkerOf,
           NEW p \in Stepper \union {Absent}, NEW o \in Integrated(c, w, p)
    PROVE  /\ AnswersStep(o, c, w)
           /\ p = Absent \/ (p.session = c.session /\ p.time = c.start) => Advances(o, c, p)
<1> USE DEF AnswersStep, Advances
<1> DEFINE gone == [w EXCEPT !.stepper = Absent]
           kept == [w EXCEPT !.stepper = p]
           next == [p EXCEPT !.time = p.time + 1]
           done == [w EXCEPT !.stepper = next]
<1>1. c.session \in Nat /\ c.start \in Nat
  BY PostedFields
<1>2. 0 \in Nat /\ Absent \in Source \union {Absent}
  OBVIOUS
<1>6. "none" \in StepErrors
  BY DEF StepErrors
<1>7. "missing" \in StepErrors
  BY DEF StepErrors
<1>8. "clock" \in StepErrors
  BY DEF StepErrors
<1>9. "solver" \in StepErrors
  BY DEF StepErrors
<1>3. gone \in WorkerOf /\ gone.current = w.current /\ gone.cache = w.cache
  BY DEF WorkerOf
<1>4. CASE p = Absent
  <2>1. Integrated(c, w, p) = {Outcome(w, Result(c, 0, "missing", Absent))}
    BY <1>4, Zenon DEF Integrated
  <2>2. o = Outcome(w, Result(c, 0, "missing", Absent))
    BY <2>1
  <2>3. o.state = w /\ o.answer = Result(c, 0, "missing", Absent)
    BY <2>2 DEF Outcome
  <2>8. /\ o.answer \in Given /\ o.answer.kind = c.kind /\ o.answer.model = c.model
        /\ o.answer.session = c.session /\ o.answer.id = c.id
        /\ o.answer.error = "missing"
    BY <1>2, <1>7, <2>3, StepIsAnswered
  <2> QED
    BY <1>4, <2>3, <2>8 DEF Follows
<1>5. CASE p # Absent
  <2>1. p \in Stepper /\ p.session \in Nat /\ p.source \in Source /\ p.time \in Nat
    BY <1>5, StepperFields
  <2>0. p.source \in Source \union {Absent}
    BY <2>1
  <2>2. kept \in WorkerOf /\ kept.current = w.current /\ kept.cache = w.cache
    BY <2>1 DEF WorkerOf
  <2>3. next \in Stepper /\ next = [session |-> p.session, source |-> p.source, time |-> p.time + 1]
    BY <2>1 DEF Stepper
  <2>4. done \in WorkerOf /\ done.current = w.current /\ done.cache = w.cache /\ done.stepper = next
    BY <2>3 DEF WorkerOf
  <2>5. CASE p.time # c.start
    <3>1. o.state = gone /\ o.answer = Result(c, 0, "clock", p.source)
      BY <1>5, <2>5 DEF Integrated, Outcome
    <3> HIDE DEF gone
    <3>8. /\ o.answer \in Given /\ o.answer.kind = c.kind /\ o.answer.model = c.model
          /\ o.answer.session = c.session /\ o.answer.id = c.id
          /\ o.answer.error = "clock" /\ o.answer.time = 0
      BY <1>2, <1>8, <2>0, <3>1, StepIsAnswered
    <3> QED
      BY <1>3, <1>5, <2>5, <3>1, <3>8 DEF Follows
  <2>6. CASE p.time = c.start /\ p.session # c.session
    <3>1. o.state = kept /\ o.answer = Result(c, 0, "none", Absent)
      BY <1>5, <2>6 DEF Integrated, Outcome
    <3> HIDE DEF kept
    <3>8. /\ o.answer \in Given /\ o.answer.kind = c.kind /\ o.answer.model = c.model
          /\ o.answer.session = c.session /\ o.answer.id = c.id
          /\ o.answer.error = "none" /\ o.answer.time = 0
      BY <1>2, <1>6, <3>1, StepIsAnswered
    <3> QED
      BY <1>5, <2>2, <2>6, <3>1, <3>8 DEF Follows
  <2>7. CASE p.time = c.start /\ p.session = c.session
    <3>1. \/ o.state = done /\ o.answer = Result(c, p.time + 1, "none", p.source)
          \/ o.state = gone /\ o.answer = Result(c, 0, "solver", p.source)
      BY <1>5, <2>7 DEF Integrated, Outcome
    <3>2. p.time + 1 \in Nat /\ p.source \in Source \union {Absent}
      BY <2>1
    <3> HIDE DEF done, gone, next
    <3>3. CASE o.state = done /\ o.answer = Result(c, p.time + 1, "none", p.source)
      <4>1. /\ o.answer \in Given /\ o.answer.kind = c.kind /\ o.answer.model = c.model
            /\ o.answer.session = c.session /\ o.answer.id = c.id
            /\ o.answer.error = "none" /\ o.answer.time = p.time + 1
        BY <1>6, <3>2, <3>3, StepIsAnswered
      <4> QED
        BY <1>5, <2>3, <2>4, <2>7, <3>3, <4>1 DEF Follows
    <3>4. CASE o.state = gone /\ o.answer = Result(c, 0, "solver", p.source)
      <4>1. /\ o.answer \in Given /\ o.answer.kind = c.kind /\ o.answer.model = c.model
            /\ o.answer.session = c.session /\ o.answer.id = c.id
            /\ o.answer.error = "solver"
        BY <1>2, <1>9, <2>0, <3>4, StepIsAnswered
      <4> QED
        BY <1>3, <3>4, <4>1 DEF Follows
    <3> QED
      BY <3>1, <3>3, <3>4
  <2> QED
    BY <2>5, <2>6, <2>7
<1> QED
  BY <1>4, <1>5

\* A step of the session the worker is in, on the stepper it expects.
Standing(c, w) ==
    IF w.cache = Absent THEN w.stepper = Absent
    ELSE w.stepper = [session |-> c.session, source |-> w.cache, time |-> c.start]
Stepped(o, c, w) ==
    /\ o.answer.error # "clock"
    /\ o.answer.error = "none" =>
          /\ w.cache # Absent /\ o.answer.time = c.start + 1
          /\ o.state.stepper = [session |-> c.session, source |-> w.cache, time |-> c.start + 1]

LEMMA StepOutcome ==
    ASSUME NEW c \in Posted, c.kind = "Step", NEW w \in WorkerOf, NEW o \in OfStep(c, w)
    PROVE  /\ Follows(o, c, w) /\ o.answer.kind = c.kind /\ o.state.cache = w.cache
           /\ o.answer.error # "panic"
           /\ w.current <= c.session /\ Standing(c, w) => Stepped(o, c, w)
<1> SUFFICES /\ AnswersStep(o, c, w)
             /\ w.current <= c.session /\ Standing(c, w) => Stepped(o, c, w)
  BY DEF AnswersStep
<1>1. c.session \in Nat /\ c.start \in Nat /\ c.source \in Source
  BY PostedFields
<1>2. /\ "none" \in Error /\ "rebuild" \in Error
      /\ c.kind \in Lifecycle \union {"Step"} /\ Absent \in Source \union {Absent}
  BY DEF Error
<1>3. w.current \in Nat /\ w.cache \in Source \union {Absent} /\ w.stepper \in Stepper \union {Absent}
  BY WorkerFields
<1>4. CASE c.session < w.current
  <2>1. o.state = w /\ o.answer = Result(c, 0, "none", Absent)
    BY <1>4 DEF OfStep, Outcome
  <2>2. ~(w.current <= c.session)
    BY <1>1, <1>3, <1>4
  <2> QED
    BY <1>1, <1>2, <1>3, <2>1, <2>2, ResultFields DEF AnswersStep, Follows
<1>5. CASE ~(c.session < w.current) /\ NeedsInit(c, w) /\ w.cache # Absent /\ w.cache.class = c.source.class
  <2>1. \/ o.state = w /\ o.answer = Result(c, 0, "rebuild", w.cache)
        \/ o \in Integrated(c, w, Fresh(c.session, w.cache))
    BY <1>5 DEF OfStep, Outcome
  <2>2. Fresh(c.session, w.cache) \in Stepper
    BY <1>1, <1>3, <1>5 DEF Fresh, Stepper
  <2> DEFINE p == [session |-> c.session, source |-> w.cache, time |-> c.start]
  <2>3. w.stepper # p
    <3>1. p \in Stepper /\ p.session = c.session /\ p.source = w.cache
      BY <1>1, <1>3, <1>5 DEF Stepper
    <3>2. p # Absent
      BY <3>1, StepperFields
    <3> HIDE DEF p
    <3> QED
      BY <1>1, <1>5, <3>1, <3>2 DEF NeedsInit
  <2>4. CASE o.state = w /\ o.answer = Result(c, 0, "rebuild", w.cache)
    BY <1>1, <1>2, <1>3, <2>3, <1>5, <2>4, ResultFields DEF AnswersStep, Follows, Standing, Stepped
  <2>5. CASE o \in Integrated(c, w, Fresh(c.session, w.cache))
    <3>1. AnswersStep(o, c, w)
      BY <2>2, <2>5, IntegratedOutcome
    <3>2. ~Standing(c, w)
      BY <1>5, <2>3 DEF Standing
    <3> QED
      BY <3>1, <3>2
  <2> QED
    BY <2>1, <2>4, <2>5
<1>6. CASE ~(c.session < w.current) /\ ~(NeedsInit(c, w) /\ w.cache # Absent /\ w.cache.class = c.source.class)
  <2>1. o \in Integrated(c, w, w.stepper)
    BY <1>6 DEF OfStep
  <2>2. PICK p \in Stepper \union {Absent} : p = w.stepper
    BY <1>3
  <2>3. /\ AnswersStep(o, c, w)
        /\ p = Absent \/ (p.session = c.session /\ p.time = c.start) => Advances(o, c, p)
    BY <2>1, <2>2, IntegratedOutcome
  <2>4. CASE w.cache = Absent
    BY <2>2, <2>3, <2>4 DEF Standing, Advances, Stepped
  <2>5. CASE w.cache # Absent
    <3>1. Standing(c, w) => /\ p.session = c.session /\ p.time = c.start
                            /\ p.source = w.cache
      BY <2>2, <2>5 DEF Standing
    <3> QED
      BY <2>3, <2>5, <3>1 DEF Advances, Stepped
  <2> QED
    BY <2>4, <2>5
<1> QED
  BY <1>4, <1>5, <1>6

\* What may come of a command that is not of an older session: a panic, or the
\* source is taken or refused, the stepper reset, the step answered.
SourceTaken(o, c, w) ==
    /\ c.kind \in Sources /\ o.answer.source = c.source
    /\ \/ /\ o.answer.error = "compile"
          /\ o.state.cache = w.cache /\ o.state.stepper = w.stepper
       \/ /\ o.answer.error = "none"
          /\ o.state.cache = c.source /\ o.state.stepper = Fresh(c.session, c.source)
ResetDone(o, c, w) ==
    /\ c.kind = "Reset" /\ o.state.cache = w.cache
    /\ o.answer.error = "none" =>
          o.state.stepper = IF w.cache = Absent THEN Absent ELSE Fresh(c.session, w.cache)
StepDone(o, c, w) ==
    /\ c.kind = "Step" /\ o.state.cache = w.cache
    /\ Standing(c, w) => Stepped(o, c, w)

LEMMA ExecutedOutcome ==
    ASSUME NEW c \in Posted, c.kind \in Lifecycle \union {"Step"}, NEW w \in WorkerOf,
           NEW o \in Executed(c, w)
    PROVE  /\ Follows(o, c, w)
           /\ w.current <= c.session =>
                 /\ o.answer.kind = c.kind
                 /\ \/ Panics(o) /\ o.answer.source = c.source
                    \/ SourceTaken(o, c, w) \/ ResetDone(o, c, w) \/ StepDone(o, c, w)
<1>1. c.kind \in {"Compile", "Update", "Reset", "Step"} /\ c.model \in Models /\ c.session \in Nat
  BY PostedFields DEF Lifecycle
<1>2. w.current \in Nat
  BY WorkerFields
<1>3. CASE o = Panicked(c)
  <2>1. Panicked(c).answer.kind = c.kind
    BY DEF Panicked, Outcome, Result
  <2> QED
    BY <1>3, <2>1, PanickedOutcome
<1>4. CASE c.kind \in Sources /\ o \in OfCompile(c, w)
  <2>1. Follows(o, c, w) /\ o.answer.kind = c.kind /\ SourceTaken(o, c, w)
    BY <1>4, SourceOutcome DEF SourceTaken
  <2> QED
    BY <2>1
<1>5. CASE c.kind = "Update" /\ c.session < w.current /\ o = Outcome(w, Plain(c.model, c.session))
  <2>1. ~(w.current <= c.session)
    BY <1>1, <1>2, <1>5
  <2>2. o.state = w /\ o.answer = Plain(c.model, c.session)
    BY <1>5 DEF Outcome
  <2>3. c.id = 0
    BY <1>5, PostedFields
  <2>4. /\ o.answer \in Given /\ o.answer.kind = "plain" /\ o.answer.model = c.model
        /\ o.answer.session = c.session /\ o.answer.id = c.id
    BY <1>1, <2>2, <2>3, PlainFields
  <2> QED
    BY <1>5, <2>1, <2>2, <2>4 DEF Follows
<1>6. CASE c.kind = "Reset" /\ o \in OfReset(c, w)
  <2>1. Follows(o, c, w) /\ o.answer.kind = c.kind /\ ResetDone(o, c, w)
    BY <1>6, ResetOutcome DEF ResetDone
  <2> QED
    BY <2>1
<1>7. CASE c.kind = "Step" /\ o \in OfStep(c, w)
  <2>1. Follows(o, c, w) /\ o.answer.kind = c.kind
    BY <1>7, StepOutcome
  <2>2. w.current <= c.session => StepDone(o, c, w)
    BY <1>7, StepOutcome DEF StepDone
  <2> QED
    BY <2>1, <2>2
<1> QED
  <2>1. CASE c.kind = "Compile"
    <3>1. Executed(c, w) = {Panicked(c)} \union OfCompile(c, w)
      BY <2>1 DEF Executed
    <3> QED
      BY <1>3, <1>4, <2>1, <3>1 DEF Sources
  <2>2. CASE c.kind = "Update"
    <3>1. Executed(c, w) = {Panicked(c)} \union OfUpdate(c, w)
      BY <2>2 DEF Executed
    <3>2. OfUpdate(c, w) = IF c.session < w.current THEN {Outcome(w, Plain(c.model, c.session))}
                           ELSE OfCompile(c, w)
      BY DEF OfUpdate
    <3>3. c.kind \in Sources
      BY <2>2 DEF Sources
    <3> QED
      BY <1>3, <1>4, <1>5, <2>2, <3>1, <3>2, <3>3
  <2>3. CASE c.kind = "Reset"
    <3>1. Executed(c, w) = {Panicked(c)} \union OfReset(c, w)
      BY <2>3 DEF Executed
    <3> QED
      BY <1>3, <1>6, <2>3, <3>1
  <2>4. CASE c.kind = "Step"
    <3>1. Executed(c, w) = {Panicked(c)} \union OfStep(c, w)
      BY <2>4 DEF Executed
    <3> QED
      BY <1>3, <1>7, <2>4, <3>1
  <2> QED
    BY <1>1, <2>1, <2>2, <2>3, <2>4

\* A command of the worker's turn: everything else of its model is behind it,
\* and what it had answered was sent before.
LEMMA GoodExecuted ==
    ASSUME NEW m \in Models, NEW k, NEW a, NEW w, NEW s, NEW s2, NEW t, NEW t2, NEW u,
           NEW c \in s, c.kind \in Lifecycle \union {"Step"},
           Sorts(m, k, a, w, s, t), Good(m, k, a, w, s, t, u),
           \A y \in s \ {c} : IF Removal(y) THEN k = Absent ELSE Earlier(c, y),
           \A x \in t : Earlier(x, c),
           NEW o \in Executed(c, w), s2 = s \ {c}, t2 = t \union {o.answer}
    PROVE  Good(m, k, a, o.state, s2, t2, u)
<1> DEFINE w2 == o.state
           r == o.answer
<1>1. c \in Posted /\ c.model = m /\ w \in WorkerOf /\ ~Removal(c)
  BY DEF Sorts, Removal, Lifecycle
<1>2. w.current <= c.session
  BY <1>1 DEF Good, SessionsFollow
<1>3. /\ Follows(o, c, w) /\ r.kind = c.kind
      /\ \/ Panics(o) /\ r.source = c.source
         \/ SourceTaken(o, c, w) \/ ResetDone(o, c, w) \/ StepDone(o, c, w)
  BY <1>1, <1>2, ExecutedOutcome
<1>4. /\ c.session \in Nat /\ c.id \in Nat /\ c.source \in Source \union {Absent}
      /\ c.kind # "Step" => c.id = 0
      /\ c.kind \in Sources => c.source \in Source
  BY <1>1, PostedFields DEF Sources
<1>5. /\ r \in Given /\ r.session = c.session /\ r.id = c.id
      /\ w2 \in WorkerOf /\ w2.current \in {w.current, c.session, 0}
      /\ ~Removal(r)
  BY <1>3, GivenFields DEF Follows, Removal
<1> HIDE DEF w2, r
<1>6. a # Absent
  BY <1>1 DEF Good, Unasked
<1>7. w.current \in Nat /\ \A y \in s : y.session \in Nat /\ y.id \in Nat
  BY <1>1, WorkerFields, PostedFields DEF Sorts
<1>8. \A y \in s2 : ~Removal(y) => w2.current <= y.session /\ c.session <= y.session
  <2>1. SUFFICES ASSUME NEW y \in s2, ~Removal(y)
                 PROVE  w2.current <= y.session /\ c.session <= y.session
    OBVIOUS
  <2>2. Earlier(c, y) /\ y.session \in Nat /\ w.current <= y.session
    BY <1>7, <2>1 DEF Good, SessionsFollow
  <2> QED
    BY <1>4, <1>5, <1>7, <2>2 DEF Earlier
<1>9. Settled(m, k, a, w2, s2, t2, u)
  <2>1. CASE Pending(s2) # {}
    <3>1. Pending(s) # {} /\ Pending(s2) = Pending(s) \ {c}
      BY <2>1 DEF Pending
    <3>2. PICK x \in Pending(s) : x.source = a /\ \A y \in Pending(s) : y = x \/ Earlier(y, x)
      BY <3>1 DEF Good, Settled
    <3>3. PICK y \in Pending(s2) : TRUE
      BY <2>1
    <3>4. y \in s /\ y # c /\ Earlier(c, y) /\ y.session \in Nat /\ y.id \in Nat
      BY <1>7 DEF Pending, Sources, Removal
    <3>5. ~Earlier(y, c)
      BY <1>4, <3>4 DEF Earlier
    <3>6. x # c
      BY <3>1, <3>2, <3>4, <3>5
    <3> QED
      BY <2>1, <3>1, <3>2, <3>6 DEF Settled
  <2>2. CASE Pending(s2) = {} /\ c.kind \in Sources
    <3>1. Pending(s) = {c}
      BY <2>2 DEF Pending
    <3>2. c.source = a
      BY <3>1 DEF Good, Settled
    <3>3. LostOf(a, r) \/ w2.cache = a
      BY <1>3, <2>2, <3>2 DEF LostOf, Panics, SourceTaken, ResetDone, StepDone, Sources, r, w2
    <3> QED
      BY <2>2, <3>3 DEF Settled, r
  <2>3. CASE Pending(s2) = {} /\ c.kind \notin Sources
    <3>1. Pending(s) = {}
      BY <2>3 DEF Pending
    <3>2. w.cache = a \/ (\E x \in t : LostOf(a, x)) \/ (k # Absent => ~k.compiled) \/ m \in u
      BY <1>6, <3>1 DEF Good, Settled
    <3>3. LostOf(a, r) \/ w2.cache = w.cache
      BY <1>3, <2>3 DEF LostOf, Panics, SourceTaken, ResetDone, StepDone, r, w2
    <3> QED
      BY <2>3, <3>2, <3>3 DEF Settled, r
  <2> QED
    BY <2>1, <2>2, <2>3
<1>10. Unasked(k, a, w2, s2, t2)
  BY <1>6 DEF Unasked
<1>11. Classed(m, k, a, s2)
  BY DEF Good, Classed
<1>12. CASE k = Absent
  <2>1. SessionsFollow(k, w2, s2, t2)
    BY <1>8, <1>12 DEF SessionsFollow
  <2>2. /\ StepsAreAlone(k, s2, t2) /\ SourcesAreAsked(k, a, s2, t2) /\ RemovedIsUnknown(k, w2, s2)
        /\ AnswersAreTrue(k, w2, t2) /\ StepsAreDue(k, w2, s2) /\ ReadyIsTuned(k, w2)
    BY <1>12 DEF StepsAreAlone, SourcesAreAsked, RemovedIsUnknown, AnswersAreTrue, StepsAreDue,
                 ReadyIsTuned, Current
  <2> QED
    BY <1>9, <1>10, <1>11, <2>1, <2>2 DEF Good, w2
<1>13. CASE k # Absent
  <2>1. k.session \in Nat /\ c.session <= k.session /\ w.current <= k.session
    BY <1>1, <1>13, ComponentFields DEF Sorts, Good, SessionsFollow
  <2>2. \A y \in s : ~Removal(y)
    BY <1>1, <1>13
  <2>3. SessionsFollow(k, w2, s2, t2)
    <3>1. w2.current <= k.session
      BY <1>4, <1>5, <1>7, <2>1
    <3>2. \A x \in s2 \union t2 : ~Removal(x) => x.session <= k.session
      BY <1>5, <1>13, <2>1 DEF Good, SessionsFollow, r
    <3> QED
      BY <1>8, <3>1, <3>2 DEF SessionsFollow
  <2>4. ~(k.compiled /\ ~k.stepping)
    BY <1>1, <1>13 DEF Good, StepsAreAlone
  <2>5. ASSUME NEW x \in t, x.session = k.session
        PROVE  FALSE
    <3>1. Earlier(x, c) /\ x.session \in Nat /\ x.id \in Nat
      BY GivenFields DEF Sorts
    <3>2. c.session = k.session /\ x.id < c.id
      BY <1>4, <2>1, <2>5, <3>1 DEF Earlier
    <3>3. c.kind = "Step"
      BY <1>4, <3>1, <3>2
    <3> QED
      BY <1>13, <3>2, <3>3 DEF Good, StepsAreAlone
  <2>6. ASSUME NEW x \in s2, x.session = k.session, x.kind = "Step"
        PROVE  FALSE
    <3>1. Removal(c) \/ c = x
      BY <1>13, <2>6 DEF Good, StepsAreAlone
    <3> QED
      BY <1>1, <2>6, <3>1
  <2>7. StepsAreAlone(k, s2, t2)
    <3>1. ASSUME c.kind = "Step", c.session = k.session
          PROVE  /\ k.compiled /\ k.stepping /\ k.inFlight # 0 /\ r.id = k.inFlight
                 /\ t2 = {r} /\ \A y \in s2 : Removal(y)
      BY <1>5, <1>13, <3>1 DEF Good, StepsAreAlone, r
    <3>2. \A x \in t2 : x \in t \/ x = r
      BY DEF r
    <3> QED
      BY <1>3, <1>5, <2>4, <2>5, <2>6, <3>1, <3>2 DEF StepsAreAlone
  <2>8. SourcesAreAsked(k, a, s2, t2)
    <3>1. Current(k, c) /\ c.kind \in Sources => c.source = a
      BY <1>1 DEF Good, SourcesAreAsked
    <3>2. Current(k, r) => Current(k, c)
      BY <1>1, <1>5 DEF Current
    <3>3. c.kind \in Sources => r.source = c.source
      BY <1>3 DEF SourceTaken, ResetDone, StepDone, Sources, r
    <3>4. Current(k, r) /\ r.kind \in Sources => r.source = a
      BY <1>3, <3>1, <3>2, <3>3
    <3> QED
      BY <3>4 DEF Good, SourcesAreAsked, r
  <2>9. RemovedIsUnknown(k, w2, s2)
    BY <2>2 DEF RemovedIsUnknown
  <2>10. AnswersAreTrue(k, w2, t2)
    <3>1. ASSUME NEW x \in t, Current(k, x)
          PROVE  FALSE
      BY <2>5, <3>1 DEF Current
    <3>2. SUFFICES ASSUME Current(k, r)
                   PROVE  \/ /\ r.kind \in Lifecycle
                             /\ r.error = "none" => Tuned(k, w2, 0)
                             /\ r.error = "none" /\ r.kind \in Sources => w2.cache = r.source
                          \/ /\ r.kind = "Step"
                             /\ r.error # "clock"
                             /\ r.error = "none" => r.time = k.time + 1 /\ Tuned(k, w2, k.time + 1)
      BY <3>1 DEF AnswersAreTrue, r
    <3>3. c.session = k.session /\ Current(k, c)
      BY <1>1, <1>5, <3>2 DEF Current
    <3>4. CASE Panics(o)
      BY <1>3, <3>4 DEF Panics, r
    <3>5. CASE SourceTaken(o, c, w)
      <4>1. r.error = "none" => w2.cache = c.source /\ w2.stepper = Fresh(k.session, c.source)
                                /\ r.source = c.source
        BY <3>3, <3>5 DEF SourceTaken, r, w2
      <4>2. r.kind \in Lifecycle /\ c.source # Absent
        BY <1>3, <1>4, <3>5, AbsentIsNone DEF SourceTaken, Sources, Lifecycle
      <4> QED
        BY <4>1, <4>2 DEF Tuned, Fresh
    <3>6. CASE ResetDone(o, c, w)
      <4>1. r.error = "none" => /\ w2.cache = w.cache
                                /\ w2.stepper = IF w.cache = Absent THEN Absent
                                                ELSE Fresh(k.session, w.cache)
        BY <3>3, <3>6 DEF ResetDone, r, w2
      <4>2. r.kind \in Lifecycle /\ r.kind \notin Sources
        BY <1>3, <3>6 DEF ResetDone, Sources, Lifecycle
      <4> QED
        BY <4>1, <4>2 DEF Tuned, Fresh
    <3>7. CASE StepDone(o, c, w)
      <4>1. c.kind = "Step" /\ c.start = k.time /\ Tuned(k, w, k.time)
        BY <3>3, <3>7 DEF StepDone, Good, StepsAreDue
      <4>2. Standing(c, w) /\ w2.cache = w.cache /\ Stepped(o, c, w)
        BY <3>3, <3>7, <4>1 DEF Tuned, Standing, StepDone, w2
      <4>3. /\ r.error # "clock"
            /\ r.error = "none" =>
                 /\ w.cache # Absent /\ r.time = k.time + 1 /\ w2.cache = w.cache
                 /\ w2.stepper = [session |-> k.session, source |-> w.cache, time |-> k.time + 1]
        BY <3>3, <4>1, <4>2 DEF Stepped, r, w2
      <4> QED
        BY <1>3, <4>1, <4>3 DEF Tuned
    <3> QED
      BY <1>3, <3>4, <3>5, <3>6, <3>7
  <2>11. StepsAreDue(k, w2, s2)
    BY <2>6 DEF StepsAreDue, Current
  <2>12. ReadyIsTuned(k, w2)
    BY <2>4 DEF ReadyIsTuned
  <2> QED
    BY <1>9, <1>10, <1>11, <2>3, <2>7, <2>8, <2>9, <2>10, <2>11, <2>12 DEF Good, w2
<1> QED
  BY <1>12, <1>13

----------------------------------------------------------------------------
(* Sequences in order.                                                      *)

LEMMA RowJoined ==
    ASSUME NEW order, NEW S, NEW s \in Seq(S), NEW t \in Seq(S)
    PROVE  Row(order, s \o t) <=> Row(order, s) /\ Row(order, t) /\ Ahead(order, s, t)
<1>1. /\ s \o t \in Seq(S) /\ Len(s \o t) = Len(s) + Len(t)
      /\ \A i \in 1..(Len(s) + Len(t)) :
            (s \o t)[i] = IF i <= Len(s) THEN s[i] ELSE t[i - Len(s)]
  BY ConcatProperties
<1>2. /\ DOMAIN s = 1..Len(s) /\ DOMAIN t = 1..Len(t) /\ DOMAIN (s \o t) = 1..(Len(s) + Len(t))
      /\ Len(s) \in Nat /\ Len(t) \in Nat
  BY <1>1, LenProperties
<1>3. Range(s) = {s[i] : i \in 1..Len(s)} /\ Range(t) = {t[i] : i \in 1..Len(t)}
  BY RangeEquality
<1> DEFINE u == s \o t
<1>4. \A i \in 1..Len(s) : i \in DOMAIN u /\ u[i] = s[i]
  BY <1>1, <1>2
<1>5. \A j \in 1..Len(t) : Len(s) + j \in DOMAIN u /\ u[Len(s) + j] = t[j]
  BY <1>1, <1>2
<1>6. ASSUME Row(order, u)
      PROVE  Row(order, s) /\ Row(order, t) /\ Ahead(order, s, t)
  <2>1. Row(order, s)
    BY <1>2, <1>4, <1>6 DEF Row
  <2>2. ASSUME NEW i \in DOMAIN t, NEW j \in DOMAIN t, i < j
        PROVE  <<t[i], t[j]>> \in order
    <3>1. Len(s) + i \in DOMAIN u /\ Len(s) + j \in DOMAIN u /\ Len(s) + i < Len(s) + j
      BY <1>2, <1>5, <2>2
    <3> QED
      BY <1>2, <1>5, <1>6, <2>2, <3>1 DEF Row
  <2>3. ASSUME NEW x \in Range(s), NEW y \in Range(t)
        PROVE  <<x, y>> \in order
    <3>1. PICK i \in 1..Len(s) : x = s[i]
      BY <1>3
    <3>2. PICK j \in 1..Len(t) : y = t[j]
      BY <1>3
    <3>3. i \in DOMAIN u /\ Len(s) + j \in DOMAIN u /\ i < Len(s) + j
      BY <1>2, <1>4, <1>5
    <3> QED
      BY <1>4, <1>5, <1>6, <3>1, <3>2, <3>3 DEF Row
  <2> QED
    BY <2>1, <2>2, <2>3 DEF Row, Ahead
<1>7. ASSUME Row(order, s), Row(order, t), Ahead(order, s, t),
             NEW i \in DOMAIN u, NEW j \in DOMAIN u, i < j
      PROVE  <<u[i], u[j]>> \in order
  <2>1. i \in 1..(Len(s) + Len(t)) /\ j \in 1..(Len(s) + Len(t))
    BY <1>2
  <2>2. CASE j <= Len(s)
    <3>1. i \in DOMAIN s /\ j \in DOMAIN s /\ u[i] = s[i] /\ u[j] = s[j]
      BY <1>1, <1>2, <1>7, <2>1, <2>2
    <3> QED
      BY <1>7, <3>1 DEF Row
  <2>3. CASE i > Len(s)
    <3>1. /\ i - Len(s) \in DOMAIN t /\ j - Len(s) \in DOMAIN t /\ i - Len(s) < j - Len(s)
          /\ u[i] = t[i - Len(s)] /\ u[j] = t[j - Len(s)]
      BY <1>1, <1>2, <1>7, <2>1, <2>3
    <3> QED
      BY <1>7, <3>1 DEF Row
  <2>4. CASE i <= Len(s) /\ j > Len(s)
    <3>1. /\ i \in 1..Len(s) /\ j - Len(s) \in 1..Len(t)
          /\ u[i] = s[i] /\ u[j] = t[j - Len(s)]
      BY <1>1, <1>2, <2>1, <2>4
    <3>2. u[i] \in Range(s) /\ u[j] \in Range(t)
      BY <1>3, <3>1
    <3> QED
      BY <1>7, <3>2 DEF Ahead
  <2>5. j <= Len(s) \/ i > Len(s) \/ (i <= Len(s) /\ j > Len(s))
    BY <1>2, <2>1
  <2> QED
    BY <2>2, <2>3, <2>4, <2>5
<1> HIDE DEF u
<1>8. Row(order, s) /\ Row(order, t) /\ Ahead(order, s, t) => Row(order, u)
  BY <1>7 DEF Row
<1> QED
  BY <1>6, <1>8 DEF u

LEMMA AheadJoined ==
    ASSUME NEW order, NEW S, NEW s \in Seq(S), NEW t \in Seq(S), NEW u
    PROVE  /\ Ahead(order, s \o t, u) <=> Ahead(order, s, u) /\ Ahead(order, t, u)
           /\ Ahead(order, u, s \o t) <=> Ahead(order, u, s) /\ Ahead(order, u, t)
BY RangeConcatenation DEF Ahead

LEMMA SingleRow ==
    ASSUME NEW order, NEW S, NEW x \in S
    PROVE  <<x>> \in Seq(S) /\ Range(<<x>>) = {x} /\ Row(order, <<x>>)
<1>1. <<x>> \in Seq(S) /\ DOMAIN <<x>> = 1..1 /\ <<x>>[1] = x
  OBVIOUS
<1>2. Range(<<x>>) = {x}
  BY <1>1 DEF Range
<1>3. \A i, j \in 1..1 : ~(i < j)
  OBVIOUS
<1> QED
  BY <1>1, <1>2, <1>3 DEF Row

LEMMA EmptyRow ==
    ASSUME NEW order, NEW S
    PROVE  <<>> \in Seq(S) /\ Range(<<>>) = {} /\ Row(order, <<>>)
<1>1. <<>> \in Seq(S) /\ DOMAIN <<>> = {}
  OBVIOUS
<1> QED
  BY <1>1 DEF Row, Range

LEMMA HeadAndTail ==
    ASSUME NEW S, NEW s \in Seq(S), s # <<>>
    PROVE  /\ Head(s) \in S /\ Tail(s) \in Seq(S) /\ <<Head(s)>> \in Seq(S)
           /\ s = <<Head(s)>> \o Tail(s)
           /\ Range(s) = {Head(s)} \union Range(Tail(s))
<1>1. Head(s) \in S /\ Tail(s) \in Seq(S) /\ <<Head(s)>> \in Seq(S)
  BY HeadTailProperties
<1>2. s = <<Head(s)>> \o Tail(s)
  <2>1. SubSeq(s, 1, Len(s)) = <<s[1]>> \o SubSeq(s, 2, Len(s))
    <3>1. Len(s) \in Nat \ {0}
      BY EmptySeq
    <3>2. 1 \in 1..Len(s) /\ Len(s) \in 1..Len(s)
      BY <3>1
    <3> HIDE <3>1
    <3> QED
      BY <3>2, SubSeqRecursiveFirst
  <2>2. Head(s) = s[1]
    OBVIOUS
  <2> QED
    BY <2>1, <2>2, SubSeqFull, TailIsSubSeq
<1> QED
  <2>1. Range(<<Head(s)>>) = {Head(s)}
    BY <1>1, SingleRow
  <2>2. Range(<<Head(s)>> \o Tail(s)) = Range(<<Head(s)>>) \union Range(Tail(s))
    BY <1>1, RangeConcatenation
  <2> QED
    BY <1>1, <1>2, <2>1, <2>2

LEMMA AppendedRange ==
    ASSUME NEW S, NEW s \in Seq(S), NEW x \in S
    PROVE  Append(s, x) \in Seq(S) /\ Range(Append(s, x)) = Range(s) \union {x}
<1>1. <<x>> \in Seq(S) /\ Range(<<x>>) = {x}
  BY SingleRow
<1>2. Range(s \o <<x>>) = Range(s) \union Range(<<x>>)
  <2>1. PICK t \in Seq(S) : t = <<x>>
    BY <1>1
  <2>2. Range(s \o t) = Range(s) \union Range(t)
    BY RangeConcatenation
  <2> QED
    BY <2>1, <2>2
<1>3. Append(s, x) = s \o <<x>>
  BY AppendIsConcat
<1> QED
  BY <1>1, <1>2, <1>3, AppendProperties

\* Of a set of things a sequence is made that has them all, each once.
LEMMA SequenceOfSet ==
    ASSUME NEW S, IsFiniteSet(S)
    PROVE  /\ SetToSeq(S) \in Seq(S) /\ Range(SetToSeq(S)) = S
           /\ \A i, j \in DOMAIN SetToSeq(S) : SetToSeq(S)[i] = SetToSeq(S)[j] => i = j
<1> DEFINE n == Cardinality(S)
<1>1. n \in Nat /\ ExistsBijection(1..n, S)
  BY FS_CardinalityType
<1>2. \E f \in [1..n -> S] : IsInjective(f)
  BY <1>1 DEF ExistsBijection, Bijection, Injection
<1> DEFINE f == SetToSeq(S)
<1>3. f \in [1..n -> S] /\ IsInjective(f)
  BY <1>2 DEF SetToSeq
<1>4. f \in Surjection(1..n, S)
  <2>1. f \in Injection(1..n, S)
    BY <1>3 DEF Injection
  <2>2. Cardinality(1..n) = n
    BY <1>1, FS_Interval
  <2> HIDE DEF f
  <2> QED
    BY <2>1, <2>2, FS_Injection
<1> HIDE DEF f, n
<1>5. f \in Seq(S)
  BY <1>1, <1>3
<1>6. DOMAIN f = 1..n
  BY <1>3
<1>7. Range(f) = S
  BY <1>3, <1>4, <1>6 DEF Range, Surjection
<1> QED
  BY <1>3, <1>5, <1>7 DEF IsInjective, f

\* The commands at chosen places: those, and in order if the lane is.
LEMMA PickedRow ==
    ASSUME NEW order, NEW S, NEW lane \in Seq(S), NEW chosen, Row(order, lane)
    PROVE  /\ Picked(lane, chosen) \in Seq(S)
           /\ Range(Picked(lane, chosen)) = {lane[i] : i \in DOMAIN lane \intersect chosen}
           /\ Row(order, Picked(lane, chosen))
<1> DEFINE n == Len(lane)
           Step(i, p) == IF i \in chosen THEN Append(p, lane[i]) ELSE p
           N(f) == f = [i \in 0..n |->
                           IF i = 0 THEN <<>>
                           ELSE IF i \in chosen THEN Append(f[i - 1], lane[i]) ELSE f[i - 1]]
           Right(i, p) ==
             /\ p \in Seq(S)
             /\ Range(p) = {lane[j] : j \in (1..i) \intersect chosen}
             /\ Row(order, p)
<1>1. n \in Nat /\ DOMAIN lane = 1..n /\ \A i \in 1..n : lane[i] \in S
  BY LenProperties, ElementOfSeq
<1>2. Picked(lane, chosen) = (CHOOSE f : N(f))[n]
  BY DEF Picked
<1> HIDE DEF n
<1>3. \A i \in 1..n, p \in Seq(S) : Step(i, p) \in Seq(S)
  BY <1>1, AppendProperties
<1>4. \E f \in [0..n -> Seq(S)] : N(f)
  <2> DEFINE step == [i \in 1..n |-> [p \in Seq(S) |-> Step(i, p)]]
  <2>1. step \in [1..n -> [Seq(S) -> Seq(S)]]
    BY <1>3
  <2>2. \A i \in 1..n, p \in Seq(S) : step[i][p] = Step(i, p)
    OBVIOUS
  <2>3. <<>> \in Seq(S)
    BY EmptySeq
  <2> HIDE DEF step
  <2>4. PICK f \in [0..n -> Seq(S)] : Runs(f, <<>>, step, n)
    BY <1>1, <2>1, <2>3, RecursionExists
  <2>5. ASSUME NEW i \in 1..n
        PROVE  f[i] = Step(i, f[i - 1])
    <3>1. f[i - 1] \in Seq(S)
      BY <1>1
    <3> QED
      BY <2>2, <2>4, <3>1 DEF Runs
  <2>6. \A i \in 0..n : i # 0 => i \in 1..n
    BY <1>1
  <2> QED
    BY <2>4, <2>5, <2>6 DEF Runs
<1> DEFINE f == CHOOSE f : N(f)
<1>5. N(f)
  BY <1>4
<1> HIDE DEF f
<1> DEFINE T == {i \in Nat : i <= n => Right(i, f[i])}
<1>6. 0 \in T
  <2>1. f[0] = <<>> /\ 1..0 = {}
    BY <1>1, <1>5
  <2>2. <<>> \in Seq(S) /\ Range(<<>>) = {} /\ Row(order, <<>>)
    BY EmptyRow
  <2> QED
    BY <2>1, <2>2
<1>7. ASSUME NEW i \in Nat, i \in T
      PROVE  i + 1 \in T
  <2>1. SUFFICES ASSUME i + 1 <= n
                 PROVE  Right(i + 1, f[i + 1])
    <3> HIDE DEF Right
    <3> QED
      OBVIOUS
  <2> DEFINE p == f[i]
             x == lane[i + 1]
  <2>2. i + 1 \in 1..n /\ i + 1 \in 0..n /\ i + 1 # 0 /\ (i + 1) - 1 = i /\ i <= n
    BY <1>1, <2>1
  <2>3. Right(i, p)
    BY <1>7, <2>2
  <2>4. f[i + 1] = IF i + 1 \in chosen THEN Append(p, x) ELSE p
    BY <1>5, <2>2
  <2>5. x \in S /\ 1..(i + 1) = (1..i) \union {i + 1}
    BY <1>1, <2>2
  <2>6. \A j \in 1..i : j \in DOMAIN lane /\ <<lane[j], x>> \in order
    BY <1>1, <2>2 DEF Row
  <2> HIDE DEF p, f
  <2>7. CASE i + 1 \notin chosen
    <3>1. (1..(i + 1)) \intersect chosen = (1..i) \intersect chosen
      BY <2>5, <2>7
    <3> QED
      BY <2>3, <2>4, <2>7, <3>1
  <2>8. CASE i + 1 \in chosen
    <3>1. (1..(i + 1)) \intersect chosen = ((1..i) \intersect chosen) \union {i + 1}
      BY <2>5, <2>8
    <3>2. {lane[j] : j \in (1..(i + 1)) \intersect chosen}
             = {lane[j] : j \in (1..i) \intersect chosen} \union {x}
      BY <3>1
    <3> HIDE DEF x
    <3>3. Append(p, x) \in Seq(S) /\ Range(Append(p, x)) = Range(p) \union {x}
      BY <2>3, <2>5, AppendedRange
    <3>7. Append(p, x) = p \o <<x>>
      BY <2>3, <2>5, AppendIsConcat
    <3>4. <<x>> \in Seq(S) /\ Range(<<x>>) = {x} /\ Row(order, <<x>>)
      BY <2>5, SingleRow
    <3>5. Ahead(order, p, <<x>>)
      BY <2>3, <2>6, <3>4 DEF Ahead
    <3>6. Row(order, p \o <<x>>)
      BY <2>3, <3>4, <3>5, RowJoined
    <3> QED
      BY <2>3, <2>4, <2>8, <3>2, <3>3, <3>6, <3>7
  <2> QED
    BY <2>7, <2>8
<1> HIDE DEF T, Right
<1>8. n \in T
  BY <1>1, <1>6, <1>7, InductionOnNat
<1>9. Right(n, f[n])
  BY <1>1, <1>8 DEF T
<1> QED
  BY <1>1, <1>2, <1>9 DEF Right, f

----------------------------------------------------------------------------
(* Five sequences in order, and what the actions do to them.                *)

Items(r, b, s, l, c) == Range(r) \union Range(b) \union Range(s) \union Range(l) \union Range(c)

\* Another order will do, if it has the pairs that occur.
LEMMA LinedOtherwise ==
    ASSUME NEW order, NEW order2, NEW r, NEW b, NEW s, NEW l, NEW c,
           Lined(order, r, b, s, l, c),
           \A x, y \in Items(r, b, s, l, c) : <<x, y>> \in order => <<x, y>> \in order2
    PROVE  Lined(order2, r, b, s, l, c)
<1>1. \A q, i : i \in DOMAIN q => q[i] \in Range(q)
  BY DEF Range
<1>2. Row(order2, r) /\ Row(order2, b) /\ Row(order2, s) /\ Row(order2, l) /\ Row(order2, c)
  BY <1>1 DEF Lined, Row, Items
<1>3. /\ Ahead(order2, r, b) /\ Ahead(order2, r, s) /\ Ahead(order2, r, l) /\ Ahead(order2, r, c)
      /\ Ahead(order2, b, s) /\ Ahead(order2, b, l) /\ Ahead(order2, b, c)
      /\ Ahead(order2, s, l) /\ Ahead(order2, s, c) /\ Ahead(order2, l, c)
  BY DEF Lined, Ahead, Items
<1> QED
  BY <1>2, <1>3 DEF Lined

\* Something is sent.
LEMMA LinedSent ==
    ASSUME NEW order, NEW S, NEW r \in Seq(S), NEW b \in Seq(S), NEW s \in Seq(S),
           NEW l \in Seq(S), NEW c \in Seq(S), NEW cmds \in Seq(S),
           Lined(order, r, b, s, l, c), Row(order, cmds),
           \A x \in Items(r, b, s, l, c), y \in Range(cmds) : <<x, y>> \in order
    PROVE  Lined(order, r, b, s, l, c \o cmds)
<1>1. /\ Ahead(order, r, cmds) /\ Ahead(order, b, cmds) /\ Ahead(order, s, cmds)
      /\ Ahead(order, l, cmds) /\ Ahead(order, c, cmds)
  BY DEF Ahead, Items
<1>2. Row(order, c \o cmds)
  BY <1>1, RowJoined DEF Lined
<1>3. /\ Ahead(order, r, c \o cmds) /\ Ahead(order, b, c \o cmds)
      /\ Ahead(order, s, c \o cmds) /\ Ahead(order, l, c \o cmds)
  BY <1>1, AheadJoined DEF Lined
<1> QED
  BY <1>2, <1>3 DEF Lined

\* The first answer is taken.
LEMMA LinedTaken ==
    ASSUME NEW order, NEW S, NEW r \in Seq(S), NEW b, NEW s, NEW l, NEW c,
           Lined(order, r, b, s, l, c), r # <<>>
    PROVE  /\ Lined(order, Tail(r), b, s, l, c)
           /\ \A x \in Items(Tail(r), b, s, l, c) : <<Head(r), x>> \in order
<1>1. /\ Tail(r) \in Seq(S) /\ <<Head(r)>> \in Seq(S) /\ r = <<Head(r)>> \o Tail(r)
      /\ Range(r) = {Head(r)} \union Range(Tail(r))
  BY HeadAndTail
<1>2. Row(order, Tail(r)) /\ Ahead(order, <<Head(r)>>, Tail(r))
  BY <1>1, RowJoined DEF Lined
<1>3. \A x \in Range(Tail(r)) : <<Head(r), x>> \in order
  <2>1. Range(<<Head(r)>>) = {Head(r)}
    BY <1>1, SingleRow, HeadTailProperties
  <2> QED
    BY <1>2, <2>1 DEF Ahead
<1> QED
  BY <1>1, <1>2, <1>3 DEF Lined, Ahead, Items

\* The first command of the round is done with, ...
LEMMA LinedDone ==
    ASSUME NEW order, NEW S, NEW r, NEW b \in Seq(S), NEW s, NEW l, NEW c,
           Lined(order, r, b, s, l, c), b # <<>>
    PROVE  /\ Lined(order, r, Tail(b), s, l, c)
           /\ \A x \in Items(<<>>, Tail(b), s, l, c) : <<Head(b), x>> \in order
           /\ \A x \in Range(r) : <<x, Head(b)>> \in order
<1>1. /\ Tail(b) \in Seq(S) /\ <<Head(b)>> \in Seq(S) /\ b = <<Head(b)>> \o Tail(b)
      /\ Range(b) = {Head(b)} \union Range(Tail(b))
  BY HeadAndTail
<1>2. Row(order, Tail(b)) /\ Ahead(order, <<Head(b)>>, Tail(b))
  BY <1>1, RowJoined DEF Lined
<1>3. \A x \in Range(Tail(b)) : <<Head(b), x>> \in order
  <2>1. Range(<<Head(b)>>) = {Head(b)}
    BY <1>1, SingleRow, HeadTailProperties
  <2> QED
    BY <1>2, <2>1 DEF Ahead
<1>4. Range(<<>>) = {}
  BY EmptyRow
<1> QED
  BY <1>1, <1>2, <1>3, <1>4 DEF Lined, Ahead, Items

\* ... and answered.
LEMMA LinedAnswered ==
    ASSUME NEW order, NEW S, NEW r \in Seq(S), NEW b \in Seq(S), NEW s \in Seq(S),
           NEW l \in Seq(S), NEW c \in Seq(S), NEW a \in S,
           Lined(order, r, b, s, l, c),
           \A x \in Items(<<>>, b, s, l, c) : <<a, x>> \in order,
           \A x \in Range(r) : <<x, a>> \in order
    PROVE  Lined(order, Append(r, a), b, s, l, c)
<1>0. <<a>> \in Seq(S) /\ Range(<<a>>) = {a} /\ Row(order, <<a>>)
  BY SingleRow
<1>1. Append(r, a) = r \o <<a>> /\ Range(Append(r, a)) = Range(r) \union {a}
  <2>1. Range(Append(r, a)) = Range(r) \union {a}
    BY AppendedRange
  <2>2. Append(r, a) = r \o <<a>>
    BY AppendIsConcat
  <2> QED
    BY <2>1, <2>2
<1>2. Ahead(order, r, <<a>>)
  BY <1>0 DEF Ahead
<1>3. Row(order, Append(r, a))
  BY <1>0, <1>1, <1>2, RowJoined DEF Lined
<1>4. /\ Ahead(order, Append(r, a), b) /\ Ahead(order, Append(r, a), s)
      /\ Ahead(order, Append(r, a), l) /\ Ahead(order, Append(r, a), c)
  BY <1>1 DEF Lined, Ahead, Items
<1> QED
  BY <1>3, <1>4 DEF Lined

\* The first command of the channel is put behind the compiles, ...
LEMMA LinedBehind ==
    ASSUME NEW order, NEW S, NEW r \in Seq(S), NEW b \in Seq(S), NEW s \in Seq(S),
           NEW l \in Seq(S), NEW c \in Seq(S), c # <<>>,
           Lined(order, r, b, s, l, c)
    PROVE  Lined(order, r, b, s, Append(l, Head(c)), Tail(c))
<1>1. /\ Head(c) \in S /\ Tail(c) \in Seq(S) /\ c = <<Head(c)>> \o Tail(c)
      /\ <<Head(c)>> \in Seq(S) /\ Row(order, <<Head(c)>>)
  BY HeadAndTail, SingleRow
<1>2. Append(l, Head(c)) = l \o <<Head(c)>>
  BY <1>1, AppendIsConcat
<1>3. /\ Row(order, Tail(c)) /\ Ahead(order, <<Head(c)>>, Tail(c))
  BY <1>1, RowJoined DEF Lined
<1>8. ASSUME NEW q, Ahead(order, q, c)
      PROVE  Ahead(order, q, <<Head(c)>>) /\ Ahead(order, q, Tail(c))
  <2>1. Ahead(order, q, <<Head(c)>> \o Tail(c))
    BY <1>1, <1>8
  <2> QED
    BY <1>1, <2>1, AheadJoined
<1>4. \A q \in {r, b, s, l} : Ahead(order, q, <<Head(c)>>) /\ Ahead(order, q, Tail(c))
  BY <1>8 DEF Lined
<1>5. Row(order, l \o <<Head(c)>>)
  BY <1>1, <1>4, RowJoined DEF Lined
<1>6. /\ Ahead(order, r, l \o <<Head(c)>>) /\ Ahead(order, b, l \o <<Head(c)>>)
      /\ Ahead(order, s, l \o <<Head(c)>>) /\ Ahead(order, l \o <<Head(c)>>, Tail(c))
  BY <1>1, <1>3, <1>4, AheadJoined DEF Lined
<1> QED
  BY <1>2, <1>3, <1>4, <1>5, <1>6 DEF Lined

\* ... or behind the steps, if it may go before the compiles.
LEMMA LinedBefore ==
    ASSUME NEW order, NEW S, NEW r \in Seq(S), NEW b \in Seq(S), NEW s \in Seq(S),
           NEW l \in Seq(S), NEW c \in Seq(S), c # <<>>,
           Lined(order, r, b, s, l, c),
           \A x \in Range(l) : <<Head(c), x>> \in order
    PROVE  Lined(order, r, b, Append(s, Head(c)), l, Tail(c))
<1>1. /\ Head(c) \in S /\ Tail(c) \in Seq(S) /\ c = <<Head(c)>> \o Tail(c)
      /\ <<Head(c)>> \in Seq(S) /\ Row(order, <<Head(c)>>) /\ Range(<<Head(c)>>) = {Head(c)}
  BY HeadAndTail, SingleRow
<1>2. Append(s, Head(c)) = s \o <<Head(c)>>
  BY <1>1, AppendIsConcat
<1>3. /\ Row(order, Tail(c)) /\ Ahead(order, <<Head(c)>>, Tail(c))
  BY <1>1, RowJoined DEF Lined
<1>8. ASSUME NEW q, Ahead(order, q, c)
      PROVE  Ahead(order, q, <<Head(c)>>) /\ Ahead(order, q, Tail(c))
  <2>1. Ahead(order, q, <<Head(c)>> \o Tail(c))
    BY <1>1, <1>8
  <2> QED
    BY <1>1, <2>1, AheadJoined
<1>4. \A q \in {r, b, s, l} : Ahead(order, q, <<Head(c)>>) /\ Ahead(order, q, Tail(c))
  BY <1>8 DEF Lined
<1>5. Row(order, s \o <<Head(c)>>)
  BY <1>1, <1>4, RowJoined DEF Lined
<1>6. Ahead(order, <<Head(c)>>, l)
  BY <1>1 DEF Ahead
<1>7. /\ Ahead(order, r, s \o <<Head(c)>>) /\ Ahead(order, b, s \o <<Head(c)>>)
      /\ Ahead(order, s \o <<Head(c)>>, l) /\ Ahead(order, s \o <<Head(c)>>, Tail(c))
  BY <1>1, <1>3, <1>4, <1>6, AheadJoined DEF Lined
<1> QED
  BY <1>2, <1>3, <1>4, <1>5, <1>7 DEF Lined

\* A lane with another command in the place of its last.
Replaced(l, x) == [l EXCEPT ![Len(l)] = x]

LEMMA LastReplaced ==
    ASSUME NEW S, NEW q \in Seq(S), NEW e \in S, NEW x \in S
    PROVE  Last(Append(q, e)) = e /\ Replaced(Append(q, e), x) = Append(q, x)
<1> DEFINE l == Append(q, e)
           l2 == Replaced(l, x)
<1>1. /\ l \in Seq(S) /\ Len(l) = Len(q) + 1 /\ Len(q) \in Nat /\ l[Len(q) + 1] = e
      /\ \A i \in 1..Len(q) : l[i] = q[i]
  BY AppendProperties, LenProperties
<1> HIDE DEF l
<1>2. Last(l) = e
  BY <1>1 DEF Last
<1>3. l2 \in Seq(S) /\ Len(l2) = Len(l) /\ \A j \in 1..Len(l) : l2[j] = IF j = Len(l) THEN x ELSE l[j]
  <2>1. Len(l) \in 1..Len(l)
    BY <1>1
  <2> QED
    BY <1>1, <2>1, ExceptSeq DEF Replaced
<1> HIDE DEF l2
<1>4. /\ Append(q, x) \in Seq(S) /\ Len(Append(q, x)) = Len(q) + 1
      /\ \A i \in 1..Len(q) : Append(q, x)[i] = q[i]
      /\ Append(q, x)[Len(q) + 1] = x
  BY AppendProperties
<1>5. ASSUME NEW j \in 1..Len(l2)
      PROVE  l2[j] = Append(q, x)[j]
  <2>1. j = Len(q) + 1 \/ j \in 1..Len(q)
    BY <1>1, <1>3
  <2> QED
    BY <1>1, <1>3, <1>4, <2>1
<1>6. l2 = Append(q, x)
  BY <1>1, <1>3, <1>4, <1>5, SeqEqual
<1> QED
  BY <1>2, <1>6 DEF l, l2

\* The first command of the channel takes the place of the last compile.
InsteadOfLast(order, S, r, b, s, l, c) ==
    /\ Lined(order, r, b, s, Replaced(l, Head(c)), Tail(c))
    /\ Replaced(l, Head(c)) \in Seq(S) /\ Last(l) \in Range(l)
    /\ Range(l) \union Range(c) =
          Range(Replaced(l, Head(c))) \union Range(Tail(c)) \union {Last(l)}
    /\ <<Last(l), Head(c)>> \in order

LEMMA LinedInstead ==
    ASSUME NEW order, NEW S, NEW r \in Seq(S), NEW b \in Seq(S), NEW s \in Seq(S),
           NEW l \in Seq(S), NEW c \in Seq(S), c # <<>>, l # <<>>,
           Lined(order, r, b, s, l, c)
    PROVE  InsteadOfLast(order, S, r, b, s, l, c)
<1> DEFINE h == Head(c)
           rest == Tail(c)
           l2 == Replaced(l, h)
<1>1. h \in S /\ h \in Range(c) /\ Range(c) = {h} \union Range(rest)
  BY HeadAndTail
<1> HIDE DEF h, rest
<1>2. PICK q \in Seq(S), e \in S : l = Append(q, e)
  BY SequenceEmptyOrAppend
<1>3. Last(l) = e /\ l2 = Append(q, h)
  <2>1. Last(Append(q, e)) = e /\ Replaced(Append(q, e), h) = Append(q, h)
    BY <1>1, LastReplaced
  <2> QED
    BY <1>2, <2>1
<1> HIDE DEF l2
<1>4. /\ l = q \o <<e>> /\ <<e>> \in Seq(S)
      /\ Range(l) = Range(q) \union {e}
      /\ Range(l2) = Range(q) \union {h} /\ l2 \in Seq(S)
  <2>1. Range(Append(q, e)) = Range(q) \union {e}
    BY AppendedRange
  <2>2. Append(q, e) = q \o <<e>>
    BY AppendIsConcat
  <2>3. Range(Append(q, h)) = Range(q) \union {h} /\ Append(q, h) \in Seq(S)
    BY <1>1, AppendedRange
  <2>4. <<e>> \in Seq(S)
    BY SingleRow
  <2> QED
    BY <1>2, <1>3, <2>1, <2>2, <2>3, <2>4
<1>5. Lined(order, r, b, s, q, c)
  <2>1. Row(order, q)
    BY <1>4, RowJoined DEF Lined
  <2>2. Ahead(order, r, q) /\ Ahead(order, b, q) /\ Ahead(order, s, q) /\ Ahead(order, q, c)
    BY <1>4 DEF Lined, Ahead
  <2> QED
    BY <2>1, <2>2 DEF Lined
<1>6. Lined(order, r, b, s, l2, rest)
  <2>1. Lined(order, r, b, s, Append(q, Head(c)), Tail(c))
    BY <1>5, LinedBehind
  <2> QED
    BY <1>3, <2>1 DEF h, rest
<1>7. e \in Range(l) /\ <<e, h>> \in order
  BY <1>1, <1>4 DEF Lined, Ahead
<1>8. Range(l) \union Range(c) = Range(l2) \union Range(rest) \union {e}
  BY <1>1, <1>4
<1> QED
  BY <1>3, <1>4, <1>6, <1>7, <1>8 DEF InsteadOfLast, l2, h, rest

\* A round is made of the steps and the first of the compiles, and of the rest
\* of them some go ahead.
Divides(order, l, go, stay) ==
    /\ go \union stay = DOMAIN Others(l)
    /\ \A i \in go, j \in stay : <<Others(l)[i], Others(l)[j]>> \in order
RoundOf(order, S, r, s, l, go, stay) ==
    /\ Lined(order, r, s \o Foremost(l), Picked(Others(l), go), Picked(Others(l), stay), <<>>)
    /\ s \o Foremost(l) \in Seq(S)
    /\ Picked(Others(l), go) \in Seq(S) /\ Picked(Others(l), stay) \in Seq(S)
    /\ Range(s) \union Range(l) =
          Range(s \o Foremost(l)) \union Range(Picked(Others(l), go))
          \union Range(Picked(Others(l), stay))

LEMMA LinedRound ==
    ASSUME NEW order, NEW S, NEW r \in Seq(S), NEW s \in Seq(S), NEW l \in Seq(S),
           NEW go, NEW stay,
           Lined(order, r, <<>>, s, l, <<>>), Divides(order, l, go, stay)
    PROVE  RoundOf(order, S, r, s, l, go, stay)
<1> DEFINE f == Foremost(l)
           o == Others(l)
           p == Picked(o, go)
           k == Picked(o, stay)
<1>1. /\ f \in Seq(S) /\ o \in Seq(S) /\ l = f \o o
      /\ Row(order, f) /\ Range(l) = Range(f) \union Range(o)
  <2>1. CASE l = <<>>
    <3>1. f = <<>> /\ o = <<>>
      BY <2>1 DEF Foremost, Others
    <3> HIDE DEF f, o
    <3> QED
      BY <2>1, <3>1, EmptyRow, ConcatEmptySeq
  <2>2. CASE l # <<>>
    <3>1. f = <<Head(l)>> /\ o = Tail(l)
      BY <2>2 DEF Foremost, Others
    <3> HIDE DEF f, o
    <3> QED
      BY <2>2, <3>1, HeadAndTail, SingleRow
  <2> QED
    BY <2>1, <2>2
<1>2. DOMAIN o = go \union stay
  BY DEF Divides
<1>3. \A i \in go, j \in stay : <<o[i], o[j]>> \in order
  BY DEF Divides
<1> HIDE DEF f, o
<1>4. /\ Row(order, o) /\ Ahead(order, f, o) /\ Ahead(order, r, f) /\ Ahead(order, r, o)
      /\ Ahead(order, s, f) /\ Ahead(order, s, o)
  BY <1>1, RowJoined, AheadJoined DEF Lined
<1>5. /\ p \in Seq(S) /\ Range(p) = {o[i] : i \in DOMAIN o \intersect go} /\ Row(order, p)
      /\ k \in Seq(S) /\ Range(k) = {o[i] : i \in DOMAIN o \intersect stay} /\ Row(order, k)
  BY <1>1, <1>4, PickedRow
<1> HIDE DEF p, k
<1>6. Range(p) \union Range(k) = Range(o)
  BY <1>2, <1>5 DEF Range
<1>7. Ahead(order, p, k)
  BY <1>3, <1>5 DEF Ahead
<1>8. s \o f \in Seq(S) /\ Row(order, s \o f) /\ Range(s \o f) = Range(s) \union Range(f)
  BY <1>1, <1>4, RowJoined, RangeConcatenation, ConcatProperties DEF Lined
<1>9. /\ Ahead(order, r, s \o f) /\ Ahead(order, r, p) /\ Ahead(order, r, k)
      /\ Ahead(order, s \o f, p) /\ Ahead(order, s \o f, k)
  BY <1>4, <1>6, <1>8 DEF Lined, Ahead
<1>10. /\ Row(order, <<>>) /\ \A q : Ahead(order, q, <<>>)
  BY EmptyRow DEF Ahead
<1>11. Lined(order, r, s \o f, p, k, <<>>)
  BY <1>4, <1>5, <1>7, <1>8, <1>9, <1>10 DEF Lined
<1>12. Range(s) \union Range(l) = Range(s \o f) \union Range(p) \union Range(k)
  BY <1>1, <1>6, <1>8
<1> QED
  BY <1>5, <1>8, <1>11, <1>12 DEF RoundOf, f, o, p, k

----------------------------------------------------------------------------
(* What the invariant says of things under way.                             *)

Item == Posted \union Given

LEMMA OrderIs ==
    ASSUME NEW x \in Item, NEW y \in Item
    PROVE  /\ <<x, y>> \in Order <=> Before(x, y)
           /\ <<x, y>> \in Order' <=> Before(x, y)'
BY DEF Order, Item

LEMMA ItemFields ==
    ASSUME NEW x \in Item
    PROVE  /\ x.model \in Models \union {Absent} /\ x.session \in Nat /\ x.id \in Nat
           /\ x.kind = "Load" <=> x.model = Absent
           /\ x.kind # "Step" => x.id = 0
BY PostedFields, GivenFields DEF Item

\* Where the sequences are, there are their items.
Flowing(s) == s \in Seq(Posted) /\ s \in Seq(Item) /\ Range(s) \in SUBSET Posted

LEMMA FlowingIs ==
    ASSUME NEW s \in Seq(Posted)
    PROVE  Flowing(s)
BY RangeOfSeq, SeqMonotonic DEF Flowing, Item

LEMMA UnderWay ==
    ASSUME Typed
    PROVE  /\ Flowing(channel) /\ Flowing(stepLane) /\ Flowing(compileLane) /\ Flowing(batch)
           /\ results \in Seq(Given) /\ results \in Seq(Item)
           /\ Told \in SUBSET Given /\ Sent \in SUBSET Posted
           /\ Items(results, batch, stepLane, compileLane, channel) = Sent \union Told
           /\ Sent \in SUBSET Item /\ Told \in SUBSET Item
<1>1. /\ Flowing(channel) /\ Flowing(stepLane) /\ Flowing(compileLane) /\ Flowing(batch)
  BY FlowingIs DEF Typed
<1>2. results \in Seq(Given) /\ results \in Seq(Item) /\ Range(results) \in SUBSET Given
  BY RangeOfSeq, SeqMonotonic DEF Typed, Item
<1>3. Told \in SUBSET Given /\ Sent \in SUBSET Posted
  BY <1>1, <1>2 DEF Told, Sent, Flowing
<1>4. Items(results, batch, stepLane, compileLane, channel) = Sent \union Told
  BY DEF Items, Sent, Told
<1> QED
  BY <1>1, <1>2, <1>3, <1>4 DEF Item

LEMMA ModelSorts ==
    ASSUME Typed, NEW m \in Models
    PROVE  /\ Sorts(m, model[m], asked[m], worker[m], Of(m, Sent), Of(m, Told))
           /\ m # Absent
<1>1. Told \in SUBSET Given /\ Sent \in SUBSET Posted
  BY UnderWay
<1>2. /\ model[m] \in Component \union {Absent} /\ asked[m] \in Source \union {Absent}
      /\ worker[m] \in WorkerOf
  BY DEF Typed, TypeOK
<1>3. m # Absent
  BY AbsentAssumption
<1> QED
  BY <1>1, <1>2, <1>3 DEF Sorts, Of

\* A model nothing is known of but by its own: what is said of it stays.
LEMMA GoodUntouched ==
    ASSUME NEW m, GoodModel(m), model'[m] = model[m], asked'[m] = asked[m], worker'[m] = worker[m],
           Of(m, Sent') = Of(m, Sent), Of(m, Told') = Of(m, Told), m \in unheard' <=> m \in unheard
    PROVE  GoodModel(m)'
<1>1. /\ Good(m, model[m], asked[m], worker[m], Of(m, Sent), Of(m, Told), unheard)
  BY DEF GoodModel
<1>2. Good(m, model[m], asked[m], worker[m], Of(m, Sent), Of(m, Told), unheard')
  BY <1>1 DEF Good, Settled
<1>3. Good(m, model'[m], asked'[m], worker'[m], Of(m, Sent'), Of(m, Told'), unheard')
  BY <1>2
<1> QED
  BY <1>3 DEF GoodModel, Of

LEMMA GoodModelLater ==
    ASSUME NEW m,
           Good(m, model'[m], asked'[m], worker'[m], Of(m, Sent'), Of(m, Told'), unheard')
    PROVE  GoodModel(m)'
BY DEF GoodModel, Of

\* Of a model nothing was asked of there is nothing under way but removals.
LEMMA UnaskedIsQuiet ==
    ASSUME Typed, NEW m \in Models, GoodModel(m), asked[m] = Absent
    PROVE  \A x \in Sent \union Told : x.model = m => Removal(x)
BY DEF GoodModel, Good, Unasked, Of

\* What may be said of two things stays said, unless a model came back.
LEMMA BeforeStays ==
    ASSUME Typed, returned \subseteq returned', NEW x \in Sent \union Told, NEW y \in Item,
           \A m \in Models \ returned' :
              /\ GoodModel(m)
              /\ model[m] = Absent /\ model'[m] # Absent => asked[m] = Absent,
           Before(x, y)
    PROVE  Before(x, y)'
<1>1. y.kind = "Load" => x.model \notin Workbench
  BY DEF Before
<1>2. ASSUME x.model = y.model, x.model \in Models \ returned', ~Removal(x)
      PROVE  IF Removal(y) THEN model'[x.model] = Absent ELSE Earlier(x, y)
  <2>1. IF Removal(y) THEN model[x.model] = Absent ELSE Earlier(x, y)
    BY <1>2 DEF Before, Present
  <2>2. asked[x.model] # Absent
    BY <1>2, UnaskedIsQuiet
  <2> QED
    BY <1>2, <2>1, <2>2
<1> QED
  BY <1>1, <1>2 DEF Before, Present, Removal, Earlier

\* What the main thread does with one model.
LEMMA MainStep ==
    ASSUME IInv, NEW m \in Models, NEW cmds \in Seq(Posted),
           channel' = channel \o cmds, UNCHANGED <<laneVars, worker, results>>,
           returned \subseteq returned',
           \A n \in Models : n # m => /\ model'[n] = model[n] /\ asked'[n] = asked[n]
                                      /\ n \in unheard' <=> n \in unheard,
           \A y \in Range(cmds) : y.model = m \/ y.kind = "Load",
           m \notin returned' => (model[m] = Absent /\ model'[m] # Absent => asked[m] = Absent),
           Row(Order', cmds),
           \A x \in Sent \union Told, y \in Range(cmds) : Before(x, y)'
    PROVE  /\ Ordered'
           /\ Sent' = Sent \union Range(cmds) /\ Told' = Told
           /\ Of(m, Told') = Of(m, Told)
           /\ \A n \in Models \ returned' : n # m => GoodModel(n)'
<1> USE DEF IInv
<1>1. /\ Flowing(channel) /\ Flowing(stepLane) /\ Flowing(compileLane) /\ Flowing(batch)
      /\ results \in Seq(Item) /\ Sent \in SUBSET Item /\ Told \in SUBSET Item
      /\ Items(results, batch, stepLane, compileLane, channel) = Sent \union Told
  BY UnderWay
<1>2. Flowing(cmds)
  BY FlowingIs
<1>3. Range(channel') = Range(channel) \union Range(cmds)
  BY <1>1, <1>2, RangeConcatenation DEF Flowing
<1>4. Sent' = Sent \union Range(cmds) /\ Told' = Told
  BY <1>3 DEF Sent, Told, laneVars
<1>5. \A n \in Models \ returned' :
         /\ GoodModel(n)
         /\ model[n] = Absent /\ model'[n] # Absent => asked[n] = Absent
  OBVIOUS
<1>6. \A x, y \in Sent \union Told : <<x, y>> \in Order => <<x, y>> \in Order'
  <2>1. ASSUME NEW x \in Sent \union Told, NEW y \in Sent \union Told, <<x, y>> \in Order
        PROVE  <<x, y>> \in Order'
    <3>1. x \in Item /\ y \in Item /\ Before(x, y)
      BY <1>1, <2>1, OrderIs
    <3>2. Before(x, y)'
      BY <1>5, <3>1, BeforeStays
    <3> QED
      BY <3>1, <3>2, OrderIs
  <2> QED
    BY <2>1
<1>7. Lined(Order', results, batch, stepLane, compileLane, channel)
  <2>1. Lined(Order, results, batch, stepLane, compileLane, channel)
    BY DEF Ordered
  <2> QED
    BY <1>1, <1>6, <2>1, LinedOtherwise
<1>8. \A x \in Sent \union Told, y \in Range(cmds) : <<x, y>> \in Order'
  <2>1. ASSUME NEW x \in Sent \union Told, NEW y \in Range(cmds)
        PROVE  <<x, y>> \in Order'
    <3>1. x \in Item /\ y \in Item
      BY <1>1, <1>2 DEF Flowing, Item
    <3>2. Before(x, y)'
      OBVIOUS
    <3> QED
      BY <3>1, <3>2, OrderIs
  <2> QED
    BY <2>1
<1>9. Lined(Order', results, batch, stepLane, compileLane, channel \o cmds)
  BY <1>1, <1>2, <1>7, <1>8, LinedSent DEF Flowing
<1>10. Ordered'
  BY <1>9 DEF Ordered, laneVars
<1>11. ASSUME NEW n \in Models \ returned', n # m
       PROVE  GoodModel(n)'
  <2>1. n # Absent
    BY AbsentAssumption
  <2>2. \A y \in Range(cmds) : y.model # n
    <3>1. \A y \in Range(cmds) : y.kind = "Load" => y.model = Absent
      BY <1>2, PostedFields DEF Flowing
    <3> QED
      BY <1>11, <2>1, <3>1
  <2>3. Of(n, Sent') = Of(n, Sent) /\ Of(n, Told') = Of(n, Told)
    BY <1>4, <2>2 DEF Of
  <2>4. GoodModel(n) /\ worker'[n] = worker[n]
    BY <1>5
  <2> QED
    BY <1>11, <2>3, <2>4, GoodUntouched
<1> QED
  BY <1>4, <1>10, <1>11

\* Whatever is under way of a model is older than the session it begins.
LEMMA SessionIsNew ==
    ASSUME Typed, NEW m \in Models, GoodModel(m), NEW k2 \in Component,
           IF model[m] = Absent THEN asked[m] = Absent ELSE k2.session = model[m].session + 1,
           NEW x \in Sent \union Told, x.model = m, ~Removal(x)
    PROVE  x.session < k2.session
<1>1. Sorts(m, model[m], asked[m], worker[m], Of(m, Sent), Of(m, Told))
  BY ModelSorts
<1>2. x \in Of(m, Sent) \union Of(m, Told)
  BY DEF Of
<1>3. /\ Unasked(model[m], asked[m], worker[m], Of(m, Sent), Of(m, Told))
      /\ SessionsFollow(model[m], worker[m], Of(m, Sent), Of(m, Told))
  BY DEF GoodModel, Good
<1> QED
  BY <1>1, <1>2, <1>3, NothingCurrent

\* Before the library is asked for nothing of the workbench is under way.
LEMMA WorkbenchIsQuiet ==
    ASSUME IInv, roots = "unloaded"
    PROVE  \A x \in Sent \union Told : x.model \notin Workbench
<1> SUFFICES ASSUME NEW m \in Workbench, NEW x \in Sent \union Told, x.model = m
             PROVE  FALSE
  OBVIOUS
<1>1. m \in Models /\ m \notin returned
  BY ModelsAssumption DEF IInv, LibraryFirst, Models
<1>2. GoodModel(m) /\ model[m] = Absent
  BY <1>1 DEF IInv, LibraryFirst, Present
<1>3. asked[m] = Absent /\ \A y \in Of(m, Sent) : ~Removal(y)
  BY <1>2 DEF GoodModel, Good, Classed
<1>4. Of(m, Told) = {} /\ \A y \in Of(m, Sent) : Removal(y)
  BY <1>2, <1>3 DEF GoodModel, Good, Unasked
<1> QED
  BY <1>3, <1>4 DEF Of

\* The types after a step of the main thread about one model.
LEMMA TypedMain ==
    ASSUME Typed, NEW m \in Models, NEW k2 \in Component \union {Absent},
           model' = [model EXCEPT ![m] = k2],
           k2 # Absent => (k2.inFlight # 0 => k2.stepping),
           channel' \in Seq(Posted), UNCHANGED <<cast, held, faults, laneVars, worker, results>>,
           edition' \in [Models -> 0..cast.editions],
           requested' \in [Workbench -> SUBSET (Classes \union {Own})],
           roots' \in {"unloaded", "loading", "ready", "failed"},
           asked' \in [Models -> Source \union {Absent}],
           unheard' \subseteq Models, vain' \subseteq Scenes, returned' \subseteq Networks
    PROVE  Typed'
<1>1. \A q : q \in Seq(Posted) => q \in Seq(Command)
  <2>1. Posted \subseteq Command
    BY DEF Posted
  <2> QED
    BY <2>1, SeqMonotonic
<1>2. model' \in [Models -> Component \union {Absent}]
  BY DEF Typed, TypeOK
<1>3. \A n \in Models : model'[n] # Absent => (model'[n].inFlight # 0 => model'[n].stepping)
  <2> SUFFICES ASSUME NEW n \in Models, model'[n] # Absent, model'[n].inFlight # 0
               PROVE  model'[n].stepping
    OBVIOUS
  <2>1. CASE n = m
    BY <2>1 DEF Typed, TypeOK
  <2>2. CASE n # m
    BY <2>2 DEF Typed, TypeOK, Present
  <2> QED
    BY <2>1, <2>2
<1>4. TypeOK'
  BY <1>1, <1>2, <1>3 DEF Typed, TypeOK, Present, laneVars
<1> QED
  BY <1>4 DEF Typed, laneVars

\* The library stays first where it is not asked for.
NoLibrary(m, new) ==
    /\ roots' = roots /\ returned' \subseteq Networks
    /\ Sent' = Sent \union new /\ Told' = Told
    /\ \A y \in new : y.kind # "Load" /\ y.kind # "Step"
    /\ \A n \in Models : n # m => model'[n] = model[n]
    /\ m \in Workbench /\ model'[m] # Absent =>
          /\ roots # "unloaded" \/ model[m] # Absent
          /\ model'[m].compiled => model[m] # Absent /\ model[m].compiled

LEMMA LibraryStays ==
    ASSUME IInv, NEW m \in Models, NEW new, NoLibrary(m, new)
    PROVE  LibraryFirst'
<1> USE DEF NoLibrary
<1>1. Workbench \subseteq Models
  BY DEF Models
<1>2. LibraryFirst
  BY DEF IInv
<1>3. roots' = "unloaded" =>
          /\ \A n \in Workbench : model'[n] = Absent
          /\ \A x \in Sent' \union Told' : x.kind # "Load"
  BY <1>1, <1>2 DEF LibraryFirst, Present
<1>4. \A x \in Sent' : x.kind = "Load" =>
          /\ \A n \in Workbench : model'[n] # Absent => ~model'[n].compiled
          /\ \A y \in Sent' : y.kind = "Step" => y.model \notin Workbench
          /\ \A y \in Told' : y.model \notin Workbench
  BY <1>1, <1>2 DEF LibraryFirst, Present
<1> QED
  BY <1>3, <1>4 DEF LibraryFirst, Present

\* Nothing is sent.
LEMMA Quietly ==
    ASSUME IInv, NEW m \in Models,
           UNCHANGED <<channel, laneVars, worker, results>>,
           returned \subseteq returned',
           \A n \in Models : n # m => /\ model'[n] = model[n] /\ asked'[n] = asked[n]
                                      /\ n \in unheard' <=> n \in unheard,
           m \notin returned' => (model[m] = Absent /\ model'[m] # Absent => asked[m] = Absent)
    PROVE  /\ Ordered'
           /\ Sent' = Sent /\ Told' = Told
           /\ \A n \in Models \ returned' : n # m => GoodModel(n)'
<1>1. <<>> \in Seq(Posted) /\ Range(<<>>) = {} /\ Row(Order', <<>>)
  BY EmptyRow
<1>2. channel' = channel \o <<>>
  <2>1. channel \in Seq(Posted)
    BY DEF IInv, Typed
  <2> QED
    BY <2>1, ConcatEmptySeq
<1> DEFINE none == <<>>
<1>3. none \in Seq(Posted) /\ Range(none) = {} /\ Row(Order', none) /\ channel' = channel \o none
  BY <1>1, <1>2
<1> HIDE DEF none
<1>4. /\ Ordered'
      /\ Sent' = Sent \union Range(none) /\ Told' = Told
      /\ \A n \in Models \ returned' : n # m => GoodModel(n)'
  BY <1>3, MainStep
<1> QED
  BY <1>3, <1>4

\* A command that begins a session is sent, the first time behind the library.
Library == Cmd("Load", Absent, 0, Absent)

LEMMA LibraryIsPosted ==
    /\ Library \in Posted /\ Library.kind = "Load" /\ Library.model = Absent
    /\ ~Removal(Library)
BY DEF Library, Cmd, Posted, Command, Removal

LEMMA PairRange ==
    ASSUME NEW S, NEW x \in S, NEW y \in S
    PROVE  Range(<<x>> \o <<y>>) = {x, y}
<1> DEFINE p == <<x>>
           q == <<y>>
<1>1. p \in Seq(S) /\ q \in Seq(S) /\ Range(p) = {x} /\ Range(q) = {y}
  BY SingleRow
<1> HIDE DEF p, q
<1>2. Range(p \o q) = Range(p) \union Range(q)
  BY <1>1, RangeConcatenation
<1> QED
  BY <1>1, <1>2 DEF p, q

Begun(m, k2, a2, c, cmds) ==
    /\ c.model = m /\ c.session = k2.session /\ c.kind \in Lifecycle
    /\ m \notin returned' =>
          IF model[m] = Absent THEN asked[m] = Absent /\ ~k2.compiled
          ELSE k2.session = model[m].session + 1 /\ (k2.compiled => model[m].compiled)
    /\ k2.compiled => k2.stepping
    /\ m \notin Workbench => k2.class = Own
    /\ a2.class = k2.class
    /\ IF c.kind \in Sources THEN a2 = c.source
       ELSE a2 = asked[m] /\ (m \in unheard => m \in unheard')
    /\ model' = [model EXCEPT ![m] = k2] /\ asked' = [asked EXCEPT ![m] = a2]
    /\ cmds = <<c>> \/ (roots = "unloaded" /\ cmds = <<Library>> \o <<c>>)
    /\ channel' = channel \o cmds
    /\ UNCHANGED <<laneVars, worker, results>>
    /\ returned \subseteq returned'
    /\ \A n \in Models : n # m => (n \in unheard' <=> n \in unheard)

LEMMA Begins ==
    ASSUME IInv, NEW m \in Models, NEW k2 \in Component, NEW a2 \in Source,
           NEW c \in Posted, NEW cmds \in Seq(Posted), Begun(m, k2, a2, c, cmds)
    PROVE  /\ Ordered'
           /\ \A n \in Models \ returned' : GoodModel(n)'
           /\ Sent' = Sent \union Range(cmds) /\ Told' = Told
           /\ Range(cmds) = {c} \/ (roots = "unloaded" /\ Range(cmds) = {Library, c})
<1>0. /\ c.model = m /\ c.session = k2.session /\ c.kind \in Lifecycle
      /\ m \notin returned' =>
            IF model[m] = Absent THEN asked[m] = Absent /\ ~k2.compiled
            ELSE k2.session = model[m].session + 1 /\ (k2.compiled => model[m].compiled)
      /\ k2.compiled => k2.stepping
      /\ m \notin Workbench => k2.class = Own
      /\ a2.class = k2.class
      /\ IF c.kind \in Sources THEN a2 = c.source
         ELSE a2 = asked[m] /\ (m \in unheard => m \in unheard')
      /\ model' = [model EXCEPT ![m] = k2] /\ asked' = [asked EXCEPT ![m] = a2]
      /\ cmds = <<c>> \/ (roots = "unloaded" /\ cmds = <<Library>> \o <<c>>)
      /\ channel' = channel \o cmds
      /\ UNCHANGED <<laneVars, worker, results>>
      /\ returned \subseteq returned'
      /\ \A n \in Models : n # m => (n \in unheard' <=> n \in unheard)
  BY DEF Begun
<1> USE <1>0
<1>1. Typed
  BY DEF IInv
<1>2. /\ model \in [Models -> Component \union {Absent}]
      /\ asked \in [Models -> Source \union {Absent}]
  BY <1>1 DEF Typed, TypeOK
<1>3. /\ model'[m] = k2 /\ asked'[m] = a2
      /\ \A n \in Models : n # m => model'[n] = model[n] /\ asked'[n] = asked[n]
  BY <1>2
<1>4. /\ ~Removal(c) /\ c.kind # "Load" /\ c \in Item /\ Library \in Item
      /\ c.kind # "Step" /\ c.id = 0 /\ m # Absent
  BY LibraryIsPosted, PostedFields, ModelSorts, <1>1 DEF Removal, Lifecycle, Item
<1>5. /\ <<c>> \in Seq(Posted) /\ Range(<<c>>) = {c} /\ Row(Order', <<c>>)
  BY SingleRow
<1>6. /\ <<Library>> \in Seq(Posted) /\ Range(<<Library>>) = {Library} /\ Row(Order', <<Library>>)
  BY SingleRow, LibraryIsPosted
<1>7. Range(cmds) = {c} \/ (roots = "unloaded" /\ Range(cmds) = {Library, c})
  <2>1. Range(<<Library>> \o <<c>>) = {Library, c}
    BY LibraryIsPosted, PairRange
  <2> QED
    BY <1>5, <2>1
<1>8. Row(Order', cmds)
  <2>1. Before(Library, c)'
    BY <1>4, LibraryIsPosted DEF Before
  <2>2. <<Library, c>> \in Order'
    BY <1>4, <2>1, OrderIs
  <2>3. Ahead(Order', <<Library>>, <<c>>)
    BY <1>5, <1>6, <2>2 DEF Ahead
  <2>4. Row(Order', <<Library>> \o <<c>>)
    BY <1>5, <1>6, <2>3, RowJoined
  <2> QED
    BY <1>5, <2>4
<1>9. ASSUME NEW x \in Sent \union Told, NEW y \in Range(cmds)
      PROVE  Before(x, y)'
  <2>1. x \in Item
    BY <1>1, UnderWay
  <2>2. CASE y = c
    <3>1. ASSUME x.model = m, m \notin returned', ~Removal(x)
          PROVE  Earlier(x, c)
      <4>1. m \in Models \ returned /\ GoodModel(m)
        BY <3>1 DEF IInv
      <4>2. IF model[m] = Absent THEN asked[m] = Absent ELSE k2.session = model[m].session + 1
        BY <3>1
      <4>3. x.session < k2.session
        BY <1>1, <3>1, <4>1, <4>2, SessionIsNew
      <4> QED
        BY <4>3 DEF Earlier
    <3> QED
      BY <1>4, <2>2, <3>1 DEF Before
  <2>3. CASE y = Library /\ roots = "unloaded"
    <3>1. x.model \notin Workbench
      BY <2>3, WorkbenchIsQuiet
    <3>2. Library.model \notin Models
      BY LibraryIsPosted, AbsentAssumption
    <3> QED
      BY <2>3, <3>1, <3>2 DEF Before
  <2> QED
    BY <1>7, <2>2, <2>3
<1>10. /\ Ordered'
       /\ Sent' = Sent \union Range(cmds) /\ Told' = Told
       /\ Of(m, Told') = Of(m, Told)
       /\ \A n \in Models \ returned' : n # m => GoodModel(n)'
  <2>1. \A y \in Range(cmds) : y.model = m \/ y.kind = "Load"
    BY <1>7, LibraryIsPosted
  <2>2. m \notin returned' => (model[m] = Absent /\ model'[m] # Absent => asked[m] = Absent)
    OBVIOUS
  <2> QED
    BY <1>3, <1>8, <1>9, <2>1, <2>2, MainStep
<1>11. ASSUME m \notin returned'
       PROVE  GoodModel(m)'
  <2>1. GoodModel(m)
    BY <1>11 DEF IInv
  <2>2. Sorts(m, model[m], asked[m], worker[m], Of(m, Sent), Of(m, Told))
    BY <1>1, ModelSorts
  <2>3. IF model[m] = Absent THEN asked[m] = Absent /\ ~k2.compiled
        ELSE k2.session = model[m].session + 1 /\ (k2.compiled => model[m].compiled)
    BY <1>11
  <2>4. Good(m, k2, a2, worker[m], Of(m, Sent) \union {c}, Of(m, Told), unheard')
    BY <2>1, <2>2, <2>3, GoodBegun DEF GoodModel
  <2>5. Of(m, Sent') = Of(m, Sent) \union {c}
    BY <1>4, <1>7, <1>10, LibraryIsPosted DEF Of
  <2>6. Good(m, model'[m], asked'[m], worker'[m], Of(m, Sent'), Of(m, Told'), unheard')
    BY <1>3, <1>10, <2>4, <2>5
  <2> QED
    BY <2>6, GoodModelLater
<1> QED
  BY <1>7, <1>10, <1>11

----------------------------------------------------------------------------
(* The main thread's actions.                                               *)

LEMMA CmdFields ==
    ASSUME NEW kind, NEW m, NEW session, NEW source
    PROVE  /\ Cmd(kind, m, session, source).kind = kind /\ Cmd(kind, m, session, source).model = m
           /\ Cmd(kind, m, session, source).session = session
           /\ Cmd(kind, m, session, source).source = source
BY DEF Cmd

LEMMA CmdIsPosted ==
    ASSUME NEW kind \in {"Compile", "Update", "Reset", "Despawn"}, NEW m \in Models,
           NEW session \in Nat, NEW source \in Source \union {Absent},
           kind \in {"Compile", "Update"} => source \in Source
    PROVE  Cmd(kind, m, session, source) \in Posted
<1>1. m # Absent
  BY AbsentAssumption
<1> QED
  BY <1>1 DEF Cmd, Posted, Command

LEMMA NoComponentFields ==
    /\ NoComponent \in Component
    /\ NoComponent.session = 0 /\ NoComponent.class = Own
    /\ NoComponent.compiled = FALSE /\ NoComponent.stepping = FALSE /\ NoComponent.inFlight = 0
BY DEF NoComponent, Component

\* The next state is typed, whatever the model: what a step of the main thread
\* leaves of the invariant once its model and its command are accounted for.
LEMMA MainKeeps ==
    ASSUME IInv, Typed', Ordered', \A n \in Models \ returned' : GoodModel(n)', LibraryFirst',
           faults' = faults, returned \subseteq returned'
    PROVE  IInv'
<1>1. NoProtocolFault'
  BY DEF IInv, NoProtocolFault
<1> QED
  BY <1>1 DEF IInv

LEMMA RecompilingFields ==
    ASSUME Typed, NEW m \in Models, NEW class \in Classes \union {Own}, NEW resume \in BOOLEAN
    PROVE  /\ Recompiling(m, class, resume) \in Component
           /\ Recompiling(m, class, resume).session =
                 (IF Present(m) THEN model[m].session ELSE 0) + 1
           /\ Recompiling(m, class, resume).class = class
           /\ Recompiling(m, class, resume).stepping = TRUE
           /\ Recompiling(m, class, resume).inFlight = 0
           /\ Recompiling(m, class, resume).compiled => Present(m) /\ model[m].compiled
<1> DEFINE base == IF Present(m) THEN model[m] ELSE NoComponent
           on == base.resume \/ resume
<1>1. base \in Component
  BY NoComponentFields DEF Typed, TypeOK, Present
<1>2. edition[m] \in Nat
  BY CastsAssumption DEF Typed, TypeOK
<1>3. base.session = IF Present(m) THEN model[m].session ELSE 0
  BY NoComponentFields
<1>4. base.compiled => Present(m) /\ model[m].compiled
  BY NoComponentFields
<1>5. Recompiling(m, class, resume) =
        [base EXCEPT !.session = base.session + 1, !.class = class, !.paused = TRUE,
                     !.compiling = TRUE, !.stepping = TRUE, !.resume = on, !.inFlight = 0,
                     !.nextStep = 1, !.time = 0, !.pendingEdition = edition[m]]
  BY DEF Recompiling
<1>6. on \in BOOLEAN
  BY <1>1, ComponentFields
<1> HIDE DEF base, on
<1> DEFINE begun == base.session + 1
           ed == edition[m]
<1>7. begun \in Nat /\ ed \in Nat
  BY <1>1, <1>2, ComponentFields
<1> HIDE DEF begun, ed
<1> DEFINE next == [base EXCEPT !.session = begun, !.class = class, !.paused = TRUE,
                     !.compiling = TRUE, !.stepping = TRUE, !.resume = on, !.inFlight = 0,
                     !.nextStep = 1, !.time = 0, !.pendingEdition = ed]
<1>8. /\ next.session = begun /\ next.class = class /\ next.stepping = TRUE
      /\ next.inFlight = 0 /\ next.compiled = base.compiled
  BY <1>1 DEF Component
<1>9. next \in Component
  <2>1. PICK one \in Nat \ {0} : one = 1
    OBVIOUS
  <2> DEFINE whole == [base EXCEPT !.session = begun, !.class = class, !.paused = TRUE,
                         !.compiling = TRUE, !.stepping = TRUE, !.resume = on, !.inFlight = 0,
                         !.nextStep = one, !.time = 0, !.pendingEdition = ed]
  <2>2. next = whole
    BY <2>1
  <2>3. whole \in Component
    BY <1>1, <1>6, <1>7 DEF Component
  <2> QED
    BY <2>2, <2>3
<1>10. Recompiling(m, class, resume) = next
  BY <1>5 DEF begun, ed
<1> HIDE DEF next
<1>11. begun = base.session + 1
  BY DEF begun
<1> QED
  BY <1>3, <1>4, <1>8, <1>9, <1>10, <1>11

LEMMA DispatchKeeps ==
    ASSUME IInv, NEW m \in Workbench, NEW class \in Classes, NEW resume \in BOOLEAN,
           Dispatch(m, class, resume),
           UNCHANGED <<cast, edition, held, faults, laneVars, worker, results, vain, returned>>,
           requested' \in [Workbench -> SUBSET (Classes \union {Own})]
    PROVE  IInv'
<1> DEFINE source == [class |-> class, edition |-> edition[m]]
           k2 == Recompiling(m, class, resume)
           c == Cmd("Compile", m, k2.session, source)
           cmds == WithRoot(<<c>>)
<1>1. Typed /\ m \in Models /\ class \in Classes \union {Own}
  BY DEF IInv, Models
<1>2. /\ k2 \in Component
      /\ k2.session = (IF Present(m) THEN model[m].session ELSE 0) + 1
      /\ k2.class = class /\ k2.stepping = TRUE /\ k2.inFlight = 0
      /\ k2.compiled => Present(m) /\ model[m].compiled
  BY <1>1, RecompilingFields
<1>3. source \in Source /\ source.class = class
  <2>1. edition[m] \in Nat
    BY <1>1, CastsAssumption DEF Typed, TypeOK
  <2> QED
    BY <1>1, <2>1 DEF Source
<1>4. /\ model' = [model EXCEPT ![m] = k2]
      /\ channel' = channel \o cmds
      /\ roots' = IF roots = "unloaded" THEN "loading" ELSE roots
      /\ asked' = [asked EXCEPT ![m] = source]
      /\ unheard' = unheard \ {m}
  BY DEF Dispatch
<1>5. cmds = IF roots = "unloaded" THEN <<Library>> \o <<c>> ELSE <<c>>
  BY DEF WithRoot, Library
<1> HIDE DEF source, k2
<1>6. /\ c \in Posted /\ c.kind = "Compile" /\ c.model = m /\ c.session = k2.session
      /\ c.source = source
  <2>1. k2.session \in Nat
    BY <1>2, ComponentFields
  <2> QED
    BY <1>1, <1>3, <2>1, CmdIsPosted, CmdFields
<1> HIDE DEF c, cmds
<1>7. cmds \in Seq(Posted)
  <2>1. <<c>> \in Seq(Posted) /\ <<Library>> \in Seq(Posted)
    BY <1>6, LibraryIsPosted
  <2>2. <<Library>> \o <<c>> \in Seq(Posted)
    BY <2>1, ConcatProperties
  <2> QED
    BY <1>5, <2>1, <2>2
<1>8. m \in Models \ returned /\ GoodModel(m)
  <2>1. m \notin returned
    BY ModelsAssumption DEF IInv, LibraryFirst
  <2> QED
    BY <1>1, <2>1 DEF IInv
<1>9. IF model[m] = Absent THEN asked[m] = Absent /\ ~k2.compiled
      ELSE k2.session = model[m].session + 1 /\ (k2.compiled => model[m].compiled)
  <2>1. model[m] = Absent => asked[m] = Absent
    BY <1>8 DEF GoodModel, Good, Classed
  <2> QED
    BY <1>2, <2>1 DEF Present
<1>10. /\ Ordered'
       /\ \A n \in Models \ returned' : GoodModel(n)'
       /\ Sent' = Sent \union Range(cmds) /\ Told' = Told
       /\ Range(cmds) = {c} \/ (roots = "unloaded" /\ Range(cmds) = {Library, c})
  <2>1. c.kind \in Lifecycle /\ c.kind \in Sources
    BY <1>6 DEF Lifecycle, Sources
  <2>2. \A n \in Models : n # m => (n \in unheard' <=> n \in unheard)
    BY <1>4
  <2>3. cmds = <<c>> \/ (roots = "unloaded" /\ cmds = <<Library>> \o <<c>>)
    BY <1>5
  <2>4. /\ m \notin Workbench => k2.class = Own
        /\ IF c.kind \in Sources THEN source = c.source
           ELSE source = asked[m] /\ (m \in unheard => m \in unheard')
        /\ source.class = k2.class /\ (k2.compiled => k2.stepping)
        /\ UNCHANGED <<laneVars, worker, results>> /\ returned \subseteq returned'
    BY <1>2, <1>3, <1>6, <2>1
  <2>5. Begun(m, k2, source, c, cmds)
    BY <1>4, <1>6, <1>9, <2>1, <2>2, <2>3, <2>4 DEF Begun
  <2> QED
    BY <1>1, <1>2, <1>3, <1>6, <1>7, <2>5, Begins
<1>11. Typed'
  <2>1. channel' \in Seq(Posted)
    BY <1>1, <1>4, <1>7, ConcatProperties DEF Typed
  <2>2. roots' \in {"unloaded", "loading", "ready", "failed"}
    BY <1>1, <1>4 DEF Typed, TypeOK
  <2>3. asked' \in [Models -> Source \union {Absent}]
    BY <1>1, <1>3, <1>4 DEF Typed, TypeOK
  <2>4. /\ edition' \in [Models -> 0..cast.editions]
        /\ unheard' \subseteq Models /\ vain' \subseteq Scenes /\ returned' \subseteq Networks
    BY <1>1, <1>4 DEF Typed, TypeOK
  <2> QED
    BY <1>1, <1>2, <1>4, <2>1, <2>2, <2>3, <2>4, TypedMain
<1>12. LibraryFirst'
  <2>1. LibraryFirst
    BY DEF IInv
  <2>2. roots' # "unloaded"
    BY <1>4
  <2>3. /\ model'[m] = k2 /\ \A n \in Models : n # m => model'[n] = model[n]
    BY <1>1, <1>4 DEF Typed, TypeOK
  <2>4. Workbench \subseteq Models /\ returned' \subseteq Networks
    BY <1>1 DEF Models, Typed, TypeOK
  <2>5. CASE roots = "unloaded"
    <3>1. \A x \in Sent \union Told : x.model \notin Workbench
      BY <2>5, WorkbenchIsQuiet
    <3>2. \A n \in Workbench : model'[n] # Absent => ~model'[n].compiled
      BY <1>2, <2>1, <2>3, <2>4, <2>5 DEF LibraryFirst, Present
    <3>3. \A y \in Sent' : y.kind = "Step" => y.model \notin Workbench
      BY <1>6, <1>10, <3>1, LibraryIsPosted
    <3> QED
      BY <1>10, <2>2, <2>4, <3>1, <3>2, <3>3 DEF LibraryFirst, Present
  <2>6. CASE roots # "unloaded"
    <3>1. roots' = roots /\ Sent' = Sent \union {c}
      BY <1>4, <1>10, <2>6
    <3>2. m \in Workbench /\ model'[m] # Absent =>
              /\ roots # "unloaded" \/ model[m] # Absent
              /\ model'[m].compiled => model[m] # Absent /\ model[m].compiled
      BY <1>2, <2>3, <2>6 DEF Present
    <3>3. \A y \in {c} : y.kind # "Load" /\ y.kind # "Step"
      BY <1>6
    <3>4. NoLibrary(m, {c})
      BY <1>10, <2>3, <2>4, <3>1, <3>2, <3>3 DEF NoLibrary
    <3> QED
      BY <1>1, <3>4, LibraryStays
  <2> QED
    BY <2>5, <2>6
<1>13. faults' = faults /\ returned \subseteq returned'
  OBVIOUS
<1> QED
  BY <1>10, <1>11, <1>12, <1>13, MainKeeps

\* An edit, a pause, a run of what is up to date: only such fields change that
\* the protocol does not look at.
LEMMA AlikeKeeps ==
    ASSUME IInv, NEW m \in Models, NEW k2 \in Component, model[m] # Absent,
           model' = [model EXCEPT ![m] = k2],
           k2.session = model[m].session, k2.class = model[m].class,
           k2.compiled = model[m].compiled, k2.stepping = model[m].stepping,
           k2.inFlight = model[m].inFlight, k2.time = model[m].time,
           UNCHANGED <<cast, edition, requested, roots, asked, held, faults, channel, laneVars,
                       worker, results, unheard, vain, returned>>
    PROVE  IInv'
<1>1. Typed
  BY DEF IInv
<1>2. model'[m] = k2 /\ \A n \in Models : n # m => model'[n] = model[n]
  BY <1>1 DEF Typed, TypeOK
<1>3. model[m] \in Component
  BY <1>1 DEF Typed, TypeOK
<1>4. /\ Ordered'
      /\ Sent' = Sent /\ Told' = Told
      /\ \A n \in Models \ returned' : n # m => GoodModel(n)'
  BY <1>2, Quietly
<1>5. ASSUME m \notin returned'
      PROVE  GoodModel(m)'
  <2>1. Good(m, model[m], asked[m], worker[m], Of(m, Sent), Of(m, Told), unheard)
    BY <1>5 DEF IInv, GoodModel
  <2>2. Good(m, k2, asked[m], worker[m], Of(m, Sent), Of(m, Told), unheard)
    BY <1>3, <2>1, GoodAlike
  <2>3. Good(m, model'[m], asked'[m], worker'[m], Of(m, Sent'), Of(m, Told'), unheard')
    BY <1>2, <1>4, <2>2
  <2> QED
    BY <2>3, GoodModelLater
<1>6. Typed'
  <2>1. k2.inFlight # 0 => k2.stepping
    BY <1>1 DEF Typed, TypeOK, Present
  <2>2. /\ edition' \in [Models -> 0..cast.editions]
        /\ requested' \in [Workbench -> SUBSET (Classes \union {Own})]
        /\ roots' \in {"unloaded", "loading", "ready", "failed"}
        /\ asked' \in [Models -> Source \union {Absent}]
        /\ unheard' \subseteq Models /\ vain' \subseteq Scenes /\ returned' \subseteq Networks
        /\ channel' \in Seq(Posted)
    BY <1>1 DEF Typed, TypeOK
  <2> QED
    BY <1>1, <2>1, <2>2, TypedMain
<1>7. LibraryFirst'
  <2>1. Sent' = Sent \union {} /\ returned' \subseteq Networks
    BY <1>1, <1>4 DEF Typed, TypeOK
  <2>2. NoLibrary(m, {})
    BY <1>2, <1>4, <2>1 DEF NoLibrary
  <2> QED
    BY <2>2, LibraryStays
<1>8. faults' = faults /\ returned \subseteq returned'
  OBVIOUS
<1> QED
  BY <1>4, <1>5, <1>6, <1>7, <1>8, MainKeeps

LEMMA PausedKeeps ==
    ASSUME IInv, NEW m \in Models, NEW paused \in BOOLEAN, Present(m),
           model' = [model EXCEPT ![m].paused = paused],
           UNCHANGED <<cast, edition, requested, roots, asked, held, faults, channel, laneVars,
                       worker, results, unheard, vain, returned>>
    PROVE  IInv'
<1> DEFINE k2 == [model[m] EXCEPT !.paused = paused]
<1>1. model[m] \in Component /\ model \in [Models -> Component \union {Absent}] /\ model[m] # Absent
  BY DEF IInv, Typed, TypeOK, Present
<1>2. model' = [model EXCEPT ![m] = k2]
  BY <1>1
<1>3. /\ k2 \in Component
      /\ k2.session = model[m].session /\ k2.class = model[m].class
      /\ k2.compiled = model[m].compiled /\ k2.stepping = model[m].stepping
      /\ k2.inFlight = model[m].inFlight /\ k2.time = model[m].time
  BY <1>1 DEF Component
<1> HIDE DEF k2
<1> QED
  BY <1>1, <1>2, <1>3, AlikeKeeps

LEMMA CompileModelKeeps ==
    ASSUME IInv, NEW m \in Workbench, NEW class \in Classes, NEW force \in BOOLEAN,
           CompileModel(m, class, force)
    PROVE  IInv'
<1>1. requested' \in [Workbench -> SUBSET (Classes \union {Own})]
  BY DEF CompileModel, IInv, Typed, TypeOK
<1>2. Dispatch(m, class, FALSE)
  BY DEF CompileModel
<1>3. UNCHANGED <<cast, edition, held, faults, laneVars, worker, results, vain, returned>>
  BY DEF CompileModel
<1> QED
  BY <1>1, <1>2, <1>3, DispatchKeeps

LEMMA RunActiveModelKeeps ==
    ASSUME IInv, NEW m \in Workbench, NEW class \in Classes, RunActiveModel(m, class)
    PROVE  IInv'
<1>1. /\ requested' \in [Workbench -> SUBSET (Classes \union {Own})]
      /\ UNCHANGED <<cast, edition, requested, held, faults, laneVars, worker, results, vain, returned>>
      /\ m \in Models
  BY DEF RunActiveModel, IInv, Typed, TypeOK, Models
<1>2. CASE Dispatch(m, class, TRUE)
  BY <1>1, <1>2, DispatchKeeps
<1>3. CASE UpToDate(m) /\ model' = [model EXCEPT ![m].paused = FALSE]
           /\ UNCHANGED <<channel, roots, asked, unheard>>
  BY <1>1, <1>3, PausedKeeps DEF UpToDate
<1> QED
  BY <1>2, <1>3 DEF RunActiveModel

LEMMA SetPausedKeeps ==
    ASSUME IInv, NEW m \in Workbench, NEW paused \in BOOLEAN, SetPaused(m, paused)
    PROVE  IInv'
<1>1. m \in Models
  BY DEF Models
<1> QED
  BY <1>1, PausedKeeps DEF SetPaused

\* Nothing the protocol is about changes.
LEMMA AsideKeeps ==
    ASSUME IInv,
           UNCHANGED <<cast, model, roots, asked, held, faults, channel, laneVars, worker,
                       results, unheard, returned>>,
           edition' \in [Models -> 0..cast.editions],
           requested' \in [Workbench -> SUBSET (Classes \union {Own})], vain' \subseteq Scenes
    PROVE  IInv'
<1>1. Typed'
  BY DEF IInv, Typed, TypeOK, Present, laneVars
<1>2. Sent' = Sent /\ Told' = Told
  BY DEF Sent, Told, laneVars
<1>3. Order' = Order
  BY DEF Order, Before, Present, Removal, Earlier
<1>4. Ordered'
  <2>1. Lined(Order', results, batch, stepLane, compileLane, channel)
    BY <1>3 DEF IInv, Ordered
  <2> QED
    BY <2>1 DEF Ordered, laneVars
<1>5. ASSUME NEW m \in Models \ returned'
      PROVE  GoodModel(m)'
  <2>1. GoodModel(m) /\ Of(m, Sent') = Of(m, Sent) /\ Of(m, Told') = Of(m, Told)
    BY <1>2, <1>5 DEF IInv
  <2> QED
    BY <2>1, GoodUntouched
<1>6. LibraryFirst'
  BY <1>2 DEF IInv, LibraryFirst, Present
<1> QED
  BY <1>1, <1>4, <1>5, <1>6, MainKeeps

LEMMA EditKeeps ==
    ASSUME IInv, NEW m \in Workbench, Edit(m)
    PROVE  IInv'
<1>1. edition' \in [Models -> 0..cast.editions]
  <2>1. edition \in [Models -> 0..cast.editions] /\ cast.editions \in Nat /\ m \in Models
    BY CastsAssumption DEF IInv, Typed, TypeOK, Models
  <2> QED
    BY <2>1 DEF Edit
<1>2. requested' \in [Workbench -> SUBSET (Classes \union {Own})] /\ vain' \subseteq Scenes
  BY DEF Edit, IInv, Typed, TypeOK
<1>3. UNCHANGED <<cast, model, roots, asked, held, faults, channel, laneVars, worker,
                  results, unheard, returned>>
  BY DEF Edit
<1> QED
  BY <1>1, <1>2, <1>3, AsideKeeps

LEMMA RelayKeeps ==
    ASSUME IInv, NEW m \in Workbench, NEW class \in Classes, Relay(m, class)
    PROVE  IInv'
<1>1. /\ requested' \in [Workbench -> SUBSET (Classes \union {Own})]
      /\ edition' \in [Models -> 0..cast.editions] /\ vain' \subseteq Scenes
  BY DEF Relay, IInv, Typed, TypeOK
<1>2. UNCHANGED <<cast, edition, held, faults, laneVars, worker, results, vain, returned>>
  BY DEF Relay
<1>3. CASE Dispatch(m, class, FALSE)
  BY <1>1, <1>2, <1>3, DispatchKeeps
<1>4. CASE UNCHANGED <<model, channel, roots, asked, unheard>>
  BY <1>1, <1>2, <1>4, AsideKeeps
<1> QED
  BY <1>3, <1>4 DEF Relay

\* A session is begun with one command.
LEMMA BeginKeeps ==
    ASSUME IInv, NEW m \in Models, NEW k2 \in Component, NEW a2 \in Source, NEW c \in Posted,
           Begun(m, k2, a2, c, <<c>>), k2.inFlight # 0 => k2.stepping,
           UNCHANGED <<cast, requested, roots, held, faults>>,
           edition' \in [Models -> 0..cast.editions],
           unheard' \subseteq Models, vain' \subseteq Scenes, returned' \subseteq Networks,
           m \in Workbench => model[m] # Absent
    PROVE  IInv'
<1>1. Typed
  BY DEF IInv
<1> DEFINE cmds == <<c>>
<1>2. cmds \in Seq(Posted) /\ Range(cmds) = {c}
  BY SingleRow
<1>3. /\ Begun(m, k2, a2, c, cmds)
      /\ model' = [model EXCEPT ![m] = k2] /\ asked' = [asked EXCEPT ![m] = a2]
      /\ channel' = channel \o cmds /\ UNCHANGED <<laneVars, worker, results>>
      /\ c.kind \in Lifecycle
      /\ m \notin returned' =>
            IF model[m] = Absent THEN asked[m] = Absent /\ ~k2.compiled
            ELSE k2.session = model[m].session + 1 /\ (k2.compiled => model[m].compiled)
      /\ returned \subseteq returned'
  BY DEF Begun
<1> HIDE DEF cmds
<1>4. /\ Ordered'
      /\ \A n \in Models \ returned' : GoodModel(n)'
      /\ Sent' = Sent \union Range(cmds) /\ Told' = Told
  BY <1>2, <1>3, Begins
<1>5. Typed'
  <2>1. channel' \in Seq(Posted)
    BY <1>1, <1>2, <1>3, ConcatProperties DEF Typed
  <2>2. requested' \in [Workbench -> SUBSET (Classes \union {Own})]
        /\ roots' \in {"unloaded", "loading", "ready", "failed"}
    BY <1>1 DEF Typed, TypeOK
  <2>3. asked' \in [Models -> Source \union {Absent}]
    BY <1>1, <1>3 DEF Typed, TypeOK
  <2>4. k2 # Absent => (k2.inFlight # 0 => k2.stepping)
    OBVIOUS
  <2> QED
    BY <1>1, <1>3, <2>1, <2>2, <2>3, <2>4, TypedMain
<1>6. LibraryFirst'
  <2>1. model'[m] = k2 /\ \A n \in Models : n # m => model'[n] = model[n]
    BY <1>1, <1>3 DEF Typed, TypeOK
  <2>2. m \in Workbench => m \notin returned'
    BY ModelsAssumption
  <2>3. \A y \in {c} : y.kind # "Load" /\ y.kind # "Step"
    BY <1>3 DEF Lifecycle
  <2>4. Sent' = Sent \union {c} /\ Told' = Told
    BY <1>2, <1>4
  <2>5. NoLibrary(m, {c})
    BY <1>3, <2>1, <2>2, <2>3, <2>4 DEF NoLibrary
  <2> QED
    BY <2>5, LibraryStays
<1> QED
  BY <1>3, <1>4, <1>5, <1>6, MainKeeps

\* A session is begun and the worker hears nothing of it.
LEMMA SilentKeeps ==
    ASSUME IInv, NEW m \in Models \ Workbench, NEW k2 \in Component,
           m \notin returned' =>
              IF model[m] = Absent THEN asked[m] = Absent /\ ~k2.compiled
              ELSE k2.session = model[m].session + 1 /\ (k2.compiled => model[m].compiled),
           k2.class = Own, k2.compiled => k2.stepping, k2.inFlight # 0 => k2.stepping,
           model' = [model EXCEPT ![m] = k2],
           UNCHANGED <<cast, requested, roots, asked, held, faults, channel, laneVars, worker,
                       results, unheard>>,
           edition' \in [Models -> 0..cast.editions], vain' \subseteq Scenes,
           returned \subseteq returned', returned' \subseteq Networks
    PROVE  IInv'
<1>1. Typed
  BY DEF IInv
<1>2. model'[m] = k2 /\ \A n \in Models : n # m => model'[n] = model[n]
  BY <1>1 DEF Typed, TypeOK
<1>3. /\ Ordered'
      /\ Sent' = Sent /\ Told' = Told
      /\ \A n \in Models \ returned' : n # m => GoodModel(n)'
  BY <1>2, Quietly
<1>4. ASSUME m \notin returned'
      PROVE  GoodModel(m)'
  <2>1. Good(m, model[m], asked[m], worker[m], Of(m, Sent), Of(m, Told), unheard)
    BY <1>4 DEF IInv, GoodModel
  <2>2. Sorts(m, model[m], asked[m], worker[m], Of(m, Sent), Of(m, Told))
    BY <1>1, ModelSorts
  <2>3. Good(m, k2, asked[m], worker[m], Of(m, Sent), Of(m, Told), unheard)
    BY <1>4, <2>1, <2>2, GoodSilently
  <2>4. Good(m, model'[m], asked'[m], worker'[m], Of(m, Sent'), Of(m, Told'), unheard')
    BY <1>2, <1>3, <2>3
  <2> QED
    BY <2>4, GoodModelLater
<1>5. Typed'
  <2>1. /\ requested' \in [Workbench -> SUBSET (Classes \union {Own})]
        /\ roots' \in {"unloaded", "loading", "ready", "failed"}
        /\ asked' \in [Models -> Source \union {Absent}]
        /\ unheard' \subseteq Models /\ channel' \in Seq(Posted)
    BY <1>1 DEF Typed, TypeOK
  <2>2. k2 # Absent => (k2.inFlight # 0 => k2.stepping)
    OBVIOUS
  <2> QED
    BY <1>1, <2>1, <2>2, TypedMain
<1>6. LibraryFirst'
  <2>1. Sent' = Sent \union {}
    BY <1>3
  <2>2. NoLibrary(m, {})
    BY <1>2, <1>3, <2>1 DEF NoLibrary
  <2> QED
    BY <2>2, LibraryStays
<1> QED
  BY <1>3, <1>4, <1>5, <1>6, MainKeeps

LEMMA ResetActiveModelKeeps ==
    ASSUME IInv, NEW m \in Workbench, ResetActiveModel(m)
    PROVE  IInv'
<1> DEFINE k2 == [model[m] EXCEPT !.session = @ + 1, !.stepping = TRUE, !.inFlight = 0,
                                  !.nextStep = 1, !.time = 0]
           c == Cmd("Reset", m, model[m].session + 1, Absent)
<1>1. Typed /\ m \in Models /\ m \notin returned'
  BY ModelsAssumption DEF IInv, Models, Typed, TypeOK, ResetActiveModel
<1>2. model[m] \in Component /\ model[m] # Absent /\ model[m].session \in Nat
  <2>1. model[m] \in Component
    BY <1>1 DEF Typed, TypeOK, ResetActiveModel, Present
  <2> QED
    BY <2>1, ComponentFields
<1>3. /\ k2.session = model[m].session + 1 /\ k2.class = model[m].class
      /\ k2.compiled = model[m].compiled /\ k2.stepping = TRUE
  BY <1>2 DEF Component
<1>4. k2 \in Component
  <2>1. PICK one \in Nat \ {0}, begun \in Nat : one = 1 /\ begun = model[m].session + 1
    BY <1>2
  <2> DEFINE next == [model[m] EXCEPT !.session = begun, !.stepping = TRUE, !.inFlight = 0,
                                      !.nextStep = one, !.time = 0]
  <2>2. k2 = next
    BY <2>1
  <2>3. next \in Component
    BY <1>2 DEF Component
  <2> QED
    BY <2>2, <2>3
<1>5. /\ c \in Posted /\ c.kind = "Reset" /\ c.model = m /\ c.session = model[m].session + 1
  BY <1>1, <1>2, CmdIsPosted, CmdFields
<1>6. /\ model' = [model EXCEPT ![m] = k2] /\ channel' = Append(channel, c)
      /\ UNCHANGED <<cast, edition, requested, roots, asked, held, faults, laneVars, worker,
                     results, unheard, vain, returned>>
  <2>1. model' = [model EXCEPT ![m] = k2]
    BY <1>1, <1>2 DEF ResetActiveModel
  <2>2. channel' = Append(channel, c)
    BY DEF ResetActiveModel
  <2>3. UNCHANGED <<cast, edition, requested, roots, asked, held, faults, laneVars, worker,
                    results, unheard, vain, returned>>
    BY DEF ResetActiveModel
  <2> QED
    BY <2>1, <2>2, <2>3
<1> HIDE DEF k2, c
<1>7. asked[m] \in Source /\ asked[m].class = k2.class /\ asked' = [asked EXCEPT ![m] = asked[m]]
  <2>1. Classed(m, model[m], asked[m], Of(m, Sent))
    BY <1>1, <1>6 DEF IInv, GoodModel, Good
  <2>2. asked \in [Models -> Source \union {Absent}]
    BY <1>1 DEF Typed, TypeOK
  <2>3. asked[m] # Absent /\ asked[m].class = k2.class
    BY <1>1, <1>2, <1>3, <2>1 DEF Classed
  <2>4. asked' = [asked EXCEPT ![m] = asked[m]]
    BY <1>1, <1>6, <2>2
  <2> QED
    BY <1>1, <2>2, <2>3, <2>4
<1>8. channel' = channel \o <<c>>
  BY <1>1, <1>5, <1>6, AppendIsConcat DEF Typed
<1>9. Begun(m, k2, asked[m], c, <<c>>)
  <2>1. /\ c.kind \in Lifecycle /\ c.kind \notin Sources
        /\ m \in Workbench /\ returned \subseteq returned' /\ unheard' = unheard
    BY <1>5, <1>6 DEF Lifecycle, Sources
  <2>2. UNCHANGED <<laneVars, worker, results>>
    BY <1>6
  <2> DEFINE cmds == <<c>>
  <2>3. cmds = <<c>> /\ channel' = channel \o cmds
    BY <1>8
  <2> HIDE DEF cmds
  <2>4. Begun(m, k2, asked[m], c, cmds)
    BY <1>2, <1>3, <1>5, <1>6, <1>7, <2>1, <2>2, <2>3 DEF Begun
  <2> QED
    BY <2>3, <2>4
<1>10. /\ edition' \in [Models -> 0..cast.editions] /\ unheard' \subseteq Models
       /\ vain' \subseteq Scenes /\ returned' \subseteq Networks
  BY <1>1, <1>6 DEF Typed, TypeOK
<1>11. UNCHANGED <<cast, requested, roots, held, faults>>
  BY <1>6
<1>12. k2.inFlight # 0 => k2.stepping
  BY <1>3
<1> QED
  BY <1>1, <1>2, <1>4, <1>5, <1>7, <1>9, <1>10, <1>11, <1>12, BeginKeeps

LEMMA SetParameterKeeps ==
    ASSUME IInv, NEW m \in Workbench \union Scenes, SetParameter(m)
    PROVE  IInv'
<1> DEFINE k2 == [model[m] EXCEPT !.session = @ + 1, !.stepping = TRUE]
           source == [class |-> model[m].class, edition |-> edition[m] + 1]
           c == Cmd("Update", m, model[m].session + 1, source)
<1>1. Typed /\ m \in Models /\ m \notin returned'
  BY ModelsAssumption DEF IInv, Models, Typed, TypeOK, SetParameter
<1>2. /\ model[m] \in Component /\ model[m] # Absent /\ model[m].session \in Nat
      /\ model[m].class \in Classes \union {Own}
  <2>1. model[m] \in Component
    BY <1>1 DEF Typed, TypeOK, SetParameter, Present
  <2> QED
    BY <2>1, ComponentFields
<1>3. /\ k2 \in Component
      /\ k2.session = model[m].session + 1 /\ k2.class = model[m].class
      /\ k2.compiled = model[m].compiled /\ k2.stepping = TRUE
  <2>1. PICK begun \in Nat : begun = model[m].session + 1
    BY <1>2
  <2> DEFINE next == [model[m] EXCEPT !.session = begun, !.stepping = TRUE]
  <2>2. next \in Component
    BY <1>2 DEF Component
  <2>3. /\ next.session = begun /\ next.class = model[m].class
        /\ next.compiled = model[m].compiled /\ next.stepping = TRUE
    BY <1>2 DEF Component
  <2>4. k2 = next
    BY <2>1
  <2> HIDE DEF k2, next
  <2> QED
    BY <2>1, <2>2, <2>3, <2>4
<1>4. /\ model' = [model EXCEPT ![m] = k2]
      /\ UNCHANGED <<cast, requested, roots, held, faults, laneVars, worker, results, returned>>
  <2>1. model' = [model EXCEPT ![m] = k2]
    BY <1>1, <1>2 DEF SetParameter
  <2>2. UNCHANGED <<cast, requested, roots, held, faults, laneVars, worker, results, returned>>
    BY DEF SetParameter
  <2> QED
    BY <2>1, <2>2
<1>5. source \in Source /\ source.class = model[m].class
  <2>1. edition[m] \in Nat
    BY <1>1, CastsAssumption DEF Typed, TypeOK
  <2> QED
    BY <1>2, <2>1 DEF Source
<1>6. CASE m \in Workbench /\ channel' = Append(channel, c) /\ asked' = [asked EXCEPT ![m] = source]
           /\ edition[m] < cast.editions /\ edition' = [edition EXCEPT ![m] = @ + 1]
           /\ unheard' = unheard \ {m} /\ vain' = vain
  <2>1. /\ edition' \in [Models -> 0..cast.editions] /\ unheard' \subseteq Models
        /\ vain' \subseteq Scenes /\ returned' \subseteq Networks
    <3>1. /\ edition \in [Models -> 0..cast.editions] /\ cast.editions \in Nat
      BY <1>1, CastsAssumption DEF Typed, TypeOK
    <3>2. edition' \in [Models -> 0..cast.editions]
      BY <1>1, <1>6, <3>1
    <3> QED
      BY <1>1, <1>4, <1>6, <3>2 DEF Typed, TypeOK
  <2> HIDE DEF k2, source
  <2>2. /\ c \in Posted /\ c.kind = "Update" /\ c.model = m /\ c.session = model[m].session + 1
        /\ c.source = source
    BY <1>1, <1>2, <1>5, CmdIsPosted, CmdFields
  <2> HIDE DEF c
  <2> DEFINE cmds == <<c>>
  <2>3. cmds = <<c>> /\ channel' = channel \o cmds
    BY <1>1, <1>6, <2>2, AppendIsConcat DEF Typed
  <2> HIDE DEF cmds
  <2>4. /\ c.kind \in Lifecycle /\ c.kind \in Sources /\ returned \subseteq returned'
        /\ UNCHANGED <<laneVars, worker, results>> /\ UNCHANGED <<cast, requested, roots, held, faults>>
        /\ \A n \in Models : n # m => (n \in unheard' <=> n \in unheard)
    BY <1>4, <1>6, <2>2 DEF Lifecycle, Sources
  <2>5. Begun(m, k2, source, c, cmds)
    BY <1>2, <1>3, <1>4, <1>5, <1>6, <2>2, <2>3, <2>4 DEF Begun
  <2>6. Begun(m, k2, source, c, <<c>>)
    BY <2>3, <2>5
  <2>7. k2.inFlight # 0 => k2.stepping
    BY <1>3
  <2> QED
    BY <1>1, <1>2, <1>3, <1>5, <2>1, <2>2, <2>4, <2>6, <2>7, BeginKeeps
<1>7. CASE m \in Scenes /\ vain' = vain \union {m} /\ UNCHANGED <<edition, channel, asked, unheard>>
  <2>1. m \in Models \ Workbench
    BY <1>1, <1>7, ModelsAssumption
  <2>2. k2.class = Own
    <3>1. Classed(m, model[m], asked[m], Of(m, Sent))
      BY <1>1, <1>4 DEF IInv, GoodModel, Good
    <3> QED
      BY <1>2, <1>3, <2>1, <3>1 DEF Classed
  <2>3. /\ edition' \in [Models -> 0..cast.editions] /\ vain' \subseteq Scenes
        /\ returned \subseteq returned' /\ returned' \subseteq Networks
    BY <1>1, <1>4, <1>7 DEF Typed, TypeOK
  <2>4. IF model[m] = Absent THEN asked[m] = Absent /\ ~k2.compiled
        ELSE k2.session = model[m].session + 1 /\ (k2.compiled => model[m].compiled)
    BY <1>2, <1>3
  <2>5. (k2.compiled => k2.stepping) /\ (k2.inFlight # 0 => k2.stepping)
    BY <1>3
  <2>6. UNCHANGED <<cast, requested, roots, asked, held, faults, channel, laneVars, worker,
                    results, unheard>>
    BY <1>4, <1>7
  <2> HIDE DEF k2
  <2> QED
    BY <1>3, <1>4, <2>1, <2>2, <2>3, <2>4, <2>5, <2>6, SilentKeeps
<1> QED
  BY <1>6, <1>7 DEF SetParameter

\* A component that starts from nothing, with what the projection gives it.
LEMMA FreshFields ==
    ASSUME NEW session \in Nat, NEW on \in BOOLEAN
    PROVE  LET k2 == [NoComponent EXCEPT !.session = session, !.stepping = on, !.compiling = on,
                                         !.resume = on]
           IN  /\ k2 \in Component /\ k2.session = session /\ k2.class = Own
               /\ k2.stepping = on /\ ~k2.compiled /\ k2.inFlight = 0
<1> DEFINE k2 == [NoComponent EXCEPT !.session = session, !.stepping = on, !.compiling = on,
                                     !.resume = on]
<1>1. k2 \in Component
  BY NoComponentFields DEF Component
<1>2. /\ k2.session = session /\ k2.class = Own
      /\ k2.stepping = on /\ ~k2.compiled /\ k2.inFlight = 0
  BY DEF NoComponent
<1> QED
  BY <1>1, <1>2

LEMMA AttachKeeps ==
    ASSUME IInv, NEW m \in Scenes, Attach(m)
    PROVE  IInv'
<1> DEFINE k2 == [NoComponent EXCEPT !.resume = TRUE]
           source == [class |-> Own, edition |-> 0]
           c == Cmd("Compile", m, 0, source)
<1>1. Typed /\ m \in Models /\ m \notin Workbench
  BY ModelsAssumption DEF IInv, Models
<1>2. /\ k2 \in Component /\ k2.session = 0 /\ k2.class = Own
      /\ ~k2.compiled /\ k2.inFlight = 0
  <2>1. k2 \in Component
    BY NoComponentFields DEF Component
  <2> QED
    BY <2>1 DEF NoComponent
<1>3. source \in Source /\ source.class = Own
  BY DEF Source
<1>4. /\ model[m] = Absent /\ asked[m] = Absent
      /\ model' = [model EXCEPT ![m] = k2] /\ asked' = [asked EXCEPT ![m] = source]
      /\ channel' = Append(channel, c)
      /\ UNCHANGED <<cast, edition, requested, roots, held, faults, laneVars, worker, results,
                     unheard, vain, returned>>
  BY DEF Attach, Present
<1> HIDE DEF k2, source
<1>5. /\ c \in Posted /\ c.kind = "Compile" /\ c.model = m /\ c.session = 0 /\ c.source = source
  BY <1>1, <1>3, CmdIsPosted, CmdFields
<1> HIDE DEF c
<1> DEFINE cmds == <<c>>
<1>6. cmds = <<c>> /\ channel' = channel \o cmds
  BY <1>1, <1>4, <1>5, AppendIsConcat DEF Typed
<1> HIDE DEF cmds
<1>7. /\ c.kind \in Lifecycle /\ c.kind \in Sources /\ returned \subseteq returned'
      /\ UNCHANGED <<laneVars, worker, results>> /\ UNCHANGED <<cast, requested, roots, held, faults>>
      /\ \A n \in Models : n # m => (n \in unheard' <=> n \in unheard)
  BY <1>4, <1>5 DEF Lifecycle, Sources
<1>8. Begun(m, k2, source, c, cmds)
  BY <1>1, <1>2, <1>3, <1>4, <1>5, <1>6, <1>7 DEF Begun
<1>9. Begun(m, k2, source, c, <<c>>)
  BY <1>6, <1>8
<1>10. /\ edition' \in [Models -> 0..cast.editions] /\ unheard' \subseteq Models
       /\ vain' \subseteq Scenes /\ returned' \subseteq Networks
       /\ k2.inFlight # 0 => k2.stepping
  BY <1>1, <1>2, <1>4 DEF Typed, TypeOK
<1> QED
  BY <1>1, <1>2, <1>3, <1>5, <1>7, <1>9, <1>10, BeginKeeps

\* The session of a network's next component, and whether it came back.
LEMMA Installed ==
    ASSUME IInv, NEW m \in Networks, edition[m] < cast.editions,
           edition' = [edition EXCEPT ![m] = @ + 1], returned' = returned \union ComesBack(m),
           UNCHANGED <<cast, vain>>
    PROVE  /\ InstalledSession(m) \in Nat
           /\ m \notin returned' =>
                 IF model[m] = Absent THEN asked[m] = Absent
                 ELSE InstalledSession(m) = model[m].session + 1
           /\ edition' \in [Models -> 0..cast.editions] /\ edition[m] + 1 \in Nat
           /\ vain' \subseteq Scenes /\ returned \subseteq returned' /\ returned' \subseteq Networks
           /\ m \in Models \ Workbench
<1>1. Typed /\ m \in Models
  BY DEF IInv, Models
<1>2. InstalledSession(m) = IF model[m] = Absent THEN 1 ELSE model[m].session + 1
  BY DEF InstalledSession, Present
<1>3. model[m] = Absent \/ model[m].session \in Nat
  <2>1. model[m] \in Component \union {Absent}
    BY <1>1 DEF Typed, TypeOK
  <2> QED
    BY <2>1, ComponentFields
<1>4. InstalledSession(m) \in Nat
  BY <1>2, <1>3
<1>5. m \notin returned' => (model[m] = Absent => asked[m] = Absent)
  BY DEF ComesBack, Present
<1>6. edition' \in [Models -> 0..cast.editions] /\ edition[m] + 1 \in Nat
  <2>1. edition \in [Models -> 0..cast.editions] /\ cast.editions \in Nat
    BY <1>1, CastsAssumption DEF Typed, TypeOK
  <2> QED
    BY <1>1, <2>1
<1>7. vain' \subseteq Scenes /\ returned \subseteq returned' /\ returned' \subseteq Networks
  BY <1>1 DEF Typed, TypeOK, ComesBack
<1>8. m \notin Workbench
  BY ModelsAssumption
<1> QED
  BY <1>1, <1>2, <1>4, <1>5, <1>6, <1>7, <1>8

LEMMA ProjectKeeps ==
    ASSUME IInv, NEW m \in Networks, Project(m)
    PROVE  IInv'
<1> DEFINE k2 == [NoComponent EXCEPT !.session = InstalledSession(m), !.stepping = TRUE,
                                     !.compiling = TRUE, !.resume = TRUE]
           source == [class |-> Own, edition |-> edition[m] + 1]
           c == Cmd("Compile", m, InstalledSession(m), source)
<1>1. Typed
  BY DEF IInv
<1>2. /\ model' = [model EXCEPT ![m] = k2] /\ asked' = [asked EXCEPT ![m] = source]
      /\ channel' = Append(channel, c) /\ unheard' = unheard \ {m}
      /\ edition[m] < cast.editions
      /\ edition' = [edition EXCEPT ![m] = @ + 1] /\ returned' = returned \union ComesBack(m)
      /\ UNCHANGED <<cast, requested, roots, held, faults, laneVars, worker, results, vain>>
  BY DEF Project
<1>3. /\ InstalledSession(m) \in Nat
      /\ m \notin returned' =>
                 IF model[m] = Absent THEN asked[m] = Absent
                 ELSE InstalledSession(m) = model[m].session + 1
      /\ edition' \in [Models -> 0..cast.editions] /\ edition[m] + 1 \in Nat
      /\ vain' \subseteq Scenes /\ returned \subseteq returned' /\ returned' \subseteq Networks
      /\ m \in Models \ Workbench
  BY <1>2, Installed
<1>4. /\ k2 \in Component /\ k2.session = InstalledSession(m) /\ k2.class = Own
      /\ k2.stepping = TRUE /\ ~k2.compiled /\ k2.inFlight = 0
  BY <1>3, FreshFields
<1>5. source \in Source /\ source.class = Own
  BY <1>3 DEF Source
<1> HIDE DEF k2, source
<1>6. /\ c \in Posted /\ c.kind = "Compile" /\ c.model = m /\ c.session = InstalledSession(m)
      /\ c.source = source
  BY <1>3, <1>5, CmdIsPosted, CmdFields
<1> HIDE DEF c
<1> DEFINE cmds == <<c>>
<1>7. cmds = <<c>> /\ channel' = channel \o cmds
  BY <1>1, <1>2, <1>6, AppendIsConcat DEF Typed
<1> HIDE DEF cmds
<1>8. /\ c.kind \in Lifecycle /\ c.kind \in Sources
      /\ UNCHANGED <<laneVars, worker, results>> /\ UNCHANGED <<cast, requested, roots, held, faults>>
      /\ \A n \in Models : n # m => (n \in unheard' <=> n \in unheard)
  BY <1>2, <1>6 DEF Lifecycle, Sources
<1>9. Begun(m, k2, source, c, cmds)
  BY <1>2, <1>3, <1>4, <1>5, <1>6, <1>7, <1>8 DEF Begun
<1>10. Begun(m, k2, source, c, <<c>>)
  BY <1>7, <1>9
<1>11. /\ unheard' \subseteq Models
       /\ k2.inFlight # 0 => k2.stepping
  BY <1>1, <1>2, <1>4 DEF Typed, TypeOK
<1> QED
  BY <1>3, <1>4, <1>5, <1>6, <1>8, <1>10, <1>11, BeginKeeps

LEMMA RejectKeeps ==
    ASSUME IInv, NEW m \in Networks, Reject(m)
    PROVE  IInv'
<1> DEFINE k2 == [NoComponent EXCEPT !.session = InstalledSession(m)]
<1>1. /\ model' = [model EXCEPT ![m] = k2]
      /\ edition[m] < cast.editions
      /\ edition' = [edition EXCEPT ![m] = @ + 1] /\ returned' = returned \union ComesBack(m)
      /\ UNCHANGED <<cast, requested, roots, asked, held, faults, channel, laneVars, worker,
                     results, unheard, vain>>
  BY DEF Reject
<1>2. /\ InstalledSession(m) \in Nat
      /\ m \notin returned' =>
                 IF model[m] = Absent THEN asked[m] = Absent
                 ELSE InstalledSession(m) = model[m].session + 1
      /\ edition' \in [Models -> 0..cast.editions]
      /\ vain' \subseteq Scenes /\ returned \subseteq returned' /\ returned' \subseteq Networks
      /\ m \in Models \ Workbench
  BY <1>1, Installed
<1>3. k2 \in Component
  BY <1>2, NoComponentFields DEF Component
<1>4. /\ k2.session = InstalledSession(m) /\ k2.class = Own
      /\ ~k2.compiled /\ k2.inFlight = 0
  BY DEF NoComponent
<1> HIDE DEF k2
<1>5. /\ m \notin returned' =>
              IF model[m] = Absent THEN asked[m] = Absent /\ ~k2.compiled
              ELSE k2.session = model[m].session + 1 /\ (k2.compiled => model[m].compiled)
      /\ k2.compiled => k2.stepping
      /\ k2.inFlight # 0 => k2.stepping
  BY <1>2, <1>4
<1>6. UNCHANGED <<cast, requested, roots, asked, held, faults, channel, laneVars, worker,
                  results, unheard>>
  BY <1>1
<1> QED
  BY <1>1, <1>2, <1>3, <1>4, <1>5, <1>6, SilentKeeps

LEMMA RemoveModelKeeps ==
    ASSUME IInv, NEW m \in Scenes \union Networks, RemoveModel(m)
    PROVE  IInv'
<1> DEFINE d == Cmd("Despawn", m, 0, Absent)
<1>1. Typed /\ m \in Models \ Workbench
  BY ModelsAssumption DEF IInv, Models
<1>2. /\ model[m] # Absent
      /\ model' = [model EXCEPT ![m] = Absent] /\ channel' = Append(channel, d)
      /\ vain' = vain \ {m}
      /\ UNCHANGED <<cast, edition, requested, roots, asked, held, faults, laneVars, worker,
                     results, unheard, returned>>
  BY DEF RemoveModel, Present
<1>3. /\ d \in Posted /\ d.kind = "Despawn" /\ d.model = m /\ Removal(d)
  BY <1>1, CmdIsPosted, CmdFields DEF Removal
<1> HIDE DEF d
<1> DEFINE cmds == <<d>>
<1>4. cmds \in Seq(Posted) /\ Range(cmds) = {d} /\ Row(Order', cmds)
  BY <1>3, SingleRow
<1>5. channel' = channel \o cmds
  BY <1>1, <1>2, <1>3, AppendIsConcat DEF Typed
<1> HIDE DEF cmds
<1>6. model'[m] = Absent /\ \A n \in Models : n # m => model'[n] = model[n]
  BY <1>1, <1>2 DEF Typed, TypeOK
<1>7. ASSUME NEW x \in Sent \union Told, NEW y \in Range(cmds)
      PROVE  Before(x, y)'
  BY <1>3, <1>4, <1>6 DEF Before, Present, Removal
<1>8. /\ Ordered'
      /\ Sent' = Sent \union Range(cmds) /\ Told' = Told
      /\ Of(m, Told') = Of(m, Told)
      /\ \A n \in Models \ returned' : n # m => GoodModel(n)'
  <2>1. \A y \in Range(cmds) : y.model = m \/ y.kind = "Load"
    BY <1>3, <1>4
  <2>2. m \notin returned' => (model[m] = Absent /\ model'[m] # Absent => asked[m] = Absent)
    BY <1>2
  <2>3. \A n \in Models : n # m => /\ model'[n] = model[n] /\ asked'[n] = asked[n]
                                   /\ n \in unheard' <=> n \in unheard
    BY <1>2, <1>6
  <2>4. UNCHANGED <<laneVars, worker, results>> /\ returned \subseteq returned'
    BY <1>2
  <2> QED
    BY <1>1, <1>4, <1>5, <1>7, <2>1, <2>2, <2>3, <2>4, MainStep
<1>9. ASSUME m \notin returned'
      PROVE  GoodModel(m)'
  <2>1. Good(m, model[m], asked[m], worker[m], Of(m, Sent), Of(m, Told), unheard)
    BY <1>1, <1>2, <1>9 DEF IInv, GoodModel
  <2>2. model[m] \in Component
    BY <1>1, <1>2 DEF Typed, TypeOK
  <2>3. Good(m, Absent, asked[m], worker[m], Of(m, Sent) \union {d}, Of(m, Told), unheard)
    BY <1>1, <1>3, <2>1, <2>2, GoodRemoved
  <2>4. Of(m, Sent') = Of(m, Sent) \union {d}
    BY <1>3, <1>4, <1>8 DEF Of
  <2>5. Good(m, model'[m], asked'[m], worker'[m], Of(m, Sent'), Of(m, Told'), unheard')
    BY <1>2, <1>6, <1>8, <2>3, <2>4
  <2> QED
    BY <2>5, GoodModelLater
<1>10. Typed'
  <2>1. channel' \in Seq(Posted)
    BY <1>1, <1>4, <1>5, ConcatProperties DEF Typed
  <2>2. /\ edition' \in [Models -> 0..cast.editions]
        /\ requested' \in [Workbench -> SUBSET (Classes \union {Own})]
        /\ roots' \in {"unloaded", "loading", "ready", "failed"}
        /\ asked' \in [Models -> Source \union {Absent}]
        /\ unheard' \subseteq Models /\ vain' \subseteq Scenes /\ returned' \subseteq Networks
    BY <1>1, <1>2 DEF Typed, TypeOK
  <2>3. UNCHANGED <<cast, held, faults, laneVars, worker, results>>
    BY <1>2
  <2> QED
    BY <1>1, <1>2, <2>1, <2>2, <2>3, TypedMain
<1>11. LibraryFirst'
  <2>1. \A y \in {d} : y.kind # "Load" /\ y.kind # "Step"
    BY <1>3
  <2>2. Sent' = Sent \union {d} /\ Told' = Told /\ returned' \subseteq Networks
    BY <1>1, <1>2, <1>4, <1>8 DEF Typed, TypeOK
  <2>3. NoLibrary(m, {d})
    BY <1>1, <1>2, <1>6, <2>1, <2>2 DEF NoLibrary
  <2> QED
    BY <1>1, <2>3, LibraryStays
<1>12. faults' = faults /\ returned \subseteq returned'
  BY <1>2
<1> QED
  BY <1>8, <1>9, <1>10, <1>11, <1>12, MainKeeps

----------------------------------------------------------------------------
(* The fixed tick.                                                          *)

LEMMA StepOfFields ==
    ASSUME NEW m \in Models, model[m] \in Component
    PROVE  /\ StepOf(m) \in Posted /\ StepOf(m).kind = "Step" /\ StepOf(m).model = m
           /\ StepOf(m).session = model[m].session /\ StepOf(m).id = model[m].nextStep
           /\ StepOf(m).start = model[m].time /\ StepOf(m).source.class = model[m].class
<1> DEFINE source == [class |-> model[m].class, edition |-> 0]
           c == Cmd("Step", m, model[m].session, source)
<1>1. /\ model[m].session \in Nat /\ model[m].nextStep \in Nat /\ model[m].time \in Nat
      /\ model[m].class \in Classes \union {Own} /\ m # Absent
  BY ComponentFields, AbsentAssumption
<1>2. source \in Source /\ source.class = model[m].class
  BY <1>1 DEF Source
<1> HIDE DEF source
<1>3. c = [kind |-> "Step", model |-> m, session |-> model[m].session, id |-> 0, start |-> 0,
           source |-> source]
  BY DEF Cmd
<1>4. StepOf(m) = [kind |-> "Step", model |-> m, session |-> model[m].session,
                   id |-> model[m].nextStep, start |-> model[m].time, source |-> source]
  <2>1. StepOf(m) = [c EXCEPT !.id = model[m].nextStep, !.start = model[m].time]
    BY DEF StepOf, source
  <2> HIDE DEF c
  <2> QED
    BY <1>3, <2>1
<1> QED
  BY <1>1, <1>2, <1>4 DEF Posted, Command

LEMMA SteppingFields ==
    ASSUME NEW k \in Component
    PROVE  /\ Stepping(k) \in Component /\ Stepping(k).session = k.session
           /\ Stepping(k).class = k.class /\ Stepping(k).compiled = k.compiled
           /\ Stepping(k).time = k.time /\ Stepping(k).stepping = TRUE
           /\ Stepping(k).inFlight = k.nextStep
<1>1. k.nextStep \in Nat \ {0}
  BY ComponentFields
<1>2. PICK now \in Nat, then \in Nat \ {0} : now = k.nextStep /\ then = k.nextStep + 1
  BY <1>1
<1> DEFINE k2 == [k EXCEPT !.stepping = TRUE, !.inFlight = now, !.nextStep = then]
<1>3. k2 \in Component
  BY DEF Component
<1>4. /\ k2.session = k.session
      /\ k2.class = k.class /\ k2.compiled = k.compiled
      /\ k2.time = k.time /\ k2.stepping = TRUE /\ k2.inFlight = now
  BY DEF Component
<1>5. Stepping(k) = k2
  BY <1>2 DEF Stepping
<1> HIDE DEF k2
<1> QED
  BY <1>2, <1>3, <1>4, <1>5

\* The steps of a tick in some order, each of a model of its own.
LEMMA StepsOfTick ==
    ASSUME NEW due \in SUBSET Models, \A m \in due : model[m] \in Component
    PROVE  LET all == {StepOf(m) : m \in due}
               cmds == SetToSeq(all)
           IN  /\ cmds \in Seq(Posted) /\ Range(cmds) = all
               /\ \A i, j \in DOMAIN cmds : i # j => cmds[i].model # cmds[j].model
<1> DEFINE all == {StepOf(m) : m \in due}
           cmds == SetToSeq(all)
           f == [m \in due |-> StepOf(m)]
<1>1. IsFiniteSet(due)
  BY ModelsAssumption, FS_Subset
<1>2. f \in Surjection(due, all)
  BY DEF Surjection
<1>3. IsFiniteSet(all)
  BY <1>1, <1>2, FS_Surjection
<1>4. \A m \in due : StepOf(m) \in Posted /\ StepOf(m).model = m
  BY StepOfFields
<1>5. all \subseteq Posted /\ \A x, y \in all : x.model = y.model => x = y
  BY <1>4
<1> HIDE DEF all
<1>6. /\ cmds \in Seq(all) /\ Range(cmds) = all
      /\ \A i, j \in DOMAIN cmds : cmds[i] = cmds[j] => i = j
  BY <1>3, SequenceOfSet
<1>7. cmds \in Seq(Posted)
  BY <1>5, <1>6, SeqMonotonic
<1>8. \A i \in DOMAIN cmds : cmds[i] \in all
  BY <1>6 DEF Range
<1> HIDE DEF cmds
<1>9. \A i, j \in DOMAIN cmds : i # j => cmds[i].model # cmds[j].model
  BY <1>5, <1>6, <1>8
<1> QED
  BY <1>6, <1>7, <1>9 DEF all, cmds

LEMMA TickKeeps ==
    ASSUME IInv, NEW due \in SUBSET Models, Tick(due)
    PROVE  IInv'
<1> DEFINE all == {StepOf(m) : m \in due}
           cmds == SetToSeq(all)
<1>1. Typed
  BY DEF IInv
<1>2. /\ model' = [m \in Models |-> IF m \in due THEN Stepping(model[m]) ELSE model[m]]
      /\ channel' = channel \o cmds
      /\ UNCHANGED <<cast, edition, roots, asked, faults, laneVars, worker, results, unheard,
                     vain, returned>>
  BY DEF Tick
<1>3. requested' \in [Workbench -> SUBSET (Classes \union {Own})]
  <2>1. \A m \in Workbench : Present(m) => model[m].class \in Classes \union {Own}
    BY <1>1, ComponentFields DEF Typed, TypeOK, Present, Models
  <2>2. requested' = [m \in Workbench |->
              IF AsksForCompile(m) THEN requested[m] \union {model[m].class} ELSE requested[m]]
    BY DEF Tick
  <2> QED
    BY <1>1, <2>1, <2>2 DEF Typed, TypeOK, AsksForCompile
<1>4. held' \in BOOLEAN
  BY DEF Tick, Holds
<1>5. \A m \in due : /\ model[m] \in Component /\ model[m] # Absent
                     /\ model[m].compiled /\ ~model[m].stepping
  BY <1>1 DEF Tick, MayStep, Typed, TypeOK, Present
<1>6. \A m \in due : /\ StepOf(m) \in Posted /\ StepOf(m).kind = "Step" /\ StepOf(m).model = m
                     /\ Stepping(model[m]) \in Component
                     /\ Stepping(model[m]).compiled = model[m].compiled
                     /\ Stepping(model[m]).stepping = TRUE
  BY <1>5, StepOfFields, SteppingFields
<1>7. /\ cmds \in Seq(Posted) /\ Range(cmds) = all
      /\ \A i, j \in DOMAIN cmds : i # j => cmds[i].model # cmds[j].model
  BY <1>5, StepsOfTick
<1>8. /\ \A m \in due : model'[m] = Stepping(model[m])
      /\ \A m \in Models \ due : model'[m] = model[m]
      /\ \A m \in Models : model'[m] = Absent <=> model[m] = Absent
      /\ \A m \in Models : model[m] # Absent => model'[m].compiled = model[m].compiled
  <2>1. /\ \A m \in due : model'[m] = Stepping(model[m])
        /\ \A m \in Models \ due : model'[m] = model[m]
    BY <1>2
  <2>2. \A m \in due : Stepping(model[m]) # Absent
    BY <1>6, ComponentFields
  <2> QED
    BY <1>5, <1>6, <2>1, <2>2
<1> HIDE DEF cmds
<1>9. Sent' = Sent \union all /\ Told' = Told
  <2>1. Range(channel') = Range(channel) \union Range(cmds)
    BY <1>1, <1>2, <1>7, RangeConcatenation DEF Typed
  <2> QED
    BY <1>2, <1>7, <2>1 DEF Sent, Told, laneVars
<1>10. ASSUME NEW m \in due, m \notin returned
       PROVE  Of(m, Told) = {} /\ \A x \in Of(m, Sent) : Removal(x)
  <2>1. StepsAreAlone(model[m], Of(m, Sent), Of(m, Told))
    BY <1>10 DEF IInv, GoodModel, Good
  <2> QED
    BY <1>5, <2>1 DEF StepsAreAlone
<1>11. Order' = Order
  BY <1>2, <1>8 DEF Order, Before, Present, Removal, Earlier
<1>12. Ordered'
  <2>1. /\ Flowing(channel) /\ Flowing(stepLane) /\ Flowing(compileLane) /\ Flowing(batch)
        /\ results \in Seq(Item) /\ Sent \in SUBSET Item /\ Told \in SUBSET Item
        /\ Items(results, batch, stepLane, compileLane, channel) = Sent \union Told
    BY <1>1, UnderWay
  <2>2. cmds \in Seq(Item) /\ all \subseteq Item
    BY <1>6, <1>7, FlowingIs DEF Flowing, Item
  <2>3. Row(Order, cmds)
    <3>1. ASSUME NEW i \in DOMAIN cmds, NEW j \in DOMAIN cmds, i < j
          PROVE  <<cmds[i], cmds[j]>> \in Order
      <4>1. cmds[i] \in all /\ cmds[j] \in all
        BY <1>7 DEF Range
      <4>2. cmds[i] \in Item /\ cmds[j] \in Item /\ cmds[j].kind = "Step"
        BY <1>6, <2>2, <4>1
      <4>3. i \in Int /\ j \in Int
        BY <1>7, LenProperties
      <4>4. cmds[i].model # cmds[j].model
        BY <1>7, <3>1, <4>3
      <4>5. Before(cmds[i], cmds[j])
        BY <4>2, <4>4 DEF Before
      <4> QED
        BY <4>2, <4>5, OrderIs
    <3> QED
      BY <3>1 DEF Row
  <2>4. \A x \in Sent \union Told, y \in Range(cmds) : <<x, y>> \in Order
    <3>1. ASSUME NEW x \in Sent \union Told, NEW m \in due
          PROVE  <<x, StepOf(m)>> \in Order
      <4>1. x \in Item /\ StepOf(m) \in Item /\ StepOf(m).kind = "Step" /\ StepOf(m).model = m
        BY <1>6, <2>1, <2>2
      <4>2. x.model = m /\ m \notin returned => Removal(x)
        BY <1>10 DEF Of
      <4>3. Before(x, StepOf(m))
        BY <4>1, <4>2 DEF Before
      <4> QED
        BY <4>1, <4>3, OrderIs
    <3> QED
      BY <1>7, <3>1
  <2>5. Lined(Order, results, batch, stepLane, compileLane, channel \o cmds)
    BY <2>1, <2>2, <2>3, <2>4, LinedSent DEF IInv, Ordered, Flowing
  <2> QED
    BY <1>2, <1>11, <2>5 DEF Ordered, laneVars
<1>13. ASSUME NEW m \in Models \ returned'
       PROVE  GoodModel(m)'
  <2>1. m \notin returned /\ GoodModel(m)
    BY <1>2, <1>13 DEF IInv
  <2>2. Of(m, Told') = Of(m, Told)
    BY <1>9
  <2>3. CASE m \in due
    <3> DEFINE k == model[m]
               c == StepOf(m)
               k2 == Stepping(k)
    <3>1. /\ k \in Component /\ k.compiled /\ ~k.stepping
      BY <1>5, <2>3
    <3>2. /\ c \in Posted /\ c.kind = "Step" /\ c.model = m
          /\ c.session = k.session /\ c.id = k.nextStep
          /\ c.start = k.time /\ c.source.class = k.class
      BY <1>5, <2>3, StepOfFields
    <3>3. /\ k2 \in Component /\ k2.session = k.session
          /\ k2.class = k.class /\ k2.compiled = k.compiled
          /\ k2.time = k.time /\ k2.stepping = TRUE
          /\ k2.inFlight = k.nextStep
      BY <3>1, SteppingFields
    <3>4. Good(m, k, asked[m], worker[m], Of(m, Sent), Of(m, Told), unheard)
      BY <2>1 DEF GoodModel
    <3>5. Sorts(m, k, asked[m], worker[m], Of(m, Sent), Of(m, Told))
      BY <1>1, ModelSorts
    <3>6. model'[m] = k2
      BY <1>8, <2>3
    <3>7. Of(m, Sent') = Of(m, Sent) \union {c}
      <4>1. \A n \in due : StepOf(n).model = n
        BY <1>6
      <4>2. Of(m, all) = {c}
        BY <2>3, <4>1 DEF Of
      <4> HIDE DEF all
      <4> QED
        BY <1>9, <4>2 DEF Of
    <3> HIDE DEF k, c, k2
    <3>8. Good(m, k2, asked[m], worker[m], Of(m, Sent) \union {c}, Of(m, Told), unheard)
      BY <3>1, <3>2, <3>3, <3>4, <3>5, GoodStepSent
    <3>9. Good(m, model'[m], asked'[m], worker'[m], Of(m, Sent'), Of(m, Told'), unheard')
      BY <1>2, <2>2, <3>6, <3>7, <3>8
    <3> QED
      BY <3>9, GoodModelLater
  <2>4. CASE m \notin due
    <3>1. Of(m, Sent') = Of(m, Sent)
      <4>1. Of(m, all) = {}
        BY <1>6, <2>4 DEF Of
      <4> HIDE DEF all
      <4> QED
        BY <1>9, <4>1 DEF Of
    <3>2. model'[m] = model[m]
      BY <1>8, <2>4
    <3>3. UNCHANGED <<asked, worker, unheard>>
      BY <1>2
    <3> QED
      BY <2>1, <2>2, <3>1, <3>2, <3>3, GoodUntouched
  <2> QED
    BY <2>3, <2>4
<1>14. Typed'
  <2>1. channel' \in Seq(Posted)
    BY <1>1, <1>2, <1>7, ConcatProperties DEF Typed
  <2>2. \A q : q \in Seq(Posted) => q \in Seq(Command)
    <3>1. Posted \subseteq Command
      BY DEF Posted
    <3> QED
      BY <3>1, SeqMonotonic
  <2>3. model' \in [Models -> Component \union {Absent}]
    BY <1>1, <1>2, <1>6 DEF Typed, TypeOK
  <2>4. \A n \in Models : model'[n] # Absent => (model'[n].inFlight # 0 => model'[n].stepping)
    <3>1. \A n \in due : model'[n].stepping
      BY <1>6, <1>8
    <3>2. \A n \in Models \ due : model'[n] = model[n]
      BY <1>8
    <3>3. \A n \in Models : model[n] # Absent => (model[n].inFlight # 0 => model[n].stepping)
      BY <1>1 DEF Typed, TypeOK, Present
    <3> QED
      BY <3>1, <3>2, <3>3
  <2>5. TypeOK'
    BY <1>1, <1>2, <1>3, <1>4, <2>1, <2>2, <2>3, <2>4 DEF Typed, TypeOK, Present, laneVars
  <2> QED
    BY <1>1, <1>2, <2>1, <2>5 DEF Typed, laneVars
<1>15. LibraryFirst'
  <2>1. LibraryFirst /\ Workbench \subseteq Models
    BY DEF IInv, Models
  <2>2. \A y \in all : y.kind = "Step" /\ y.model \in due
    BY <1>6
  <2> HIDE DEF all
  <2>3. roots = "unloaded" =>
          /\ \A n \in Workbench : model'[n] = Absent
          /\ \A x \in Sent' \union Told' : x.kind # "Load"
    BY <1>8, <1>9, <2>1, <2>2 DEF LibraryFirst, Present
  <2>4. ASSUME NEW x \in Sent', x.kind = "Load"
        PROVE  /\ \A n \in Workbench : model'[n] # Absent => ~model'[n].compiled
               /\ \A y \in Sent' : y.kind = "Step" => y.model \notin Workbench
               /\ \A y \in Told' : y.model \notin Workbench
    <3>1. x \in Sent
      BY <1>9, <2>2, <2>4
    <3>2. \A n \in Workbench : model[n] # Absent => ~model[n].compiled
      BY <2>1, <2>4, <3>1 DEF LibraryFirst, Present
    <3>3. \A n \in due : n \notin Workbench
      BY <1>5, <3>2
    <3>4. \A n \in Workbench : model'[n] # Absent => ~model'[n].compiled
      BY <1>8, <2>1, <3>2
    <3> QED
      BY <1>9, <2>1, <2>2, <2>4, <3>1, <3>3, <3>4 DEF LibraryFirst
  <2> QED
    BY <1>2, <2>1, <2>3, <2>4 DEF LibraryFirst, Present
<1>16. faults' = faults /\ returned \subseteq returned'
  BY <1>2
<1> QED
  BY <1>12, <1>13, <1>14, <1>15, <1>16, MainKeeps

----------------------------------------------------------------------------
(* The worker's actions.                                                    *)

LEMMA OrderStays ==
    ASSUME UNCHANGED <<model, returned>>
    PROVE  Order' = Order
BY DEF Order, Before, Present, Removal, Earlier

\* What the worker does when it has taken c off its round.
LEMMA RoundGoesOn ==
    ASSUME IInv, batch # <<>>, batch' = Tail(batch),
           UNCHANGED <<model, returned, stepLane, compileLane, channel>>,
           NEW c, c = Head(batch)
    PROVE  /\ c \in Posted /\ batch' \in Seq(Posted)
           /\ Sent = Sent' \union {c} /\ Sent' \in SUBSET Posted
           /\ Lined(Order, results, batch', stepLane', compileLane', channel')
           /\ \A x \in Sent' : Before(c, x)
           /\ \A x \in Told : Before(x, c)
<1>1. /\ Flowing(channel) /\ Flowing(stepLane) /\ Flowing(compileLane) /\ Flowing(batch)
      /\ results \in Seq(Given) /\ results \in Seq(Item)
      /\ Sent \in SUBSET Item /\ Told \in SUBSET Item /\ Sent \in SUBSET Posted
  BY UnderWay DEF IInv
<1>2. c \in Posted /\ batch' \in Seq(Posted) /\ Range(batch) = {c} \union Range(batch')
  BY <1>1, HeadAndTail DEF Flowing
<1>3. Sent = Sent' \union {c}
  BY <1>2 DEF Sent
<1>4. /\ Lined(Order, results, batch', stepLane, compileLane, channel)
      /\ \A x \in Items(<<>>, batch', stepLane, compileLane, channel) : <<c, x>> \in Order
      /\ \A x \in Range(results) : <<x, c>> \in Order
  BY <1>1, LinedDone DEF IInv, Ordered, Flowing
<1>5. Items(<<>>, batch', stepLane, compileLane, channel) = Sent'
  BY EmptyRow DEF Items, Sent
<1>6. \A x \in Sent' : Before(c, x)
  <2>1. ASSUME NEW x \in Sent'
        PROVE  Before(c, x)
    <3>1. x \in Item /\ c \in Item /\ <<c, x>> \in Order
      BY <1>1, <1>3, <1>4, <1>5
    <3> QED
      BY <3>1, OrderIs
  <2> QED
    BY <2>1
<1>7. \A x \in Told : Before(x, c)
  <2>1. ASSUME NEW x \in Told
        PROVE  Before(x, c)
    <3>1. x \in Item /\ c \in Item /\ <<x, c>> \in Order
      BY <1>1, <1>3, <1>4 DEF Told
    <3> QED
      BY <3>1, OrderIs
  <2> QED
    BY <2>1
<1> QED
  BY <1>1, <1>2, <1>3, <1>4, <1>6, <1>7

LEMMA AnswerGoesLast ==
    ASSUME IInv, NEW a \in Given, results' = Append(results, a), UNCHANGED <<model, returned>>,
           batch' \in Seq(Posted), stepLane' \in Seq(Posted), compileLane' \in Seq(Posted),
           channel' \in Seq(Posted),
           Lined(Order, results, batch', stepLane', compileLane', channel'),
           \A x \in Sent' : Before(a, x), \A x \in Told : Before(x, a)
    PROVE  Ordered' /\ Told' = Told \union {a} /\ results' \in Seq(Given)
<1>1. /\ Flowing(batch') /\ Flowing(stepLane') /\ Flowing(compileLane') /\ Flowing(channel')
  BY FlowingIs
<1>2. results \in Seq(Given) /\ results \in Seq(Item) /\ Told \in SUBSET Item /\ a \in Item
  BY UnderWay DEF IInv, Item
<1>3. Told' = Told \union {a} /\ results' \in Seq(Given)
  BY <1>2, AppendedRange DEF Told
<1>4. Items(<<>>, batch', stepLane', compileLane', channel') = Sent'
  BY EmptyRow DEF Items, Sent
<1>5. Sent' \in SUBSET Item
  BY <1>1 DEF Sent, Flowing, Item
<1>6. \A x \in Items(<<>>, batch', stepLane', compileLane', channel') : <<a, x>> \in Order
  <2>1. ASSUME NEW x \in Sent'
        PROVE  <<a, x>> \in Order
    <3>1. x \in Item /\ a \in Item /\ Before(a, x)
      BY <1>2, <1>5
    <3> QED
      BY <3>1, OrderIs
  <2> QED
    BY <1>4, <2>1
<1>7. \A x \in Range(results) : <<x, a>> \in Order
  <2>1. ASSUME NEW x \in Told
        PROVE  <<x, a>> \in Order
    <3>1. x \in Item /\ a \in Item /\ Before(x, a)
      BY <1>2
    <3> QED
      BY <3>1, OrderIs
  <2> QED
    BY <2>1 DEF Told
<1>8. Lined(Order, Append(results, a), batch', stepLane', compileLane', channel')
  BY <1>1, <1>2, <1>6, <1>7, LinedAnswered DEF Flowing
<1>9. Order' = Order
  BY OrderStays
<1> QED
  BY <1>3, <1>8, <1>9 DEF Ordered

\* The types after a step of the worker.
LEMMA TypedWorker ==
    ASSUME Typed, UNCHANGED <<mainVars, held, faults, unheard, vain, returned>>,
           channel' \in Seq(Posted), stepLane' \in Seq(Posted), compileLane' \in Seq(Posted),
           batch' \in Seq(Posted), results' \in Seq(Given), worker' \in [Models -> WorkerOf]
    PROVE  Typed'
<1>1. \A q : q \in Seq(Posted) => q \in Seq(Command)
  <2>1. Posted \subseteq Command
    BY DEF Posted
  <2> QED
    BY <2>1, SeqMonotonic
<1>2. results' \in Seq(Answer)
  <2>1. Given \subseteq Answer
    BY DEF Given
  <2> QED
    BY <2>1, SeqMonotonic
<1>3. TypeOK'
  BY <1>1, <1>2 DEF Typed, TypeOK, Present, mainVars
<1> QED
  BY <1>3 DEF Typed

\* What a step of the worker leaves of the invariant.
LEMMA WorkerKeeps ==
    ASSUME IInv, Typed', Ordered', \A n \in Models \ returned : GoodModel(n)', LibraryFirst',
           UNCHANGED <<mainVars, held, faults, unheard, vain, returned>>
    PROVE  IInv'
BY DEF IInv, NoProtocolFault

LEMMA LibraryStaysFirst ==
    ASSUME IInv, UNCHANGED <<mainVars, returned>>, NEW new, Sent' \subseteq Sent,
           Told' \subseteq Told \union new,
           \A y \in new : y.kind # "Load" \/ roots # "unloaded",
           \A x \in Sent' : x.kind = "Load" => \A y \in new : y.model \notin Workbench
    PROVE  LibraryFirst'
<1>1. LibraryFirst
  BY DEF IInv
<1>2. roots' = "unloaded" =>
          /\ \A m \in Workbench : ~Present(m)'
          /\ \A x \in Sent' \union Told' : x.kind # "Load"
  BY <1>1 DEF LibraryFirst, Present, mainVars
<1>3. \A x \in Sent' : x.kind = "Load" =>
          /\ \A m \in Workbench : model'[m] # Absent => ~model'[m].compiled
          /\ \A y \in Sent' : y.kind = "Step" => y.model \notin Workbench
          /\ \A y \in Told' : y.model \notin Workbench
  BY <1>1 DEF LibraryFirst, Present, mainVars
<1> QED
  BY <1>1, <1>2, <1>3 DEF LibraryFirst, Present

LEMMA ExecuteKeeps ==
    ASSUME IInv, Execute
    PROVE  IInv'
<1> DEFINE c == Head(batch)
           m == c.model
<1>1. Typed /\ worker \in [Models -> WorkerOf]
  BY DEF IInv, Typed, TypeOK
<1>2. /\ batch # <<>> /\ batch' = Tail(batch) /\ c.kind \in Lifecycle \union {"Step"}
      /\ UNCHANGED <<mainVars, held, faults, channel, stepLane, compileLane, unheard, vain, returned>>
  BY DEF Execute
<1>3. PICK o \in Executed(c, worker[m]) :
         worker' = [worker EXCEPT ![m] = o.state] /\ results' = Append(results, o.answer)
  BY DEF Execute
<1> DEFINE a == o.answer
<1>4. UNCHANGED <<model, asked, roots, returned, stepLane, compileLane, channel, unheard>>
  BY <1>2 DEF mainVars
<1>5. PICK d : d = c
  OBVIOUS
<1>6. /\ d \in Posted /\ batch' \in Seq(Posted)
      /\ Sent = Sent' \union {d} /\ Sent' \in SUBSET Posted
      /\ Lined(Order, results, batch', stepLane', compileLane', channel')
      /\ \A x \in Sent' : Before(d, x)
      /\ \A x \in Told : Before(x, d)
  BY <1>2, <1>4, <1>5, RoundGoesOn
<1>7. /\ m = d.model /\ d.kind \in Lifecycle \union {"Step"} /\ o \in Executed(d, worker[m])
  BY <1>2, <1>3, <1>5
<1> HIDE DEF c, m
<1>8. m \in Models /\ ~Removal(d) /\ d.kind # "Load" /\ m # Absent
  BY <1>6, <1>7, PostedFields DEF Lifecycle, Removal
<1>9. worker[m] \in WorkerOf
  BY <1>1, <1>8
<1>10. Follows(o, d, worker[m])
  BY <1>6, <1>7, <1>9, ExecutedOutcome
<1> HIDE DEF a
<1>11. /\ a \in Given /\ a.model = d.model /\ a.session = d.session /\ a.id = d.id
       /\ a.kind # "Load" /\ ~Removal(a) /\ o.state \in WorkerOf
  <2>1. a \in Given /\ a.model = d.model /\ a.session = d.session /\ a.id = d.id
        /\ o.state \in WorkerOf
    BY <1>10 DEF Follows, a
  <2> QED
    BY <1>7, <1>8, <2>1, GivenFields DEF Removal
<1>12. \A x \in Sent' : Before(a, x)
  BY <1>6, <1>8, <1>11 DEF Before, Earlier
<1>13. \A x \in Told : Before(x, a)
  BY <1>6, <1>8, <1>11 DEF Before, Earlier
<1>14. results' = Append(results, a)
  BY <1>3 DEF a
<1>15. /\ channel' \in Seq(Posted) /\ stepLane' \in Seq(Posted) /\ compileLane' \in Seq(Posted)
  BY <1>1, <1>4 DEF Typed
<1>16. Ordered' /\ Told' = Told \union {a} /\ results' \in Seq(Given)
  BY <1>4, <1>6, <1>11, <1>12, <1>13, <1>14, <1>15, AnswerGoesLast
<1>17. worker' \in [Models -> WorkerOf] /\ worker'[m] = o.state
       /\ \A n \in Models : n # m => worker'[n] = worker[n]
  BY <1>1, <1>3, <1>8, <1>11
<1>18. Typed'
  BY <1>1, <1>2, <1>6, <1>15, <1>16, <1>17, TypedWorker
<1>19. ASSUME NEW n \in Models \ returned
       PROVE  GoodModel(n)'
  <2>1. GoodModel(n) /\ model'[n] = model[n] /\ asked'[n] = asked[n]
    BY <1>4 DEF IInv
  <2>2. CASE n = m
    <3> DEFINE s == Of(m, Sent)
               t == Of(m, Told)
               s2 == Of(m, Sent')
               t2 == Of(m, Told')
    <3>1. d \in s /\ t2 = t \union {a}
      BY <1>6, <1>7, <1>11, <1>16 DEF Of
    <3>2. d \notin Sent'
      <4>1. Before(d, d) => Earlier(d, d)
        BY <1>7, <1>8, <2>2 DEF Before
      <4>2. d.session \in Nat /\ d.id \in Nat
        BY <1>6, PostedFields
      <4> QED
        BY <1>6, <4>1, <4>2 DEF Earlier
    <3>3. s2 = s \ {d}
      BY <1>6, <3>2 DEF Of
    <3>4. \A y \in s \ {d} : IF Removal(y) THEN model[m] = Absent ELSE Earlier(d, y)
      <4>1. ASSUME NEW y \in s \ {d}
            PROVE  IF Removal(y) THEN model[m] = Absent ELSE Earlier(d, y)
        <5>1. y \in Sent' /\ y.model = m
          BY <1>6, <4>1 DEF Of
        <5>2. Before(d, y)
          BY <1>6, <5>1
        <5> QED
          BY <1>7, <1>8, <2>2, <5>1, <5>2 DEF Before, Present
      <4> QED
        BY <4>1
    <3>5. \A x \in t : Earlier(x, d)
      <4>1. ASSUME NEW x \in t
            PROVE  Earlier(x, d)
        <5>1. x \in Told /\ x.model = m /\ ~Removal(x)
          BY <1>1, UnderWay, GivenFields DEF Of, Removal
        <5>2. Before(x, d)
          BY <1>6, <5>1
        <5> QED
          BY <1>7, <1>8, <2>2, <5>1, <5>2 DEF Before
      <4> QED
        BY <4>1
    <3>6. Sorts(m, model[m], asked[m], worker[m], s, t)
      BY <1>1, <1>8, ModelSorts
    <3>7. Good(m, model[m], asked[m], worker[m], s, t, unheard)
      BY <2>1, <2>2 DEF GoodModel
    <3>8. t2 = t \union {o.answer}
      BY <3>1 DEF a
    <3> HIDE DEF s, t, s2, t2
    <3>9. Good(m, model[m], asked[m], o.state, s2, t2, unheard)
      BY <1>7, <1>8, <3>1, <3>3, <3>4, <3>5, <3>6, <3>7, <3>8, GoodExecuted
    <3>10. Good(n, model'[n], asked'[n], worker'[n], Of(n, Sent'), Of(n, Told'), unheard')
      BY <1>4, <1>17, <2>1, <2>2, <3>9 DEF s2, t2
    <3> QED
      BY <3>10, GoodModelLater
  <2>3. CASE n # m
    <3>1. Of(n, Sent') = Of(n, Sent) /\ Of(n, Told') = Of(n, Told)
      BY <1>6, <1>7, <1>11, <1>16, <2>3 DEF Of
    <3>2. worker'[n] = worker[n] /\ unheard' = unheard
      BY <1>4, <1>17, <2>3
    <3> QED
      BY <2>1, <3>1, <3>2, GoodUntouched
  <2> QED
    BY <2>2, <2>3
<1>20. LibraryFirst'
  <2>1. \A x \in Sent' : x.kind = "Load" => \A y \in {a} : y.model \notin Workbench
    BY <1>6, <1>11 DEF Before
  <2>2. \A y \in {a} : y.kind # "Load" \/ roots # "unloaded"
    BY <1>11
  <2>3. Sent' \subseteq Sent /\ Told' \subseteq Told \union {a} /\ UNCHANGED <<mainVars, returned>>
    BY <1>2, <1>6, <1>16
  <2> QED
    BY <2>1, <2>2, <2>3, LibraryStaysFirst
<1> QED
  BY <1>2, <1>16, <1>18, <1>19, <1>20, WorkerKeeps

LEMMA DespawnKeeps ==
    ASSUME IInv, Despawn
    PROVE  IInv'
<1>1. Typed /\ worker \in [Models -> WorkerOf]
  BY DEF IInv, Typed, TypeOK
<1>2. PICK d : d = Head(batch)
  OBVIOUS
<1>3. /\ batch # <<>> /\ batch' = Tail(batch) /\ d.kind = "Despawn"
      /\ worker' = [worker EXCEPT ![d.model] = [Unknown EXCEPT !.current = worker[d.model].current]]
      /\ UNCHANGED <<mainVars, held, faults, channel, stepLane, compileLane, results,
                      unheard, vain, returned>>
  BY <1>2 DEF Despawn
<1>4. UNCHANGED <<model, asked, roots, returned, stepLane, compileLane, channel, unheard, results>>
  BY <1>3 DEF mainVars
<1>5. /\ d \in Posted /\ batch' \in Seq(Posted)
      /\ Sent = Sent' \union {d} /\ Sent' \in SUBSET Posted
      /\ Lined(Order, results, batch', stepLane', compileLane', channel')
  BY <1>2, <1>3, <1>4, RoundGoesOn
<1>6. d.model \in Models /\ Removal(d)
  BY <1>3, <1>5, PostedFields DEF Removal
<1>7. /\ worker'[d.model] = [Unknown EXCEPT !.current = worker[d.model].current]
      /\ \A n \in Models : n # d.model => worker'[n] = worker[n]
  BY <1>1, <1>3, <1>6
<1>8. worker' \in [Models -> WorkerOf]
  <2>1. worker[d.model].current \in Nat
    BY <1>1, <1>6, WorkerFields
  <2>2. [Unknown EXCEPT !.current = worker[d.model].current] \in WorkerOf
    BY <2>1 DEF Unknown, WorkerOf
  <2> QED
    BY <1>1, <1>3, <1>6, <2>2
<1>9. Told' = Told
  BY <1>4 DEF Told
<1>10. Ordered'
  <2>1. Order' = Order
    BY <1>4, OrderStays
  <2> QED
    BY <1>4, <1>5, <2>1 DEF Ordered
<1>11. Typed'
  <2>1. /\ channel' \in Seq(Posted) /\ stepLane' \in Seq(Posted) /\ compileLane' \in Seq(Posted)
        /\ results' \in Seq(Given)
    BY <1>1, <1>4 DEF Typed
  <2>2. UNCHANGED <<mainVars, held, faults, unheard, vain, returned>>
    BY <1>3
  <2> QED
    BY <1>1, <1>5, <1>8, <2>1, <2>2, TypedWorker
<1>12. ASSUME NEW n \in Models \ returned
       PROVE  GoodModel(n)'
  <2>1. GoodModel(n) /\ model'[n] = model[n] /\ asked'[n] = asked[n] /\ Of(n, Told') = Of(n, Told)
    BY <1>4, <1>9 DEF IInv
  <2>2. CASE n = d.model
    <3> DEFINE s == Of(n, Sent)
               s2 == Of(n, Sent')
    <3>1. d \in s /\ s \ {d} \subseteq s2 /\ s2 \subseteq s
      BY <1>5, <2>2 DEF Of
    <3>2. model[n] \in Component \union {Absent} /\ worker[n] \in WorkerOf
      BY <1>1 DEF Typed, TypeOK
    <3>3. Good(n, model[n], asked[n], worker[n], s, Of(n, Told), unheard)
      BY <2>1 DEF GoodModel
    <3>4. worker'[n] = [Unknown EXCEPT !.current = worker[n].current]
      BY <1>7, <2>2
    <3> HIDE DEF s, s2
    <3>5. Good(n, model[n], asked[n], worker'[n], s2, Of(n, Told), unheard)
      BY <1>6, <3>1, <3>2, <3>3, <3>4, GoodDespawned
    <3>6. Good(n, model'[n], asked'[n], worker'[n], Of(n, Sent'), Of(n, Told'), unheard')
      BY <1>4, <2>1, <3>5 DEF s2
    <3> QED
      BY <3>6, GoodModelLater
  <2>3. CASE n # d.model
    <3>1. Of(n, Sent') = Of(n, Sent)
      BY <1>5, <2>3 DEF Of
    <3>2. worker'[n] = worker[n] /\ unheard' = unheard
      BY <1>4, <1>7, <2>3
    <3> QED
      BY <2>1, <3>1, <3>2, GoodUntouched
  <2> QED
    BY <2>2, <2>3
<1>13. LibraryFirst'
  <2>0. PICK none : none = {}
    OBVIOUS
  <2>1. /\ Sent' \subseteq Sent /\ Told' \subseteq Told \union none
        /\ UNCHANGED <<mainVars, returned>>
    BY <1>3, <1>5, <1>9
  <2>2. /\ \A y \in none : y.kind # "Load" \/ roots # "unloaded"
        /\ \A x \in Sent' : x.kind = "Load" => \A y \in none : y.model \notin Workbench
    BY <2>0
  <2> QED
    BY <2>1, <2>2, LibraryStaysFirst
<1>14. UNCHANGED <<mainVars, held, faults, unheard, vain, returned>>
  BY <1>3
<1> QED
  BY <1>10, <1>11, <1>12, <1>13, <1>14, WorkerKeeps

LEMMA LoadSourceRootKeeps ==
    ASSUME IInv, LoadSourceRoot
    PROVE  IInv'
<1>1. Typed /\ worker \in [Models -> WorkerOf]
  BY DEF IInv, Typed, TypeOK
<1>2. PICK d : d = Head(batch)
  OBVIOUS
<1>3. PICK error \in {"none", "compile"} : results' = Append(results, Result(d, 0, error, Absent))
  BY <1>2 DEF LoadSourceRoot
<1>4. /\ batch # <<>> /\ batch' = Tail(batch) /\ d.kind = "Load"
      /\ UNCHANGED <<mainVars, held, faults, channel, stepLane, compileLane, worker,
                      unheard, vain, returned>>
  BY <1>2 DEF LoadSourceRoot
<1>5. UNCHANGED <<model, asked, roots, returned, stepLane, compileLane, channel, unheard, worker>>
  BY <1>4 DEF mainVars
<1>6. /\ d \in Posted /\ batch' \in Seq(Posted)
      /\ Sent = Sent' \union {d} /\ Sent' \in SUBSET Posted
      /\ Lined(Order, results, batch', stepLane', compileLane', channel')
      /\ \A x \in Told : Before(x, d)
  BY <1>2, <1>4, <1>5, RoundGoesOn
<1>7. d.model = Absent /\ d.session \in Nat /\ d.id = 0
  BY <1>4, <1>6, PostedFields
<1> DEFINE a == Result(d, 0, error, Absent)
<1>8. a \in Given /\ a.model = Absent /\ a.kind = "Load"
  BY <1>4, <1>7 DEF Result, Given, Answer, Error, Lifecycle
<1>9. results' = Append(results, a)
  BY <1>3
<1>10. PICK b : b = a
  OBVIOUS
<1>11. b \in Given /\ b.model = Absent /\ b.kind = "Load" /\ results' = Append(results, b)
  BY <1>8, <1>9, <1>10
<1>12. Absent \notin Models /\ Absent \notin Workbench
  BY AbsentAssumption DEF Models
<1>13. \A x \in Sent' : Before(b, x)
  BY <1>11, <1>12 DEF Before
<1>14. \A x \in Told : Before(x, b)
  <2>1. ASSUME NEW x \in Told
        PROVE  Before(x, b)
    <3>1. Before(x, d)
      BY <1>6
    <3> QED
      BY <1>4, <1>11, <1>12, <3>1 DEF Before
  <2> QED
    BY <2>1
<1>15. /\ channel' \in Seq(Posted) /\ stepLane' \in Seq(Posted) /\ compileLane' \in Seq(Posted)
  BY <1>1, <1>5 DEF Typed
<1>16. Ordered' /\ Told' = Told \union {b} /\ results' \in Seq(Given)
  BY <1>5, <1>6, <1>11, <1>13, <1>14, <1>15, AnswerGoesLast
<1>17. UNCHANGED <<mainVars, held, faults, unheard, vain, returned>>
  BY <1>4
<1>18. Typed'
  <2>1. worker' \in [Models -> WorkerOf]
    BY <1>1, <1>5
  <2> QED
    BY <1>1, <1>6, <1>15, <1>16, <1>17, <2>1, TypedWorker
<1>19. ASSUME NEW n \in Models \ returned
       PROVE  GoodModel(n)'
  <2>1. GoodModel(n) /\ model'[n] = model[n] /\ asked'[n] = asked[n] /\ worker'[n] = worker[n]
    BY <1>5 DEF IInv
  <2>2. Of(n, Sent') = Of(n, Sent) /\ Of(n, Told') = Of(n, Told)
    BY <1>6, <1>7, <1>11, <1>12, <1>16 DEF Of
  <2> QED
    BY <1>5, <2>1, <2>2, GoodUntouched
<1>20. LibraryFirst'
  <2>1. roots # "unloaded"
    BY <1>4, <1>6 DEF IInv, LibraryFirst
  <2>2. /\ Sent' \subseteq Sent /\ Told' \subseteq Told \union {b}
        /\ UNCHANGED <<mainVars, returned>>
    BY <1>4, <1>6, <1>16
  <2>3. /\ \A y \in {b} : y.kind # "Load" \/ roots # "unloaded"
        /\ \A x \in Sent' : x.kind = "Load" => \A y \in {b} : y.model \notin Workbench
    BY <1>11, <1>12, <2>1
  <2> QED
    BY <2>2, <2>3, LibraryStaysFirst
<1> QED
  BY <1>16, <1>17, <1>18, <1>19, <1>20, WorkerKeeps

LEMMA OfItsItems ==
    ASSUME NEW S, NEW T, NEW q \in Seq(S), Range(q) \in SUBSET T
    PROVE  q \in Seq(T)
<1>1. Len(q) \in Nat /\ DOMAIN q = 1..Len(q) /\ q \in [1..Len(q) -> S]
  BY LenProperties
<1>2. \A i \in 1..Len(q) : q[i] \in T
  BY <1>1 DEF Range
<1>3. q \in [1..Len(q) -> T]
  BY <1>1, <1>2
<1> QED
  BY <1>1, <1>3, SeqDef

\* Commands change lanes, and may be squashed where their model came back.
LEMMA LanesKeep ==
    ASSUME IInv, UNCHANGED <<mainVars, held, faults, worker, unheard, vain, returned>>,
           Typed', Ordered', NEW lost \in SUBSET Sent, NEW acks,
           Sent = Sent' \union lost, Told' = Told \union acks,
           \A x \in lost \union acks : x.model \in returned,
           \A x \in acks : x.kind # "Load"
    PROVE  IInv'
<1>1. ASSUME NEW n \in Models \ returned
      PROVE  GoodModel(n)'
  <2>1. /\ GoodModel(n) /\ model'[n] = model[n] /\ asked'[n] = asked[n]
        /\ worker'[n] = worker[n] /\ unheard' = unheard
    BY DEF IInv, mainVars
  <2>2. Of(n, Sent') = Of(n, Sent) /\ Of(n, Told') = Of(n, Told)
    BY <1>1 DEF Of
  <2> QED
    BY <2>1, <2>2, GoodUntouched
<1>2. LibraryFirst'
  <2>1. \A y \in acks : y.kind # "Load" \/ roots # "unloaded"
    OBVIOUS
  <2>2. \A x \in Sent' : x.kind = "Load" => \A y \in acks : y.model \notin Workbench
    BY ModelsAssumption DEF IInv, LibraryFirst
  <2>3. Sent' \subseteq Sent /\ Told' \subseteq Told \union acks /\ UNCHANGED <<mainVars, returned>>
    OBVIOUS
  <2> QED
    BY <2>1, <2>2, <2>3, LibraryStaysFirst
<1> QED
  BY <1>1, <1>2, WorkerKeeps

LEMMA ReceiveKeeps ==
    ASSUME IInv, Receive
    PROVE  IInv'
<1>1. Typed /\ worker \in [Models -> WorkerOf]
  BY DEF IInv, Typed, TypeOK
<1>2. PICK d : d = Head(channel)
  OBVIOUS
<1>3. /\ channel # <<>> /\ channel' = Tail(channel)
      /\ stepLane' = Enqueued(d).step /\ compileLane' = Enqueued(d).compile
      /\ results' = results \o Enqueued(d).acks
      /\ UNCHANGED <<mainVars, held, faults, batch, worker, unheard, vain, returned>>
  BY <1>2 DEF Receive
<1>4. UNCHANGED <<model, asked, roots, returned, batch, unheard, worker>>
  BY <1>3 DEF mainVars
<1>5. /\ Flowing(channel) /\ Flowing(stepLane) /\ Flowing(compileLane) /\ Flowing(batch)
      /\ results \in Seq(Given) /\ results \in Seq(Item)
      /\ Sent \in SUBSET Item /\ Told \in SUBSET Item /\ Sent \in SUBSET Posted
  BY <1>1, UnderWay
<1>6. /\ d \in Posted /\ channel' \in Seq(Posted) /\ Range(channel) = {d} \union Range(channel')
  BY <1>2, <1>3, <1>5, HeadAndTail DEF Flowing
<1>7. Order' = Order
  BY <1>4, OrderStays
<1>8. Lined(Order, results, batch, stepLane, compileLane, channel)
  BY DEF IInv, Ordered
<1>9. batch' \in Seq(Posted) /\ worker' \in [Models -> WorkerOf]
  BY <1>1, <1>4 DEF Typed
<1>10. CASE d.kind = "Step" /\ \A i \in DOMAIN compileLane : compileLane[i].model # d.model
  <2>1. /\ stepLane' = Append(stepLane, d) /\ compileLane' = compileLane /\ results' = results \o <<>>
    BY <1>3, <1>10 DEF Enqueued
  <2>2. results' = results
    BY <1>5, <2>1, ConcatEmptySeq
  <2>3. \A x \in Range(compileLane) : <<d, x>> \in Order
    <3>1. ASSUME NEW x \in Range(compileLane)
          PROVE  <<d, x>> \in Order
      <4>1. x.model # d.model
        BY <1>10 DEF Range
      <4>2. x \in Sent /\ d \in Sent
        BY <1>6 DEF Sent
      <4>3. x.kind = "Load" => d.model \notin Workbench
        BY <1>10, <4>2 DEF IInv, LibraryFirst
      <4>4. x \in Item /\ d \in Item /\ Before(d, x)
        BY <1>5, <4>1, <4>2, <4>3 DEF Before
      <4> QED
        BY <4>4, OrderIs
    <3> QED
      BY <3>1
  <2>4. Lined(Order, results, batch, Append(stepLane, d), compileLane, channel')
    BY <1>2, <1>3, <1>5, <1>8, <2>3, LinedBefore DEF Flowing
  <2>5. stepLane' \in Seq(Posted) /\ Range(stepLane') = Range(stepLane) \union {d}
    BY <1>5, <1>6, <2>1, AppendedRange DEF Flowing
  <2>6. Sent' = Sent /\ Told' = Told
    BY <1>4, <1>6, <2>1, <2>2, <2>5 DEF Sent, Told
  <2>7. Ordered'
    BY <1>4, <1>7, <2>1, <2>2, <2>4 DEF Ordered
  <2>8. Typed'
    <3>1. compileLane' \in Seq(Posted) /\ results' \in Seq(Given)
      BY <1>1, <2>1, <2>2 DEF Typed
    <3> QED
      BY <1>1, <1>3, <1>6, <1>9, <2>5, <3>1, TypedWorker
  <2>9. PICK none : none = {}
    OBVIOUS
  <2>10. /\ none \in SUBSET Sent /\ Sent = Sent' \union none /\ Told' = Told \union none
         /\ \A x \in none \union none : x.model \in returned
         /\ \A x \in none : x.kind # "Load"
    BY <2>6, <2>9
  <2> QED
    BY <1>3, <2>7, <2>8, <2>10, LanesKeep
<1>11. CASE /\ ~(d.kind = "Step" /\ \A i \in DOMAIN compileLane : compileLane[i].model # d.model)
            /\ ~(compileLane # <<>> /\ Squashes(Last(compileLane), d))
  <2>1. /\ stepLane' = stepLane /\ compileLane' = Append(compileLane, d) /\ results' = results \o <<>>
    BY <1>3, <1>11 DEF Enqueued
  <2>2. results' = results
    BY <1>5, <2>1, ConcatEmptySeq
  <2>3. Lined(Order, results, batch, stepLane, Append(compileLane, d), channel')
    BY <1>2, <1>3, <1>5, <1>8, LinedBehind DEF Flowing
  <2>4. compileLane' \in Seq(Posted) /\ Range(compileLane') = Range(compileLane) \union {d}
    BY <1>5, <1>6, <2>1, AppendedRange DEF Flowing
  <2>5. Sent' = Sent /\ Told' = Told
    BY <1>4, <1>6, <2>1, <2>2, <2>4 DEF Sent, Told
  <2>6. Ordered'
    BY <1>4, <1>7, <2>1, <2>2, <2>3 DEF Ordered
  <2>7. Typed'
    <3>1. stepLane' \in Seq(Posted) /\ results' \in Seq(Given)
      BY <1>1, <2>1, <2>2 DEF Typed
    <3> QED
      BY <1>1, <1>3, <1>6, <1>9, <2>4, <3>1, TypedWorker
  <2>8. PICK none : none = {}
    OBVIOUS
  <2>9. /\ none \in SUBSET Sent /\ Sent = Sent' \union none /\ Told' = Told \union none
        /\ \A x \in none \union none : x.model \in returned
        /\ \A x \in none : x.kind # "Load"
    BY <2>5, <2>8
  <2> QED
    BY <1>3, <2>6, <2>7, <2>9, LanesKeep
<1>12. CASE /\ ~(d.kind = "Step" /\ \A i \in DOMAIN compileLane : compileLane[i].model # d.model)
            /\ compileLane # <<>> /\ Squashes(Last(compileLane), d)
  <2> DEFINE lane == Replaced(compileLane, d)
             ack == Plain(d.model, d.session)
  <2>1. PICK e, b : e = Last(compileLane) /\ b = ack
    OBVIOUS
  <2>2. /\ stepLane' = stepLane /\ compileLane' = lane /\ results' = results \o <<b>>
    BY <1>3, <1>12, <2>1 DEF Enqueued, Replaced
  <2>3. /\ Lined(Order, results, batch, stepLane, lane, channel')
        /\ lane \in Seq(Item) /\ e \in Range(compileLane)
        /\ Range(compileLane) \union Range(channel) = Range(lane) \union Range(channel') \union {e}
        /\ <<e, d>> \in Order
    <3>1. channel # <<>> /\ compileLane # <<>>
      BY <1>3, <1>12
    <3>2. InsteadOfLast(Order, Item, results, batch, stepLane, compileLane, channel)
      BY <1>5, <1>8, <3>1, LinedInstead DEF Flowing
    <3> QED
      BY <1>2, <1>3, <2>1, <3>2 DEF InsteadOfLast
  <2> HIDE DEF lane
  <2>4. e \in Sent /\ d \in Sent /\ e \in Posted
    BY <1>5, <1>6, <2>3 DEF Sent
  <2>5. /\ e.kind = d.kind /\ e.kind \in Sources /\ e.model = d.model /\ e.session = d.session
    BY <1>12, <2>1 DEF Squashes, Sources
  <2>6. d.model \in Models /\ e.id = 0 /\ d.id = 0 /\ ~Removal(e) /\ ~Removal(d) /\ d.session \in Nat
    BY <1>6, <2>4, <2>5, PostedFields DEF Sources, Removal
  <2>7. d.model \in returned
    <3>1. Before(e, d)
      BY <1>5, <2>3, <2>4, OrderIs
    <3>2. ~Earlier(e, d)
      BY <2>5, <2>6 DEF Earlier
    <3> QED
      BY <2>5, <2>6, <3>1, <3>2 DEF Before
  <2>8. /\ b \in Given /\ b.model = d.model /\ b.kind = "plain"
    BY <2>1, <2>6, PlainFields
  <2>9. d.model \notin Workbench
    BY <2>7, ModelsAssumption DEF IInv, LibraryFirst
  <2>10. Sent = Sent' \union {e}
    BY <1>4, <2>2, <2>3 DEF Sent
  <2>11. \A x \in Sent' : Before(b, x)
    BY <2>7, <2>8, <2>9 DEF Before
  <2>12. \A x \in Told : Before(x, b)
    BY <2>7, <2>8 DEF Before, Removal
  <2>13. results' = Append(results, b)
    BY <1>5, <2>2, <2>8, AppendIsConcat
  <2>14. stepLane' \in Seq(Posted) /\ compileLane' \in Seq(Posted)
    <3>1. Range(lane) \in SUBSET Posted
      BY <1>5, <2>3 DEF Flowing
    <3> QED
      BY <1>1, <2>2, <2>3, <3>1, OfItsItems DEF Typed
  <2>15. Lined(Order, results, batch', stepLane', compileLane', channel')
    BY <1>4, <2>2, <2>3
  <2>16. Ordered' /\ Told' = Told \union {b} /\ results' \in Seq(Given)
    BY <1>4, <1>6, <1>9, <2>8, <2>11, <2>12, <2>13, <2>14, <2>15, AnswerGoesLast
  <2>17. Typed'
    BY <1>1, <1>3, <1>6, <1>9, <2>14, <2>16, TypedWorker
  <2>18. /\ {e} \in SUBSET Sent
         /\ \A x \in {e} \union {b} : x.model \in returned
         /\ \A x \in {b} : x.kind # "Load"
    BY <2>4, <2>5, <2>7, <2>8
  <2> QED
    BY <1>3, <2>10, <2>16, <2>17, <2>18, LanesKeep
<1> QED
  BY <1>10, <1>11, <1>12

\* A step that goes ahead has nothing of its model before it but steps.
LEMMA UnblockedGoFirst ==
    ASSUME IInv, NEW lane \in Seq(Posted), Range(lane) \in SUBSET Sent, Row(Order, lane),
           NEW i \in Unblocked(lane), NEW j \in DOMAIN lane \ Unblocked(lane)
    PROVE  <<lane[i], lane[j]>> \in Order
<1>1. i \in DOMAIN lane /\ j \in DOMAIN lane /\ DOMAIN lane = 1..Len(lane) /\ Len(lane) \in Nat
  BY LenProperties DEF Unblocked
<1>2. CASE i < j
  BY <1>1, <1>2 DEF Row
<1>3. CASE j < i
  <2>1. lane[i].kind = "Step" /\ \A k \in 1..(i - 1) : lane[k].model = lane[i].model => lane[k].kind = "Step"
    BY DEF Unblocked
  <2>2. lane[j].kind # "Step" \/ \E k \in 1..(j - 1) : lane[k].model = lane[j].model /\ lane[k].kind # "Step"
    BY DEF Unblocked
  <2>3. j \in 1..(i - 1) /\ \A k \in 1..(j - 1) : k \in 1..(i - 1)
    BY <1>1, <1>3
  <2>4. lane[i].model # lane[j].model
    BY <2>1, <2>2, <2>3
  <2>5. lane[i] \in Sent /\ lane[j] \in Sent
    BY <1>1 DEF Range
  <2>6. lane[j].kind = "Load" => lane[i].model \notin Workbench
    BY <2>1, <2>5 DEF IInv, LibraryFirst
  <2>7. lane[i] \in Item /\ lane[j] \in Item /\ Before(lane[i], lane[j])
    <3>1. lane[i] \in Posted /\ lane[j] \in Posted
      BY <1>1
    <3> QED
      BY <2>4, <2>6, <3>1 DEF Before, Item
  <2> QED
    BY <2>7, OrderIs
<1> QED
  BY <1>1, <1>2, <1>3

\* A round begins with all that waited, and nothing else.
LEMMA RoundStarts ==
    ASSUME IInv, StartRound
    PROVE  /\ Ordered' /\ Sent' = Sent /\ Told' = Told
           /\ batch' \in Seq(Posted) /\ stepLane' \in Seq(Posted) /\ compileLane' \in Seq(Posted)
<1> DEFINE o == Others(compileLane)
           go == Unblocked(o)
           stay == DOMAIN o \ Unblocked(o)
<1>1. Typed /\ worker \in [Models -> WorkerOf]
  BY DEF IInv, Typed, TypeOK
<1>2. /\ batch = <<>> /\ channel = <<>>
      /\ batch' = stepLane \o Foremost(compileLane)
      /\ stepLane' = Picked(o, go) /\ compileLane' = Picked(o, stay)
      /\ UNCHANGED <<mainVars, held, faults, channel, worker, results, unheard, vain, returned>>
  BY DEF StartRound, Promoted, Kept
<1>3. UNCHANGED <<model, asked, roots, returned, channel, results, unheard, worker>>
  BY <1>2 DEF mainVars
<1>4. /\ Flowing(stepLane) /\ Flowing(compileLane)
      /\ results \in Seq(Given) /\ results \in Seq(Item)
      /\ Sent \in SUBSET Posted
  BY <1>1, UnderWay
<1>5. Lined(Order, results, <<>>, stepLane, compileLane, <<>>)
  BY <1>2 DEF IInv, Ordered
<1>6. o \in Seq(Posted) /\ Range(o) \in SUBSET Sent /\ Row(Order, o)
  <2>1. CASE compileLane = <<>>
    <3>1. o = <<>>
      BY <2>1 DEF Others
    <3> HIDE DEF o
    <3> QED
      BY <3>1, EmptyRow
  <2>2. CASE compileLane # <<>>
    <3>1. o = Tail(compileLane)
      BY <2>2 DEF Others
    <3> DEFINE h == <<Head(compileLane)>>
               t == Tail(compileLane)
    <3>2. /\ t \in Seq(Posted) /\ h \in Seq(Posted)
          /\ compileLane = h \o t
          /\ Range(compileLane) = {Head(compileLane)} \union Range(t)
      BY <1>4, <2>2, HeadAndTail DEF Flowing
    <3>3. Row(Order, compileLane)
      BY <1>5 DEF Lined
    <3> HIDE DEF h, t
    <3>4. Row(Order, t)
      BY <3>2, <3>3, RowJoined
    <3>5. Range(t) \in SUBSET Sent
      BY <3>2 DEF Sent
    <3> QED
      BY <3>1, <3>2, <3>4, <3>5 DEF t
  <2> QED
    BY <2>1, <2>2
<1>7. go \union stay = DOMAIN o
  BY DEF Unblocked
<1>8. \A i \in go, j \in stay : <<o[i], o[j]>> \in Order
  <2> HIDE DEF o
  <2> QED
    BY <1>6, UnblockedGoFirst
<1> HIDE DEF go, stay
<1>9. /\ Lined(Order, results, batch', stepLane', compileLane', <<>>)
      /\ batch' \in Seq(Item) /\ stepLane' \in Seq(Item) /\ compileLane' \in Seq(Item)
      /\ Range(stepLane) \union Range(compileLane) =
            Range(batch') \union Range(stepLane') \union Range(compileLane')
  <2>1. Divides(Order, compileLane, go, stay)
    BY <1>7, <1>8 DEF Divides
  <2>2. RoundOf(Order, Item, results, stepLane, compileLane, go, stay)
    BY <1>4, <1>5, <2>1, LinedRound DEF Flowing
  <2> QED
    BY <1>2, <2>2 DEF RoundOf
<1>10. Ordered'
  <2>1. Order' = Order
    BY <1>3, OrderStays
  <2>2. channel' = <<>> /\ results' = results
    BY <1>2
  <2> QED
    BY <1>9, <2>1, <2>2 DEF Ordered
<1>11. Sent' = Sent /\ Told' = Told
  <2>1. Range(batch) = {} /\ Range(channel) = {}
    BY <1>2, EmptyRow
  <2> QED
    BY <1>3, <1>9, <2>1 DEF Sent, Told
<1>12. /\ batch' \in Seq(Posted) /\ stepLane' \in Seq(Posted) /\ compileLane' \in Seq(Posted)
  <2>1. /\ Range(batch') \in SUBSET Posted /\ Range(stepLane') \in SUBSET Posted
        /\ Range(compileLane') \in SUBSET Posted
    BY <1>4, <1>9 DEF Flowing
  <2> QED
    BY <1>9, <2>1, OfItsItems
<1> QED
  BY <1>10, <1>11, <1>12

LEMMA StartRoundKeeps ==
    ASSUME IInv, StartRound
    PROVE  IInv'
<1>1. Typed /\ worker \in [Models -> WorkerOf]
  BY DEF IInv, Typed, TypeOK
<1>2. UNCHANGED <<mainVars, held, faults, channel, worker, results, unheard, vain, returned>>
  BY DEF StartRound
<1>3. /\ Ordered' /\ Sent' = Sent /\ Told' = Told
      /\ batch' \in Seq(Posted) /\ stepLane' \in Seq(Posted) /\ compileLane' \in Seq(Posted)
  BY RoundStarts
<1>4. Typed'
  <2>1. channel' \in Seq(Posted) /\ results' \in Seq(Given) /\ worker' \in [Models -> WorkerOf]
    BY <1>1, <1>2 DEF Typed
  <2>2. UNCHANGED <<mainVars, held, faults, unheard, vain, returned>>
    BY <1>2
  <2> QED
    BY <1>1, <1>3, <2>1, <2>2, TypedWorker
<1>5. PICK none \in SUBSET Sent : none = {}
  OBVIOUS
<1>6. /\ none \in SUBSET Sent /\ Sent = Sent' \union none /\ Told' = Told \union none
      /\ \A x \in none \union none : x.model \in returned
      /\ \A x \in none : x.kind # "Load"
  BY <1>3, <1>5
<1>7. UNCHANGED <<mainVars, held, faults, worker, unheard, vain, returned>>
  BY <1>2
<1> QED
  BY <1>3, <1>4, <1>6, <1>7, LanesKeep

----------------------------------------------------------------------------
(* What the main thread takes.                                              *)

LEMMA AnswerTakenOff ==
    ASSUME IInv, results # <<>>, results' = Tail(results), UNCHANGED <<channel, laneVars, returned>>,
           \A n \in Models : model'[n] = Absent <=> model[n] = Absent,
           NEW r, r = Head(results)
    PROVE  /\ r \in Given /\ r \in Told /\ results' \in Seq(Given)
           /\ Told = Told' \union {r} /\ Sent' = Sent
           /\ Ordered'
           /\ \A x \in Sent \union Told' : Before(r, x)
<1>1. /\ Flowing(channel) /\ Flowing(stepLane) /\ Flowing(compileLane) /\ Flowing(batch)
      /\ results \in Seq(Given) /\ results \in Seq(Item)
      /\ Sent \in SUBSET Item /\ Told \in SUBSET Item
  BY UnderWay DEF IInv
<1>2. r \in Given /\ results' \in Seq(Given) /\ Range(results) = {r} \union Range(results')
  BY <1>1, HeadAndTail
<1>3. Told = Told' \union {r} /\ Sent' = Sent
  BY <1>2 DEF Told, Sent, laneVars
<1>4. /\ Lined(Order, results', batch, stepLane, compileLane, channel)
      /\ \A x \in Items(results', batch, stepLane, compileLane, channel) : <<r, x>> \in Order
  BY <1>1, LinedTaken DEF IInv, Ordered
<1>5. Items(results', batch, stepLane, compileLane, channel) = Sent \union Told'
  BY DEF Items, Sent, Told
<1>6. Order' = Order
  BY DEF Order, Before, Present, Removal, Earlier
<1>7. Ordered'
  BY <1>4, <1>6 DEF Ordered, laneVars
<1>8. \A x \in Sent \union Told' : Before(r, x)
  <2>1. ASSUME NEW x \in Sent \union Told'
        PROVE  Before(r, x)
    <3>1. x \in Item /\ r \in Item /\ <<r, x>> \in Order
      BY <1>1, <1>2, <1>3, <1>4, <1>5 DEF Item
    <3> QED
      BY <3>1, OrderIs
  <2> QED
    BY <2>1
<1> QED
  BY <1>2, <1>3, <1>7, <1>8

LEMMA TypedMeanwhile ==
    ASSUME Typed,
           UNCHANGED <<cast, edition, requested, asked, channel, laneVars, worker, vain, returned>>,
           model' \in [Models -> Component \union {Absent}],
           \A n \in Models : model'[n] # Absent => (model'[n].inFlight # 0 => model'[n].stepping),
           roots' \in {"unloaded", "loading", "ready", "failed"}, held' \in BOOLEAN,
           faults' \subseteq {"session", "step", "missing", "clock", "rebuild", "solver", "panic"}
                             \X Models,
           unheard' \subseteq Models, results' \in Seq(Given)
    PROVE  Typed'
<1>1. results' \in Seq(Answer)
  <2>1. Given \subseteq Answer
    BY DEF Given
  <2> QED
    BY <2>1, SeqMonotonic
<1>2. TypeOK'
  BY <1>1 DEF Typed, TypeOK, Present, laneVars
<1> QED
  BY <1>2 DEF Typed, laneVars

\* The rest of the invariant once the model answered is accounted for.
LEMMA OneAnswerTaken ==
    ASSUME IInv, results # <<>>, results' = Tail(results), NEW r, r = Head(results),
           UNCHANGED <<cast, edition, requested, asked, channel, laneVars, worker, vain, returned>>,
           model' \in [Models -> Component \union {Absent}],
           \A n \in Models : model'[n] # Absent => (model'[n].inFlight # 0 => model'[n].stepping),
           \A n \in Models : model'[n] = Absent <=> model[n] = Absent,
           \A n \in Models : n # r.model =>
              model'[n] = model[n] /\ (n \in unheard' <=> n \in unheard),
           roots' = roots \/ roots' \in {"ready", "failed"}, held' \in BOOLEAN,
           faults' \subseteq {"session", "step", "missing", "clock", "rebuild", "solver", "panic"}
                             \X Models,
           unheard' \subseteq Models, NoProtocolFault',
           \A n \in Models \ returned : n = r.model => GoodModel(n)'
    PROVE  IInv'
<1>1. Typed
  BY DEF IInv
<1>2. /\ r \in Given /\ r \in Told /\ results' \in Seq(Given)
      /\ Told = Told' \union {r} /\ Sent' = Sent
      /\ Ordered'
  BY AnswerTakenOff
<1>3. roots' \in {"unloaded", "loading", "ready", "failed"}
  BY <1>1 DEF Typed, TypeOK
<1>4. Typed'
  BY <1>1, <1>2, <1>3, TypedMeanwhile
<1>5. ASSUME NEW n \in Models \ returned'
      PROVE  GoodModel(n)'
  <2>1. GoodModel(n) /\ asked'[n] = asked[n] /\ worker'[n] = worker[n]
    BY DEF IInv
  <2>2. CASE n = r.model
    BY <2>2
  <2>3. CASE n # r.model
    <3>1. Of(n, Sent') = Of(n, Sent) /\ Of(n, Told') = Of(n, Told)
      BY <1>2, <2>3 DEF Of
    <3>2. model'[n] = model[n] /\ (n \in unheard' <=> n \in unheard)
      BY <2>3
    <3> QED
      BY <2>1, <3>1, <3>2, GoodUntouched
  <2> QED
    BY <2>2, <2>3
<1>6. LibraryFirst'
  <2>1. LibraryFirst /\ Workbench \subseteq Models
    BY DEF IInv, Models
  <2>2. roots' = "unloaded" =>
          /\ \A n \in Workbench : model'[n] = Absent
          /\ \A x \in Sent' \union Told' : x.kind # "Load"
    BY <1>2, <2>1 DEF LibraryFirst, Present
  <2>3. \A x \in Sent' : x.kind = "Load" =>
          /\ \A n \in Workbench : model'[n] # Absent => ~model'[n].compiled
          /\ \A y \in Sent' : y.kind = "Step" => y.model \notin Workbench
          /\ \A y \in Told' : y.model \notin Workbench
    BY <1>2, <2>1 DEF LibraryFirst, Present
  <2> QED
    BY <2>1, <2>2, <2>3 DEF LibraryFirst, Present
<1> QED
  BY <1>2, <1>4, <1>5, <1>6 DEF IInv

\* There is no answer, and the barrier is worked out all the same.
LEMMA NoAnswerKeeps ==
    ASSUME IInv, held' \in BOOLEAN, UNCHANGED <<results, model, roots, faults, unheard>>,
           UNCHANGED <<cast, edition, requested, asked, channel, laneVars, worker, vain, returned>>
    PROVE  IInv'
<1>1. Typed'
  BY DEF IInv, Typed, TypeOK, Present, laneVars
<1>2. Sent' = Sent /\ Told' = Told
  BY DEF Sent, Told, laneVars
<1>3. Ordered'
  <2>1. Order' = Order
    BY OrderStays
  <2> QED
    BY <2>1 DEF IInv, Ordered, laneVars
<1>4. ASSUME NEW n \in Models \ returned'
      PROVE  GoodModel(n)'
  <2>1. GoodModel(n) /\ Of(n, Sent') = Of(n, Sent) /\ Of(n, Told') = Of(n, Told)
    BY <1>2 DEF IInv
  <2> QED
    BY <2>1, GoodUntouched
<1>5. LibraryFirst'
  BY <1>2 DEF IInv, LibraryFirst, Present
<1>6. faults' = faults /\ returned \subseteq returned'
  OBVIOUS
<1> QED
  BY <1>1, <1>3, <1>4, <1>5, <1>6, MainKeeps

LEMMA LibraryAnswered ==
    ASSUME IInv, results # <<>>, results' = Tail(results), NEW r, r = Head(results),
           r.kind = "Load", roots' \in {"ready", "failed"}, held' \in BOOLEAN,
           UNCHANGED <<model, faults, unheard>>,
           UNCHANGED <<cast, edition, requested, asked, channel, laneVars, worker, vain, returned>>
    PROVE  IInv'
<1>1. r \in Given
  BY AnswerTakenOff
<1>2. r.model \notin Models
  BY <1>1, GivenFields, AbsentAssumption
<1>3. /\ model' \in [Models -> Component \union {Absent}]
      /\ \A n \in Models : model'[n] # Absent => (model'[n].inFlight # 0 => model'[n].stepping)
      /\ faults' \subseteq {"session", "step", "missing", "clock", "rebuild", "solver", "panic"}
                           \X Models
      /\ unheard' \subseteq Models
  BY DEF IInv, Typed, TypeOK, Present
<1>4. NoProtocolFault'
  BY DEF IInv, NoProtocolFault
<1> QED
  BY <1>2, <1>3, <1>4, OneAnswerTaken

LEMMA StaleAnswered ==
    ASSUME IInv, results # <<>>, results' = Tail(results), NEW r, r = Head(results),
           r.kind # "Load", ~Present(r.model) \/ r.session < model[r.model].session, Drop(r),
           roots' = roots, held' \in BOOLEAN,
           UNCHANGED <<cast, edition, requested, asked, channel, laneVars, worker, vain, returned>>
    PROVE  IInv'
<1> DEFINE m == r.model
<1>1. Typed /\ UNCHANGED <<model, faults>>
  BY DEF IInv, Drop
<1>2. /\ r \in Given /\ r \in Told /\ Told = Told' \union {r} /\ Sent' = Sent
  BY <1>1, AnswerTakenOff
<1>3. m \in Models
  BY <1>2, GivenFields
<1>4. unheard' = IF Present(m) /\ Lost(r) THEN unheard \union {m} ELSE unheard
  BY DEF Drop
<1>5. /\ model' \in [Models -> Component \union {Absent}]
      /\ \A n \in Models : model'[n] # Absent => (model'[n].inFlight # 0 => model'[n].stepping)
      /\ faults' \subseteq {"session", "step", "missing", "clock", "rebuild", "solver", "panic"}
                           \X Models
      /\ unheard' \subseteq Models
  BY <1>1, <1>3, <1>4 DEF Typed, TypeOK, Present
<1>6. NoProtocolFault'
  BY <1>1 DEF IInv, NoProtocolFault
<1>7. ASSUME m \in Models \ returned
      PROVE  GoodModel(m)'
  <2> DEFINE t == Of(m, Told)
             t2 == Of(m, Told')
             s == Of(m, Sent)
  <2>1. r \in t /\ t \ {r} \subseteq t2 /\ t2 \subseteq t /\ Of(m, Sent') = s
    BY <1>2 DEF Of
  <2>2. model[m] = Absent \/ r.session < model[m].session
    BY DEF Present
  <2>3. m \in unheard \/ (model[m] # Absent /\ LostOf(asked[m], r)) => m \in unheard'
    BY <1>4 DEF LostOf, Lost, Sources, Present
  <2>4. model[m] \in Component \union {Absent}
    BY <1>1, <1>3 DEF Typed, TypeOK
  <2>5. Sorts(m, model[m], asked[m], worker[m], s, t)
    BY <1>1, <1>3, ModelSorts
  <2>6. Good(m, model[m], asked[m], worker[m], s, t, unheard)
    BY <1>7 DEF IInv, GoodModel
  <2> HIDE DEF s, t, t2, m
  <2>7. Good(m, model[m], asked[m], worker[m], s, t2, unheard')
    BY <2>1, <2>2, <2>3, <2>4, <2>5, <2>6, GoodDropped
  <2>8. Good(m, model'[m], asked'[m], worker'[m], Of(m, Sent'), Of(m, Told'), unheard')
    BY <1>1, <2>1, <2>7 DEF t2
  <2> QED
    BY <2>8, GoodModelLater
<1>8. \A n \in Models : n # m => model'[n] = model[n] /\ (n \in unheard' <=> n \in unheard)
  BY <1>1, <1>4
<1> QED
  BY <1>1, <1>5, <1>6, <1>7, <1>8, OneAnswerTaken

LEMMA StoppedFields ==
    ASSUME NEW k \in Component
    PROVE  LET k2 == [Stopped(k) EXCEPT !.inFlight = 0]
           IN  k2 \in Component /\ k2.inFlight = 0
<1> DEFINE k2 == [Stopped(k) EXCEPT !.inFlight = 0]
<1>1. Stopped(k) \in Component
  BY DEF Stopped, Component
<1>2. k2 \in Component /\ k2.inFlight = 0
  BY <1>1 DEF Component
<1> QED
  BY <1>2

\* The answer r is of the session of the component k or a later one, and before
\* whatever is under way for the model.
AnsweredFirst(r, k, s, t) ==
    /\ r \in t /\ k.session <= r.session
    /\ \A x \in s : Removal(x) \/ Earlier(r, x)
    /\ \A x \in t \ {r} : Earlier(r, x)

AcceptedWell(m, r, k, a, w, s, t, u) ==
    /\ t = {r}
    /\ Violation(r, k) = "none"
    /\ r.kind \notin Lifecycle => r.error # "clock"
    /\ Good(m, Accepted(r, k), a, w, s, {}, u)

LEMMA FirstAnswerTaken ==
    ASSUME NEW m \in Models, NEW k \in Component, NEW a, NEW w, NEW s, NEW t, NEW u, NEW r,
           Sorts(m, k, a, w, s, t), Good(m, k, a, w, s, t, u), AnsweredFirst(r, k, s, t),
           edition[m] \in Nat
    PROVE  AcceptedWell(m, r, k, a, w, s, t, u)
<1>1. /\ r \in t /\ k.session <= r.session
      /\ \A x \in s : Removal(x) \/ Earlier(r, x)
      /\ \A x \in t \ {r} : Earlier(r, x)
  BY DEF AnsweredFirst
<1>2. r.model = m
  BY <1>1 DEF Sorts
<1>3. t = {r}
  BY <1>1, AnswersAreLast
<1>4. edition[r.model] \in Nat
  BY <1>2
<1> QED
  BY <1>1, <1>3, <1>4, GoodTaken DEF AcceptedWell

LEMMA AnswerAccepted ==
    ASSUME IInv, results # <<>>, results' = Tail(results), NEW r, r = Head(results),
           r.kind # "Load", Present(r.model), ~(r.session < model[r.model].session), Take(r),
           roots' = roots, held' \in BOOLEAN,
           UNCHANGED <<cast, edition, requested, asked, channel, laneVars, worker, vain, returned>>
    PROVE  IInv'
<1> DEFINE m == r.model
           k == model[m]
           v == Violation(r, k)
<1>1. Typed /\ unheard' = unheard
  BY DEF IInv, Take
<1>2. PICK k2 : /\ model' = [model EXCEPT ![m] = k2]
                /\ \/ /\ v = "none" /\ k2 = Accepted(r, k)
                      /\ faults' = IF r.kind \notin Lifecycle /\ r.error # "none"
                                   THEN faults \union {<<r.error, m>>} ELSE faults
                   \/ /\ v # "none" /\ k2 = [Stopped(k) EXCEPT !.inFlight = 0]
                      /\ faults' = faults \union {<<v, m>>}
  BY DEF Take
<1>3. r \in Given /\ m \in Models
  <2>1. r \in Given
    BY <1>1, HeadAndTail DEF Typed
  <2> QED
    BY <2>1, GivenFields
<1>4. k \in Component /\ model \in [Models -> Component \union {Absent}] /\ edition[m] \in Nat
  BY <1>1, <1>3, CastsAssumption DEF Typed, TypeOK, Present
<1>5. k2 \in Component /\ k2.inFlight = 0
  <2>1. CASE k2 = Accepted(r, k)
    BY <1>3, <1>4, <2>1, AcceptedFields
  <2>2. CASE k2 = [Stopped(k) EXCEPT !.inFlight = 0]
    BY <1>4, <2>2, StoppedFields
  <2> QED
    BY <1>2, <2>1, <2>2
<1>6. /\ model'[m] = k2 /\ \A n \in Models : n # m => model'[n] = model[n]
      /\ model' \in [Models -> Component \union {Absent}]
  BY <1>2, <1>3, <1>4, <1>5
<1>7. k # Absent /\ k2 # Absent
  BY <1>4, <1>5, ComponentFields
<1>8. /\ \A n \in Models : model'[n] # Absent => (model'[n].inFlight # 0 => model'[n].stepping)
      /\ \A n \in Models : model'[n] = Absent <=> model[n] = Absent
  BY <1>1, <1>5, <1>6, <1>7 DEF Typed, TypeOK, Present
<1>9. /\ r \in Told /\ Told = Told' \union {r} /\ Sent' = Sent
      /\ \A x \in Sent \union Told' : Before(r, x)
  BY <1>8, AnswerTakenOff
<1>10. v \in {"none", "session", "step"}
  BY DEF Violation
<1>11. ASSUME m \notin returned
       PROVE  /\ v = "none"
              /\ r.kind \notin Lifecycle => r.error # "clock"
              /\ GoodModel(m)'
  <2> DEFINE s == Of(m, Sent)
             t == Of(m, Told)
  <2>1. Sorts(m, k, asked[m], worker[m], s, t)
    BY <1>1, <1>3, ModelSorts
  <2>2. Good(m, k, asked[m], worker[m], s, t, unheard)
    BY <1>3, <1>11 DEF IInv, GoodModel
  <2>3. ~Removal(r) /\ r.session \in Nat /\ r.id \in Nat
    BY <1>3, GivenFields DEF Removal
  <2>4. \A x \in s : Removal(x) \/ Earlier(r, x)
    BY <1>3, <1>9, <1>11, <2>3 DEF Before, Of
  <2>5. \A x \in Told : ~Removal(x)
    BY <1>1, UnderWay, GivenFields DEF Removal
  <2>6. \A x \in Of(m, Told') : Earlier(r, x)
    BY <1>3, <1>9, <1>11, <2>3, <2>5 DEF Before, Of
  <2>7. \A x \in t \ {r} : Earlier(r, x)
    BY <1>9, <2>6 DEF Of
  <2>8. r \in t
    BY <1>9 DEF Of
  <2>9. k.session <= r.session
    BY <1>4, <2>3, ComponentFields
  <2>10. AnsweredFirst(r, k, s, t) /\ Of(m, Sent') = s
    BY <1>9, <2>4, <2>7, <2>8, <2>9 DEF AnsweredFirst
  <2> HIDE DEF s, t, k, m
  <2>11. PICK n, j, y, z : n = m /\ j = k /\ y = s /\ z = t
    OBVIOUS
  <2>12. /\ z = {r}
         /\ Violation(r, j) = "none"
         /\ r.kind \notin Lifecycle => r.error # "clock"
         /\ Good(n, Accepted(r, j), asked[n], worker[n], y, {}, unheard)
    <3>1. /\ n \in Models /\ j \in Component /\ edition[n] \in Nat
          /\ Sorts(n, j, asked[n], worker[n], y, z)
          /\ Good(n, j, asked[n], worker[n], y, z, unheard) /\ AnsweredFirst(r, j, y, z)
      BY <1>3, <1>4, <2>1, <2>2, <2>10, <2>11
    <3>2. AcceptedWell(n, r, j, asked[n], worker[n], y, z, unheard)
      BY <3>1, FirstAnswerTaken
    <3> QED
      BY <3>2 DEF AcceptedWell
  <2>13. Of(m, Told') = {}
    <3>1. Of(m, Told') \subseteq t
      BY <1>9 DEF Of, t
    <3>2. ~Earlier(r, r)
      BY <2>3 DEF Earlier
    <3> QED
      BY <2>6, <2>11, <2>12, <3>1, <3>2
  <2>14. v = "none" /\ k2 = Accepted(r, k)
    BY <1>2, <2>11, <2>12
  <2>15. Good(m, model'[m], asked'[m], worker'[m], Of(m, Sent'), Of(m, Told'), unheard')
    BY <1>1, <1>6, <2>10, <2>11, <2>12, <2>13, <2>14
  <2> QED
    BY <2>12, <2>14, <2>15, GoodModelLater
<1>12. r.error \in Error /\ (r.kind \notin Lifecycle => r.error # "compile")
  BY <1>3, GivenFields
<1>13. faults' \subseteq {"session", "step", "missing", "clock", "rebuild", "solver", "panic"}
                         \X Models
  <2>1. faults \subseteq {"session", "step", "missing", "clock", "rebuild", "solver", "panic"}
                         \X Models
    BY <1>1 DEF Typed, TypeOK
  <2>2. CASE faults' = faults
    BY <2>1, <2>2
  <2>3. CASE r.kind \notin Lifecycle /\ r.error # "none" /\ faults' = faults \union {<<r.error, m>>}
    <3>1. r.error \in {"missing", "clock", "rebuild", "solver", "panic"}
      BY <1>12, <2>3 DEF Error
    <3> QED
      BY <1>3, <2>1, <2>3, <3>1
  <2>4. CASE v # "none" /\ faults' = faults \union {<<v, m>>}
    BY <1>3, <1>10, <2>1, <2>4
  <2> QED
    BY <1>2, <2>2, <2>3, <2>4
<1>14. NoProtocolFault'
  <2>1. NoProtocolFault
    BY DEF IInv
  <2>2. CASE faults' = faults
    BY <2>1, <2>2 DEF NoProtocolFault
  <2>3. CASE r.kind \notin Lifecycle /\ r.error # "none" /\ faults' = faults \union {<<r.error, m>>}
    <3>1. r.error \in {"session", "step", "clock"} => m \in returned
      BY <1>11, <1>12, <2>3 DEF Error
    <3> HIDE DEF m
    <3> QED
      BY <2>1, <2>3, <3>1 DEF NoProtocolFault
  <2>4. CASE v # "none" /\ faults' = faults \union {<<v, m>>}
    <3>1. m \in returned
      BY <1>11, <2>4
    <3> HIDE DEF m, v
    <3> QED
      BY <2>1, <2>4, <3>1 DEF NoProtocolFault
  <2> QED
    BY <1>2, <2>2, <2>3, <2>4
<1>15. unheard' \subseteq Models
  BY <1>1 DEF Typed, TypeOK
<1> QED
  BY <1>1, <1>6, <1>8, <1>11, <1>13, <1>14, <1>15, OneAnswerTaken

LEMMA RespondKeeps ==
    ASSUME IInv, Respond
    PROVE  IInv'
<1>1. held' \in BOOLEAN
  BY DEF Respond, Holds
<1>2. UNCHANGED <<cast, edition, requested, asked, channel, laneVars, worker, vain, returned>>
  BY DEF Respond
<1>3. PICK r : r = Head(results)
  OBVIOUS
<1>4. CASE UNCHANGED <<results, model, roots, faults, unheard>>
  BY <1>1, <1>2, <1>4, NoAnswerKeeps
<1>5. CASE /\ results # <<>> /\ results' = Tail(results) /\ r.kind = "Load"
           /\ roots' = (IF r.error = "none" THEN "ready" ELSE "failed")
           /\ UNCHANGED <<model, faults, unheard>>
  BY <1>1, <1>2, <1>3, <1>5, LibraryAnswered
<1>6. CASE /\ results # <<>> /\ results' = Tail(results) /\ r.kind # "Load" /\ roots' = roots
           /\ ~Present(r.model) \/ r.session < model[r.model].session
           /\ Drop(r)
  BY <1>1, <1>2, <1>3, <1>6, StaleAnswered
<1>7. CASE /\ results # <<>> /\ results' = Tail(results) /\ r.kind # "Load" /\ roots' = roots
           /\ ~(~Present(r.model) \/ r.session < model[r.model].session)
           /\ Take(r)
  BY <1>1, <1>2, <1>3, <1>7, AnswerAccepted
<1> QED
  BY <1>3, <1>4, <1>5, <1>6, <1>7 DEF Respond

----------------------------------------------------------------------------
(* The invariant holds, and what follows from it.                           *)

LEMMA InitKeeps ==
    ASSUME Init
    PROVE  IInv
<1>1. Unknown \in WorkerOf /\ Unknown.cache = Absent /\ Unknown.stepper = Absent
      /\ Unknown.current = 0
  BY DEF Unknown, WorkerOf
<1>2. cast \in Casts /\ cast.editions \in Nat \ {0}
  BY CastsAssumption DEF Init
<1>3. edition \in [Models -> 0..cast.editions]
  BY <1>2 DEF Init, Models
<1>4. /\ \A m \in Models : ~Present(m)
      /\ model \in [Models -> Component \union {Absent}]
      /\ worker \in [Models -> WorkerOf] /\ asked \in [Models -> Source \union {Absent}]
  BY <1>1 DEF Init, Present
<1>5. /\ channel = <<>> /\ stepLane = <<>> /\ compileLane = <<>> /\ batch = <<>> /\ results = <<>>
      /\ requested \in [Workbench -> SUBSET (Classes \union {Own})]
      /\ faults = {} /\ unheard = {} /\ vain = {} /\ returned = {}
      /\ roots = "unloaded" /\ held = FALSE
  BY DEF Init
<1>6. PICK nothing : nothing = <<>>
  OBVIOUS
<1>7. nothing \in Seq(Posted) /\ nothing \in Seq(Given) /\ nothing \in Seq(Command)
      /\ nothing \in Seq(Answer) /\ DOMAIN nothing = {} /\ Range(nothing) = {}
  BY <1>6 DEF Range
<1>8. Typed
  BY <1>2, <1>3, <1>4, <1>5, <1>6, <1>7 DEF Typed, TypeOK
<1>9. Sent = {} /\ Told = {}
  BY <1>5, <1>6, <1>7 DEF Sent, Told
<1>10. Ordered
  <2>1. Row(Order, nothing) /\ Ahead(Order, nothing, nothing)
    BY <1>7 DEF Row, Ahead
  <2> QED
    BY <1>5, <1>6, <2>1 DEF Ordered, Lined
<1>11. ASSUME NEW m \in Models
       PROVE  GoodModel(m)
  <2>1. model[m] = Absent /\ asked[m] = Absent /\ worker[m] = Unknown
        /\ Of(m, Sent) = {} /\ Of(m, Told) = {}
    BY <1>9 DEF Init, Of
  <2>2. Good(m, Absent, Absent, Unknown, {}, {}, unheard)
    BY DEF Good, Unasked, Classed, SessionsFollow, StepsAreAlone, SourcesAreAsked,
           RemovedIsUnknown, Settled, Pending, AnswersAreTrue, StepsAreDue, ReadyIsTuned
  <2> QED
    BY <2>1, <2>2 DEF GoodModel
<1>12. LibraryFirst
  BY <1>4, <1>5, <1>9 DEF LibraryFirst, Models
<1>13. NoProtocolFault
  BY <1>5 DEF NoProtocolFault
<1> QED
  BY <1>8, <1>10, <1>11, <1>12, <1>13 DEF IInv

LEMMA WorkerStepKeeps ==
    ASSUME IInv, Worker
    PROVE  IInv'
BY ReceiveKeeps, StartRoundKeeps, ExecuteKeeps, DespawnKeeps, LoadSourceRootKeeps DEF Worker

LEMMA StutterKeeps ==
    ASSUME IInv, UNCHANGED vars
    PROVE  IInv'
<1>1. /\ edition \in [Models -> 0..cast.editions]
      /\ requested \in [Workbench -> SUBSET (Classes \union {Own})] /\ vain \subseteq Scenes
  BY DEF IInv, Typed, TypeOK
<1> QED
  BY <1>1, AsideKeeps DEF vars, mainVars

LEMMA NextKeeps ==
    ASSUME IInv, [Next]_vars
    PROVE  IInv'
<1>1. CASE UNCHANGED vars
  BY <1>1, StutterKeeps
<1>2. ASSUME NEW m \in Workbench, NEW class \in Classes, NEW force \in BOOLEAN,
             CompileModel(m, class, force)
      PROVE  IInv'
  BY <1>2, CompileModelKeeps
<1>3. ASSUME NEW m \in Workbench, NEW class \in Classes, RunActiveModel(m, class)
      PROVE  IInv'
  BY <1>3, RunActiveModelKeeps
<1>4. ASSUME NEW m \in Workbench, NEW class \in Classes, Relay(m, class)
      PROVE  IInv'
  BY <1>4, RelayKeeps
<1>5. ASSUME NEW m \in Workbench, ResetActiveModel(m)
      PROVE  IInv'
  BY <1>5, ResetActiveModelKeeps
<1>6. ASSUME NEW m \in Workbench, Edit(m)
      PROVE  IInv'
  BY <1>6, EditKeeps
<1>7. ASSUME NEW m \in Workbench, NEW paused \in BOOLEAN, SetPaused(m, paused)
      PROVE  IInv'
  BY <1>7, SetPausedKeeps
<1>8. ASSUME NEW m \in Workbench \union Scenes, SetParameter(m)
      PROVE  IInv'
  BY <1>8, SetParameterKeeps
<1>9. ASSUME NEW m \in Scenes, Attach(m)
      PROVE  IInv'
  BY <1>9, AttachKeeps
<1>10. ASSUME NEW m \in Networks, Project(m) \/ Reject(m)
       PROVE  IInv'
  BY <1>10, ProjectKeeps, RejectKeeps
<1>11. ASSUME NEW m \in Scenes \union Networks, RemoveModel(m)
       PROVE  IInv'
  BY <1>11, RemoveModelKeeps
<1>12. ASSUME NEW due \in SUBSET Models, Tick(due)
       PROVE  IInv'
  BY <1>12, TickKeeps
<1>13. CASE Worker
  BY <1>13, WorkerStepKeeps
<1>14. CASE Respond
  BY <1>14, RespondKeeps
<1> QED
  BY <1>1, <1>2, <1>3, <1>4, <1>5, <1>6, <1>7, <1>8, <1>9, <1>10, <1>11, <1>12, <1>13, <1>14
  DEF Next

LEMMA Invariant == Spec => []IInv
<1>1. Init => IInv
  BY InitKeeps
<1>2. IInv /\ [Next]_vars => IInv'
  BY NextKeeps
<1> QED
  BY <1>1, <1>2, PTL DEF Spec

\* In every behaviour components, commands, lanes, the worker's maps and answers
\* have their types, and a model that expects a step's answer waits for one.
THEOREM TypeCorrect == Spec => []TypeOK
<1>1. IInv => TypeOK
  BY DEF IInv, Typed
<1> QED
  BY <1>1, Invariant, PTL

LEMMA WaitingIsOrdered ==
    ASSUME Typed, Ordered
    PROVE  /\ Waiting \in Seq(Item) /\ Row(Order, Waiting)
           /\ results \o Waiting \in Seq(Item) /\ Row(Order, results \o Waiting)
<1> DEFINE two == batch \o stepLane
           three == two \o compileLane
           four == three \o channel
<1>1. /\ batch \in Seq(Item) /\ stepLane \in Seq(Item) /\ compileLane \in Seq(Item)
      /\ channel \in Seq(Item) /\ results \in Seq(Item)
  BY UnderWay DEF Flowing
<1>2. Lined(Order, results, batch, stepLane, compileLane, channel)
  BY DEF Ordered
<1>3. two \in Seq(Item) /\ Row(Order, two)
  BY <1>1, <1>2, RowJoined DEF Lined
<1>4. /\ Ahead(Order, two, compileLane) /\ Ahead(Order, two, channel)
      /\ Ahead(Order, results, two)
  BY <1>1, <1>2, AheadJoined DEF Lined
<1> HIDE DEF two
<1>5. three \in Seq(Item) /\ Row(Order, three)
  BY <1>1, <1>2, <1>3, <1>4, RowJoined DEF Lined
<1>6. Ahead(Order, three, channel) /\ Ahead(Order, results, three)
  BY <1>1, <1>2, <1>3, <1>4, AheadJoined DEF Lined
<1> HIDE DEF three
<1>7. four \in Seq(Item) /\ Row(Order, four)
  BY <1>1, <1>2, <1>5, <1>6, RowJoined DEF Lined
<1>8. Ahead(Order, results, four)
  BY <1>1, <1>2, <1>5, <1>6, AheadJoined DEF Lined
<1>9. Waiting = four
  BY DEF Waiting, two, three
<1> HIDE DEF four
<1>10. results \o four \in Seq(Item) /\ Row(Order, results \o four)
  BY <1>1, <1>2, <1>7, <1>8, RowJoined DEF Lined
<1> QED
  BY <1>7, <1>9, <1>10

\* In every behaviour what is answered and what waits of a model is in the order
\* it was sent, whichever lane it went to, and no command of the workbench is
\* ahead of the library it was to use.
THEOREM LanesInOrder == Spec => []LanesKeepOrder
<1>1. ASSUME IInv
      PROVE  LanesKeepOrder
  <2> DEFINE all == results \o Waiting
  <2>1. /\ Waiting \in Seq(Item) /\ Row(Order, Waiting)
        /\ all \in Seq(Item) /\ Row(Order, all)
    BY <1>1, WaitingIsOrdered DEF IInv
  <2> HIDE DEF all
  <2>2. ASSUME NEW i \in DOMAIN all, NEW j \in DOMAIN all, i < j,
               all[i].model = all[j].model, all[i].model \in Models \ returned,
               all[i].kind # "Despawn", all[j].kind # "Despawn"
        PROVE  Earlier(all[i], all[j])
    <3>1. all[i] \in Item /\ all[j] \in Item /\ <<all[i], all[j]>> \in Order
      BY <2>1, <2>2 DEF Row
    <3>2. Before(all[i], all[j])
      BY <3>1, OrderIs
    <3> QED
      BY <2>2, <3>2 DEF Before, Removal
  <2>3. ASSUME NEW i \in DOMAIN Waiting, NEW j \in DOMAIN Waiting, i < j, Waiting[j].kind = "Load"
        PROVE  Waiting[i].model \notin Workbench
    <3>1. Waiting[i] \in Item /\ Waiting[j] \in Item /\ <<Waiting[i], Waiting[j]>> \in Order
      BY <2>1, <2>3 DEF Row
    <3>2. Before(Waiting[i], Waiting[j])
      BY <3>1, OrderIs
    <3> QED
      BY <2>3, <3>2 DEF Before
  <2> QED
    BY <2>2, <2>3 DEF LanesKeepOrder, all
<1> QED
  BY <1>1, Invariant, PTL

LEMMA ReadyAgrees ==
    ASSUME NEW m, NEW k \in Component, NEW a, NEW w, NEW s, NEW t, NEW u,
           Sorts(m, k, a, w, s, t), Good(m, k, a, w, s, t, u), m \notin u,
           k.compiled, ~k.stepping
    PROVE  /\ w.stepper # Absent
           /\ w.stepper.session = k.session /\ w.stepper.time = k.time
           /\ w.stepper.source = a /\ w.stepper.source.class = k.class
<1>1. k # Absent /\ k.session \in Nat /\ k.time \in Nat
  BY ComponentFields
<1>2. a # Absent
  BY <1>1 DEF Good, Unasked
<1>3. t = {} /\ \A x \in s : Removal(x)
  BY <1>1 DEF Good, StepsAreAlone
<1>4. Pending(s) = {}
  BY <1>3 DEF Pending, Removal, Sources
<1>5. w.cache = a
  BY <1>1, <1>2, <1>3, <1>4 DEF Good, Settled
<1>6. a \in Source
  BY <1>2 DEF Sorts
<1>7. w.stepper = [session |-> k.session, source |-> a, time |-> k.time]
  BY <1>1, <1>2, <1>5 DEF Good, ReadyIsTuned, Tuned
<1>8. w.stepper # Absent
  BY <1>1, <1>6, <1>7, AbsentIsNone DEF Stepper
<1>9. a.class = k.class
  BY <1>1, <1>2 DEF Good, Classed
<1> QED
  BY <1>7, <1>8, <1>9

\* In every behaviour a model that may step has a stepper in the worker of its
\* session, its clock and the source last sent for it, unless a failure was
\* dropped as stale or the network came back under used sessions.
THEOREM ReadyAgree == Spec => []ReadyModelsAgree
<1>1. ASSUME IInv
      PROVE  ReadyModelsAgree
  <2>1. ASSUME NEW m \in Models \ (unheard \union returned), Present(m),
               model[m].compiled, ~model[m].stepping
        PROVE  LET s == worker[m].stepper
               IN  /\ s # Absent
                   /\ s.session = model[m].session /\ s.time = model[m].time
                   /\ s.source = asked[m] /\ s.source.class = model[m].class
    <3>1. Sorts(m, model[m], asked[m], worker[m], Of(m, Sent), Of(m, Told))
      BY <1>1, ModelSorts DEF IInv
    <3>2. Good(m, model[m], asked[m], worker[m], Of(m, Sent), Of(m, Told), unheard)
      BY <1>1 DEF IInv, GoodModel
    <3>3. model[m] \in Component
      BY <2>1, <3>1 DEF Sorts, Present
    <3> QED
      BY <2>1, <3>1, <3>2, <3>3, ReadyAgrees
  <2> QED
    BY <2>1 DEF ReadyModelsAgree
<1> QED
  BY <1>1, Invariant, PTL

\* In every behaviour no answer is of a session or a step that is not the
\* model's, and no step is refused for its clock: the simulation is not stopped by
\* its own protocol, but for networks that came back under used sessions.
THEOREM NoFault == Spec => []NoProtocolFault
<1>1. IInv => NoProtocolFault
  BY DEF IInv
<1> QED
  BY <1>1, Invariant, PTL
----------------------------------------------------------------------------
(* No wait is for nothing.                                                  *)

\* x ends a wait of session n of model m; the models that wait for something
\* that was sent; and what is under way for them.
Ends(x, m, n) == x.model = m /\ x.session = n /\ ~Removal(x)
Awaits(m) == m \notin vain /\ model[m] # Absent /\ model[m].stepping
Heard == Sent \union Told
AwaitedIsHeard == \A m \in Models : Awaits(m) => \E x \in Heard : Ends(x, m, model[m].session)

\* Whatever model the step is about, its wait goes on or has ended, and the
\* others' go on.
LEMMA OthersAwaitStill ==
    ASSUME AwaitedIsHeard, NEW m \in Models, Heard \subseteq Heard',
           \A n \in Models : n # m => model'[n] = model[n] /\ (n \in vain' <=> n \in vain),
           Awaits(m)' => \/ Awaits(m) /\ model'[m].session = model[m].session
                         \/ \E x \in Heard' : Ends(x, m, model'[m].session)
    PROVE  AwaitedIsHeard'
<1>1. ASSUME NEW n \in Models, Awaits(n)'
      PROVE  \E x \in Heard' : Ends(x, n, model'[n].session)
  <2>1. CASE n = m /\ \E x \in Heard' : Ends(x, m, model'[m].session)
    BY <2>1
  <2>2. CASE Awaits(n) /\ model'[n].session = model[n].session
    <3>1. PICK x \in Heard : Ends(x, n, model[n].session)
      BY <2>2 DEF AwaitedIsHeard
    <3> QED
      BY <2>2, <3>1
  <2>3. n # m => Awaits(n) /\ model'[n].session = model[n].session
    BY <1>1 DEF Awaits
  <2> QED
    BY <1>1, <2>1, <2>2, <2>3
<1>2. ASSUME NEW n \in Models, Awaits(n)'
      PROVE  \E x \in Heard' : Ends(x, n, model[n].session)'
  BY <1>1, <1>2 DEF Ends, Removal
<1> QED
  BY <1>2 DEF AwaitedIsHeard

\* What the main thread sends is added to what is under way.
LEMMA SentToo ==
    ASSUME Typed, NEW cmds \in Seq(Posted), channel' = channel \o cmds,
           UNCHANGED <<laneVars, results>>
    PROVE  Heard \subseteq Heard' /\ Range(cmds) \subseteq Heard'
<1>1. Range(channel') = Range(channel) \union Range(cmds)
  BY RangeConcatenation DEF Typed
<1> QED
  BY <1>1 DEF Heard, Sent, Told, laneVars

LEMMA SentOne ==
    ASSUME Typed, NEW c \in Posted, channel' = Append(channel, c),
           UNCHANGED <<laneVars, results>>
    PROVE  Heard \subseteq Heard' /\ c \in Heard'
<1>1. Range(channel') = Range(channel) \union {c}
  BY AppendedRange DEF Typed
<1> QED
  BY <1>1 DEF Heard, Sent, Told, laneVars

LEMMA SentNone ==
    ASSUME UNCHANGED <<channel, laneVars, results>>
    PROVE  Heard' = Heard
BY DEF Heard, Sent, Told, laneVars

LEMMA DispatchAwaits ==
    ASSUME IInv, AwaitedIsHeard, NEW m \in Workbench, NEW class \in Classes,
           NEW resume \in BOOLEAN, Dispatch(m, class, resume),
           UNCHANGED <<edition, laneVars, results, vain>>
    PROVE  AwaitedIsHeard'
<1> DEFINE source == [class |-> class, edition |-> edition[m]]
           k2 == Recompiling(m, class, resume)
           c == Cmd("Compile", m, k2.session, source)
           cmds == WithRoot(<<c>>)
<1>1. Typed /\ m \in Models /\ class \in Classes \union {Own}
  BY DEF IInv, Models
<1>2. k2 \in Component
  BY <1>1, RecompilingFields
<1>3. source \in Source
  <2>1. edition[m] \in Nat
    BY <1>1, CastsAssumption DEF Typed, TypeOK
  <2> QED
    BY <1>1, <2>1 DEF Source
<1>4. model' = [model EXCEPT ![m] = k2] /\ channel' = channel \o cmds
  BY DEF Dispatch
<1>5. cmds = IF roots = "unloaded" THEN <<Library>> \o <<c>> ELSE <<c>>
  BY DEF WithRoot, Library
<1> HIDE DEF source, k2
<1>6. c \in Posted /\ c.kind = "Compile" /\ c.model = m /\ c.session = k2.session
  <2>1. k2.session \in Nat
    BY <1>2, ComponentFields
  <2> QED
    BY <1>1, <1>3, <2>1, CmdIsPosted, CmdFields
<1> HIDE DEF c, cmds
<1>7. cmds \in Seq(Posted) /\ c \in Range(cmds)
  <2>1. /\ <<c>> \in Seq(Posted) /\ Range(<<c>>) = {c}
        /\ <<Library>> \in Seq(Posted)
    BY <1>6, LibraryIsPosted, SingleRow
  <2>2. <<Library>> \o <<c>> \in Seq(Posted) /\ Range(<<Library>> \o <<c>>) = {Library, c}
    BY <1>6, <2>1, LibraryIsPosted, ConcatProperties, PairRange
  <2> QED
    BY <1>5, <2>1, <2>2
<1>8. Heard \subseteq Heard' /\ c \in Heard'
  BY <1>1, <1>4, <1>7, SentToo
<1>9. model'[m] = k2 /\ \A n \in Models : n # m => model'[n] = model[n]
  BY <1>1, <1>4 DEF Typed, TypeOK
<1>10. Ends(c, m, model'[m].session)
  BY <1>6, <1>9 DEF Ends, Removal
<1> QED
  BY <1>1, <1>8, <1>9, <1>10, OthersAwaitStill

\* Nothing is sent, and nobody begins to wait.
LEMMA NobodyAwaits ==
    ASSUME AwaitedIsHeard, NEW m \in Models, UNCHANGED <<channel, laneVars, results, vain>>,
           \A n \in Models : n # m => model'[n] = model[n],
           model'[m] # Absent /\ model'[m].stepping =>
              model[m] # Absent /\ model[m].stepping /\ model'[m].session = model[m].session
    PROVE  AwaitedIsHeard'
<1>1. Heard' = Heard
  BY SentNone
<1>2. Awaits(m)' => Awaits(m) /\ model'[m].session = model[m].session
  BY DEF Awaits
<1> QED
  BY <1>1, <1>2, OthersAwaitStill

LEMMA PausedAwaits ==
    ASSUME IInv, AwaitedIsHeard, NEW m \in Models, Present(m), NEW paused \in BOOLEAN,
           model' = [model EXCEPT ![m].paused = paused],
           UNCHANGED <<channel, laneVars, results, vain>>
    PROVE  AwaitedIsHeard'
<1>1. PICK k \in Component : k = model[m]
  BY DEF IInv, Typed, TypeOK, Present
<1> DEFINE k2 == [k EXCEPT !.paused = paused]
<1>2. k2.stepping = k.stepping /\ k2.session = k.session
  BY DEF Component
<1>3. model'[m] = k2 /\ \A n \in Models : n # m => model'[n] = model[n]
  BY <1>1 DEF IInv, Typed, TypeOK
<1> HIDE DEF k2
<1>4. k # Absent
  BY ComponentFields
<1> QED
  BY <1>1, <1>2, <1>3, <1>4, NobodyAwaits

LEMMA CompileModelAwaits ==
    ASSUME IInv, AwaitedIsHeard, NEW m \in Workbench, NEW class \in Classes,
           NEW force \in BOOLEAN, CompileModel(m, class, force)
    PROVE  AwaitedIsHeard'
BY DispatchAwaits DEF CompileModel

LEMMA RunActiveModelAwaits ==
    ASSUME IInv, AwaitedIsHeard, NEW m \in Workbench, NEW class \in Classes,
           RunActiveModel(m, class)
    PROVE  AwaitedIsHeard'
<1>1. UNCHANGED <<edition, laneVars, results, vain>> /\ m \in Models
  BY DEF RunActiveModel, Models
<1>2. CASE Dispatch(m, class, TRUE)
  BY <1>1, <1>2, DispatchAwaits
<1>3. CASE UpToDate(m) /\ model' = [model EXCEPT ![m].paused = FALSE] /\ channel' = channel
  BY <1>1, <1>3, PausedAwaits DEF UpToDate
<1> QED
  BY <1>2, <1>3 DEF RunActiveModel

LEMMA RelayAwaits ==
    ASSUME IInv, AwaitedIsHeard, NEW m \in Workbench, NEW class \in Classes, Relay(m, class)
    PROVE  AwaitedIsHeard'
<1>1. UNCHANGED <<edition, laneVars, results, vain>> /\ m \in Models
  BY DEF Relay, Models
<1>2. CASE Dispatch(m, class, FALSE)
  BY <1>1, <1>2, DispatchAwaits
<1>3. CASE UNCHANGED <<model, channel>>
  BY <1>1, <1>3, NobodyAwaits
<1> QED
  BY <1>2, <1>3 DEF Relay

LEMMA SetPausedAwaits ==
    ASSUME IInv, AwaitedIsHeard, NEW m \in Workbench, NEW paused \in BOOLEAN,
           SetPaused(m, paused)
    PROVE  AwaitedIsHeard'
BY PausedAwaits DEF SetPaused, Models

LEMMA EditAwaits ==
    ASSUME IInv, AwaitedIsHeard, NEW m \in Workbench, Edit(m)
    PROVE  AwaitedIsHeard'
BY NobodyAwaits DEF Edit, Models

\* A session is begun and the command for it sent.
LEMMA BegunAwaits ==
    ASSUME IInv, AwaitedIsHeard, NEW m \in Models, NEW k2, NEW c \in Posted,
           model' = [model EXCEPT ![m] = k2], channel' = Append(channel, c),
           c.model = m, c.session = k2.session, ~Removal(c),
           UNCHANGED <<laneVars, results, vain>>
    PROVE  AwaitedIsHeard'
<1>1. model'[m] = k2 /\ \A n \in Models : n # m => model'[n] = model[n]
  BY DEF IInv, Typed, TypeOK
<1>2. Heard \subseteq Heard' /\ c \in Heard'
  BY SentOne DEF IInv
<1>3. Ends(c, m, model'[m].session)
  BY <1>1 DEF Ends
<1> QED
  BY <1>1, <1>2, <1>3, OthersAwaitStill

LEMMA ResetActiveModelAwaits ==
    ASSUME IInv, AwaitedIsHeard, NEW m \in Workbench, ResetActiveModel(m)
    PROVE  AwaitedIsHeard'
<1> DEFINE k2 == [model[m] EXCEPT !.session = @ + 1, !.stepping = TRUE,
                                  !.inFlight = 0, !.nextStep = 1, !.time = 0]
           c == Cmd("Reset", m, model[m].session + 1, Absent)
<1>1. /\ model' = [model EXCEPT ![m] = k2] /\ channel' = Append(channel, c)
      /\ UNCHANGED <<laneVars, results, vain>>
  BY DEF ResetActiveModel
<1>2. m \in Models /\ model[m] \in Component /\ model[m].session + 1 \in Nat
  BY ComponentFields DEF IInv, Typed, TypeOK, Models, ResetActiveModel, Present
<1>3. k2.session = model[m].session + 1
  BY <1>2 DEF Component
<1>4. c \in Posted /\ c.kind = "Reset" /\ c.model = m /\ c.session = model[m].session + 1
  BY <1>2, CmdIsPosted, CmdFields
<1> HIDE DEF k2, c
<1> QED
  BY <1>1, <1>2, <1>3, <1>4, BegunAwaits DEF Removal

LEMMA SetParameterAwaits ==
    ASSUME IInv, AwaitedIsHeard, NEW m \in Workbench \union Scenes, SetParameter(m)
    PROVE  AwaitedIsHeard'
<1> DEFINE k2 == [model[m] EXCEPT !.session = @ + 1, !.stepping = TRUE]
           source == [class |-> model[m].class, edition |-> edition[m] + 1]
           c == Cmd("Update", m, model[m].session + 1, source)
<1>1. model' = [model EXCEPT ![m] = k2] /\ UNCHANGED <<laneVars, results>>
  BY DEF SetParameter
<1>2. /\ m \in Models /\ model[m] \in Component
      /\ model[m].session + 1 \in Nat /\ model[m].class \in Classes \union {Own}
  BY ComponentFields DEF IInv, Typed, TypeOK, Models, SetParameter, Present
<1>3. k2.session = model[m].session + 1
  BY <1>2 DEF Component
<1>4. source \in Source
  <2>1. edition[m] + 1 \in Nat
    BY <1>2, CastsAssumption DEF IInv, Typed, TypeOK
  <2> QED
    BY <1>2, <2>1 DEF Source
<1>5. c \in Posted /\ c.kind = "Update" /\ c.model = m /\ c.session = model[m].session + 1
  <2> HIDE DEF source
  <2> QED
    BY <1>2, <1>4, CmdIsPosted, CmdFields
<1>6. CASE channel' = Append(channel, c) /\ UNCHANGED vain
  <2> HIDE DEF k2, c
  <2> QED
    BY <1>1, <1>2, <1>3, <1>5, <1>6, BegunAwaits DEF Removal
<1>7. CASE vain' = vain \union {m} /\ channel' = channel
  <2>1. Heard' = Heard
    BY <1>1, <1>7, SentNone
  <2>2. \A n \in Models : n # m => model'[n] = model[n] /\ (n \in vain' <=> n \in vain)
    BY <1>1, <1>7
  <2>3. ~Awaits(m)'
    BY <1>7 DEF Awaits
  <2> QED
    BY <1>2, <2>1, <2>2, <2>3, OthersAwaitStill
<1> QED
  BY <1>6, <1>7 DEF SetParameter

LEMMA AttachAwaits ==
    ASSUME IInv, AwaitedIsHeard, NEW m \in Scenes, Attach(m)
    PROVE  AwaitedIsHeard'
<1> DEFINE k2 == [NoComponent EXCEPT !.resume = TRUE]
           source == [class |-> Own, edition |-> 0]
           c == Cmd("Compile", m, 0, source)
<1>1. /\ model' = [model EXCEPT ![m] = k2] /\ channel' = Append(channel, c)
      /\ UNCHANGED <<laneVars, results, vain>>
  BY DEF Attach
<1>2. m \in Models /\ k2.session = 0 /\ source \in Source
  BY DEF Models, NoComponent, Source
<1>3. c \in Posted /\ c.kind = "Compile" /\ c.model = m /\ c.session = 0
  <2> HIDE DEF source
  <2> QED
    BY <1>2, CmdIsPosted, CmdFields
<1> HIDE DEF k2, c
<1> QED
  BY <1>1, <1>2, <1>3, BegunAwaits DEF Removal

LEMMA ProjectAwaits ==
    ASSUME IInv, AwaitedIsHeard, NEW m \in Networks, Project(m)
    PROVE  AwaitedIsHeard'
<1> DEFINE begun == InstalledSession(m)
           k2 == [NoComponent EXCEPT !.session = begun, !.stepping = TRUE,
                     !.compiling = TRUE, !.resume = TRUE]
           source == [class |-> Own, edition |-> edition[m] + 1]
           c == Cmd("Compile", m, begun, source)
<1>1. /\ model' = [model EXCEPT ![m] = k2] /\ channel' = Append(channel, c)
      /\ UNCHANGED <<laneVars, results, vain>>
  BY DEF Project
<1>2. m \in Models /\ begun \in Nat /\ source \in Source
  <2>1. m \in Models /\ (Present(m) => model[m].session \in Nat)
    BY ComponentFields DEF Models, IInv, Typed, TypeOK, Present
  <2>2. edition[m] + 1 \in Nat
    BY <2>1, CastsAssumption DEF IInv, Typed, TypeOK
  <2> QED
    BY <2>1, <2>2 DEF InstalledSession, Source
<1> HIDE DEF begun, source
<1>3. k2.session = begun
  BY DEF NoComponent
<1>4. c \in Posted /\ c.kind = "Compile" /\ c.model = m /\ c.session = begun
  BY <1>2, CmdIsPosted, CmdFields
<1> HIDE DEF k2, c
<1> QED
  BY <1>1, <1>2, <1>3, <1>4, BegunAwaits DEF Removal

LEMMA RejectAwaits ==
    ASSUME IInv, AwaitedIsHeard, NEW m \in Networks, Reject(m)
    PROVE  AwaitedIsHeard'
<1> DEFINE begun == InstalledSession(m)
           k2 == [NoComponent EXCEPT !.session = begun]
<1>1. /\ model' = [model EXCEPT ![m] = k2] /\ UNCHANGED <<channel, laneVars, results, vain>>
  BY DEF Reject
<1> HIDE DEF begun
<1>2. k2.stepping = FALSE
  BY DEF NoComponent
<1>3. m \in Models /\ model'[m] = k2 /\ \A n \in Models : n # m => model'[n] = model[n]
  BY <1>1 DEF Models, IInv, Typed, TypeOK
<1> HIDE DEF k2
<1> QED
  BY <1>1, <1>2, <1>3, NobodyAwaits

LEMMA RemoveModelAwaits ==
    ASSUME IInv, AwaitedIsHeard, NEW m \in Scenes \union Networks, RemoveModel(m)
    PROVE  AwaitedIsHeard'
<1> DEFINE d == Cmd("Despawn", m, 0, Absent)
<1>1. /\ model' = [model EXCEPT ![m] = Absent] /\ channel' = Append(channel, d)
      /\ vain' = vain \ {m} /\ UNCHANGED <<laneVars, results>>
  BY DEF RemoveModel
<1>2. m \in Models /\ d \in Posted
  BY CmdIsPosted DEF Models
<1> HIDE DEF d
<1>3. Heard \subseteq Heard'
  BY <1>1, <1>2, SentOne DEF IInv
<1>4. /\ model'[m] = Absent /\ \A n \in Models : n # m => model'[n] = model[n]
      /\ \A n \in Models : n # m => (n \in vain' <=> n \in vain)
  BY <1>1, <1>2 DEF IInv, Typed, TypeOK
<1>5. ~Awaits(m)'
  BY <1>4 DEF Awaits
<1> QED
  BY <1>2, <1>3, <1>4, <1>5, OthersAwaitStill

\* A model that steps has its step sent; the others are as they were.
LEMMA TickAwaits ==
    ASSUME IInv, AwaitedIsHeard, NEW due \in SUBSET Models, Tick(due)
    PROVE  AwaitedIsHeard'
<1> DEFINE all == {StepOf(m) : m \in due}
           cmds == SetToSeq(all)
<1>1. /\ model' = [m \in Models |-> IF m \in due THEN Stepping(model[m]) ELSE model[m]]
      /\ channel' = channel \o cmds
      /\ UNCHANGED <<laneVars, results, vain>>
  BY DEF Tick
<1>2. \A m \in due : model[m] \in Component
  BY DEF IInv, Tick, MayStep, Typed, TypeOK, Present
<1>3. cmds \in Seq(Posted) /\ Range(cmds) = all
  BY <1>2, StepsOfTick
<1> HIDE DEF cmds
<1>4. Heard \subseteq Heard' /\ Range(cmds) \subseteq Heard'
  BY <1>1, <1>3, SentToo DEF IInv
<1>5. ASSUME NEW m \in due
      PROVE  \E x \in Heard' : Ends(x, m, model'[m].session)
  <2>1. /\ StepOf(m).kind = "Step" /\ StepOf(m).model = m /\ StepOf(m).session = model[m].session
        /\ Stepping(model[m]).session = model[m].session
    BY <1>2, StepOfFields, SteppingFields
  <2>2. model'[m].session = model[m].session
    BY <1>1, <2>1
  <2>3. StepOf(m) \in Heard' /\ Ends(StepOf(m), m, model'[m].session)
    BY <1>3, <1>4, <2>1, <2>2 DEF Ends, Removal
  <2> QED
    BY <2>3
<1>6. ASSUME NEW m \in Models \ due, Awaits(m)'
      PROVE  \E x \in Heard' : Ends(x, m, model'[m].session)
  <2>1. model'[m] = model[m]
    BY <1>1
  <2>2. PICK x \in Heard : Ends(x, m, model[m].session)
    BY <1>1, <1>6, <2>1 DEF Awaits, AwaitedIsHeard
  <2> QED
    BY <1>4, <2>1, <2>2
<1>7. ASSUME NEW m \in Models, Awaits(m)'
      PROVE  \E x \in Heard' : Ends(x, m, model[m].session)'
  BY <1>5, <1>6, <1>7 DEF Ends, Removal
<1> QED
  BY <1>7 DEF AwaitedIsHeard

\* What the worker leaves of what was under way: each command is there still, or
\* an answer of its session is, but for removals and the library.
NothingLost ==
    /\ \A x \in Sent : x.model \in Models /\ ~Removal(x) =>
          x \in Sent' \/ \E y \in Told' : Ends(y, x.model, x.session)
    /\ Told \subseteq Told'

LEMMA NothingLostAwaits ==
    ASSUME AwaitedIsHeard, NothingLost, UNCHANGED <<model, vain>>
    PROVE  AwaitedIsHeard'
<1>1. ASSUME NEW m \in Models, Awaits(m)
      PROVE  \E y \in Heard' : Ends(y, m, model[m].session)
  <2>1. PICK x \in Heard : Ends(x, m, model[m].session)
    BY <1>1 DEF AwaitedIsHeard
  <2>2. x.model = m /\ x.session = model[m].session /\ ~Removal(x)
    BY <2>1 DEF Ends
  <2>3. x \in Heard' \/ \E y \in Told' : Ends(y, m, model[m].session)
    BY <2>2 DEF NothingLost, Heard
  <2> QED
    BY <2>1, <2>3 DEF Heard
<1>2. ASSUME NEW m \in Models, Awaits(m)'
      PROVE  \E y \in Heard' : Ends(y, m, model[m].session)'
  <2>1. Awaits(m) /\ model'[m].session = model[m].session
    BY <1>2 DEF Awaits
  <2> QED
    BY <1>1, <2>1 DEF Ends, Removal
<1> QED
  BY <1>2 DEF AwaitedIsHeard

\* The worker takes d off its round.
LEMMA RoundLeaves ==
    ASSUME IInv, batch # <<>>, batch' = Tail(batch),
           UNCHANGED <<stepLane, compileLane, channel>>
    PROVE  Head(batch) \in Posted /\ Sent = Sent' \union {Head(batch)}
<1>1. batch \in Seq(Posted)
  BY DEF IInv, Typed
<1>2. Head(batch) \in Posted /\ Range(batch) = {Head(batch)} \union Range(batch')
  BY <1>1, HeadAndTail
<1> QED
  BY <1>2 DEF Sent

LEMMA ExecuteAnswers ==
    ASSUME IInv, Execute
    PROVE  NothingLost
<1>1. PICK d : d = Head(batch)
  OBVIOUS
<1>2. /\ batch # <<>> /\ batch' = Tail(batch) /\ d.kind \in Lifecycle \union {"Step"}
      /\ UNCHANGED <<stepLane, compileLane, channel>>
  BY <1>1 DEF Execute
<1>3. PICK o \in Executed(d, worker[d.model]) : results' = Append(results, o.answer)
  BY <1>1 DEF Execute
<1>4. d \in Posted /\ Sent = Sent' \union {d}
  BY <1>1, <1>2, RoundLeaves
<1>5. d.model \in Models
  BY <1>2, <1>4, PostedFields DEF Lifecycle
<1>6. worker[d.model] \in WorkerOf
  BY <1>5 DEF IInv, Typed, TypeOK
<1>7. Follows(o, d, worker[d.model])
  BY <1>2, <1>3, <1>4, <1>6, ExecutedOutcome
<1>8. PICK a \in Given : a = o.answer /\ a.model = d.model /\ a.session = d.session
  BY <1>7 DEF Follows
<1>9. ~Removal(a)
  BY GivenFields DEF Removal
<1>10. Told' = Told \union {a}
  BY <1>3, <1>8, AppendedRange DEF IInv, Typed, Told
<1> QED
  BY <1>4, <1>8, <1>9, <1>10 DEF NothingLost, Ends

LEMMA DespawnAnswers ==
    ASSUME IInv, Despawn
    PROVE  NothingLost
<1>1. PICK d : d = Head(batch)
  OBVIOUS
<1>2. /\ batch # <<>> /\ batch' = Tail(batch) /\ d.kind = "Despawn"
      /\ UNCHANGED <<stepLane, compileLane, channel, results>>
  BY <1>1 DEF Despawn
<1>3. Sent = Sent' \union {d}
  BY <1>1, <1>2, RoundLeaves
<1>4. Told' = Told
  BY <1>2 DEF Told
<1> QED
  BY <1>2, <1>3, <1>4 DEF NothingLost, Removal

LEMMA LoadSourceRootAnswers ==
    ASSUME IInv, LoadSourceRoot
    PROVE  NothingLost
<1>1. PICK d : d = Head(batch)
  OBVIOUS
<1>2. /\ batch # <<>> /\ batch' = Tail(batch) /\ d.kind = "Load"
      /\ UNCHANGED <<stepLane, compileLane, channel>>
      /\ \E error \in {"none", "compile"} : results' = Append(results, Result(d, 0, error, Absent))
  BY <1>1 DEF LoadSourceRoot
<1>3. d \in Posted /\ Sent = Sent' \union {d}
  BY <1>1, <1>2, RoundLeaves
<1>4. d.model \notin Models
  BY <1>2, <1>3, PostedFields, AbsentAssumption
<1>5. Told \subseteq Told'
  <2>1. PICK a : results' = Append(results, a)
    BY <1>2
  <2>2. /\ DOMAIN results = 1..Len(results) /\ Len(results) \in Nat
        /\ DOMAIN results' = 1..(Len(results) + 1)
        /\ \A i \in 1..Len(results) : results'[i] = results[i]
    BY <2>1 DEF IInv, Typed
  <2> QED
    BY <2>2 DEF Told, Range
<1> QED
  BY <1>3, <1>4, <1>5 DEF NothingLost

LEMMA ReceiveAnswers ==
    ASSUME IInv, Receive
    PROVE  NothingLost
<1>1. PICK d : d = Head(channel)
  OBVIOUS
<1>2. /\ channel # <<>> /\ channel' = Tail(channel)
      /\ stepLane' = Enqueued(d).step /\ compileLane' = Enqueued(d).compile
      /\ results' = results \o Enqueued(d).acks /\ batch' = batch
  BY <1>1 DEF Receive
<1>3. /\ channel \in Seq(Posted) /\ stepLane \in Seq(Posted) /\ compileLane \in Seq(Posted)
      /\ results \in Seq(Given)
  BY DEF IInv, Typed
<1>4. d \in Posted /\ Range(channel) = {d} \union Range(channel')
  BY <1>1, <1>2, <1>3, HeadAndTail
<1> DEFINE ahead == d.kind = "Step" /\ \A i \in DOMAIN compileLane : compileLane[i].model # d.model
           instead == compileLane # <<>> /\ Squashes(Last(compileLane), d)
<1>5. CASE ahead
  <2>1. stepLane' = Append(stepLane, d) /\ compileLane' = compileLane /\ results' = results \o <<>>
    BY <1>2, <1>5 DEF Enqueued
  <2>2. results' = results /\ Range(stepLane') = Range(stepLane) \union {d}
    BY <1>3, <1>4, <2>1, AppendedRange, ConcatEmptySeq
  <2>3. Sent' = Sent /\ Told' = Told
    BY <1>2, <1>4, <2>1, <2>2 DEF Sent, Told
  <2> QED
    BY <2>3 DEF NothingLost
<1>6. CASE ~ahead /\ ~instead
  <2>1. stepLane' = stepLane /\ compileLane' = Append(compileLane, d) /\ results' = results \o <<>>
    BY <1>2, <1>6 DEF Enqueued
  <2>2. results' = results /\ Range(compileLane') = Range(compileLane) \union {d}
    BY <1>3, <1>4, <2>1, AppendedRange, ConcatEmptySeq
  <2>3. Sent' = Sent /\ Told' = Told
    BY <1>2, <1>4, <2>1, <2>2 DEF Sent, Told
  <2> QED
    BY <2>3 DEF NothingLost
<1>7. CASE ~ahead /\ instead
  <2>1. PICK e, ack : e = Last(compileLane) /\ ack = Plain(d.model, d.session)
    OBVIOUS
  <2>2. /\ stepLane' = stepLane /\ compileLane' = Replaced(compileLane, d)
        /\ results' = results \o <<ack>>
    BY <1>2, <1>7, <2>1 DEF Enqueued, Replaced
  <2>3. e.model = d.model /\ e.session = d.session /\ d.kind \in {"Compile", "Update"}
    BY <1>7, <2>1 DEF Squashes
  <2>4. Range(compileLane) \union Range(channel)
           = Range(Replaced(compileLane, d)) \union Range(channel') \union {e}
    <3>1. /\ Flowing(channel) /\ Flowing(stepLane) /\ Flowing(compileLane) /\ Flowing(batch)
          /\ results \in Seq(Item)
      BY UnderWay DEF IInv
    <3>2. Lined(Order, results, batch, stepLane, compileLane, channel)
      BY DEF IInv, Ordered
    <3>3. InsteadOfLast(Order, Item, results, batch, stepLane, compileLane, channel)
      BY <1>2, <1>7, <3>1, <3>2, LinedInstead DEF Flowing
    <3> QED
      BY <1>1, <1>2, <2>1, <3>3 DEF InsteadOfLast
  <2>5. Sent = Sent' \union {e}
    BY <1>2, <2>2, <2>4 DEF Sent
  <2>6. d.model \in Models /\ d.session \in Nat
    BY <1>4, <2>3, PostedFields
  <2>7. ack \in Given /\ ack.model = d.model /\ ack.session = d.session /\ ack.kind = "plain"
    BY <2>1, <2>6, PlainFields
  <2>8. Told' = Told \union {ack}
    <3>1. results' = Append(results, ack)
      BY <1>3, <2>2, <2>7, AppendIsConcat
    <3> QED
      BY <1>3, <2>7, <3>1, AppendedRange DEF Told
  <2> QED
    BY <2>3, <2>5, <2>7, <2>8 DEF NothingLost, Ends, Removal
<1> QED
  BY <1>5, <1>6, <1>7

LEMMA WorkerAwaits ==
    ASSUME IInv, AwaitedIsHeard, Worker
    PROVE  AwaitedIsHeard'
<1>1. UNCHANGED <<model, vain>>
  BY DEF Worker, Receive, StartRound, Execute, Despawn, LoadSourceRoot, mainVars
<1>2. CASE StartRound
  <2>1. Sent' = Sent /\ Told' = Told
    BY <1>2, RoundStarts
  <2> QED
    BY <1>1, <2>1, NothingLostAwaits DEF NothingLost
<1>3. CASE Receive \/ Execute \/ Despawn \/ LoadSourceRoot
  BY <1>1, <1>3, ReceiveAnswers, ExecuteAnswers, DespawnAnswers, LoadSourceRootAnswers,
     NothingLostAwaits
<1> QED
  BY <1>2, <1>3 DEF Worker

\* An answer that is taken off ends the wait of its model, or was to end none.
LEMMA RespondAwaits ==
    ASSUME IInv, AwaitedIsHeard, Respond
    PROVE  AwaitedIsHeard'
<1>1. UNCHANGED <<channel, laneVars, vain>>
  BY DEF Respond
<1>2. CASE results' = results /\ model' = model
  <2>1. Heard' = Heard
    BY <1>1, <1>2, SentNone
  <2>2. NothingLost
    BY <1>1, <1>2 DEF NothingLost, Sent, Told, laneVars
  <2> QED
    BY <1>1, <1>2, <2>2, NothingLostAwaits
<1>3. PICK r : r = Head(results)
  OBVIOUS
<1>4. CASE /\ results # <<>> /\ results' = Tail(results)
           /\ \/ r.kind = "Load" /\ UNCHANGED model
              \/ /\ r.kind # "Load"
                 /\ ~Present(r.model) \/ r.session < model[r.model].session
                 /\ Drop(r)
              \/ /\ r.kind # "Load"
                 /\ ~(~Present(r.model) \/ r.session < model[r.model].session)
                 /\ Take(r)
  <2>1. r \in Given /\ Heard = Heard' \union {r}
    <3>1. results \in Seq(Given)
      BY DEF IInv, Typed
    <3>2. r \in Given /\ Range(results) = {r} \union Range(results')
      BY <1>3, <1>4, <3>1, HeadAndTail
    <3> QED
      BY <1>1, <3>2 DEF Heard, Sent, Told, laneVars
  <2>2. ASSUME NEW m \in Models, Awaits(m), model'[m] = model[m],
               r.model = m => r.session < model[m].session
        PROVE  \E x \in Heard' : Ends(x, m, model[m].session)
    <3>1. PICK x \in Heard : Ends(x, m, model[m].session)
      BY <2>2 DEF AwaitedIsHeard
    <3>2. model[m].session \in Nat /\ r.session \in Nat
      BY <2>1, <2>2, ComponentFields, GivenFields DEF IInv, Typed, TypeOK, Awaits
    <3>3. x # r
      BY <2>2, <3>1, <3>2 DEF Ends
    <3> QED
      BY <2>1, <3>1, <3>3
  <2>3. ASSUME NEW m \in Models, Awaits(m)'
        PROVE  \E x \in Heard' : Ends(x, m, model[m].session)'
    <3>1. CASE model' = model /\ (r.model = m => r.session < model[m].session)
      <4>1. \E x \in Heard' : Ends(x, m, model[m].session)
        BY <1>1, <2>2, <2>3, <3>1 DEF Awaits
      <4> QED
        BY <3>1, <4>1 DEF Ends, Removal
    <3>2. CASE r.kind = "Load" /\ model' = model
      <4>1. r.model # m
        BY <2>1, <3>2, GivenFields, AbsentAssumption
      <4> QED
        BY <3>1, <3>2, <4>1
    <3>3. CASE /\ ~Present(r.model) \/ r.session < model[r.model].session
               /\ Drop(r)
      <4>1. model' = model /\ (r.model = m => Present(r.model))
        BY <1>1, <2>3, <3>3 DEF Drop, Present, Awaits
      <4> QED
        BY <3>1, <3>3, <4>1
    <3>4. CASE r.kind # "Load" /\ Present(r.model) /\ Take(r)
      <4>1. r.model \in Models /\ r.model # Absent
        BY <2>1, <3>4, GivenFields
      <4>2. PICK k2 : model' = [model EXCEPT ![r.model] = k2]
                      /\ (k2 = Accepted(r, model[r.model])
                          \/ k2 = [Stopped(model[r.model]) EXCEPT !.inFlight = 0])
        BY <3>4 DEF Take
      <4>3. CASE r.model = m /\ Present(r.model)
        <5>1. model[m] \in Component /\ edition[m] \in Nat
          BY <4>3, CastsAssumption DEF IInv, Typed, TypeOK, Present
        <5>2. [Stopped(model[m]) EXCEPT !.inFlight = 0].stepping = FALSE
          BY <5>1 DEF Stopped, Component
        <5>3. ~Accepted(r, model[m]).stepping
          BY <2>1, <4>3, <5>1, AcceptedFields
        <5>4. model'[m] = k2
          BY <4>2, <4>3 DEF IInv, Typed, TypeOK
        <5> QED
          BY <2>3, <4>2, <4>3, <5>2, <5>3, <5>4 DEF Awaits
      <4>4. CASE r.model # m
        <5>1. model'[m] = model[m]
          BY <4>2, <4>4 DEF IInv, Typed, TypeOK
        <5>2. \E x \in Heard' : Ends(x, m, model[m].session)
          BY <1>1, <2>2, <2>3, <4>4, <5>1 DEF Awaits
        <5> QED
          BY <5>1, <5>2 DEF Ends, Removal
      <4> QED
        BY <3>4, <4>3, <4>4
    <3> QED
      BY <1>4, <3>2, <3>3, <3>4
  <2> QED
    BY <2>3 DEF AwaitedIsHeard
<1> QED
  BY <1>2, <1>3, <1>4 DEF Respond

LEMMA NextAwaits ==
    ASSUME IInv, AwaitedIsHeard, [Next]_vars
    PROVE  AwaitedIsHeard'
<1>1. CASE UNCHANGED vars
  BY <1>1, NothingLostAwaits DEF vars, mainVars, laneVars, NothingLost, Sent, Told
<1>2. ASSUME NEW m \in Workbench, NEW class \in Classes, NEW force \in BOOLEAN,
             CompileModel(m, class, force)
      PROVE  AwaitedIsHeard'
  BY <1>2, CompileModelAwaits
<1>3. ASSUME NEW m \in Workbench, NEW class \in Classes, RunActiveModel(m, class)
      PROVE  AwaitedIsHeard'
  BY <1>3, RunActiveModelAwaits
<1>4. ASSUME NEW m \in Workbench, NEW class \in Classes, Relay(m, class)
      PROVE  AwaitedIsHeard'
  BY <1>4, RelayAwaits
<1>5. ASSUME NEW m \in Workbench, ResetActiveModel(m)
      PROVE  AwaitedIsHeard'
  BY <1>5, ResetActiveModelAwaits
<1>6. ASSUME NEW m \in Workbench, Edit(m)
      PROVE  AwaitedIsHeard'
  BY <1>6, EditAwaits
<1>7. ASSUME NEW m \in Workbench, NEW paused \in BOOLEAN, SetPaused(m, paused)
      PROVE  AwaitedIsHeard'
  BY <1>7, SetPausedAwaits
<1>8. ASSUME NEW m \in Workbench \union Scenes, SetParameter(m)
      PROVE  AwaitedIsHeard'
  BY <1>8, SetParameterAwaits
<1>9. ASSUME NEW m \in Scenes, Attach(m)
      PROVE  AwaitedIsHeard'
  BY <1>9, AttachAwaits
<1>10. ASSUME NEW m \in Networks, Project(m) \/ Reject(m)
       PROVE  AwaitedIsHeard'
  BY <1>10, ProjectAwaits, RejectAwaits
<1>11. ASSUME NEW m \in Scenes \union Networks, RemoveModel(m)
       PROVE  AwaitedIsHeard'
  BY <1>11, RemoveModelAwaits
<1>12. ASSUME NEW due \in SUBSET Models, Tick(due)
       PROVE  AwaitedIsHeard'
  BY <1>12, TickAwaits
<1>13. CASE Worker
  BY <1>13, WorkerAwaits
<1>14. CASE Respond
  BY <1>14, RespondAwaits
<1> QED
  BY <1>1, <1>2, <1>3, <1>4, <1>5, <1>6, <1>7, <1>8, <1>9, <1>10, <1>11, <1>12, <1>13, <1>14
  DEF Next

\* In every behaviour whatever a model waits for is under way, as a command of
\* its session or as the answer to one: with a fair worker and fair frames
\* nothing is left that could hold the barrier for ever.
THEOREM AwaitedAnswer == Spec => []WaitsAreAnswered
<1>1. Init => AwaitedIsHeard
  BY DEF Init, AwaitedIsHeard, Awaits
<1>2. IInv /\ AwaitedIsHeard /\ [Next]_vars => AwaitedIsHeard'
  BY NextAwaits
<1>3. ASSUME IInv, AwaitedIsHeard
      PROVE  WaitsAreAnswered
  <2>1. Heard \subseteq Range(Waiting) \union Range(results)
    <3> DEFINE two == batch \o stepLane
               three == two \o compileLane
    <3>1. /\ batch \in Seq(Posted) /\ stepLane \in Seq(Posted) /\ compileLane \in Seq(Posted)
          /\ channel \in Seq(Posted)
      BY <1>3 DEF IInv, Typed
    <3>2. two \in Seq(Posted) /\ Range(two) = Range(batch) \union Range(stepLane)
      BY <3>1, ConcatProperties, RangeConcatenation
    <3> HIDE DEF two
    <3>3. three \in Seq(Posted) /\ Range(three) = Range(two) \union Range(compileLane)
      BY <3>1, <3>2, ConcatProperties, RangeConcatenation
    <3> HIDE DEF three
    <3>4. Range(three \o channel) = Range(three) \union Range(channel)
      BY <3>1, <3>3, RangeConcatenation
    <3>5. Waiting = three \o channel
      BY DEF Waiting, three, two
    <3> QED
      BY <3>2, <3>3, <3>4, <3>5 DEF Heard, Sent, Told
  <2>2. ASSUME NEW m \in Models \ vain, Present(m), model[m].stepping
        PROVE  \E x \in Range(Waiting) \union Range(results) :
                  x.model = m /\ x.session = model[m].session /\ x.kind # "Despawn"
    <3>1. PICK x \in Heard : Ends(x, m, model[m].session)
      BY <1>3, <2>2 DEF AwaitedIsHeard, Awaits, Present
    <3> QED
      BY <2>1, <3>1 DEF Ends, Removal
  <2> QED
    BY <2>2 DEF WaitsAreAnswered
<1> QED
  BY <1>1, <1>2, <1>3, Invariant, PTL DEF Spec

=============================================================================
