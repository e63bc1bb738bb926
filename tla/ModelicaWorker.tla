--------------------------- MODULE ModelicaWorker ---------------------------
(***************************************************************************)
(* Modelica models and the one worker thread that compiles and steps them  *)
(* (lunco-modelica).  The main thread sends commands down a channel and    *)
(* takes answers from another; in between it may have compiled, reset,     *)
(* edited or removed the model, so answers carry the session and the step  *)
(* they belong to.  A coupled model that waits for a step holds the        *)
(* barrier, and with it the fixed tick of the whole simulation.            *)
(*                                                                         *)
(* Three ways to a model: a Workbench model is a document the user         *)
(* compiles and runs; a Scene model comes with a USD prim and has no       *)
(* document; a Network is generated from a USD scope, again whenever the   *)
(* scope changes, and is removed when there is nothing left to generate.   *)
(* The commands of a network's read-only document are left out.            *)
(*                                                                         *)
(* The world's clock is abstracted to the communication points: in a tick  *)
(* any ready model may be due, and a step takes its clock one point on.    *)
(***************************************************************************)
EXTENDS Naturals, Sequences, FiniteSets, SequencesExt

CONSTANTS
    Workbench, Scenes, Networks,  \* the models, by where they come from
    Coupled,      \* the models whose steps hold the barrier
    Classes,      \* classes of a workbench document
    Own,          \* the one class of a scene or network model
    Absent,       \* no such component, stepper or cached artifact
    Casts         \* the bounds to check under: the sessions of each model (0:
                  \* it takes no part), the editions of a source, the clocks

Models == Workbench \union Scenes \union Networks

VARIABLES
    cast,       \* the bounds of this behaviour
    model,      \* ModelicaModel components
    edition,    \* generation of a document, or of a network's source
    requested,  \* CompileRequested messages not yet relayed, by class
    roots,      \* SourceRootRegistry: the state of the one library
    held,       \* SimulationBarrier.held
    faults,     \* RuntimeFaults: the causes and models of all that were raised
    channel,    \* ModelicaCommands not yet received
    stepLane, compileLane, batch,  \* the worker's lanes and current round
    worker,     \* steppers, cached_models, current_sessions
    results,    \* ModelicaResults not yet taken
    asked,      \* history: the source last sent for a model
    unheard,    \* history: models whose failure to take it was dropped
    vain,       \* history: models given a parameter without a document
    returned    \* history: networks removed and generated again

mainVars == <<cast, model, edition, requested, roots, asked>>
laneVars == <<stepLane, compileLane, batch>>
vars == <<mainVars, held, faults, channel, laneVars, worker, results, unheard, vain, returned>>

Source == [class : Classes \union {Own}, edition : Nat]
Command == [kind : {"Compile", "Update", "Reset", "Step", "Despawn", "Load"},
            model : Models \union {Absent}, session : Nat, id : Nat, start : Nat,
            source : Source \union {Absent}]
Error == {"none", "compile", "rebuild", "missing", "clock", "solver", "panic"}
Answer == [kind : {"Compile", "Update", "Reset", "Step", "Load", "plain"},
           model : Models \union {Absent}, session : Nat, id : Nat, time : Nat,
           error : Error, source : Source \union {Absent}]
Component == [session : Nat, class : Classes \union {Own}, paused : BOOLEAN,
              compiled : BOOLEAN, compiling : BOOLEAN, stepping : BOOLEAN, resume : BOOLEAN,
              inFlight : Nat, nextStep : Nat \ {0}, time : Nat,
              compiledEdition : Nat, pendingEdition : Nat]
Stepper == [session : Nat, source : Source, time : Nat]

ASSUME ModelsAssumption ==
    /\ IsFiniteSet(Models)
    /\ Workbench \intersect Scenes = {}
    /\ (Workbench \union Scenes) \intersect Networks = {}
ASSUME AbsentAssumption ==
    /\ Absent \notin Models
    /\ Absent \notin Source
    /\ Absent \notin Stepper
    /\ Absent \notin Component
ASSUME CastsAssumption ==
    Casts \subseteq [sessions : [Models -> Nat], editions : Nat \ {0}, time : Nat]

WorkerOf == [current : Nat, cache : Source \union {Absent}, stepper : Stepper \union {Absent}]

Lifecycle == {"Compile", "Update", "Reset"}

NoComponent == [session |-> 0, class |-> Own, paused |-> FALSE, compiled |-> FALSE,
                compiling |-> FALSE, stepping |-> FALSE, resume |-> FALSE, inFlight |-> 0,
                nextStep |-> 1, time |-> 0, compiledEdition |-> 0, pendingEdition |-> 0]
Unknown == [current |-> 0, cache |-> Absent, stepper |-> Absent]

Init ==
    /\ cast \in Casts
    /\ model = [m \in Models |-> Absent]
    /\ edition = [m \in Models |-> IF m \in Workbench THEN 1 ELSE 0]
    /\ requested = [m \in Workbench |-> {}]
    /\ roots = "unloaded"
    /\ held = FALSE
    /\ faults = {}
    /\ channel = <<>> /\ stepLane = <<>> /\ compileLane = <<>> /\ batch = <<>>
    /\ worker = [m \in Models |-> Unknown]
    /\ results = <<>>
    /\ asked = [m \in Models |-> Absent]
    /\ unheard = {} /\ vain = {} /\ returned = {}

----------------------------------------------------------------------------
(* Dispatch: what the main thread sends.                                    *)

Present(m) == model[m] # Absent

Cmd(kind, m, session, source) ==
    [kind |-> kind, model |-> m, session |-> session, id |-> 0, start |-> 0, source |-> source]

(* ensure_loaded sends the library ahead of the first compile that uses it. *)
WithRoot(cmds) ==
    IF roots = "unloaded" THEN <<Cmd("Load", Absent, 0, Absent)>> \o cmds ELSE cmds

(* The component a compile leaves behind: an old one keeps its class of     *)
(* state, is_compiled above all, a new one starts from nothing.             *)
Recompiling(m, class, resume) ==
    [(IF Present(m) THEN model[m] ELSE NoComponent) EXCEPT
        !.session = @ + 1, !.class = class, !.paused = TRUE, !.compiling = TRUE,
        !.stepping = TRUE, !.resume = @ \/ resume, !.inFlight = 0, !.nextStep = 1,
        !.time = 0, !.pendingEdition = edition[m]]

(* The gate of on_compile_model, and of Run: nothing to do.                 *)
UpToDate(m) ==
    /\ Present(m)
    /\ model[m].compiled
    /\ model[m].compiledEdition = edition[m]
    /\ ~model[m].compiling

\* Within the bounds, another session of the model may be begun.
MaySend(m) == cast.sessions[m] > (IF Present(m) THEN model[m].session ELSE 0)

(* on_compile_model past its gate.                                          *)
Dispatch(m, class, resume) ==
    LET source == [class |-> class, edition |-> edition[m]]
        next == Recompiling(m, class, resume)
    IN  /\ MaySend(m)
        /\ model' = [model EXCEPT ![m] = next]
        /\ channel' = channel \o WithRoot(<<Cmd("Compile", m, next.session, source)>>)
        /\ roots' = IF roots = "unloaded" THEN "loading" ELSE roots
        /\ asked' = [asked EXCEPT ![m] = source]
        /\ unheard' = unheard \ {m}

CompileModel(m, class, force) ==
    /\ force \/ ~UpToDate(m)
    /\ Dispatch(m, class, FALSE)
    /\ UNCHANGED <<cast, edition, requested, held, faults, laneVars, worker, results, vain, returned>>

RunActiveModel(m, class) ==
    /\ \/ /\ UpToDate(m)
          /\ model' = [model EXCEPT ![m].paused = FALSE]
          /\ UNCHANGED <<channel, roots, asked, unheard>>
       \/ /\ ~UpToDate(m)
          /\ Dispatch(m, class, TRUE)
    /\ UNCHANGED <<cast, edition, requested, held, faults, laneVars, worker, results, vain, returned>>

(* PauseActiveModel and ResumeActiveModel.                                  *)
SetPaused(m, paused) ==
    /\ Present(m)
    /\ model' = [model EXCEPT ![m].paused = paused]
    /\ UNCHANGED <<cast, edition, requested, roots, asked, held, faults, channel, laneVars,
                   worker, results, unheard, vain, returned>>

\* The mutants reset within the session, or send it the session it leaves.
ResetInSession(m) ==
    /\ Present(m) /\ MaySend(m)
    /\ model' = [model EXCEPT ![m] = [model[m] EXCEPT !.stepping = TRUE,
                                         !.inFlight = 0, !.nextStep = 1, !.time = 0]]
    /\ channel' = Append(channel, Cmd("Reset", m, model[m].session, Absent))
    /\ UNCHANGED <<cast, edition, requested, roots, asked, held, faults, laneVars, worker,
                   results, unheard, vain, returned>>
ResetUnderOldSession(m) ==
    /\ Present(m) /\ MaySend(m)
    /\ model' = [model EXCEPT ![m] = [model[m] EXCEPT !.session = @ + 1, !.stepping = TRUE,
                                         !.inFlight = 0, !.nextStep = 1, !.time = 0]]
    /\ channel' = Append(channel, Cmd("Reset", m, model[m].session, Absent))
    /\ UNCHANGED <<cast, edition, requested, roots, asked, held, faults, laneVars, worker,
                   results, unheard, vain, returned>>
ResetActiveModel(m) ==
    /\ Present(m) /\ MaySend(m)
    /\ model' = [model EXCEPT ![m] = [model[m] EXCEPT !.session = @ + 1, !.stepping = TRUE,
                                         !.inFlight = 0, !.nextStep = 1, !.time = 0]]
    /\ channel' = Append(channel, Cmd("Reset", m, model[m].session + 1, Absent))
    /\ UNCHANGED <<cast, edition, requested, roots, asked, held, faults, laneVars, worker,
                   results, unheard, vain, returned>>

(* relay_compile_requests, and the gate it may end at.                      *)
Relay(m, class) ==
    /\ class \in requested[m]
    /\ requested' = [requested EXCEPT ![m] = @ \ {class}]
    /\ \/ ~UpToDate(m) /\ Dispatch(m, class, FALSE)
       \/ UpToDate(m) /\ UNCHANGED <<model, channel, roots, asked, unheard>>
    /\ UNCHANGED <<cast, edition, held, faults, laneVars, worker, results, vain, returned>>

(* An edit of the document in its own editor.                               *)
Edit(m) ==
    /\ cast.sessions[m] > 0
    /\ edition[m] < cast.editions
    /\ edition' = [edition EXCEPT ![m] = @ + 1]
    /\ UNCHANGED <<cast, model, requested, roots, asked, held, faults, channel, laneVars,
                   worker, results, unheard, vain, returned>>

(* The inspector's parameter slider.  A scene model has no document, and    *)
(* then the new session and the wait are all that happens.                  *)
SetParameter(m) ==
    /\ Present(m) /\ MaySend(m)
    /\ model' = [model EXCEPT ![m] = [model[m] EXCEPT !.session = @ + 1, !.stepping = TRUE]]
    /\ \/ /\ m \in Workbench
          /\ edition[m] < cast.editions
          /\ LET source == [class |-> model[m].class, edition |-> edition[m] + 1]
             IN  /\ channel' = Append(channel, Cmd("Update", m, model[m].session + 1, source))
                 /\ asked' = [asked EXCEPT ![m] = source]
          /\ edition' = [edition EXCEPT ![m] = @ + 1]
          /\ unheard' = unheard \ {m}
          /\ UNCHANGED vain
       \/ /\ m \in Scenes
          /\ vain' = vain \union {m}
          /\ UNCHANGED <<edition, channel, asked, unheard>>
    /\ UNCHANGED <<cast, requested, roots, held, faults, laneVars, worker, results, returned>>

(* dispatch_loaded_modelica_sources: the source of a prim has been read.    *)
Attach(m) ==
    LET source == [class |-> Own, edition |-> 0]
    IN  /\ cast.sessions[m] > 0
        /\ ~Present(m) /\ asked[m] = Absent
        /\ model' = [model EXCEPT ![m] = [NoComponent EXCEPT !.resume = TRUE]]
        /\ channel' = Append(channel, Cmd("Compile", m, 0, source))
        /\ asked' = [asked EXCEPT ![m] = source]
        /\ UNCHANGED <<cast, edition, requested, roots, held, faults, laneVars, worker,
                       results, unheard, vain, returned>>

(* The session of a network's next component: a removed one left none.     *)
InstalledSession(m) == IF Present(m) THEN model[m].session + 1 ELSE 1
ComesBack(m) == IF ~Present(m) /\ asked[m] # Absent THEN {m} ELSE {}

(* project_domain_islands: the scope generates another source.              *)
Project(m) ==
    LET source == [class |-> Own, edition |-> edition[m] + 1]
    IN  /\ edition[m] < cast.editions /\ MaySend(m)
        /\ model' = [model EXCEPT ![m] = [NoComponent EXCEPT !.session = InstalledSession(m),
                        !.stepping = TRUE, !.compiling = TRUE, !.resume = TRUE]]
        /\ channel' = Append(channel, Cmd("Compile", m, InstalledSession(m), source))
        /\ edition' = [edition EXCEPT ![m] = @ + 1]
        /\ asked' = [asked EXCEPT ![m] = source]
        /\ unheard' = unheard \ {m}
        /\ returned' = returned \union ComesBack(m)
        /\ UNCHANGED <<cast, requested, roots, held, faults, laneVars, worker, results, vain>>

(* project_domain_islands: the scope cannot be generated, and says why.     *)
Reject(m) ==
    /\ edition[m] < cast.editions /\ MaySend(m)
    /\ model' = [model EXCEPT ![m] = [NoComponent EXCEPT !.session = InstalledSession(m)]]
    /\ edition' = [edition EXCEPT ![m] = @ + 1]
    /\ returned' = returned \union ComesBack(m)
    /\ UNCHANGED <<cast, requested, roots, asked, held, faults, channel, laneVars, worker,
                   results, unheard, vain>>

(* The component goes, with its prim or without: on_remove_modelica.        *)
RemoveModel(m) ==
    /\ Present(m)
    /\ model' = [model EXCEPT ![m] = Absent]
    /\ channel' = Append(channel, Cmd("Despawn", m, 0, Absent))
    /\ vain' = vain \ {m}
    /\ UNCHANGED <<cast, edition, requested, roots, asked, held, faults, laneVars, worker,
                   results, unheard, returned>>

----------------------------------------------------------------------------
(* The worker's lanes: steps of models with nothing to compile go ahead of  *)
(* the compile-shaped commands, which keep their order.                     *)

Plain(m, session) ==
    [kind |-> "plain", model |-> m, session |-> session, id |-> 0, time |-> 0,
     error |-> "none", source |-> Absent]

(* is_squashable: the later of two like setpoints of one session is enough. *)
Squashes(last, c) ==
    /\ last.kind = c.kind /\ c.kind \in {"Compile", "Update"}
    /\ last.model = c.model /\ last.session = c.session

(* enqueue_command: the lanes that c leaves, and the acknowledgement of what*)
(* it squashes.                                                             *)
Enqueued(c) ==
    LET lanes == [step |-> stepLane, compile |-> compileLane, acks |-> <<>>]
    IN  IF c.kind = "Step" /\ \A i \in DOMAIN compileLane : compileLane[i].model # c.model
        THEN [lanes EXCEPT !.step = Append(stepLane, c)]
        ELSE IF compileLane # <<>> /\ Squashes(Last(compileLane), c)
        THEN [lanes EXCEPT !.compile = [compileLane EXCEPT ![Len(compileLane)] = c],
                           !.acks = <<Plain(c.model, c.session)>>]
        ELSE [lanes EXCEPT !.compile = Append(compileLane, c)]

(* Between two rounds, whatever has arrived is put in its lane.             *)
Receive ==
    /\ batch = <<>> /\ channel # <<>>
    /\ channel' = Tail(channel)
    /\ stepLane' = Enqueued(Head(channel)).step
    /\ compileLane' = Enqueued(Head(channel)).compile
    /\ results' = results \o Enqueued(Head(channel)).acks
    /\ UNCHANGED <<mainVars, held, faults, batch, worker, unheard, vain, returned>>

(* promote_unblocked_steps: steps with no compile-shaped command of their   *)
(* model before them.                                                       *)
Unblocked(lane) ==
    {i \in DOMAIN lane :
        /\ lane[i].kind = "Step"
        /\ \A j \in 1..(i - 1) : lane[j].model = lane[i].model => lane[j].kind = "Step"}

\* The commands at the chosen places of a lane, in their order.
Picked(lane, chosen) ==
    LET picked[n \in 0..Len(lane)] ==
            IF n = 0 THEN <<>>
            ELSE IF n \in chosen THEN Append(picked[n - 1], lane[n]) ELSE picked[n - 1]
    IN  picked[Len(lane)]

Promoted(lane) == Picked(lane, Unblocked(lane))
Kept(lane) == Picked(lane, DOMAIN lane \ Unblocked(lane))

(* The top of the worker's loop, once all that has arrived is in its lane:  *)
(* a round is every step that can run and one command of the other lane.    *)
(* The mutant takes that one first.                                         *)
Foremost(lane) == IF lane = <<>> THEN <<>> ELSE <<Head(lane)>>
Others(lane) == IF lane = <<>> THEN <<>> ELSE Tail(lane)

StartCompileFirst ==
    /\ batch = <<>> /\ channel = <<>>
    /\ stepLane # <<>> \/ compileLane # <<>>
    /\ batch' = Foremost(compileLane) \o stepLane
    /\ stepLane' = Promoted(Others(compileLane))
    /\ compileLane' = Kept(Others(compileLane))
    /\ UNCHANGED <<mainVars, held, faults, channel, worker, results, unheard, vain, returned>>
StartRound ==
    /\ batch = <<>> /\ channel = <<>>
    /\ stepLane # <<>> \/ compileLane # <<>>
    /\ batch' = stepLane \o Foremost(compileLane)
    /\ stepLane' = Promoted(Others(compileLane))
    /\ compileLane' = Kept(Others(compileLane))
    /\ UNCHANGED <<mainVars, held, faults, channel, worker, results, unheard, vain, returned>>

----------------------------------------------------------------------------
(* The worker's commands.  Every one may panic, and then the worker forgets *)
(* the model and answers with an error.                                     *)

Result(c, time, error, source) ==
    [kind |-> c.kind, model |-> c.model, session |-> c.session, id |-> c.id, time |-> time,
     error |-> error, source |-> source]

Fresh(session, source) == [session |-> session, source |-> source, time |-> 0]

\* What executing c may do: the worker's state of the model, and the answer.
Outcome(state, answer) == [state |-> state, answer |-> answer]

(* Compile: never refused; a failure leaves the old artifact and stepper.   *)
(* The mutant caches the first artifact for good.                           *)
OfCompileCachedOnce(c, w) ==
    LET now == [w EXCEPT !.current = c.session]
    IN  {Outcome([now EXCEPT !.cache = IF w.cache = Absent THEN c.source ELSE @,
                             !.stepper = Fresh(c.session, c.source)],
                 Result(c, 0, "none", c.source)),
         Outcome(now, Result(c, 0, "compile", c.source))}
OfCompile(c, w) ==
    LET now == [w EXCEPT !.current = c.session]
    IN  {Outcome([now EXCEPT !.cache = c.source, !.stepper = Fresh(c.session, c.source)],
                 Result(c, 0, "none", c.source)),
         Outcome(now, Result(c, 0, "compile", c.source))}

(* UpdateParameters: the same, unless a newer session has come ahead of it. *)
OfUpdate(c, w) ==
    IF c.session < w.current THEN {Outcome(w, Plain(c.model, c.session))} ELSE OfCompile(c, w)

(* Reset: a new stepper from the cached artifact, or none.                  *)
OfReset(c, w) ==
    LET now == [w EXCEPT !.current = c.session]
    IN  IF w.cache = Absent
        THEN {Outcome([now EXCEPT !.stepper = Absent], Result(c, 0, "none", Absent))}
        ELSE {Outcome([now EXCEPT !.stepper = Fresh(c.session, w.cache)],
                      Result(c, 0, "none", w.cache)),
              Outcome(now, Result(c, 0, "rebuild", w.cache))}

(* A step finds no stepper, one of an older session or one of another class.*)
NeedsInit(c, w) ==
    w.stepper = Absent \/ w.stepper.session < c.session \/ w.stepper.source.class # c.source.class

(* Stepping s: refused off its clock, not integrated in another session.    *)
Integrated(c, w, s) ==
    IF s = Absent THEN {Outcome(w, Result(c, 0, "missing", Absent))}
    ELSE IF s.time # c.start
    THEN {Outcome([w EXCEPT !.stepper = Absent], Result(c, 0, "clock", s.source))}
    ELSE IF s.session # c.session
    THEN {Outcome([w EXCEPT !.stepper = s], Result(c, 0, "none", Absent))}
    ELSE {Outcome([w EXCEPT !.stepper = [s EXCEPT !.time = @ + 1]],
                  Result(c, s.time + 1, "none", s.source)),
          Outcome([w EXCEPT !.stepper = Absent], Result(c, 0, "solver", s.source))}

(* Step, after an initialisation from the cache where one is needed and the *)
(* cached class is the one asked for.                                       *)
OfStep(c, w) ==
    IF c.session < w.current THEN {Outcome(w, Result(c, 0, "none", Absent))}
    ELSE IF NeedsInit(c, w) /\ w.cache # Absent /\ w.cache.class = c.source.class
    THEN {Outcome(w, Result(c, 0, "rebuild", w.cache))}
         \union Integrated(c, w, Fresh(c.session, w.cache))
    ELSE Integrated(c, w, w.stepper)

Panicked(c) == Outcome(Unknown, Result(c, 0, "panic", c.source))

Executed(c, w) ==
    {Panicked(c)} \union CASE c.kind = "Compile" -> OfCompile(c, w)
                           [] c.kind = "Update" -> OfUpdate(c, w)
                           [] c.kind = "Reset" -> OfReset(c, w)
                           [] c.kind = "Step" -> OfStep(c, w)

(* The next command of the round, when it is about a model.                 *)
Execute ==
    /\ batch # <<>> /\ Head(batch).kind \in Lifecycle \union {"Step"}
    /\ batch' = Tail(batch)
    /\ \E o \in Executed(Head(batch), worker[Head(batch).model]) :
          /\ worker' = [worker EXCEPT ![Head(batch).model] = o.state]
          /\ results' = Append(results, o.answer)
    /\ UNCHANGED <<mainVars, held, faults, channel, stepLane, compileLane, unheard, vain, returned>>

(* Despawn is not answered, and leaves the session the worker knew.         *)
Despawn ==
    /\ batch # <<>> /\ Head(batch).kind = "Despawn"
    /\ batch' = Tail(batch)
    /\ worker' = [worker EXCEPT ![Head(batch).model] =
                     [Unknown EXCEPT !.current = worker[Head(batch).model].current]]
    /\ UNCHANGED <<mainVars, held, faults, channel, stepLane, compileLane, results,
                   unheard, vain, returned>>

LoadSourceRoot ==
    /\ batch # <<>> /\ Head(batch).kind = "Load"
    /\ batch' = Tail(batch)
    /\ \E error \in {"none", "compile"} :
          results' = Append(results, Result(Head(batch), 0, error, Absent))
    /\ UNCHANGED <<mainVars, held, faults, channel, stepLane, compileLane, worker,
                   unheard, vain, returned>>

----------------------------------------------------------------------------
(* What the main thread takes: handle_modelica_responses.                   *)

(* The barrier: a coupled model that could run waits for its step, or       *)
(* something has failed for good.                                           *)
Waits(m, now) == now[m] # Absent /\ ~now[m].paused /\ now[m].compiled /\ now[m].stepping
Holds(now, raised) == raised # {} \/ \E m \in Coupled : Waits(m, now)

(* A model the simulation can no longer trust.                              *)
Stopped(component) == [component EXCEPT !.paused = TRUE, !.compiled = FALSE, !.stepping = FALSE]

(* What is wrong with an answer that is not stale, if anything.             *)
Violation(r, component) ==
    IF r.session > component.session THEN "session"
    ELSE IF r.kind \notin Lifecycle
            /\ \/ component.inFlight = 0
               \/ r.id # component.inFlight
               \/ r.error = "none" /\ r.time # component.time + 1
    THEN "step" ELSE "none"

(* The clock a step was asked for ends one communication point on.  The     *)
(* mutants expect the answered step still, and end the wait for steps only. *)
AcceptedStillExpected(r, component) ==
    [component EXCEPT !.stepping = FALSE, !.compiling = FALSE,
        !.time = IF r.error = "none" /\ r.kind \notin Lifecycle THEN r.time ELSE 0,
        !.compiled = r.error = "none" /\ (@ \/ r.kind = "Compile"),
        !.paused = r.error # "none" \/ (@ /\ ~component.resume)]
AcceptedStepsOnly(r, component) ==
    [component EXCEPT !.inFlight = 0, !.compiling = FALSE,
        !.stepping = @ /\ r.kind \in Lifecycle,
        !.time = IF r.error = "none" /\ r.kind \notin Lifecycle THEN r.time ELSE 0,
        !.compiled = r.error = "none" /\ (@ \/ r.kind = "Compile"),
        !.paused = r.error # "none" \/ (@ /\ ~component.resume)]
Accepted(r, component) ==
    LET base == [component EXCEPT
                    !.inFlight = 0, !.stepping = FALSE,
                    !.nextStep = IF r.kind \in Lifecycle THEN 1 ELSE @,
                    !.compiling = @ /\ r.kind \notin Lifecycle,
                    !.time = IF r.kind \in {"Compile", "Update", "Reset"} THEN 0
                             ELSE IF r.error = "none" THEN r.time ELSE @]
    IN  IF r.error # "none"
        THEN [base EXCEPT !.paused = TRUE, !.resume = FALSE, !.compiled = FALSE]
        ELSE IF r.kind = "Compile"
        THEN [base EXCEPT !.paused = ~base.resume, !.resume = FALSE, !.compiled = TRUE,
                 !.compiledEdition = IF base.pendingEdition # 0 THEN base.pendingEdition
                                     ELSE edition[r.model]]
        ELSE base

(* A stale answer is ignored, a failure it reports with it.                 *)
Lost(r) ==
    \/ r.error = "panic"
    \/ r.kind \in {"Compile", "Update"} /\ r.error # "none" /\ r.source = asked[r.model]

Drop(r) ==
    /\ UNCHANGED <<model, faults>>
    /\ unheard' = IF Present(r.model) /\ Lost(r) THEN unheard \union {r.model} ELSE unheard

Take(r) ==
    LET component == model[r.model]
        violation == Violation(r, component)
    IN  /\ unheard' = unheard
        /\ \/ /\ violation = "none"
              /\ model' = [model EXCEPT ![r.model] = Accepted(r, component)]
              /\ faults' = IF r.kind \notin Lifecycle /\ r.error # "none"
                           THEN faults \union {<<r.error, r.model>>} ELSE faults
           \/ /\ violation # "none"
              /\ model' = [model EXCEPT ![r.model] = [Stopped(component) EXCEPT !.inFlight = 0]]
              /\ faults' = faults \union {<<violation, r.model>>}

(* A frame's look at the answers, one of them at a time.  Where there is    *)
(* none the barrier is worked out all the same.                             *)
Respond ==
    /\ \/ /\ results # <<>>
          /\ results' = Tail(results)
          /\ LET r == Head(results)
             IN  \/ /\ r.kind = "Load"
                    /\ roots' = IF r.error = "none" THEN "ready" ELSE "failed"
                    /\ UNCHANGED <<model, faults, unheard>>
                 \/ /\ r.kind # "Load"
                    /\ UNCHANGED roots
                    /\ IF ~Present(r.model) \/ r.session < model[r.model].session
                       THEN Drop(r) ELSE Take(r)
       \/ /\ results = <<>>
          /\ UNCHANGED <<results, model, roots, faults, unheard>>
    /\ held' = Holds(model', faults')
    /\ UNCHANGED <<cast, edition, requested, asked, channel, laneVars, worker, vain, returned>>

----------------------------------------------------------------------------
(* spawn_modelica_requests: one fixed tick, unless the barrier is up.       *)

(* Unpaused before its compile: a workbench model asks for one.             *)
AsksForCompile(m) ==
    /\ m \in Workbench /\ Present(m)
    /\ ~model[m].paused /\ ~model[m].compiled /\ ~model[m].compiling /\ ~model[m].stepping

MayStep(m) ==
    /\ Present(m)
    /\ ~model[m].paused /\ model[m].compiled /\ ~model[m].stepping
    /\ model[m].time < cast.time

StepOf(m) ==
    [Cmd("Step", m, model[m].session, [class |-> model[m].class, edition |-> 0]) EXCEPT
        !.id = model[m].nextStep, !.start = model[m].time]

Stepping(component) ==
    [component EXCEPT !.stepping = TRUE, !.inFlight = component.nextStep, !.nextStep = @ + 1]

(* The models in due have reached their next communication point.           *)
Tick(due) ==
    LET next == [m \in Models |-> IF m \in due THEN Stepping(model[m]) ELSE model[m]]
    IN  /\ ~held
        /\ due \subseteq {m \in Models : MayStep(m)}
        /\ requested' = [m \in Workbench |->
              IF AsksForCompile(m) THEN requested[m] \union {model[m].class} ELSE requested[m]]
        /\ model' = next
        /\ channel' = channel \o SetToSeq({StepOf(m) : m \in due})
        /\ held' = Holds(next, faults)
        /\ UNCHANGED <<cast, edition, roots, asked, faults, laneVars, worker, results, unheard,
                       vain, returned>>

Worker == Receive \/ StartRound \/ Execute \/ Despawn \/ LoadSourceRoot

Next ==
    \/ \E m \in Workbench, class \in Classes :
          \/ \E force \in BOOLEAN : CompileModel(m, class, force)
          \/ RunActiveModel(m, class)
          \/ Relay(m, class)
    \/ \E m \in Workbench :
          \/ ResetActiveModel(m)
          \/ Edit(m)
          \/ \E paused \in BOOLEAN : SetPaused(m, paused)
    \/ \E m \in Workbench \union Scenes : SetParameter(m)
    \/ \E m \in Scenes : Attach(m)
    \/ \E m \in Networks : Project(m) \/ Reject(m)
    \/ \E m \in Scenes \union Networks : RemoveModel(m)
    \/ \E due \in SUBSET Models : Tick(due)
    \/ Worker
    \/ Respond

Spec == Init /\ [][Next]_vars

(* The worker thread runs as long as there is work, and the frames go on    *)
(* while the barrier holds the fixed tick.                                  *)
Fairness == WF_vars(Worker) /\ WF_vars(Respond)

FairSpec == Spec /\ Fairness

----------------------------------------------------------------------------
(* Components, commands, lanes, the worker's maps and answers have their    *)
(* types, and a model expects a step's answer only while it waits.          *)
TypeOK ==
    /\ cast \in Casts
    /\ model \in [Models -> Component \union {Absent}]
    /\ edition \in [Models -> 0..cast.editions]
    /\ requested \in [Workbench -> SUBSET (Classes \union {Own})]
    /\ roots \in {"unloaded", "loading", "ready", "failed"}
    /\ held \in BOOLEAN
    /\ faults \subseteq {"session", "step", "missing", "clock", "rebuild", "solver", "panic"} \X Models
    /\ channel \in Seq(Command)
    /\ stepLane \in Seq(Command) /\ compileLane \in Seq(Command) /\ batch \in Seq(Command)
    /\ worker \in [Models -> WorkerOf]
    /\ results \in Seq(Answer)
    /\ asked \in [Models -> Source \union {Absent}]
    /\ unheard \subseteq Models /\ vain \subseteq Scenes /\ returned \subseteq Networks
    /\ \A m \in Models : Present(m) /\ model[m].inFlight # 0 => model[m].stepping

(* Whatever waits for the worker, in the order the worker will come to it.  *)
Waiting == batch \o stepLane \o compileLane \o channel

Earlier(a, b) == a.session < b.session \/ (a.session = b.session /\ a.id < b.id)

(* Steps go ahead of other models' compiles and never of their own: what is *)
(* answered and what still waits of one model is in the order it was sent,  *)
(* and a library is loaded before the first compile that was to use it.     *)
LanesKeepOrder ==
    /\ LET all == results \o Waiting
       IN  \A i, j \in DOMAIN all :
               /\ i < j /\ all[i].model = all[j].model /\ all[i].model \in Models \ returned
               /\ all[i].kind # "Despawn" /\ all[j].kind # "Despawn"
               => Earlier(all[i], all[j])
    /\ \A i, j \in DOMAIN Waiting :
          i < j /\ Waiting[j].kind = "Load" => Waiting[i].model \notin Workbench

(* A model that may step has a stepper in the worker of just its session,   *)
(* its clock and the source last sent for it, whatever was compiled, reset, *)
(* changed and refused in between.  Not so where a failure was dropped as   *)
(* stale because a reset overtook its answer, nor for a network that was    *)
(* removed and came back under sessions that had been used.                 *)
ReadyModelsAgree ==
    \A m \in Models \ (unheard \union returned) :
        Present(m) /\ model[m].compiled /\ ~model[m].stepping =>
            LET s == worker[m].stepper
            IN  /\ s # Absent
                /\ s.session = model[m].session /\ s.time = model[m].time
                /\ s.source = asked[m] /\ s.source.class = model[m].class

(* The simulation is not stopped by its own protocol: no answer comes from  *)
(* a session or a step that is not the model's, no step is refused for its  *)
(* clock, and only answers that report a real failure are faults.           *)
NoProtocolFault ==
    \A f \in faults : f[1] \in {"session", "step", "clock"} => f[2] \in returned

(* No wait is for nothing: whatever a model waits for is still under way,   *)
(* a command of its session in the channel, a lane or the round, or the     *)
(* answer to one, however lanes were reordered, commands squashed, answers  *)
(* dropped as stale and models removed.  But for a scene model that was     *)
(* given a parameter: it has no document, and nothing was sent for it.      *)
WaitsAreAnswered ==
    \A m \in Models \ vain :
        Present(m) /\ model[m].stepping =>
            \E x \in Range(Waiting) \union Range(results) :
                /\ x.model = m /\ x.session = model[m].session
                /\ x.kind # "Despawn"

(* The barrier does not hold the simulation for ever, unless something has  *)
(* failed or a parameter was set on a scene model: that raises its session  *)
(* and makes it wait, and with no document nothing is ever sent.            *)
BarrierIsReleased == []<>(~held \/ faults # {} \/ vain # {})
=============================================================================
