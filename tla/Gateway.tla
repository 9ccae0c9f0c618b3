------------------------------ MODULE Gateway ------------------------------
(***************************************************************************)
(* The gateway's task workers over the scheduler's tables:                 *)
(* src/support/gateway/workers.py (Workers: update, resume, message and    *)
(* the life of one _run coroutine per resident worker) and                 *)
(* src/support/gateway/startup_recovery.py (what a new process does with   *)
(* the rows an old one left).                                              *)
(*                                                                         *)
(* One process, one event loop: a step is the code between two awaits      *)
(* that another coroutine can see.  Workers._lock is held by the run or    *)
(* the call that is between two transactions of one locked section         *)
(* (LockFree) and goes to who waited first (RunLock, NewLock, Served).     *)
(* The flags that update sets before it waits for the lock (a Stop, a      *)
(* Pause) change at any time.  A crash forgets everything but the tables   *)
(* and the session's turns.                                                *)
(*                                                                         *)
(* Left out: workspaces that become invalid, failed store writes, the      *)
(* graceful aclose, and which waiting task a free slot goes to.            *)
(***************************************************************************)
EXTENDS TaskStore, ParkStore, RecoveryStore, FiniteSets

CONSTANTS
    Clients,    \* callers of update and resume: console requests
    NoCall,     \* a client without a request
    Slots,      \* MAX_WORKERS
    Raised      \* the levels a person moves a task to

ASSUME GatewayAssumption ==
    /\ Slots \in Nat \ {0}
    /\ Raised \subseteq 0..4
    /\ NoCall \notin Tasks
    /\ Clients \cap Tasks = {}

VARIABLES
    last,     \* the session's newest turn of each task (table turns)
    reserved, \* the turn each resume receipt reserved, 0 for no receipt
    phase,    \* what Workers.open has come to
    todo,     \* tasks the current part of it has not seen yet
    sets,     \* Workers' sets of task ids
    run,      \* the _run coroutine of each task, and _pending_execution
    call,     \* the update of each client, and of each _yield, being served
    ticket    \* the evidence that resume read for its commit

durable == <<tables, last, reserved>>
volatile == <<phase, todo, sets, run, call, ticket>>
vars == <<durable, volatile>>

----------------------------------------------------------------------------
(* State *)

Phases == {"down", "recovering", "admitting", "ready"}

(* Where a _run stands.  From "turn" on it has a turn; "fenced",           *)
(* "admitted", "starting" and "intent" hold the lock.                      *)
Places == {"none", "check", "gate", "fence", "fenced", "build", "admitted", "starting",
           "turn", "closing", "parking", "stuck", "settling", "intent"}

(* How the run came out: it deferred to a pause, its launch conflicted, it *)
(* broke after its launch fence, it ended before a turn (or was stopped    *)
(* before one), or its turn's own outcome.                                 *)
Outs == {"none", "deferred", "broken", "unstarted", "stopped",
         "done", "failed", "cancelled"}
TurnOuts == {"done", "failed", "cancelled"}

(* The worker's call at a step boundary: _points or _approval_points names *)
(* it, its hold is committed, its release is.                              *)
Points == {"none", "asked", "held", "released"}

(* How far the task's _yield is: it was asked to make room, it pauses the  *)
(* task and waits for its run to end, it found the task parked, it resumes *)
(* the task.  `yields` says that the task is in _yielding.                 *)
Rooms == {"no", "asked", "pausing", "back", "resuming"}

Runs == [at : Places, exec : Execs \cup {NoExec}, fenced : BOOLEAN, out : Outs,
         point : Points, pending : Execs \cup {NoExec}, room : Rooms, yields : BOOLEAN]
NoRun == [at |-> "none", exec |-> NoExec, fenced |-> FALSE, out |-> "none",
          point |-> "none", pending |-> NoExec, room |-> "no", yields |-> FALSE]

Turns == [exec : Execs \cup {NoExec}, status : {"none", "open", "parked"} \cup TurnOuts]
NoTurn == [exec |-> NoExec, status |-> "none"]

SetNames == {"eligible", "fenced", "stopping", "pauseReq", "winners", "quarantined",
             "unavailable"}
NoSets == [n \in SetNames |-> {}]

(* Who calls update: a client, or the _yield of a task.                    *)
Askers == Clients \cup Tasks

(* A request, how far it came, and who waited for the lock as it began to  *)
(* wait: `after` are the requests that go first, and a run goes first only *)
(* from where it stood (`ahead`).                                          *)
Calls == [kind : {"none", "pause", "resume", "level", "stop", "recover"},
          task : Tasks \cup {NoCall},
          step : {"asked", "waiting", "second", "read", "decided", "raised"},
          after : SUBSET Askers,
          ahead : [Tasks -> Places]]
Nowhere == [t \in Tasks |-> "none"]
Idle == [kind |-> "none", task |-> NoCall, step |-> "asked", after |-> {}, ahead |-> Nowhere]

(* What collect_evidence found, with the identity it belongs to. *)
Tickets == [task : Tasks, gen : Nat, op : Ops \cup {NoOp}, state : States,
            exec : Execs \cup {NoExec}, pending : BOOLEAN]
NoTicket(t) == [task |-> t, gen |-> 0, op |-> NoOp, state |-> "absent",
                exec |-> NoExec, pending |-> FALSE]

TypeOK ==
    /\ TablesTypeOK
    /\ last \in [Tasks -> Turns]
    /\ reserved \in [Tasks -> [Ops -> Nat]]
    /\ phase \in Phases
    /\ todo \subseteq Tasks
    /\ sets \in [SetNames -> SUBSET Tasks]
    /\ run \in [Tasks -> Runs]
    /\ call \in [Askers -> Calls]
    /\ ticket \in [Clients -> Tickets]

Init ==
    /\ TablesInit
    /\ last = [t \in Tasks |-> NoTurn]
    /\ reserved = [t \in Tasks |-> [o \in Ops |-> 0]]
    /\ phase = "down"
    /\ todo = {}
    /\ sets = NoSets
    /\ run = [t \in Tasks |-> NoRun]
    /\ call = [c \in Askers |-> Idle]
    /\ \E t \in Tasks : ticket = [c \in Clients |-> NoTicket(t)]

----------------------------------------------------------------------------
(* Helpers *)

Resident(t) == run[t].at # "none"                      \* task_id in _runs
At(t, place) == run[t].at = place
In(t, name) == t \in sets[name]
Busy(t) == At(t, "turn")                               \* runner.busy

Holding == {"fenced", "admitted", "starting", "intent"}
LockFree ==
    /\ phase = "ready"
    /\ \A t \in Tasks : run[t].at \notin Holding
    /\ \A c \in Askers : call[c].step # "second"

Waits(c) == call[c].step = "asked" /\ call[c].kind # "none"
RunLock(t) == LockFree /\ \A c \in Askers : Waits(c) => run[t].at = call[c].ahead[t]
NewLock == LockFree /\ \A c \in Askers : ~Waits(c)

(* uuid4().hex: an id that nothing holds yet. *)
FreshOps == {o \in Ops : o \notin usedOps /\ \A t \in Tasks : park[t].op # o}
FreshOp == CHOOSE o \in FreshOps : TRUE
FreshExecs == {e \in Execs :
    /\ \A t \in Tasks : e \notin {prov[t].exec, capture[t].exec, run[t].exec, last[t].exec}
    /\ \A r \in recops : r.exec # e}
FreshExec == CHOOSE e \in FreshExecs : TRUE

Gen(t) == park[t].gen
Op(t) == park[t].op

(* _next_turn_number, of the turn that a Resume reserves; and a mutant.    *)
PastTurn(t) == turns[t] - 1
NextTurn(t) == turns[t] + 1

Adding(s, name, t) == [s EXCEPT ![name] = @ \cup {t}]
Dropping(s, names, t) == [n \in SetNames |-> IF n \in names THEN s[n] \ {t} ELSE s[n]]

(* _schedule, at the end of a locked section that leaves the runs `after`: *)
(* eligible queued tasks take the free slots, and room is made for others. *)
Waiting(after) == {t \in Tasks :
    /\ t \in sets'.eligible /\ after[t].at = "none"
    /\ State(t)' = "queued" /\ tasks'[t].prio.level < 5}

(* _can_yield: a busy worker with nothing else under way.  One that waits  *)
(* for an approval or an answer is left alone.                             *)
CanYield(after) == {t \in Tasks :
    /\ after[t].at = "turn" /\ after[t].room = "no"
    /\ State(t)' \in {"running", "held"}
    /\ \A n \in SetNames \ {"eligible", "fenced"} : t \notin sets'[n]}

(* _make_room: the lowest workers, one for each task of a higher level     *)
(* that waits, beside those already asked.                                 *)
Level(t) == tasks'[t].prio.level
Outranked(asked, waiting) ==
    \E higher \in SUBSET waiting :
        /\ Cardinality(higher) = Cardinality(asked)
        /\ \A t \in asked, u \in higher : Level(t) > Level(u)
MakesRoom(asked, waiting, workers, after) ==
    LET need == Cardinality(waiting) - Cardinality({t \in Tasks : after[t].yields})
        Fits(set) == Cardinality(set) <= need /\ Outranked(set, waiting)
    IN  /\ asked = {} \/ Fits(asked)
        /\ \A t \in workers \ asked :
              /\ ~Fits(asked \cup {t})
              /\ \A u \in asked : Level(t) <= Level(u)

(* Mutant of Schedule: a quarantined run does not count.                   *)
ScheduleOverStuck(after) ==
    LET waiting == Waiting(after)
        taken == Cardinality({t \in Tasks : after[t].at \notin {"none", "stuck"}})
        free == IF taken < Slots THEN Slots - taken ELSE 0
        starts == IF free < Cardinality(waiting) THEN free ELSE Cardinality(waiting)
    IN  \E chosen \in SUBSET waiting :
            /\ Cardinality(chosen) = starts
            /\ run' = [t \in Tasks |->
                  IF t \in chosen THEN [after[t] EXCEPT !.at = "check"] ELSE after[t]]
Schedule(after) ==
    LET waiting == Waiting(after)
        taken == Cardinality({t \in Tasks : after[t].at # "none"})
        free == IF taken < Slots THEN Slots - taken ELSE 0
        starts == IF free < Cardinality(waiting) THEN free ELSE Cardinality(waiting)
    IN  \E chosen \in SUBSET waiting, workers \in SUBSET CanYield(after) :
            /\ Cardinality(chosen) = starts
            /\ \E asked \in SUBSET workers :
                  /\ MakesRoom(asked, waiting \ chosen, workers, after)
                  /\ run' = [t \in Tasks |->
                        IF t \in chosen THEN [after[t] EXCEPT !.at = "check"]
                        ELSE IF t \in asked THEN [after[t] EXCEPT !.room = "asked", !.yields = TRUE]
                        ELSE after[t]]

Moved(t, place) == [run EXCEPT ![t].at = place]
Going(t, place, out) == [run EXCEPT ![t].at = place, ![t].out = out]

(* The run is over; what it was to launch may stay, and a _yield goes on.  *)
Over(t) == [run EXCEPT ![t] = [NoRun EXCEPT !.room = run[t].room, !.yields = run[t].yields]]
Gone(t) == [Over(t) EXCEPT ![t].pending = run[t].pending]

(* An answer lets those behind it come nearer to the lock; a _yield learns *)
(* that its update raised.                                                 *)
Replied(c, idle) ==
    call' = [d \in Askers |-> IF d = c THEN idle ELSE [call[d] EXCEPT !.after = @ \ {c}]]
Answered(c) == Replied(c, Idle)
Rejected(c) == Replied(c, IF c \in Tasks THEN [Idle EXCEPT !.step = "raised"] ELSE Idle)

Forgotten(c) == ticket' = [ticket EXCEPT ![c] = NoTicket(ticket[c].task)]

Serving == UNCHANGED <<phase, todo>>
OwnTables == UNCHANGED <<last, reserved>>
NoWrite == UNCHANGED durable

----------------------------------------------------------------------------
(* Startup: Workers.open and StartupRecovery.  Nothing else runs yet.      *)

Boot ==
    /\ phase = "down"
    /\ phase' = "recovering"
    /\ todo' = {t \in Tasks : State(t) # "absent"}
    /\ NoWrite /\ UNCHANGED <<sets, run, call, ticket>>

Starting == UNCHANGED <<phase, sets, run, call, ticket, last, reserved>>

(* run: an intent that an earlier process left is committed while its      *)
(* receipt is current, and retired otherwise.                              *)
ResolveIntent(t) ==
    /\ phase = "recovering" /\ t \in todo
    /\ \E r \in Prepared(t) :
          IF Current(r) /\ State(t) \notin Terminal THEN Commit(r)
                                                   ELSE Supersede(r, Gen(t), Op(t))
    /\ UNCHANGED todo /\ Starting

(* _classify: the tasks that startup leaves as they are. *)
LeftAsIs(t) ==
    \/ State(t) \in Terminal \cup {"interrupted"}
    \/ State(t) \in {"queued", "parked"} /\ prov[t].first = "never_started"
    \/ State(t) = "queued" /\ ResumeWaits(t)
    \/ State(t) = "parked" /\ tasks[t].card /\ tasks[t].parkedLast

LeaveAsIs(t) ==
    /\ phase = "recovering" /\ t \in todo
    /\ Prepared(t) = {} /\ LeftAsIs(t)
    /\ todo' = todo \ {t}
    /\ UNCHANGED tables /\ Starting

(* The run ended and its turn says so, under the execution of the fence.   *)
FinishedRun(t) ==
    /\ State(t) \in {"running", "held"}
    /\ last[t].status \in TurnOuts
    /\ last[t].exec # NoExec /\ last[t].exec = prov[t].exec

(* Two mutants of Classify: the interruption is judged by the turn's       *)
(* execution, not the launch's; it is written without its intent.          *)
ClassifyByTurn(t) ==
    /\ phase = "recovering" /\ t \in todo
    /\ Prepared(t) = {} /\ ~LeftAsIs(t)
    /\ Prepare(t, Gen(t), Op(t), last[t].exec, "interrupted", TRUE, TRUE, TRUE)
    /\ UNCHANGED todo /\ Starting
ClassifyAtOnce(t) ==
    /\ phase = "recovering" /\ t \in todo
    /\ Prepared(t) = {} /\ ~LeftAsIs(t)
    /\ tasks' = [tasks EXCEPT ![t].state = "interrupted"]
    /\ UNCHANGED <<todo, park, prov, capture, recops, crashed, usedOps, turns, resumeTurn>>
    /\ Starting

(* _classify: prepare the outcome of a finished run, or the interruption   *)
(* of anything else; the commit is ResolveIntent's step.                   *)
Classify(t) ==
    /\ phase = "recovering" /\ t \in todo
    /\ Prepared(t) = {} /\ ~LeftAsIs(t)
    /\ IF FinishedRun(t)
       THEN Prepare(t, Gen(t), Op(t), prov[t].exec, last[t].status, tasks[t].card, FALSE, TRUE)
       ELSE Prepare(t, Gen(t), Op(t), prov[t].exec, "interrupted",
                    turns[t] > 0 \/ (State(t) # "parked" /\ tasks[t].card), TRUE, TRUE)
    /\ UNCHANGED todo /\ Starting

Recovered ==
    /\ phase = "recovering" /\ todo = {}
    /\ phase' = "admitting"
    /\ todo' = {t \in Tasks : Live(t)}
    /\ NoWrite /\ UNCHANGED <<sets, run, call, ticket>>

(* Mutant of Readmitted: any queued or interrupted task is.                *)
ReadmittedAny(t) ==
    /\ tasks[t].prio.level < 5
    /\ State(t) \in {"queued", "interrupted"}

(* open: a first start or a committed Resume is admitted again, an         *)
(* interrupted one after it is queued; any other task is fenced.           *)
Readmitted(t) ==
    /\ tasks[t].prio.level < 5
    /\ \/ State(t) = "queued" /\ ~tasks[t].card /\ prov[t].first = "never_started"
       \/ State(t) \in {"queued", "interrupted"} /\ ResumeWaits(t)

Admit(t) ==
    /\ phase = "admitting" /\ t \in todo
    /\ todo' = todo \ {t}
    /\ IF ~Readmitted(t)
       THEN sets' = Adding(sets, "fenced", t) /\ UNCHANGED tables
       ELSE /\ sets' = Adding(sets, "eligible", t)
            /\ IF State(t) = "interrupted" THEN ChangeState(t, Keep, "queued")
                                           ELSE UNCHANGED tables
    /\ UNCHANGED <<phase, run, call, ticket>> /\ OwnTables

OpenEnds ==
    /\ phase = "admitting" /\ todo = {}
    /\ phase' = "ready"
    /\ NoWrite /\ UNCHANGED <<sets, todo, call, ticket>>
    /\ Schedule(run)

(* The process dies. *)
Crash ==
    /\ phase # "down"
    /\ phase' = "down" /\ todo' = {}
    /\ sets' = NoSets
    /\ run' = [t \in Tasks |-> NoRun]
    /\ call' = [c \in Askers |-> Idle]
    /\ ticket' = [c \in Clients |-> NoTicket(ticket[c].task)]
    /\ NoWrite

----------------------------------------------------------------------------
(* _run: one coroutine per resident task *)

(* The top of _run: a fence whose capture was retired meanwhile is not     *)
(* this launch's any more.                                                 *)
Check(t) ==
    LET kept == IF capture[t].exec = run[t].pending THEN run[t].pending ELSE NoExec IN
    /\ At(t, "check")
    /\ run' = [run EXCEPT ![t].at = "gate", ![t].exec = kept, ![t].pending = kept,
                          ![t].fenced = (kept # NoExec)]
    /\ NoWrite /\ Serving /\ UNCHANGED <<sets, call, ticket>>

Gate(t) ==
    /\ At(t, "gate") /\ RunLock(t)
    /\ run' = IF State(t) = "parked" THEN Going(t, "closing", "deferred")
                                     ELSE Moved(t, "fence")
    /\ NoWrite /\ Serving /\ UNCHANGED <<sets, call, ticket>>

FirstStart(t) == prov[t].first = "never_started"

MayLaunch(t) ==
    /\ State(t) = "queued" /\ tasks[t].prio.level < 5
    /\ ~In(t, "stopping") /\ ~In(t, "pauseReq")

(* The launch fence of a first start.                                      *)
FenceFirst(t) ==
    /\ At(t, "fence") /\ RunLock(t) /\ FirstStart(t)
    /\ IF MayLaunch(t)
       THEN /\ Start(t, Gen(t), Op(t), FreshExec, NoExec, TRUE)
            /\ run' = [run EXCEPT ![t] = [@ EXCEPT !.at = "fenced", !.exec = FreshExec,
                                                  !.pending = FreshExec, !.fenced = TRUE]]
       ELSE run' = Going(t, "closing", "deferred") /\ UNCHANGED tables
    /\ Serving /\ OwnTables /\ UNCHANGED <<sets, call, ticket>>

(* The flags again, behind the fence's commit. *)
Fenced(t) ==
    /\ At(t, "fenced")
    /\ run' = IF In(t, "stopping") \/ In(t, "pauseReq")
              THEN Going(t, "closing", "deferred") ELSE Moved(t, "build")
    /\ NoWrite /\ Serving /\ UNCHANGED <<sets, call, ticket>>

(* The start of a continued task, or of one queued again after a park.  A  *)
(* stopped run goes on without one and is settled where it registers.      *)
FenceOrdinary(t) ==
    /\ At(t, "fence") /\ RunLock(t) /\ ~FirstStart(t)
    /\ \/ /\ run[t].exec # NoExec
          /\ run' = Moved(t, "build") /\ UNCHANGED tables
       \/ /\ run[t].exec = NoExec /\ In(t, "stopping")
          /\ run' = Moved(t, "build") /\ UNCHANGED tables
       \/ /\ run[t].exec = NoExec /\ ~In(t, "stopping")
          /\ IF State(t) = "queued" /\ tasks[t].prio.level < 5
             THEN /\ StartOrdinary(t, FreshExec)
                  /\ run' = [run EXCEPT ![t].at = "build", ![t].exec = FreshExec]
             ELSE run' = Going(t, "closing", "deferred") /\ UNCHANGED tables
    /\ Serving /\ OwnTables /\ UNCHANGED <<sets, call, ticket>>

Broken(t) == IF run[t].fenced THEN "broken" ELSE "unstarted"

(* Building the agent fails, or starting its turn. *)
LaunchFails(t) ==
    /\ run[t].at \in {"build", "admitted", "starting"}
    /\ run' = Going(t, "closing", Broken(t))
    /\ NoWrite /\ Serving /\ UNCHANGED <<sets, call, ticket>>

(* Mutant of Register: a pause that came while the agent was built is not  *)
(* looked for.                                                             *)
RegisterAnyway(t) ==
    /\ At(t, "build") /\ RunLock(t)
    /\ run' = IF In(t, "stopping") THEN Going(t, "closing", "stopped") ELSE Moved(t, "admitted")
    /\ UNCHANGED tables
    /\ Serving /\ OwnTables /\ UNCHANGED <<sets, call, ticket>>

(* The runner is there; the task must be running under its capture. *)
Register(t) ==
    /\ At(t, "build") /\ RunLock(t)
    /\ \/ /\ In(t, "stopping")
          /\ run' = Going(t, "closing", "stopped") /\ UNCHANGED tables
       \/ /\ ~In(t, "stopping") /\ State(t) = "parked"
          /\ run' = Going(t, "closing", "deferred") /\ UNCHANGED tables
       \/ /\ ~In(t, "stopping") /\ State(t) = "running"
          /\ run' = Moved(t, "admitted") /\ UNCHANGED tables
       \/ /\ ~In(t, "stopping") /\ State(t) = "queued"
          /\ IF capture[t].exec = run[t].exec
             THEN ContinueRunning(t, Keep) /\ run' = Moved(t, "admitted")
             ELSE run' = Going(t, "closing", Broken(t)) /\ UNCHANGED tables
    /\ Serving /\ OwnTables /\ UNCHANGED <<sets, call, ticket>>

(* Mutant of StartTurn: the flag is not looked at again.                   *)
StartTurnAnyway(t) ==
    /\ At(t, "admitted")
    /\ run' = Moved(t, "starting")
    /\ NoWrite /\ Serving /\ UNCHANGED <<sets, call, ticket>>

(* Still under Register's lock: a Stop that came meanwhile wins, or the    *)
(* runner loads its conversation and starts the turn.                      *)
StartTurn(t) ==
    /\ At(t, "admitted")
    /\ run' = IF In(t, "stopping") THEN Going(t, "closing", "stopped") ELSE Moved(t, "starting")
    /\ NoWrite /\ Serving /\ UNCHANGED <<sets, call, ticket>>

(* The turn's row is there, whatever came since the last look: a Stop that *)
(* did found no turn to cancel.                                            *)
BeginTurn(t) ==
    /\ At(t, "starting")
    /\ run' = [run EXCEPT ![t].at = "turn", ![t].pending = NoExec]
    /\ last' = [last EXCEPT ![t] = [exec |-> IF run[t].fenced THEN run[t].exec ELSE NoExec,
                                    status |-> "open"]]
    /\ turns' = [turns EXCEPT ![t] = @ + 1]
    /\ UNCHANGED <<tasks, park, prov, capture, recops, crashed, usedOps, resumeTurn, reserved>>
    /\ Serving /\ UNCHANGED <<sets, call, ticket>>

----------------------------------------------------------------------------
(* The turn: calls at step boundaries, captured tools, and its end *)

(* _select_park: the gate fences the pending call, the runner's turn is    *)
(* cancelled for the park, unless a Stop already cancels it.               *)
Selected(t) == IF Busy(t) /\ ~In(t, "stopping") THEN Adding(sets, "winners", t) ELSE sets

(* A Stop of t that waits for the lock since before its turn began.  It    *)
(* cancels the turn when it is served; one that comes later does at once.  *)
StopWaits(c, t) == Waits(c) /\ call[c].kind = "stop" /\ call[c].task = t
LateStop(c, t) == StopWaits(c, t) /\ call[c].ahead[t] = "starting"
Unstopped(t) ==
    In(t, "stopping") =>
        /\ \E c \in Askers : LateStop(c, t)
        /\ \A c \in Askers : StopWaits(c, t) => LateStop(c, t)

Working(t) == Busy(t) /\ ~In(t, "winners") /\ ~In(t, "stopping")

(* A plan or reflection that must wait: _points names it. *)
Ask(t) ==
    /\ Busy(t) /\ ~In(t, "winners") /\ Unstopped(t) /\ run[t].point = "none"
    /\ run' = [run EXCEPT ![t].point = "asked"]
    /\ NoWrite /\ Serving /\ UNCHANGED <<sets, call, ticket>>

(* _hold_call and _hold_approval. *)
HoldCall(t) ==
    /\ Working(t) /\ run[t].point = "asked" /\ RunLock(t)
    /\ Hold(t, Gen(t), Op(t), FreshOp)
    /\ run' = [run EXCEPT ![t].point = "held"]
    /\ sets' = IF In(t, "pauseReq") /\ tasks[t].prio.level = 5 THEN Selected(t) ELSE sets
    /\ Serving /\ OwnTables /\ UNCHANGED <<call, ticket>>

(* _release_call and _release_approval. *)
ReleaseCall(t) ==
    /\ Working(t) /\ run[t].point = "held" /\ RunLock(t)
    /\ ~In(t, "pauseReq")
    /\ Release(t, Gen(t), Op(t), FreshOp)
    /\ run' = [run EXCEPT ![t].point = "released"]
    /\ Serving /\ OwnTables /\ UNCHANGED <<sets, call, ticket>>

(* _call_started, once _ready is set: no pause was asked meanwhile. *)
CallStarts(t) ==
    /\ Working(t) /\ run[t].point = "released"
    /\ ~In(t, "pauseReq")
    /\ run' = [run EXCEPT ![t].point = "none"]
    /\ NoWrite /\ Serving /\ UNCHANGED <<sets, call, ticket>>

(* _capture_incomplete and _capture_process of a tool that runs.  Without  *)
(* the capture of this run the tool is refused and nothing is written.     *)
CaptureTool(t) ==
    /\ Working(t) /\ run[t].point = "none" /\ RunLock(t)
    /\ MarkIncomplete(t, Gen(t), Op(t), run[t].exec)
    /\ Serving /\ OwnTables /\ UNCHANGED <<sets, run, call, ticket>>

(* A call that waits goes on, or is cancelled with its turn.  It is        *)
(* refused, and the turn cancelled, when it comes to be held under a Stop  *)
(* that is still waiting itself.                                           *)
TurnEnds(t) ==
    /\ Busy(t)
    /\ \E out \in TurnOuts :
          /\ \/ out = "cancelled" /\ (In(t, "winners") \/ In(t, "stopping"))
             \/ /\ out # "cancelled" /\ run[t].point = "none"
                /\ ~In(t, "winners") /\ Unstopped(t)
          /\ run' = [run EXCEPT ![t].at = "closing", ![t].out = out]
          /\ last' = [last EXCEPT ![t].status = IF In(t, "winners") THEN "parked" ELSE out]
    /\ Serving /\ UNCHANGED <<tables, reserved, sets, call, ticket>>

----------------------------------------------------------------------------
(* The end of _run *)

Parks(t) == In(t, "winners") /\ ~In(t, "stopping")

(* The finally: the worker's resources close, for a park or for good.      *)
Close(t) ==
    /\ At(t, "closing")
    /\ run' = Moved(t, IF Parks(t) THEN "parking" ELSE "settling")
    /\ NoWrite /\ Serving /\ UNCHANGED <<sets, call, ticket>>

(* They do not close: the run stays, quarantined, until a restart. *)
CloseFails(t) ==
    /\ At(t, "closing") /\ Parks(t)
    /\ run' = Moved(t, "stuck")
    /\ sets' = Adding(sets, "quarantined", t)
    /\ NoWrite /\ Serving /\ UNCHANGED <<call, ticket>>

(* _retry_finalization, without the lock while it parks.                   *)
FinalizePark(t) ==
    /\ At(t, "parking")
    /\ IF In(t, "stopping")
       THEN /\ RunLock(t) /\ Finish(t, "cancelled")
            /\ sets' = Dropping(sets, {"eligible", "unavailable"}, t)
       ELSE /\ Park(t, Gen(t), Op(t), FreshOp)
            /\ sets' = Dropping(sets, {"unavailable"}, t)
    /\ run' = Moved(t, "settling")
    /\ Serving /\ OwnTables /\ UNCHANGED <<call, ticket>>

(* The task left its safe point meanwhile: the park cannot be saved, nor   *)
(* an interruption; the run goes on trying.                                *)
FinalizeFails(t) ==
    /\ At(t, "parking") /\ ~In(t, "stopping") /\ ~In(t, "unavailable")
    /\ ~AtSafePoint(t)
    /\ sets' = Adding(sets, "unavailable", t)
    /\ NoWrite /\ Serving /\ UNCHANGED <<run, call, ticket>>

FinalizeStuck(t) ==
    /\ At(t, "stuck") /\ RunLock(t) /\ Live(t) /\ State(t) # "interrupted"
    /\ IF In(t, "stopping") THEN GuardedStop(t, Gen(t), Op(t), FreshOp)
                            ELSE Interrupt(t, Gen(t), Op(t), FreshOp, TRUE)
    /\ sets' = IF In(t, "stopping") THEN Dropping(sets, {"eligible"}, t) ELSE sets
    /\ Serving /\ OwnTables /\ UNCHANGED <<run, call, ticket>>

(* A launch that broke behind its fence: the task is interrupted and waits *)
(* for a review.  Two transactions under one lock.                         *)
SettleBroken(t) ==
    /\ At(t, "settling") /\ RunLock(t)
    /\ run[t].out = "broken" /\ ~In(t, "stopping")
    /\ Prepare(t, Gen(t), Op(t), run[t].exec, "interrupted", TRUE, TRUE, TRUE)
    /\ sets' = Adding(Dropping(sets, {"eligible"}, t), "fenced", t)
    /\ run' = Moved(t, "intent")
    /\ Serving /\ OwnTables /\ UNCHANGED <<call, ticket>>

SettleIntent(t) ==
    /\ At(t, "intent")
    /\ \E r \in Prepared(t) : Commit(r)
    /\ sets' = Dropping(sets, {"winners"}, t)
    /\ Serving /\ OwnTables /\ UNCHANGED <<call, ticket>>
    /\ Schedule(Over(t))

(* Two mutants of SettleKept: the row of a run that deferred stays running *)
(* without it; a Stop that came meanwhile is not looked for.               *)
SettleKeptRunning(t) ==
    /\ At(t, "settling") /\ RunLock(t) /\ ~In(t, "stopping")
    /\ run[t].out = "deferred" \/ In(t, "winners")
    /\ sets' = Dropping(sets, {"winners"}, t)
    /\ Serving /\ OwnTables /\ UNCHANGED <<tables, call, ticket>>
    /\ Schedule(Gone(t))
SettleKeptAnyway(t) ==
    /\ At(t, "settling") /\ RunLock(t)
    /\ run[t].out = "deferred" \/ In(t, "winners")
    /\ IF State(t) = "running" THEN ChangeState(t, Keep, "queued") ELSE UNCHANGED tables
    /\ sets' = Dropping(sets, {"winners"}, t)
    /\ Serving /\ OwnTables /\ UNCHANGED <<call, ticket>>
    /\ Schedule(Gone(t))

(* The run deferred to a pause or parked: the task stays. *)
SettleKept(t) ==
    /\ At(t, "settling") /\ RunLock(t) /\ ~In(t, "stopping")
    /\ run[t].out = "deferred" \/ In(t, "winners")
    /\ IF State(t) = "running" THEN ChangeState(t, Keep, "queued") ELSE UNCHANGED tables
    /\ sets' = Dropping(sets, {"winners"}, t)
    /\ Serving /\ OwnTables /\ UNCHANGED <<call, ticket>>
    /\ Schedule(Gone(t))

(* Mutant of Outcome: a run that never came to a turn counts as done.      *)
OutcomeDone(t) ==
    IF run[t].out \in TurnOuts THEN run[t].out
    ELSE IF run[t].out = "stopped" \/ In(t, "stopping") THEN "cancelled" ELSE "done"

(* A Stop ends a run that has no outcome of its own. *)
Outcome(t) ==
    IF run[t].out \in TurnOuts THEN run[t].out
    ELSE IF run[t].out = "stopped" \/ In(t, "stopping") THEN "cancelled" ELSE "failed"

(* Mutant of Settle: nobody takes the slot that it frees.                  *)
SettleAlone(t) ==
    /\ At(t, "settling") /\ RunLock(t)
    /\ \/ In(t, "stopping")
       \/ run[t].out \notin {"broken", "deferred"} /\ ~In(t, "winners")
    /\ IF Live(t) THEN Finish(t, Outcome(t)) ELSE UNCHANGED tables
    /\ sets' = Dropping(sets, {"eligible", "stopping", "pauseReq", "winners"}, t)
    /\ Serving /\ OwnTables /\ UNCHANGED <<call, ticket>>
    /\ run' = Over(t)

Settle(t) ==
    /\ At(t, "settling") /\ RunLock(t)
    /\ \/ In(t, "stopping")
       \/ run[t].out \notin {"broken", "deferred"} /\ ~In(t, "winners")
    /\ IF Live(t) THEN Finish(t, Outcome(t)) ELSE UNCHANGED tables
    /\ sets' = Dropping(sets, {"eligible", "stopping", "pauseReq", "winners"}, t)
    /\ Serving /\ OwnTables /\ UNCHANGED <<call, ticket>>
    /\ Schedule(Over(t))

----------------------------------------------------------------------------
(* The person's requests *)

(* create *)
Submit(t) ==
    /\ NewLock
    /\ Create(t, Computed, TRUE)
    /\ sets' = Adding(sets, "eligible", t)
    /\ Serving /\ OwnTables /\ UNCHANGED <<call, ticket>>
    /\ Schedule(run)

(* message to a done, failed or stopped task: _continue.                   *)
Continue(t) ==
    /\ NewLock
    /\ ~Resident(t) /\ ~In(t, "quarantined")
    /\ Reopen(t, Keep)
    /\ sets' = Adding(sets, "eligible", t)
    /\ Serving /\ OwnTables /\ UNCHANGED <<call, ticket>>
    /\ Schedule(run)

(* update, before it waits for the lock: a Pause or a Stop flags a         *)
(* resident task, and a Resume of one that parks waits for its run.        *)
Standing == [t \in Tasks |-> run[t].at]

(* It waits for the lock, or a Resume for the park that is under way.      *)
Begins(c, kind, t) ==
    /\ sets' = CASE kind = "pause" /\ Resident(t) -> Adding(sets, "pauseReq", t)
                 [] kind = "stop" /\ Resident(t) -> Adding(sets, "stopping", t)
                 [] OTHER -> sets
    /\ call' = [call EXCEPT ![c] =
          [kind |-> kind, task |-> t, ahead |-> Standing, after |-> {d \in Askers : Waits(d)},
           step |-> IF kind = "resume" /\ In(t, "winners") /\ Resident(t)
                    THEN "waiting" ELSE "asked"]]

(* A person's pause, resume or stop is theirs: the task is not queued      *)
(* again behind it.                                                        *)
Request(c, kind, t) ==
    /\ phase = "ready" /\ call[c] = Idle
    /\ State(t) # "absent"
    /\ kind \in {"pause", "resume", "level", "stop"}
    /\ In(t, "quarantined") => kind = "stop"
    /\ ~In(t, "unavailable")
    /\ Begins(c, kind, t)
    /\ run' = IF kind = "level" THEN run ELSE [run EXCEPT ![t].yields = FALSE]
    /\ NoWrite /\ Serving /\ UNCHANGED ticket

Rejoins(c) ==
    call' = [call EXCEPT ![c] = [@ EXCEPT !.step = "asked", !.ahead = Standing,
                                          !.after = {d \in Askers : Waits(d)}]]

(* Mutant of ParkAwaited: a run that never ends is waited for.             *)
ParkAwaitedOnly(c) ==
    LET t == call[c].task IN
    /\ call[c].step = "waiting"
    /\ ~Resident(t) /\ Rejoins(c)
    /\ NoWrite /\ Serving /\ UNCHANGED <<sets, run, ticket>>

(* The park the Resume waited for is over; one that fails refuses it.      *)
ParkAwaited(c) ==
    LET t == call[c].task IN
    /\ call[c].step = "waiting"
    /\ \/ (In(t, "quarantined") \/ In(t, "unavailable")) /\ Rejected(c)
       \/ ~Resident(t) /\ Rejoins(c)
    /\ NoWrite /\ Serving /\ UNCHANGED <<sets, run, ticket>>

(* A request whose turn for the lock has come. *)
Served(c, kind) ==
    /\ call[c].kind = kind /\ call[c].step = "asked" /\ call[c].after = {}
    /\ LockFree /\ ~In(call[c].task, "unavailable")

(* Until the task's park is saved every request is refused, a Stop too.    *)
Unavailable(c) ==
    /\ Waits(c) /\ call[c].after = {} /\ LockFree /\ In(call[c].task, "unavailable")
    /\ Rejected(c)
    /\ NoWrite /\ Serving /\ UNCHANGED <<sets, run, ticket>>

(* What update refuses a task, whatever is asked but a Stop. *)
Refuses(t) ==
    \/ In(t, "fenced") \/ In(t, "quarantined")
    \/ State(t) \in Terminal

CanPark(t) == ~(State(t) = "parked" /\ tasks[t].prio.level = 5)

PauseRefused(c) ==
    LET t == call[c].task IN
    /\ Served(c, "pause")
    /\ \/ Refuses(t) /\ Rejected(c)
       \/ ~Refuses(t) /\ ~park[t].pending /\ ~CanPark(t) /\ Answered(c)
    /\ NoWrite /\ Serving /\ UNCHANGED <<sets, run, ticket>>

(* A pause that is pending already: at a hold, its park is selected now.   *)
PauseAgain(c) ==
    LET t == call[c].task IN
    /\ Served(c, "pause") /\ ~Refuses(t) /\ park[t].pending
    /\ sets' = IF State(t) = "held" THEN Selected(t) ELSE sets
    /\ Answered(c)
    /\ NoWrite /\ Serving /\ UNCHANGED <<run, ticket>>

(* A busy worker's pause waits for its next safe point. *)
PauseBusy(c) ==
    LET t == call[c].task IN
    /\ Served(c, "pause") /\ ~Refuses(t) /\ ~park[t].pending /\ CanPark(t)
    /\ Busy(t)
    /\ RequestPause(t, Gen(t), Op(t), FreshOp)
    /\ call' = [call EXCEPT ![c].step = "second"]
    /\ Serving /\ OwnTables /\ UNCHANGED <<sets, run, ticket>>

(* Mutant of PauseHold: a worker already at a hold is left there.          *)
PauseHoldLeft(c) ==
    /\ call[c].kind = "pause" /\ call[c].step = "second"
    /\ UNCHANGED <<tables, sets, run>>
    /\ Answered(c)
    /\ Serving /\ OwnTables /\ UNCHANGED ticket

(* ... and, under the same lock, a worker at a hold parks now; a call that *)
(* asks for a hold once more is held in its place.                         *)
PauseHold(c) ==
    LET t == call[c].task
        rehold == State(t) = "running" /\ run[t].point # "none" /\ tasks[t].hold = "running"
    IN
    /\ call[c].kind = "pause" /\ call[c].step = "second"
    /\ IF rehold THEN Hold(t, Gen(t), Op(t), FreshOp) ELSE UNCHANGED tables
    /\ sets' = IF rehold \/ State(t) = "held" THEN Selected(t) ELSE sets
    /\ run' = IF rehold THEN [run EXCEPT ![t].point = "held"] ELSE run
    /\ Answered(c)
    /\ Serving /\ OwnTables /\ UNCHANGED ticket

(* Without a busy worker the task is parked at once. *)
PauseIdle(c) ==
    LET t == call[c].task IN
    /\ Served(c, "pause") /\ ~Refuses(t) /\ ~park[t].pending /\ CanPark(t)
    /\ ~Busy(t)
    /\ Pause(t)
    /\ Answered(c)
    /\ Serving /\ OwnTables /\ UNCHANGED <<sets, ticket>>
    /\ Schedule(run)

(* An interrupted task is fenced or quarantined here: update refuses it.   *)
Resumable(t) == State(t) = "parked" /\ tasks[t].prio.level = 5

ResumeRefused(c) ==
    LET t == call[c].task IN
    /\ Served(c, "resume")
    /\ Refuses(t) \/ (~park[t].pending /\ ~Resumable(t))
    /\ Answered(c)
    /\ NoWrite /\ Serving /\ UNCHANGED <<sets, run, ticket>>

(* resume, or the withdrawal of a pause that is still pending. *)
ResumeFirst(c) ==
    LET t == call[c].task IN
    /\ Served(c, "resume") /\ ~Refuses(t)
    /\ IF park[t].pending THEN CancelPause(t, Gen(t), Op(t), FreshOp) ELSE Resume(t)
    /\ call' = [call EXCEPT ![c].step = "second"]
    /\ Serving /\ OwnTables /\ UNCHANGED <<sets, run, ticket>>

(* A task that was held under the withdrawn pause is released first.       *)
ResumeRelease(c) ==
    LET t == call[c].task IN
    /\ call[c].kind = "resume" /\ call[c].step = "second"
    /\ State(t) = "held"
    /\ Release(t, Gen(t), Op(t), FreshOp)
    /\ Serving /\ OwnTables /\ UNCHANGED <<sets, run, call, ticket>>

(* change(state="running") of a resident task: it goes on under the active *)
(* capture of a running task, and without any otherwise.                   *)
Rerun(t, choice) ==
    IF State(t) \in {"running", "held"} /\ capture[t].exec # NoExec
    THEN ContinueRunning(t, choice) ELSE RunBare(t, choice)

(* A resumed task may run: the pause request is forgotten. *)
Freed(t) == Adding(Dropping(sets, {"pauseReq"}, t), "eligible", t)

(* ... and, under the same lock, a resident worker goes on.  A first       *)
(* launch may not be run without its fence: update raises and leaves the   *)
(* rest undone.                                                            *)
ResumeSecond(c) ==
    LET t == call[c].task
        goesOn == Resident(t) /\ tasks[t].prio.level # 5
    IN
    /\ call[c].kind = "resume" /\ call[c].step = "second"
    /\ State(t) # "held"
    /\ \/ /\ goesOn /\ ~MayRun(t)
          /\ UNCHANGED <<tables, sets, run>>
       \/ /\ goesOn /\ MayRun(t)
          /\ Rerun(t, Keep)
          /\ sets' = Freed(t)
          /\ Schedule(run)
       \/ /\ ~goesOn
          /\ UNCHANGED tables
          /\ sets' = IF tasks[t].prio.level = 5 THEN Dropping(sets, {"pauseReq"}, t)
                                               ELSE Freed(t)
          /\ Schedule(run)
    /\ Answered(c)
    /\ Serving /\ OwnTables /\ UNCHANGED ticket

(* A runnable level; a P5 task runs again with it. *)
LevelRefused(c) ==
    LET t == call[c].task IN
    /\ Served(c, "level")
    /\ Refuses(t) \/ park[t].pending
       \/ (tasks[t].prio.level = 5 /\ Resident(t) /\ ~MayRun(t))
    /\ Answered(c)
    /\ NoWrite /\ Serving /\ UNCHANGED <<sets, run, ticket>>

LevelSet(c) ==
    LET t == call[c].task
        frees == tasks[t].prio.level = 5
    IN
    /\ Served(c, "level") /\ ~Refuses(t) /\ ~park[t].pending
    /\ \E level \in Raised :
          IF ~frees THEN ChangePriority(t, level)
          ELSE IF Resident(t) THEN Rerun(t, level) ELSE ChangeState(t, level, "queued")
    /\ sets' = IF frees THEN Freed(t) ELSE sets
    /\ Answered(c)
    /\ Serving /\ OwnTables /\ UNCHANGED ticket
    /\ Schedule(run)

(* Stop: a resident worker is flagged (again) and settles the task itself; *)
(* any other task is cancelled here.                                       *)
StopServed(c) ==
    LET t == call[c].task IN
    /\ Served(c, "stop")
    /\ IF ~Live(t) THEN NoWrite /\ UNCHANGED <<sets, run>>
       ELSE /\ OwnTables
            /\ sets' = LET flagged == IF Resident(t) THEN Adding(sets, "stopping", t) ELSE sets
                       IN  Dropping(flagged, {"eligible"}, t)
            /\ IF In(t, "quarantined")
               THEN GuardedStop(t, Gen(t), Op(t), FreshOp) /\ UNCHANGED run
               ELSE /\ IF Resident(t) THEN UNCHANGED tables ELSE Finish(t, "cancelled")
                    /\ Schedule(run)
    /\ Answered(c)
    /\ Serving /\ UNCHANGED ticket

----------------------------------------------------------------------------
(* _yield: a worker makes room for a task of a higher level *)

RoomEnds(t) ==
    /\ run' = [run EXCEPT ![t].room = "no", ![t].yields = FALSE]
    /\ call' = [call EXCEPT ![t] = Idle]
    /\ UNCHANGED sets

Barred(t) == In(t, "unavailable") \/ In(t, "quarantined")

YieldPauses(t) ==
    /\ run[t].room = "asked"
    /\ \/ Barred(t) /\ RoomEnds(t)
       \/ ~Barred(t) /\ Begins(t, "pause", t) /\ run' = [run EXCEPT ![t].room = "pausing"]
    /\ NoWrite /\ Serving /\ UNCHANGED ticket

(* Mutant of YieldLooks: a task that parked is left there.                 *)
YieldLooksOnly(t) ==
    /\ run[t].room = "pausing" /\ call[t].kind = "none"
    /\ \/ call[t].step = "raised" /\ RoomEnds(t)
       \/ /\ call[t].step # "raised"
          /\ run[t].at \notin {"turn", "closing", "parking", "stuck", "settling", "intent"}
          /\ RoomEnds(t)
    /\ NoWrite /\ Serving /\ UNCHANGED ticket

(* Once the run is over: a task that parked is resumed, unless it is not   *)
(* in _yielding any more.                                                  *)
YieldLooks(t) ==
    /\ run[t].room = "pausing" /\ call[t].kind = "none"
    /\ \/ call[t].step = "raised" /\ RoomEnds(t)
       \/ /\ call[t].step # "raised"
          /\ run[t].at \notin {"turn", "closing", "parking", "stuck", "settling", "intent"}
          /\ IF run[t].yields /\ State(t) = "parked"
             THEN run' = [run EXCEPT ![t].room = "back"] /\ UNCHANGED <<call, sets>>
             ELSE RoomEnds(t)
    /\ NoWrite /\ Serving /\ UNCHANGED ticket

YieldResumes(t) ==
    /\ run[t].room = "back"
    /\ \/ Barred(t) /\ RoomEnds(t)
       \/ ~Barred(t) /\ Begins(t, "resume", t) /\ run' = [run EXCEPT ![t].room = "resuming"]
    /\ NoWrite /\ Serving /\ UNCHANGED ticket

YieldOver(t) ==
    /\ run[t].room = "resuming" /\ call[t].kind = "none"
    /\ RoomEnds(t)
    /\ NoWrite /\ Serving /\ UNCHANGED ticket

----------------------------------------------------------------------------
(* resume: the controlled Resume of a recovered task *)

Overruled(t) == In(t, "stopping") \/ In(t, "quarantined") \/ In(t, "unavailable")

(* It looks at the task and then, outside the lock, reads the evidence.    *)
Recover(c, t) ==
    /\ NewLock /\ call[c] = Idle
    /\ ~Overruled(t)
    /\ Prepared(t) = {}
    /\ State(t) \in {"interrupted", "parked"}
    /\ call' = [call EXCEPT ![c] = [Idle EXCEPT !.kind = "recover", !.task = t, !.step = "read"]]
    /\ NoWrite /\ Serving /\ UNCHANGED <<sets, run, ticket>>

(* collect_evidence and decide: a started task without a card is refused.  *)
ReadEvidence(c) ==
    LET t == call[c].task IN
    /\ call[c].step = "read"
    /\ IF FirstStart(t) \/ tasks[t].card
       THEN /\ call' = [call EXCEPT ![c].step = "decided"]
            /\ ticket' = [ticket EXCEPT ![c] =
                  [task |-> t, gen |-> Gen(t), op |-> Op(t), state |-> State(t),
                   exec |-> prov[t].exec, pending |-> park[t].pending]]
       ELSE Answered(c) /\ UNCHANGED ticket
    /\ NoWrite /\ Serving /\ UNCHANGED <<sets, run>>

Evidence(c) == [first |-> ticket[c].exec = NoExec, exec |-> ticket[c].exec,
                gen |-> ticket[c].gen, op |-> ticket[c].op]

(* The commit, under the evidence it read (and, for uncertain evidence,    *)
(* the person's confirmation of it).                                       *)
RecoverCommit(c) ==
    LET t == call[c].task
        e == Evidence(c)
        op == FreshOp
    IN
    /\ call[c].step = "decided" /\ LockFree
    /\ ~Overruled(t)
    /\ ResumeRecovered(t, e.gen, e.op, e.exec, e.first, op)
    /\ reserved' = [reserved EXCEPT ![t][op] = NextTurn(t)]
    /\ sets' = LET open == Dropping(sets, {"fenced", "pauseReq"}, t)
               IN  IF tasks'[t].prio.level < 5 THEN Adding(open, "eligible", t) ELSE open
    /\ Answered(c) /\ Forgotten(c)
    /\ Serving /\ UNCHANGED last
    /\ Schedule(run)

(* A Stop came, or the task is not what the evidence says any more:        *)
(* nothing is written.                                                     *)
RecoverRefused(c) ==
    LET t == call[c].task
        e == Evidence(c)
    IN
    /\ call[c].step = "decided" /\ LockFree
    /\ \/ Overruled(t)
       \/ ~Matches(t, e.gen, e.op)
       \/ State(t) \notin {"interrupted", "parked"} \/ Prepared(t) # {}
       \/ e.first # FirstStart(t) \/ e.exec # prov[t].exec
       \/ ~e.first /\ ~tasks[t].card
    /\ Answered(c) /\ Forgotten(c)
    /\ NoWrite /\ Serving /\ UNCHANGED <<sets, run>>

(* A retry of a committed Resume: an interrupted task whose reserved turn  *)
(* did not begin is queued again, and a queued one is admitted.            *)
RetryQueues(t, op) == State(t) = "interrupted" /\ turns[t] < reserved[t][op]

RetryResume(t, op) ==
    /\ NewLock /\ reserved[t][op] # 0
    /\ ~In(t, "unavailable")
    /\ RetryQueues(t, op) \/ State(t) = "queued"
    /\ IF State(t) = "interrupted" THEN ChangeState(t, Keep, "queued") ELSE UNCHANGED tables
    /\ sets' = IF tasks[t].prio.level < 5 /\ ~In(t, "quarantined") /\ ~In(t, "stopping")
               THEN Adding(Dropping(sets, {"fenced", "pauseReq"}, t), "eligible", t)
               ELSE sets
    /\ Serving /\ OwnTables /\ UNCHANGED <<call, ticket>>
    /\ Schedule(run)

----------------------------------------------------------------------------
(* The specification *)

Startup ==
    \/ Boot \/ Recovered \/ OpenEnds
    \/ \E t \in Tasks : ResolveIntent(t) \/ LeaveAsIs(t) \/ Classify(t) \/ Admit(t)

Launching(t) ==
    \/ Check(t) \/ Gate(t) \/ FenceFirst(t) \/ Fenced(t) \/ FenceOrdinary(t)
    \/ Register(t) \/ StartTurn(t) \/ BeginTurn(t)

InTurn(t) == HoldCall(t) \/ ReleaseCall(t) \/ CallStarts(t) \/ TurnEnds(t)

Ending(t) ==
    \/ Close(t) \/ FinalizePark(t) \/ FinalizeFails(t) \/ FinalizeStuck(t)
    \/ SettleBroken(t) \/ SettleIntent(t) \/ SettleKept(t) \/ Settle(t)

RunStep(t) == Resident(t) /\ (Launching(t) \/ InTurn(t) \/ Ending(t))

Yielding(t) ==
    /\ run[t].room # "no"
    /\ YieldPauses(t) \/ YieldLooks(t) \/ YieldResumes(t) \/ YieldOver(t)

Serve(c) ==
    /\ call[c].kind # "none"
    /\ \/ ParkAwaited(c) \/ Unavailable(c)
       \/ PauseRefused(c) \/ PauseAgain(c) \/ PauseBusy(c) \/ PauseHold(c) \/ PauseIdle(c)
       \/ ResumeRefused(c) \/ ResumeFirst(c) \/ ResumeRelease(c) \/ ResumeSecond(c)
       \/ LevelRefused(c) \/ LevelSet(c)
       \/ StopServed(c)
       \/ ReadEvidence(c) \/ RecoverCommit(c) \/ RecoverRefused(c)

Person ==
    \/ \E t \in Tasks : Submit(t) \/ Continue(t)
    \/ \E c \in Clients, t \in Tasks :
          \/ Recover(c, t)
          \/ \E kind \in {"pause", "resume", "level", "stop"} : Request(c, kind, t)
    \/ \E t \in Tasks, op \in Ops : RetryResume(t, op)

Work(t) == Ask(t) \/ CaptureTool(t)

Fault == Crash \/ \E t \in Tasks : LaunchFails(t) \/ CloseFails(t)

System ==
    \/ Startup
    \/ \E t \in Tasks : RunStep(t) \/ Yielding(t)
    \/ \E c \in Askers : Serve(c)

(* Ids never run out; a model has enough of them for its bounds. *)
IdsLeft == FreshOps # {} /\ FreshExecs # {}

Next ==
    /\ IdsLeft
    /\ System \/ Person \/ (\E t \in Tasks : Work(t)) \/ Fault

Spec == Init /\ [][Next]_vars

(* The stores over the same tables, called by anyone at any time. *)
Plane == INSTANCE TaskPlane WITH
    Callers <- Clients, NewPriorities <- {Computed}, UserChoices <- Raised \cup {Keep},
    Outcomes <- {"interrupted"} \cup TurnOuts, Endings <- TurnOuts

----------------------------------------------------------------------------
(* Properties *)

(* The row and the run agree: while the gateway serves, a running or held  *)
(* row has its coroutine, whatever a crash left, whichever run ended early *)
(* and whoever paused, resumed or stopped it meanwhile; and a busy         *)
(* worker's row is running or held under the execution that recovery would *)
(* judge it by.                                                            *)
RowHasRun ==
    /\ phase = "ready" => \A t \in Tasks : State(t) \in {"running", "held"} => Resident(t)
    /\ \A t \in Tasks : Busy(t) =>
          State(t) \in {"running", "held"} /\ prov[t].exec = run[t].exec

(* A turn runs under the capture of its own execution; without it every    *)
(* tool call is refused.  (workers.py: "The capture row exists since the   *)
(* launch (a first start) or the start above (every other).")              *)
TurnHasCapture == \A t \in Tasks : Busy(t) => capture[t].exec = run[t].exec

(* docs/reference/api-v2.md: "At most four workers are resident at once,   *)
(* including quarantined workers", however runs start, end and get stuck;  *)
(* and no task waits unseen: while the lock is free a queued task that may *)
(* run has a coroutine, or it is fenced, or it is eligible and every slot  *)
(* is taken.                                                               *)
SlotsShared ==
    /\ Cardinality({t \in Tasks : Resident(t)}) <= Slots
    /\ LockFree => \A t \in Tasks :
          State(t) = "queued" /\ tasks[t].prio.level < 5 /\ ~In(t, "fenced") /\ ~Resident(t) =>
              In(t, "eligible") /\ Cardinality({u \in Tasks : Resident(u)}) >= Slots

(* Nothing runs twice: after a task's first turn another one begins only   *)
(* where a parked turn goes on, or as the turn that a person's Resume or   *)
(* message reserved, across any crash, retry and re-admission.  And        *)
(* nothing runs unreviewed: a task that a crash or a broken launch         *)
(* interrupted, its first turn begun or not, is queued again only for such *)
(* a reserved turn.                                                        *)
NoReplay ==
    [][\A t \in Tasks :
          /\ turns'[t] # turns[t] /\ turns[t] # 0 =>
                last[t].status = "parked" \/ resumeTurn[t] = turns'[t]
          /\ State(t) = "interrupted" =>
                \/ State(t)' \in {"interrupted"} \cup Terminal
                \/ State(t)' = "queued" /\ ResumeWaits(t)']_vars

(* workers.py: "Stop always wins: it sets its flag without waiting for     *)
(* this lock, so the awaits above may have let it in; no turn starts once  *)
(* it was requested", wherever the launch stood.                           *)
StopBeforeTurn ==
    [][\A t \in Tasks : In(t, "stopping") => turns'[t] = turns[t]]_vars

(* Stop wins all the same: a task whose Stop was asked begins a turn only  *)
(* where that Stop came while the turn was being started, and it is still  *)
(* unanswered then: it waits for the lock that the start holds and cancels *)
(* the turn.  A Stop that came before the last look, at any await of the   *)
(* launch and of any earlier run, or that was answered, leaves no turn to  *)
(* begin.                                                                  *)
LateStopWaits ==
    [][\A t \in Tasks : In(t, "stopping") /\ turns'[t] # turns[t] =>
          \E c \in Askers : LateStop(c, t)]_vars

(* A task is done only by a turn that completed: neither recovery, nor a   *)
(* Stop, nor a run that ends without a turn makes one of it.               *)
DoneWasDone == \A t \in Tasks : State(t) = "done" => last[t].status = "done"

(* The turn that a message reserved.  (A Resume of a pause that came as    *)
(* the run ended is overtaken by that run's outcome.)                      *)
Promised(t) == ResumeWaits(t) /\ \A op \in Ops : reserved[t][op] # resumeTurn[t]

(* task_store.py: "A committed Resume row reserves that turn, so a restart *)
(* before it starts re-admits the task rather than fencing it": no task is *)
(* done while the turn of a person's message has not begun.                *)
PromiseIsKept == \A t \in Tasks : State(t) = "done" => ~Promised(t)

(* Startup always comes to an end, from whatever rows the crashes left;    *)
(* and every request is answered: nobody waits for the lock, or for a      *)
(* park, for good.  A Stop comes to its end too: the task is finished, or  *)
(* the process died.                                                       *)
RequestsEnd ==
    /\ phase # "ready" ~> phase = "ready"
    /\ \A c \in Clients : call[c] # Idle ~> call[c] = Idle
    /\ \A t \in Tasks : In(t, "stopping") ~> ~Live(t) \/ phase # "ready"

(* docs/reference/scheduler.md: a worker that made room "is then queued    *)
(* again": a task that parked for its _yield goes on waiting for a slot,   *)
(* unless a person's pause, resume or stop made it theirs or the process   *)
(* died.                                                                   *)
RoomGivenBack == \A t \in Tasks : State(t) = "parked" /\ run[t].yields ~>
    State(t) # "parked" \/ (~run[t].yields /\ run[t].room # "no") \/ phase # "ready"

(* A pending pause is served: the task parks, finishes or goes on.         *)
PauseServed == \A t \in Tasks : park[t].pending /\ phase = "ready" ~>
                  ~park[t].pending \/ phase # "ready" \/ State(t) = "interrupted"

(* docs/reference/api-v2.md: "At a held plan, reflection or undelivered     *)
(* approval, the worker parks, closes its resources and saves a card": a   *)
(* run that closed its worker for a park comes to an end.                  *)
ParkEnds == \A t \in Tasks : At(t, "parking") ~> ~At(t, "parking")

(* docs/reference/scheduler.md: "a Pause, Resume or Stop from a person on  *)
(* a worker that is making room cancels the automatic queueing again": one *)
(* that was answered is not undone by the resume of a _yield.              *)
TheirPauseStays ==
    \A t \in Tasks : call[t].kind = "resume" /\ call[t].step = "second" =>
        run[t].yields \/ \E c \in Clients : call[c].task = t

(* docs/reference/scheduler.md: "A task paused before it starts does not   *)
(* start a worker until resumed": and once resumed it starts.              *)
ResumedStarts == \A t \in Tasks :
    (State(t) = "queued" /\ phase = "ready" /\ tasks[t].prio.level < 5 /\ ~In(t, "fenced")) ~>
        (State(t) # "queued" \/ phase # "ready")

(* The gateway only ever does to the tables what the stores allow, with    *)
(* the identity it just read or the evidence it kept.                      *)
PlaneSpec == Plane!Init /\ [][Plane!Next]_(Plane!vars)
=============================================================================
