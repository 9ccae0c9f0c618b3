------------------------------ MODULE ChatGate ------------------------------
(***************************************************************************)
(* The gate every model call of a chat or a worker goes through            *)
(* (gateway/chat_gate.py) and the decision it asks of the scheduler policy *)
(* (scheduler/policy.py, scheduler/accounting.py).  Two tables follow a    *)
(* call: `calls`, what the gate waits on, and `state`, what the policy     *)
(* counts.  A handler changes both and asks for decisions in between,      *)
(* with no await; FinishCall and the lock's end ask for two in a row.      *)
(*                                                                         *)
(* The gate runs with lock_gate = "wait"; "record" is the behaviours in    *)
(* which the lock stays free.  A level is Raised (P0, P1) or not (P2-P4);  *)
(* level 5 is a pause.  Reasons, the log and the clock's instants are left *)
(* out; memory and machine gates other than the lock never bind here.      *)
(***************************************************************************)
EXTENDS Naturals, FiniteSets

CONSTANTS
    Chats, Workers,   \* the sessions that call the model
    NoSession,
    Ids,              \* names for the calls live at one time
    NSrv, RF,         \* the server's slots, and those kept for unseen callers
    NFg, NA           \* background calls while a chat is focused, and else

Sessions == Chats \cup Workers

ASSUME GateAssumption ==
    /\ Chats \cap Workers = {} /\ NoSession \notin Sessions
    /\ NSrv \in Nat \ {0} /\ RF \in Nat /\ NFg \in Nat /\ NA \in Nat \ {0}

VARIABLES
    policy,    \* "off", "fcfs" or "class"; fixed for a run
    calls,     \* the gate's _calls: the live calls
    submitted, \* how many there were; a call's `at` is its place in their order
    registry,  \* the worker tasks registered, and whether they are over
    state,     \* the policy's: tasks, calls it knows, those in flight, window
    urgent,    \* the sessions at a raised level
    paused,    \* the worker tasks paused
    focus,     \* the chat being typed in
    lock,      \* the machine's lock as last observed
    closed

gateVars == <<policy, calls, submitted, registry, state, urgent, paused, focus,
              lock, closed>>

Kinds == {"plan", "retry", "embed"}
NoCall == [session |-> NoSession]
Call == [session : Sessions, kind : Kinds, lane : BOOLEAN, lock_waiting : BOOLEAN,
         park_fenced : BOOLEAN, admitted : BOOLEAN, at : Nat]
Phases == {"none", "live", "over"}
LiveCalls(c) == {i \in Ids : c[i] # NoCall}

GateTypeOK ==
    /\ policy \in {"off", "fcfs", "class"}
    /\ calls \in [Ids -> Call \cup {NoCall}]
    /\ submitted \in Nat
    /\ \A i \in LiveCalls(calls) : calls[i].at \in 1 .. submitted
    /\ \A i, j \in LiveCalls(calls) : calls[i].at = calls[j].at => i = j
    /\ registry \in [Workers -> Phases]
    /\ state \in [tasks : [Sessions -> Phases], calls : SUBSET Ids,
                  inflight : SUBSET Ids, window : BOOLEAN]
    /\ urgent \subseteq Sessions /\ paused \subseteq Workers
    /\ focus \in Chats \cup {NoSession}
    /\ lock \in {"none", "foreign"} /\ closed \in BOOLEAN

GateInit ==
    /\ policy \in {"off", "fcfs", "class"}
    /\ calls = [i \in Ids |-> NoCall] /\ submitted = 0
    /\ registry = [w \in Workers |-> "none"]
    /\ state = [tasks |-> [x \in Sessions |-> "none"], calls |-> {},
                inflight |-> {}, window |-> FALSE]
    /\ urgent = {} /\ paused = {} /\ focus = NoSession
    /\ lock = "none" /\ closed = FALSE

----------------------------------------------------------------------------
(* Calls, of one table c of them. *)

Of(c, x) == {i \in LiveCalls(c) : c[i].session = x}
Planning(c, i) == c[i].kind # "embed"
IsLane(c, i) == c[i].lane
IsHoldable(c, i) == c[i].kind = "plan" /\ ~c[i].lane
IsRetry(c, i) == c[i].kind = "retry" /\ ~c[i].lane

(* The session whose task the policy books a call on, if any. *)
TaskOf(c, i) ==
    IF c[i].session \in Workers \/ (Planning(c, i) /\ ~c[i].lane)
    THEN c[i].session ELSE NoSession

Admit(c, ids) == [i \in Ids |-> IF i \in ids /\ c[i] # NoCall /\ ~c[i].park_fenced
                                THEN [c[i] EXCEPT !.admitted = TRUE] ELSE c[i]]

Reserve == IF NSrv <= 2 THEN 0 ELSE RF
Limit == IF NSrv > 1 + Reserve THEN NSrv - 1 - Reserve ELSE 1

NonLane(c, ids) == {i \in ids : ~IsLane(c, i)}
Background(c, s, ids) ==
    {i \in NonLane(c, ids) : LET t == TaskOf(c, i) IN
        t = NoSession \/ s.tasks[t] # "live" \/ t \notin urgent'}

Earliest(c, ids) == {i \in ids : \A j \in ids : c[i].at <= c[j].at}

(* The lane's oldest pending call, once the one before it has ended. *)
AdmitLane(c, s) ==
    IF \/ lock' = "foreign"
       \/ \E i \in s.inflight : IsLane(c, i)
       \/ Cardinality(s.inflight) >= NSrv
    THEN {} ELSE Earliest(c, {i \in s.calls \ s.inflight : IsLane(c, i)})

(* What is never held: an embedding, and a retry but for the lock. *)
Unheld(c, s) ==
    {i \in s.calls \ s.inflight :
        /\ ~IsLane(c, i) /\ ~IsHoldable(c, i)
        /\ IsRetry(c, i) => lock' # "foreign"
        /\ LET t == TaskOf(c, i) IN t = NoSession \/ s.tasks[t] = "live"}

(* One call of each task that is neither blocked nor in flight already. *)
Candidates(c, s) ==
    LET pending(t) == {i \in s.calls \ s.inflight : IsHoldable(c, i) /\ TaskOf(c, i) = t}
        ready == {t \in Sessions :
            /\ s.tasks[t] = "live" /\ t \notin paused' /\ lock' # "foreign"
            /\ \A i \in s.inflight : TaskOf(c, i) # t}
    IN UNION {Earliest(c, pending(t)) : t \in ready}

(* "fcfs" takes them as they came, "class" the raised ones first; which of *)
(* the same class comes first (rank, start, creation) is left open.        *)
InTurn(c, i, j) ==
    IF policy = "fcfs" THEN c[i].at <= c[j].at
    ELSE c[j].session \in urgent' => c[i].session \in urgent'

Turns(c, ids) ==
    {turn \in [ids -> 1 .. Cardinality(ids)] :
        \A i, j \in ids : i # j =>
            turn[i] # turn[j] /\ (turn[i] < turn[j] => InTurn(c, i, j))}

(* Mutant of BackgroundCap: the cap is the same under focus.                *)
BackgroundCapUnfocused(c, s, lane) == NA

(* How many background calls may be out, with `lane` just admitted. *)
BackgroundCap(c, s, lane) ==
    IF s.window \/ \E i \in s.inflight \cup lane : IsLane(c, i) THEN NFg ELSE NA

(* What one decision may leave in flight: each candidate is taken or not by *)
(* what is in flight when it is its turn.                                   *)
Dispatched(c, s) ==
    LET lane == AdmitLane(c, s)
        free == s.inflight \cup lane \cup Unheld(c, s)
        room(i, flying) ==
            /\ Cardinality(NonLane(c, flying)) < Limit
            /\ \/ c[i].session \in urgent'
               \/ Cardinality(Background(c, s, flying)) < BackgroundCap(c, s, lane)
        passed(taken, turn) ==
            \A i \in Candidates(c, s) :
                i \in taken <=> room(i, free \cup {j \in taken : turn[j] < turn[i]})
    IN {free \cup taken : taken \in
            {k \in SUBSET Candidates(c, s) :
                \E turn \in Turns(c, Candidates(c, s)) : passed(k, turn)}}

Off == policy = "off" \/ closed
Both(c, s) == [calls |-> c, state |-> s]

(* The tables after a decision, whichever order it takes. *)
Transition(c, s) ==
    IF Off THEN {Both(c, state)}
    ELSE {Both(Admit(c, flying), [s EXCEPT !.inflight = flying])
          : flying \in Dispatched(c, s)}

(* A planning call opens its chat's task; a worker's is registered before. *)
Submitted(c, s, ids) ==
    [s EXCEPT !.calls = @ \cup ids,
              !.tasks = [x \in Sessions |->
                  IF x \in Chats /\ \E i \in ids : c[i].session = x /\ Planning(c, i)
                  THEN "live" ELSE @[x]]]

(* The calls the lock kept from the policy enter it, of the planning calls *)
(* of one session one at a time.                                           *)
ReleaseLockWaiters(r) ==
    LET c == r.calls
        waiting == {i \in LiveCalls(c) : c[i].lock_waiting /\ ~c[i].park_fenced}
        busy(x) == \E j \in Of(c, x) : ~c[j].lock_waiting /\ Planning(c, j)
        turn(x) == {j \in waiting : c[j].session = x /\ Planning(c, j)}
        ready == {i \in waiting : \/ Off \/ ~Planning(c, i)
                                  \/ /\ ~busy(c[i].session)
                                     /\ i \in Earliest(c, turn(c[i].session))}
        let_in == [i \in Ids |-> IF i \in ready
                                 THEN [c[i] EXCEPT !.lock_waiting = FALSE] ELSE c[i]]
    IN IF Off THEN {Both(Admit(let_in, ready), r.state)}
       ELSE IF ready = {} THEN {r}
       ELSE Transition(let_in, Submitted(let_in, r.state, ready))

(* A call leaves both tables; with its chat's last one the chat's task is  *)
(* done.  One the lock kept was never in the policy's.                     *)
Left(r, i) ==
    LET x == r.calls[i].session
        c == [r.calls EXCEPT ![i] = NoCall]
        s == [r.state EXCEPT
                !.calls = @ \ {i}, !.inflight = @ \ {i},
                !.window = @ \/ (i \in r.state.inflight /\ IsLane(r.calls, i)),
                !.tasks[x] = IF x \in Chats /\ @ # "none" /\ Of(c, x) = {}
                             THEN "over" ELSE @]
    IN IF r.calls[i].lock_waiting THEN {Both(c, r.state)} ELSE Transition(c, s)

(* Mutant of CallFinished: the call it kept with the lock stays there.     *)
FinishedAlone(r, i) == Left(r, i)

(* It may let the next call of its chat, kept with the lock, come after.   *)
CallFinished(r, i) ==
    IF lock' = "foreign" \/ closed THEN Left(r, i)
    ELSE UNION {ReleaseLockWaiters(a) : a \in Left(r, i)}

Results(rs) == \E r \in rs : calls' = r.calls /\ state' = r.state

----------------------------------------------------------------------------
(* The handlers. *)

(* Mutant of Place: a call's place is among the calls now live.             *)
PlaceAmongLive == Cardinality(LiveCalls(calls)) + 1

Place == submitted + 1

Submit(x, kind, i) ==
    LET call == [session |-> x, kind |-> kind, park_fenced |-> FALSE,
                 lane |-> kind # "embed" /\ x \in Chats /\ x = focus,
                 lock_waiting |-> lock = "foreign" /\ ~closed,
                 admitted |-> Off /\ (lock # "foreign" \/ closed),
                 at |-> Place]
        c == [calls EXCEPT ![i] = call]
    IN
    /\ calls[i] = NoCall
    /\ x \in Workers => registry[x] = "live"  \* else refused
    /\ submitted' = submitted + 1
    /\ UNCHANGED <<policy, registry, urgent, paused, focus, lock, closed>>
    /\ Results(IF call.lock_waiting THEN {Both(c, state)}
               ELSE Transition(c, Submitted(c, state, {i})))

(* The caller's end of a call: answered, failed, or stopped while it waits. *)
FinishCall(i) ==
    /\ i \in LiveCalls(calls)
    /\ UNCHANGED <<policy, submitted, registry, urgent, paused, focus, lock, closed>>
    /\ Results(CallFinished(Both(calls, state), i))

SetMachine(seen) ==
    /\ seen # lock /\ lock' = seen
    /\ UNCHANGED <<policy, submitted, registry, urgent, paused, focus, closed>>
    /\ IF closed THEN UNCHANGED <<calls, state>>
       ELSE LET decided == Transition(calls, state) IN
            Results(IF seen = "foreign" THEN decided
                    ELSE UNION {ReleaseLockWaiters(d) : d \in decided})

Focus(x) ==
    /\ x \in Chats /\ focus' = x
    /\ UNCHANGED <<policy, submitted, registry, urgent, paused, lock, closed>>
    /\ Results(Transition(calls, [state EXCEPT !.window = TRUE]))

(* The focus window ends by the clock: the gate has no timer. *)
WindowLapses ==
    /\ state.window /\ state' = [state EXCEPT !.window = FALSE]
    /\ UNCHANGED <<policy, calls, submitted, registry, urgent, paused, focus, lock, closed>>

SetSessionLevel(x) ==
    /\ x \in Chats
    /\ urgent' = IF x \in urgent THEN urgent \ {x} ELSE urgent \cup {x}
    /\ UNCHANGED <<policy, submitted, registry, paused, focus, lock, closed>>
    /\ IF state.tasks[x] = "none" THEN UNCHANGED <<calls, state>>
       ELSE Results(Transition(calls, state))

SetTaskLevel(w, choice) ==
    /\ registry[w] = "live"
    /\ urgent' = IF choice = "raised" THEN urgent \cup {w} ELSE urgent \ {w}
    /\ paused' = IF choice = "later" THEN paused \cup {w} ELSE paused \ {w}
    /\ UNCHANGED <<policy, submitted, registry, focus, lock, closed>>
    /\ Results(Transition(calls, state))

(* update_task(paused=...), or another field when `held` is what it was. *)
UpdateTask(w, held) ==
    /\ registry[w] = "live"
    /\ paused' = IF held THEN paused \cup {w} ELSE paused \ {w}
    /\ UNCHANGED <<policy, submitted, registry, urgent, focus, lock, closed>>
    /\ Results(Transition(calls, state))

RegisterTask(w, raised, held) ==
    /\ registry[w] = "none"
    /\ registry' = [registry EXCEPT ![w] = "live"]
    /\ urgent' = IF raised THEN urgent \cup {w} ELSE urgent \ {w}
    /\ paused' = IF held THEN paused \cup {w} ELSE paused \ {w}
    /\ UNCHANGED <<policy, submitted, focus, lock, closed>>
    /\ Results(Transition(calls, [state EXCEPT !.tasks[w] = "live"]))

(* A task ends, and with it the calls of it the gate has not let out, one  *)
(* by one as they came: by[n] is how it may be once n was reached.         *)
FinishTask(w) ==
    LET due(r, n) == {i \in Of(r.calls, w) : r.calls[i].at = n /\ ~r.calls[i].admitted}
        ended(r, n) == IF due(r, n) = {} THEN {r}
                       ELSE UNION {CallFinished(r, i) : i \in due(r, n)}
        by[n \in 0 .. submitted] ==
            IF n = 0 THEN Transition(calls, [state EXCEPT !.tasks[w] = "over"])
            ELSE UNION {ended(r, n) : r \in by[n - 1]}
    IN
    /\ registry[w] = "live"
    /\ registry' = [registry EXCEPT ![w] = "over"]
    /\ UNCHANGED <<policy, submitted, urgent, paused, focus, lock, closed>>
    /\ Results(by[submitted])

(* Mutant of TryPark: the policy keeps the call that the fence keeps back.  *)
TryParkBehindPolicy(i, accepted) ==
    /\ i \in LiveCalls(calls) /\ calls[i].session \in Workers
    /\ registry[calls[i].session] = "live" /\ Of(calls, calls[i].session) = {i}
    /\ Planning(calls, i) /\ ~calls[i].admitted /\ ~calls[i].park_fenced
    /\ UNCHANGED <<policy, submitted, registry, urgent, paused, focus, lock, closed>>
    /\ calls' = [calls EXCEPT ![i].park_fenced = accepted] /\ UNCHANGED state

(* The fence a park puts up around a worker's pending call.  A turn that   *)
(* cannot be cancelled any more takes it down again.                       *)
TryPark(i, accepted) ==
    LET w == calls[i].session
        fenced == [calls EXCEPT ![i].park_fenced = TRUE] IN
    /\ i \in LiveCalls(calls) /\ w \in Workers /\ registry[w] = "live" /\ Of(calls, w) = {i}
    /\ Planning(calls, i) /\ ~calls[i].admitted /\ ~calls[i].park_fenced
    /\ UNCHANGED <<policy, submitted, registry, urgent, paused, focus, lock, closed>>
    /\ IF accepted THEN calls' = fenced /\ state' = [state EXCEPT !.calls = @ \ {i}]
       ELSE Results(IF i \in state.calls THEN Transition(calls, state)
                    ELSE IF calls[i].lock_waiting /\ lock # "foreign"
                    THEN ReleaseLockWaiters(Both(calls, state))
                    ELSE {Both(calls, state)})

(* A closed chat's bookkeeping, or a finished worker's, goes. *)
ForgetSession(x) ==
    /\ Of(calls, x) = {} /\ (x \in Workers => registry[x] # "live")
    /\ urgent' = IF x \in Chats \/ registry[x] = "none" THEN urgent \ {x} ELSE urgent
    /\ state' = IF Off THEN state
                ELSE [state EXCEPT !.tasks[x] = "none",
                                   !.calls = {i \in @ : TaskOf(calls, i) # x}]
    /\ UNCHANGED <<policy, calls, submitted, registry, paused, focus, lock, closed>>

DiscardTask(w) ==
    /\ registry[w] = "over" /\ Of(calls, w) = {}
    /\ registry' = [registry EXCEPT ![w] = "none"]
    /\ urgent' = urgent \ {w} /\ paused' = paused \ {w}
    /\ state' = IF Off THEN state ELSE [state EXCEPT !.tasks[w] = "none"]
    /\ UNCHANGED <<policy, calls, submitted, focus, lock, closed>>

Close ==
    /\ ~closed /\ closed' = TRUE
    /\ calls' = [i \in Ids |-> NoCall]
    /\ UNCHANGED <<policy, submitted, registry, state, urgent, paused, focus, lock>>

GateNext ==
    \/ \E x \in Sessions, kind \in Kinds, i \in Ids : Submit(x, kind, i)
    \/ \E i \in Ids : FinishCall(i) \/ TryPark(i, TRUE) \/ TryPark(i, FALSE)
    \/ \E seen \in {"none", "foreign"} : SetMachine(seen)
    \/ \E x \in Chats : Focus(x) \/ SetSessionLevel(x)
    \/ WindowLapses
    \/ \E w \in Workers :
          \/ \E raised, held \in BOOLEAN : RegisterTask(w, raised, held)
          \/ \E choice \in {"raised", "lower", "later"} : SetTaskLevel(w, choice)
          \/ \E held \in BOOLEAN : UpdateTask(w, held)
          \/ FinishTask(w) \/ DiscardTask(w)
    \/ \E x \in Sessions : ForgetSession(x)
    \/ Close

GateSpec == GateInit /\ [][GateNext]_gateVars

----------------------------------------------------------------------------
Enforced == policy # "off" /\ ~closed
Flying(c) == {i \in LiveCalls(c) : c[i].admitted}
InFlight == Flying(calls)
Waits(i) == i \in LiveCalls(calls) /\ ~calls[i].admitted

(* The gate and the policy agree on the calls: each slot the policy counts *)
(* is a call still out, a call out is counted, and a call held is one the  *)
(* policy will look at unless the lock or a park's fence keeps it back.  A *)
(* fenced call is not sent, and a task that is over has nothing waiting.   *)
(* (submit, finish, finish_task, try_park, _release_lock_waiters)          *)
TablesAgree ==
    /\ Enforced =>
        /\ state.inflight = InFlight
        /\ state.calls \ state.inflight =
              {i \in LiveCalls(calls) : Waits(i) /\ ~calls[i].lock_waiting /\ ~calls[i].park_fenced}
    /\ \A i \in Ids : Waits(i) =>
        /\ ~closed
        /\ calls[i].session \in Workers => registry[calls[i].session] = "live"

Sibling(c, i, j) == j # i /\ c[j].session = c[i].session

LockKeeps(c, i) ==
    /\ c[i].lock_waiting
    /\ \/ lock = "foreign"
       \/ /\ Planning(c, i)
          /\ \E j \in LiveCalls(c) :
                Sibling(c, i, j) /\ Planning(c, j) /\ ~c[j].lock_waiting

LaneKeeps(c, i) ==
    /\ IsLane(c, i)
    /\ \/ \E j \in Flying(c) : IsLane(c, j)
       \/ Cardinality(Flying(c)) >= NSrv

LowestCap == IF NFg < NA THEN NFg ELSE NA

PolicyKeeps(c, s, i) ==
    LET lower(j) == LET t == TaskOf(c, j) IN
            t = NoSession \/ s.tasks[t] # "live" \/ t \notin urgent
    IN
    /\ IsHoldable(c, i)
    /\ s.tasks[c[i].session] = "live"
    /\ \/ c[i].session \in paused
       \/ \E j \in s.calls : Sibling(c, i, j)
       \/ Cardinality(NonLane(c, Flying(c))) >= Limit
       \/ /\ c[i].session \notin urgent
          /\ Cardinality({j \in NonLane(c, Flying(c)) : lower(j)}) >= LowestCap

(* A call waits only for a reason that still stands: the lock, a fence, a  *)
(* sibling before it, its task's pause, or slots and caps that are full.   *)
(* Whatever ends a reason decides again, so that no call is left behind.   *)
(* The focus window's own end is the exception: either cap counts here.    *)
(* (_transition after each event, _release_lock_waiters, wake)             *)
HeldForAReason ==
    \A i \in Ids : Waits(i) =>
        \/ calls[i].park_fenced
        \/ LockKeeps(calls, i)
        \/ i \in state.calls /\ (\/ lock = "foreign"
                                \/ LaneKeeps(calls, i)
                                \/ PolicyKeeps(calls, state, i))

(* No call leaves under a foreign lock, the lane has one call out at most  *)
(* and the planning calls let out stay under the limit of the others and   *)
(* under the background cap, a release of many at once included.  Of two   *)
(* decisions in a row the first may not know the lane's call yet.          *)
(* (admit_lane, _Pass.run, set_machine, _release_lock_waiters)             *)
AdmittedWithinLimits ==
    [][LET out == Flying(calls')
           sent == {i \in out : i \notin LiveCalls(calls) \/ ~calls[i].admitted}
           planned(all) == {i \in all : IsHoldable(calls', i)}
           lower(all) == {i \in planned(all) : calls'[i].session \notin urgent'}
           focused(all) == state'.window \/ \E i \in all : IsLane(calls', i)
       IN /\ sent # {} /\ ~closed => lock' # "foreign"
          /\ Enforced =>
              /\ Cardinality({i \in out : IsLane(calls', i)}) <= 1
              /\ planned(sent) # {} => Cardinality(planned(out)) <= Limit
              /\ lower(sent) # {} =>
                    \/ Cardinality(lower(out)) <= NFg /\ focused(out)
                    \/ Cardinality(lower(out)) <= NA /\ ~focused(out \ sent)]_gateVars

----------------------------------------------------------------------------
WaitsForWindow(i) ==
    /\ Waits(i) /\ i \in state.calls /\ IsHoldable(calls, i) /\ lock # "foreign"
    /\ state.tasks[calls[i].session] = "live"
    /\ calls[i].session \notin paused
    /\ Cardinality(InFlight) < NA /\ Cardinality(InFlight) < Limit
    /\ \A j \in InFlight : ~IsLane(calls, j)
    /\ \A j \in state.calls : ~Sibling(calls, i, j)

(* What the guide says: a hold that only waited for the typing window to   *)
(* expire ends on its own, with no new request.  Nothing in the gateway    *)
(* calls wake() or reads hold_wake_s, so the window's end decides nothing. *)
HoldWakes ==
    \A i \in Ids : (WaitsForWindow(i) /\ ~state.window) ~> ~WaitsForWindow(i)
=============================================================================
