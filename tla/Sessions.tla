------------------------------ MODULE Sessions ------------------------------
(***************************************************************************)
(* One session's row, its turns and submissions in a session file          *)
(* (src/support/sessions/store.py), and the runner each process has for it *)
(* (runner.py, sync.py, and the calls of the terminal and the gateway).    *)
(* A gateway's file has one process at a time, which keeps an owner lock;  *)
(* a terminal's is shared by processes that judge one another's leases.    *)
(* A process that starts again is another member of Procs.                 *)
(***************************************************************************)
EXTENDS Naturals, FiniteSets, Sequences

CONSTANTS
    Procs,     \* process incarnations, each with a holder name of its own
    Host,      \* the host each runs on
    NoProc,    \* holder of a free lease
    Keys,      \* client_request_ids
    NoKey,
    MaxTurns

ASSUME SessionAssumption ==
    NoProc \notin Procs /\ NoKey \notin Keys /\ MaxTurns \in Nat

VARIABLES
    writer,    \* "cli" or "gateway": the kind of file
    turns,     \* the session's turns, numbered from 1
    lease,     \* lease_holder, and whether lease_until is still ahead
    window,    \* the checkpoint: its turn, and the turns its messages hold
    withdrawn, \* keys with a stored withdrawal
    runner     \* each process's runner and conversation

vars == <<writer, turns, lease, window, withdrawn, runner>>

Ends == {"completed", "cancelled", "crashed"}
Numbers == 1..MaxTurns

(* ran is the outcome the run itself came to; kept, that its run.finished  *)
(* event is stored; taken, that the turn ended with the cause takeover.    *)
Turn == [holder : Procs, status : {"running"} \cup Ends, undone : BOOLEAN,
         key : Keys \cup {NoKey}, ran : {"none", "completed", "cancelled"},
         kept : BOOLEAN, taken : BOOLEAN]
Mark == [far : 0..MaxTurns, undone : 0..MaxTurns]
End == [turn : 0..MaxTurns, status : Ends, ran : BOOLEAN]

(* at: where the runner is.  `opened` to `loading` pick the session,       *)
(* `begun` to `recording` are a turn, `undo` to `undone` an undo.  lost is *)
(* the end of a turn that no try could store; later is the mark a reload   *)
(* under way will set; deferred, a cancel by key that came before the      *)
(* create registered its session.                                          *)
Places == {"new", "opened", "loading", "idle", "begun", "reload", "running",
           "ending", "recording", "undo", "undo_reload", "undone", "dead"}
Runner == [at : Places, closing : BOOLEAN, turn : 0..MaxTurns, stopped : BOOLEAN,
           conv : SUBSET Numbers, mark : Mark, later : Mark, lost : End,
           failed : BOOLEAN, registered : BOOLEAN, deferred : BOOLEAN]

NoLease == [holder |-> NoProc, fresh |-> FALSE]
NoWindow == [turn |-> 0, conv |-> {}]
NoMark == [far |-> 0, undone |-> 0]
NoEnd == [turn |-> 0, status |-> "crashed", ran |-> FALSE]
Away == [at |-> "new", closing |-> FALSE, turn |-> 0, stopped |-> FALSE,
         conv |-> {}, mark |-> NoMark, later |-> NoMark, lost |-> NoEnd,
         failed |-> FALSE, registered |-> TRUE, deferred |-> FALSE]

Alive(p) == runner[p].at \notin {"new", "dead"}
InTurn == {"begun", "reload", "running", "ending", "recording"}
Stoppable == {"begun", "reload", "running"}

(* Nothing under way, and no create that has yet to register its session. *)
Free(p) ==
    /\ runner[p].at = "idle" /\ ~runner[p].closing
    /\ runner[p].registered \/ turns = <<>>

At(p, place) == runner[p].at = place
Go(p, place) == [runner[p] EXCEPT !.at = place]
Becomes(p, r) == runner' = [runner EXCEPT ![p] = r]

(***************************************************************************)
(* The store                                                               *)
(***************************************************************************)
Running == {n \in DOMAIN turns : turns[n].status = "running"}
Undone == {n \in DOMAIN turns : turns[n].undone}
Accepted == {turns[n].key : n \in DOMAIN turns} \ {NoKey}

RunsUnder(p, n) ==
    n \in DOMAIN turns /\ turns[n].status = "running" /\ turns[n].holder = p

(* A holder on this host keeps its lease while its process lives, whatever *)
(* the clock says; one on another host, until the lease has passed.        *)
LeaseFree(p) ==
    \/ lease.holder = NoProc
    \/ Host[lease.holder] = Host[p] /\ ~Alive(lease.holder)
    \/ Host[lease.holder] # Host[p] /\ ~lease.fresh

RunningIsLive(p) == writer = "gateway" \/ ~LeaseFree(p)

StaleEndCrashed(p, turn) == [turn EXCEPT !.status = "crashed"]

(* How a stale turn ends: as its stored run.finished says, by a takeover   *)
(* from another host, or as a crash.                                       *)
StaleEnd(p, turn) ==
    LET elsewhere == /\ writer = "cli" /\ lease.holder # NoProc
                     /\ Host[lease.holder] # Host[p]
    IN  IF turn.kept THEN [turn EXCEPT !.status = turn.ran]
        ELSE IF elsewhere THEN [turn EXCEPT !.status = "cancelled", !.taken = TRUE]
        ELSE [turn EXCEPT !.status = "crashed"]

Recovered(p) ==
    [n \in DOMAIN turns |->
        IF n \in Running THEN StaleEnd(p, turns[n]) ELSE turns[n]]

FreedLease == IF Running = {} THEN lease ELSE NoLease

FinishAnyTurn(p, end) ==
    /\ turns' = [turns EXCEPT ![end.turn].status = end.status]
    /\ UNCHANGED <<lease, window>>

(* finish_turn: nothing once the turn no longer runs under p.  A           *)
(* checkpoint that is too long is not written, and the older one stays.    *)
FinishTurn(p, end) ==
    IF RunsUnder(p, end.turn)
    THEN /\ turns' = [turns EXCEPT ![end.turn].status = end.status]
         /\ lease' = IF lease.holder = p THEN NoLease ELSE lease
         /\ window' \in {window} \cup
                IF end.ran
                THEN {[turn |-> end.turn, conv |-> runner[p].conv]}
                ELSE {}
    ELSE UNCHANGED <<turns, lease, window>>

CountersNoUndo(p) ==
    [far |-> Cardinality({n \in DOMAIN turns :
                turns[n].holder # p /\ turns[n].status # "running"}), undone |-> 0]

(* change_counters: the newest finished turn of another process, and how   *)
(* many turns were undone.                                                 *)
Counters(p) ==
    LET far == {n \in DOMAIN turns :
                   turns[n].holder # p /\ turns[n].status # "running"}
    IN  [far |-> IF far = {} THEN 0 ELSE CHOOSE n \in far : \A m \in far : m <= n,
         undone |-> Cardinality(Undone)]

Pairs == {n \in DOMAIN turns : turns[n].status # "running" /\ ~turns[n].undone}

(* What resume() may load: the turns as pairs, or a usable checkpoint with *)
(* the later turns as pairs.                                               *)
Conversations ==
    {Pairs} \cup
    IF writer = "cli" /\ window.turn \in Pairs
    THEN {window.conv \cup {n \in Pairs : n > window.turn}}
    ELSE {}

Load(p, place) ==
    \E conv \in Conversations : Becomes(p, [Go(p, place) EXCEPT !.conv = conv])

(***************************************************************************)
(* Processes                                                               *)
(***************************************************************************)
(* open(): the gateway takes the owner lock and ends every running turn;   *)
(* a terminal ends the stale one.                                          *)
Open(p) ==
    /\ At(p, "new")
    /\ writer = "gateway" => \A q \in Procs : ~Alive(q)
    /\ IF writer = "gateway" \/ LeaseFree(p)
       THEN turns' = Recovered(p) /\ lease' = FreedLease
       ELSE UNCHANGED <<turns, lease>>
    /\ Becomes(p, Go(p, "opened"))
    /\ UNCHANGED <<writer, window, withdrawn>>

(* resume of a chat: the mark is read before the turns are.                *)
Select(p) ==
    /\ At(p, "opened")
    /\ writer = "gateway" \/ turns # <<>>
    /\ Becomes(p, [Go(p, "loading") EXCEPT
                     !.mark = IF writer = "cli" THEN Counters(p) ELSE NoMark])
    /\ UNCHANGED <<writer, turns, lease, window, withdrawn>>

Resume(p) ==
    /\ At(p, "loading")
    /\ Load(p, "idle")
    /\ UNCHANGED <<writer, turns, lease, window, withdrawn>>

Crash(p) ==
    /\ Alive(p)
    /\ Becomes(p, [Away EXCEPT !.at = "dead"])
    /\ UNCHANGED <<writer, turns, lease, window, withdrawn>>

(* close(): a turn or an undo under way is waited for, a run stopped. *)
Quit(p) ==
    /\ Alive(p) /\ ~runner[p].closing
    /\ Becomes(p, IF runner[p].at \in {"opened", "loading", "idle"}
                  THEN [Away EXCEPT !.at = "dead"]
                  ELSE [runner[p] EXCEPT
                          !.closing = TRUE,
                          !.stopped = @ \/ runner[p].at \in Stoppable])
    /\ UNCHANGED <<writer, turns, lease, window, withdrawn>>

Exit(p) ==
    /\ runner[p].closing /\ At(p, "idle")
    /\ Becomes(p, [Away EXCEPT !.at = "dead"])
    /\ UNCHANGED <<writer, turns, lease, window, withdrawn>>

(* The clock passes lease_until: the process slept, or the machine did. *)
Lapse ==
    /\ writer = "cli" /\ lease.fresh
    /\ lease' = [lease EXCEPT !.fresh = FALSE]
    /\ UNCHANGED <<writer, turns, window, withdrawn, runner>>

(***************************************************************************)
(* A turn                                                                  *)
(***************************************************************************)
(* begin_turn's transaction, and the runner's part behind it without an    *)
(* await.  An accepted or withdrawn key and a busy session refuse it; a    *)
(* stale turn is ended first.  A lost end was stored before (RetryLost).   *)
Begin(p, k) ==
    /\ Free(p) /\ ~runner[p].failed /\ runner[p].lost = NoEnd
    /\ k \notin Accepted \cup withdrawn
    /\ writer = "cli" => k = NoKey
    /\ Running # {} => ~RunningIsLive(p)
    /\ Len(turns) < MaxTurns
    /\ turns' = Append(Recovered(p),
                       [holder |-> p, status |-> "running", undone |-> FALSE,
                        key |-> k, ran |-> "none", kept |-> FALSE,
                        taken |-> FALSE])
    /\ lease' = [holder |-> p, fresh |-> TRUE]
    /\ Becomes(p, [Go(p, "begun") EXCEPT !.turn = Len(turns) + 1, !.stopped = FALSE])
    /\ UNCHANGED <<writer, window, withdrawn>>

RegisterLate(p) ==
    /\ Alive(p) /\ ~runner[p].registered /\ turns # <<>>
    /\ Becomes(p, [runner[p] EXCEPT !.registered = TRUE, !.deferred = FALSE])
    /\ UNCHANGED <<writer, turns, lease, window, withdrawn>>

(* The create registers its session, and applies a cancel that came first. *)
Register(p) ==
    /\ Alive(p) /\ ~runner[p].registered /\ turns # <<>>
    /\ Becomes(p, [runner[p] EXCEPT !.registered = TRUE, !.deferred = FALSE,
                     !.stopped = @ \/ (runner[p].deferred /\ runner[p].at \in Stoppable)])
    /\ UNCHANGED <<writer, turns, lease, window, withdrawn>>

(* before_turn: a terminal compares its mark with the file's, and reloads  *)
(* the conversation when another process changed the session.              *)
Prepare(p) ==
    /\ At(p, "begun") /\ ~runner[p].stopped
    /\ IF writer = "gateway" \/ Counters(p) = runner[p].mark
       THEN Becomes(p, Go(p, "running"))
       ELSE Becomes(p, [Go(p, "reload") EXCEPT !.later = Counters(p)])
    /\ UNCHANGED <<writer, turns, lease, window, withdrawn>>

Reload(p) ==
    /\ At(p, "reload") /\ ~runner[p].stopped
    /\ \E conv \in Conversations :
          Becomes(p, [Go(p, "running") EXCEPT
                        !.conv = conv, !.mark = runner[p].later, !.later = NoMark])
    /\ UNCHANGED <<writer, turns, lease, window, withdrawn>>

(* The run comes to run.finished; only a stopped one is cancelled. *)
RunEnds(p, outcome) ==
    /\ At(p, "running")
    /\ outcome = "cancelled" => runner[p].stopped
    /\ turns' = [turns EXCEPT ![runner[p].turn].ran = outcome]
    /\ Becomes(p, [Go(p, "ending") EXCEPT !.conv = @ \cup {runner[p].turn}])
    /\ UNCHANGED <<writer, lease, window, withdrawn>>

(* No run.finished: a stop, or a failure, before the run or in its last    *)
(* steps.                                                                  *)
EndsEarly(p) ==
    /\ \/ runner[p].at \in {"begun", "reload"}
       \/ At(p, "running") /\ runner[p].stopped
    /\ Becomes(p, [Go(p, "recording") EXCEPT !.later = NoMark])
    /\ UNCHANGED <<writer, turns, lease, window, withdrawn>>

(* The writer's last batch: dropped by the store when the turn no longer   *)
(* runs here, and lost when the write fails.                               *)
Drain(p, written) ==
    /\ At(p, "ending")
    /\ turns' = [turns EXCEPT ![runner[p].turn].kept =
                    written /\ RunsUnder(p, runner[p].turn)]
    /\ Becomes(p, [Go(p, "recording") EXCEPT
                     !.failed = @ \/ (~written /\ writer = "gateway")])
    /\ UNCHANGED <<writer, lease, window, withdrawn>>

EndOfRun(p) ==
    LET ran == turns[runner[p].turn].ran
    IN  [turn |-> runner[p].turn, ran |-> ran # "none",
         status |-> IF runner[p].stopped THEN "cancelled" ELSE ran]

EndOf(p) ==
    LET ran == turns[runner[p].turn].ran
    IN  [turn |-> runner[p].turn,
         status |-> IF ran # "none" THEN ran
                    ELSE IF runner[p].stopped THEN "cancelled" ELSE "crashed",
         ran |-> ran # "none"]

AfterTurn(p) == [Go(p, "idle") EXCEPT !.turn = 0, !.stopped = FALSE, !.deferred = FALSE]

Record(p) ==
    /\ At(p, "recording")
    /\ FinishTurn(p, EndOf(p))
    /\ Becomes(p, AfterTurn(p))
    /\ UNCHANGED <<writer, withdrawn>>

RecordForgets(p, committed) ==
    /\ At(p, "recording") /\ UNCHANGED <<turns, lease, window>>
    /\ Becomes(p, AfterTurn(p))
    /\ UNCHANGED <<writer, withdrawn>>

(* Every try failed, or failed after its commit: a terminal keeps the end  *)
(* for the session's next turn, a gateway takes no new work until it is    *)
(* started again.  An end that is not tried again (_cannot_retry) is not   *)
(* here: its store is closed, with the process on its way out (Crash), or  *)
(* the program passed it a wrong value.                                    *)
RecordFails(p, committed) ==
    /\ At(p, "recording")
    /\ IF committed THEN FinishTurn(p, EndOf(p)) ELSE UNCHANGED <<turns, lease, window>>
    /\ Becomes(p, [AfterTurn(p) EXCEPT
                     !.lost = IF writer = "cli" THEN EndOf(p) ELSE NoEnd,
                     !.failed = (writer = "gateway")])
    /\ UNCHANGED <<writer, withdrawn>>

(* _record_lost_end, before the session's next turn or undo. *)
RetryLost(p) ==
    /\ Free(p) /\ runner[p].lost # NoEnd
    /\ FinishTurn(p, runner[p].lost)
    /\ Becomes(p, [runner[p] EXCEPT !.lost = NoEnd])
    /\ UNCHANGED <<writer, withdrawn>>

(* The lease task: it extends the lease, or finds the turn taken over and  *)
(* stops its run.                                                          *)
Refresh(p) ==
    /\ runner[p].at \in InTurn
    /\ IF lease.holder = p /\ \E n \in Running : turns[n].holder = p
       THEN lease' = [lease EXCEPT !.fresh = TRUE] /\ UNCHANGED runner
       ELSE /\ runner[p].at \in Stoppable
            /\ Becomes(p, [runner[p] EXCEPT !.stopped = TRUE])
            /\ UNCHANGED lease
    /\ UNCHANGED <<writer, turns, window, withdrawn>>

Stop(p) ==
    /\ runner[p].at \in Stoppable /\ runner[p].registered
    /\ Becomes(p, [runner[p] EXCEPT !.stopped = TRUE])
    /\ UNCHANGED <<writer, turns, lease, window, withdrawn>>

(* A cancel by key: an unknown key is withdrawn; an accepted one's running *)
(* turn is stopped, at once or when its create registers it.               *)
CancelKey(p, k) ==
    /\ writer = "gateway" /\ Alive(p) /\ ~runner[p].failed /\ k # NoKey
    /\ IF k \in Accepted
       THEN /\ \E n \in Running : turns[n].key = k /\ runner[p].turn = n
            /\ Becomes(p, IF runner[p].registered
                          THEN [runner[p] EXCEPT
                                  !.stopped = @ \/ runner[p].at \in Stoppable]
                          ELSE [runner[p] EXCEPT !.deferred = TRUE])
            /\ UNCHANGED withdrawn
       ELSE withdrawn' = withdrawn \cup {k} /\ UNCHANGED runner
    /\ UNCHANGED <<writer, turns, lease, window>>

(***************************************************************************)
(* Undo                                                                    *)
(***************************************************************************)
(* The terminal synchronizes first, with no lease held.                    *)
Undo(p) ==
    /\ Free(p) /\ runner[p].lost = NoEnd
    /\ IF writer = "gateway" \/ Counters(p) = runner[p].mark
       THEN Becomes(p, Go(p, "undo"))
       ELSE Becomes(p, [Go(p, "undo_reload") EXCEPT !.later = Counters(p)])
    /\ UNCHANGED <<writer, turns, lease, window, withdrawn>>

UndoReload(p) ==
    /\ At(p, "undo_reload")
    /\ \E conv \in Conversations :
          Becomes(p, [Go(p, "undo") EXCEPT
                        !.conv = conv, !.mark = runner[p].later, !.later = NoMark])
    /\ UNCHANGED <<writer, turns, lease, window, withdrawn>>

(* undo_last_turn: refused while a live turn runs; a stale one is ended    *)
(* first, and is then the newest.                                          *)
UndoStore(p) ==
    LET left == DOMAIN turns \ Undone
        busy == Running # {} /\ RunningIsLive(p)
        n == CHOOSE m \in left : \A other \in left : other <= m
    IN
    /\ At(p, "undo")
    /\ IF runner[p].failed \/ busy \/ left = {}
       THEN /\ Becomes(p, [Go(p, "idle") EXCEPT
                             !.conv = IF runner[p].failed \/ busy THEN @ ELSE {}])
            /\ UNCHANGED <<turns, lease, window>>
       ELSE /\ turns' = [Recovered(p) EXCEPT ![n].undone = TRUE]
            /\ lease' = FreedLease
            /\ window' = IF window.turn >= n THEN NoWindow ELSE window
            /\ Becomes(p, Go(p, "undone"))
    /\ UNCHANGED <<writer, withdrawn>>

(* The conversation is loaded again, then the terminal counts its own undo *)
(* into its mark.                                                          *)
UndoLoad(p) ==
    /\ At(p, "undone")
    /\ \E conv \in Conversations :
          Becomes(p, [Go(p, "idle") EXCEPT
                        !.conv = conv,
                        !.mark.undone = IF writer = "cli" THEN @ + 1 ELSE @])
    /\ UNCHANGED <<writer, turns, lease, window, withdrawn>>

(***************************************************************************)
(* The specification                                                       *)
(***************************************************************************)
(* A chat is created with its first turn: one process has it, with an      *)
(* empty conversation.  A gateway's create has not registered it yet.      *)
Init ==
    /\ writer \in {"cli", "gateway"}
    /\ turns = <<>> /\ lease = NoLease /\ window = NoWindow /\ withdrawn = {}
    /\ \E p \in Procs :
          runner = [q \in Procs |->
                      IF q = p THEN [Away EXCEPT !.at = "idle",
                                                 !.registered = (writer = "cli")]
                               ELSE Away]

Step(p) ==
    \/ Open(p) \/ Select(p) \/ Resume(p) \/ Crash(p) \/ Quit(p) \/ Exit(p)
    \/ \E k \in Keys \cup {NoKey} : Begin(p, k) \/ CancelKey(p, k)
    \/ Register(p) \/ Prepare(p) \/ Reload(p) \/ EndsEarly(p)
    \/ \E outcome \in {"completed", "cancelled"} : RunEnds(p, outcome)
    \/ \E written \in BOOLEAN : Drain(p, written)
    \/ Record(p) \/ RetryLost(p) \/ Refresh(p) \/ Stop(p)
    \/ \E committed \in BOOLEAN : RecordFails(p, committed)
    \/ Undo(p) \/ UndoReload(p) \/ UndoStore(p) \/ UndoLoad(p)

Next == Lapse \/ \E p \in Procs : Step(p)
Spec == Init /\ [][Next]_vars

(* A stopped run ends, its end is written or given up after a few tries,   *)
(* and the lease task wakes every few seconds.  Nothing makes a run that   *)
(* is not stopped end, a person act or a process start.                    *)
Winds(p) ==
    \/ Prepare(p) \/ Reload(p) \/ Record(p) \/ Register(p)
    \/ runner[p].stopped /\ EndsEarly(p)
    \/ Drain(p, TRUE)

Fairness == \A p \in Procs : WF_vars(Winds(p)) /\ WF_vars(Refresh(p))
FairSpec == Spec /\ Fairness

(***************************************************************************)
(* Properties                                                              *)
(***************************************************************************)
TypeOK ==
    /\ writer \in {"cli", "gateway"}
    /\ turns \in Seq(Turn) /\ Len(turns) <= MaxTurns
    /\ lease \in [holder : Procs \cup {NoProc}, fresh : BOOLEAN]
    /\ window \in [turn : 0..MaxTurns, conv : SUBSET Numbers]
    /\ withdrawn \subseteq Keys
    /\ runner \in [Procs -> Runner]

(* A run goes on a conversation that holds no undone turn and every turn   *)
(* that came to an answer before it, whichever process ran or undid them;  *)
(* so does a stored checkpoint.  A run that was itself taken over is not   *)
(* meant: it no longer writes the session.  Nor is a turn that was taken   *)
(* over and undone before its own process prepared it: the mark of that    *)
(* process counts its undo already, and the turn stays.                    *)
Remembers(conv, turn) ==
    /\ \A n \in conv \cap Undone : turns[n].taken
    /\ \A n \in Pairs : n < turn /\ turns[n].ran # "none" => n \in conv

ConversationSound ==
    /\ \A p \in Procs :
          At(p, "running") /\ RunsUnder(p, runner[p].turn)
             => Remembers(runner[p].conv, runner[p].turn)
    /\ window.turn # 0 => Remembers(window.conv, window.turn)

(* A turn whose run.finished is stored has that outcome once it has ended, *)
(* whoever ended it: its runner, a late try, the next open or a takeover;  *)
(* and no turn is recorded as completed that did not complete.             *)
OutcomeKept ==
    \A n \in DOMAIN turns \ Running :
        /\ turns[n].kept => turns[n].status = turns[n].ran
        /\ turns[n].status = "completed" => turns[n].ran = "completed"

(* A session is never stuck: whoever holds its running turn still runs it, *)
(* keeps its end for another try, has gone and left it to the next open,   *)
(* or is a gateway that refuses new work until its restart.                *)
RunningHasRunner ==
    \A n \in Running :
        LET p == turns[n].holder
        IN  \/ ~Alive(p)
            \/ runner[p].at \in InTurn /\ runner[p].turn = n
            \/ runner[p].lost.turn = n
            \/ runner[p].failed

(* The turns as their readers see them: one at a time, each ended once,    *)
(* undone from the end, and a key starts one turn or none.                 *)
Log == INSTANCE TurnLog WITH
    log <- [n \in DOMAIN turns |-> [status |-> turns[n].status,
                                    undone |-> turns[n].undone,
                                    key |-> turns[n].key]],
    gone <- withdrawn
LogSpec == Log!Spec

(* A run ends that a person stopped, that a cancel by key found running,   *)
(* also when it came before the create had registered the session, or that *)
(* another process took over, though nobody tells it; and no step forgets  *)
(* the stop while the run can still be stopped.                            *)
Landing(p) ==
    /\ runner[p].at \in InTurn
    /\ runner[p].stopped \/ runner[p].deferred \/ ~RunsUnder(p, runner[p].turn)
StopLands ==
    /\ [][\A p \in Procs : Landing(p) /\ runner'[p].at \in Stoppable => Landing(p)']_vars
    /\ (\E p \in Procs : Landing(p)) ~> ~\E p \in Procs : Landing(p)
=============================================================================
