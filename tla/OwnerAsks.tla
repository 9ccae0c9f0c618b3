----------------------------- MODULE OwnerAsks -----------------------------
(***************************************************************************)
(* One chat's drain (src/support/gateway/console/asks.py): what the person *)
(* writes while the chat is taken waits in a queue that a restart finds,   *)
(* or reaches the running turn as a note; the tasks' questions wait for a  *)
(* turn of the chat's own.  A message stands for its key too, by which a   *)
(* turn that began before a restart is found.  The drain is there whenever *)
(* something waits (_kick).                                                *)
(***************************************************************************)
EXTENDS Naturals, Sequences, FiniteSets

CONSTANTS Msgs, Asks, Nobody
ASSUME NobodyAssumption == Nobody \notin Msgs \cup Asks

VARIABLES
    people,     \* _people: the messages and notes, oldest first
    stored,     \* meta.queued
    current,    \* the chat's turn
    drain,      \* how far the drain is, and with what
    told,       \* what the sender of a message knows of it
    ask,        \* the tasks' questions
    line,       \* _waiting, oldest first
    forgetting, \* a note was read or given back, and is still stored
    fate        \* what became of the messages and asks, over all processes

ownerVars == <<people, stored, current, drain, told, ask, line, forgetting, fate>>

(* `of`: a note of the turn that runs.  `over`: the turn's run has ended   *)
(* and the turn has not.                                                   *)
Entry == [m : Msgs, of : BOOLEAN]
Quiet == [kind |-> "none", stopped |-> FALSE, over |-> FALSE]
Resting == [at |-> "idle", item |-> Nobody]
NotAsked == [at |-> "none", on |-> "owner", how |-> "none"]

OwnerTypeOK ==
    /\ people \in Seq(Entry) /\ stored \in Seq(Msgs)
    /\ current \in [kind : {"none", "person", "ask"}, stopped : BOOLEAN, over : BOOLEAN]
    /\ drain \in [at : {"idle", "sending", "sent", "unsent", "forget", "opens", "starts", "asking"},
                  item : Msgs \cup Asks \cup {Nobody}]
    /\ told \in [Msgs -> {"new", "held", "storing", "failing", "accepted", "refused", "cut"}]
    /\ ask \in [Asks -> [at : {"none", "placing", "open", "closed", "over"}, on : {"owner", "person"},
                         how : {"none", "owner", "person", "timeout", "stopped"}]]
    /\ line \in Seq(Asks) /\ forgetting \in BOOLEAN
    /\ current.kind = "ask" => drain.at = "asking"

OwnerInit ==
    /\ people = <<>> /\ stored = <<>> /\ drain = Resting
    /\ current \in {Quiet, [Quiet EXCEPT !.kind = "person"]}
    /\ told = [m \in Msgs |-> "new"] /\ ask = [a \in Asks |-> NotAsked]
    /\ line = <<>> /\ forgetting = FALSE
    /\ fate = [ran |-> [m \in Msgs |-> 0], read |-> {}, given |-> {}, unsent |-> {},
               dropped |-> {}, left |-> {}, lost |-> {}]

NoTurn == current.kind = "none"
Runs(kind) == current' = [Quiet EXCEPT !.kind = kind]
KeysOf(queue) == [n \in DOMAIN queue |-> queue[n].m]
Waits(m) == \E n \in DOMAIN people : people[n].m = m

(* The entries of a queue at some of its places, in their order.  (With    *)
(* SelectSeq the provers could say nothing of it.)                         *)
Nth(places, i) == CHOOSE n \in places : Cardinality({k \in places : k <= n}) = i
Entries(queue, places) == [i \in 1..Cardinality(places) |-> queue[Nth(places, i)]]
Without(gone) == Entries(people, {n \in DOMAIN people : people[n].m \notin gone})

Tells(m, what) == told' = [told EXCEPT ![m] = what]
DrainAt(at) == drain.at = at
Goes(at) == drain' = [drain EXCEPT !.at = at]
Rests == drain' = Resting

----------------------------------------------------------------------------
(* The person *)

(* holds: the chat is busy with a question, or others wait already.        *)
ChatHolds == drain.at \in {"starts", "asking"} \/ people # <<>>

PersonStarts ==
    /\ NoTurn /\ Runs("person")
    /\ UNCHANGED <<people, stored, drain, told, ask, line, forgetting, fate>>

SendsHeld(m) ==
    /\ told[m] = "new" /\ ChatHolds
    /\ Tells(m, "held")
    /\ UNCHANGED <<people, stored, current, drain, ask, line, forgetting, fate>>

(* _keep_queue stores the whole queue; the sender waits for it.            *)
Adds(m, note, written) ==
    /\ people' = Append(people, [m |-> m, of |-> note])
    /\ stored' = IF written THEN KeysOf(people') ELSE stored
    /\ Tells(m, IF written THEN "storing" ELSE "failing")
    /\ UNCHANGED <<current, drain, ask, line, forgetting, fate>>

QueueMessage(m, written) == told[m] = "held" /\ Adds(m, FALSE, written)

TakesNotes == current.kind = "person" /\ ~current.stopped /\ ~current.over
AddNote(m, written) == told[m] = "new" /\ TakesNotes /\ Adds(m, TRUE, written)

KeptForLater(m) ==
    /\ told[m] = "storing"
    /\ Tells(m, "accepted")
    /\ UNCHANGED <<people, stored, current, drain, ask, line, forgetting, fate>>

NotKept(m) ==
    /\ told[m] = "failing"
    /\ Tells(m, "refused")
    /\ people' = Without({m})
    /\ UNCHANGED <<stored, current, drain, ask, line, forgetting, fate>>

(* The run reads a note at its next step.                                  *)
ReadNote(m) ==
    /\ current.kind = "person" /\ ~current.over /\ told[m] = "accepted"
    /\ \E n \in DOMAIN people : people[n] = [m |-> m, of |-> TRUE]
    /\ people' = Without({m}) /\ forgetting' = TRUE
    /\ fate' = [fate EXCEPT !.read = @ \cup {m}]
    /\ UNCHANGED <<stored, current, drain, told, ask, line>>

(* _forget_started, behind a note read or given back; it gives up in the   *)
(* end, and the entry stays stored.                                        *)
Forgets(written) ==
    /\ forgetting /\ forgetting' = FALSE
    /\ stored' = IF written THEN KeysOf(people) ELSE stored
    /\ UNCHANGED <<people, current, drain, told, ask, line, fate>>

Notes == {people[n].m : n \in {i \in DOMAIN people : people[i].of}}

(* The person's Stop takes the unread notes back.                          *)
StopTurn ==
    /\ ~NoTurn /\ ~current.stopped
    /\ current' = [current EXCEPT !.stopped = TRUE]
    /\ people' = Without(Notes)
    /\ fate' = [fate EXCEPT !.given = @ \cup Notes]
    /\ forgetting' = (forgetting \/ Notes # {})
    /\ UNCHANGED <<stored, drain, told, ask, line>>

(* A cancel by the message's key leaves them: they run next.               *)
CancelMessage ==
    /\ current.kind = "person" /\ ~current.stopped
    /\ current' = [current EXCEPT !.stopped = TRUE]
    /\ UNCHANGED <<people, stored, drain, told, ask, line, forgetting, fate>>

RunOver ==
    /\ ~NoTurn /\ ~current.over
    /\ current' = [current EXCEPT !.over = TRUE]
    /\ UNCHANGED <<people, stored, drain, told, ask, line, forgetting, fate>>

(* Its unread notes are the next messages now.                             *)
TurnOver ==
    /\ current.over
    /\ current' = Quiet
    /\ people' = [n \in DOMAIN people |-> [people[n] EXCEPT !.of = FALSE]]
    /\ UNCHANGED <<stored, drain, told, ask, line, forgetting, fate>>

----------------------------------------------------------------------------
(* The drain sends what waits *)

Sends ==
    /\ DrainAt("idle") /\ NoTurn /\ people # <<>>
    /\ drain' = [at |-> "sending", item |-> Head(people).m]
    /\ UNCHANGED <<people, stored, current, told, ask, line, forgetting, fate>>

(* A message whose turn began before a restart is not run again.           *)
SendsRepeated ==
    /\ DrainAt("sending") /\ fate.ran[drain.item] > 0
    /\ Goes("sent")
    /\ UNCHANGED <<people, stored, current, told, ask, line, forgetting, fate>>

BeginsTurn ==
    /\ NoTurn /\ Runs("person") /\ Goes("sent")
    /\ fate' = [fate EXCEPT !.ran[drain.item] = @ + 1]
    /\ UNCHANGED <<people, stored, told, ask, line, forgetting>>

BeginsAgain == DrainAt("sending") /\ BeginsTurn

BeginsQueued ==
    /\ DrainAt("sending") /\ fate.ran[drain.item] = 0
    /\ BeginsTurn

SendsBusy ==
    /\ DrainAt("sending") /\ fate.ran[drain.item] = 0 /\ ~NoTurn
    /\ Rests
    /\ UNCHANGED <<people, stored, current, told, ask, line, forgetting, fate>>

SendFails ==
    /\ DrainAt("sending") /\ fate.ran[drain.item] = 0
    /\ Goes("unsent")
    /\ UNCHANGED <<people, stored, current, told, ask, line, forgetting, fate>>

(* pop(0) takes whatever is first now: not always the item, when that one  *)
(* could not be kept meanwhile.                                            *)
PopsSent ==
    /\ drain.at \in {"sent", "unsent"}
    /\ IF people = <<>> THEN Rests /\ UNCHANGED <<people, fate>>
       ELSE /\ Goes("forget")
            /\ people' = Tail(people)
            /\ fate' = [fate EXCEPT
                  !.unsent = @ \cup IF DrainAt("unsent") THEN {drain.item} ELSE {},
                  !.dropped = @ \cup ({Head(people).m} \ {drain.item})]
    /\ UNCHANGED <<stored, current, told, ask, line, forgetting>>

ForgetsSent(written) ==
    /\ DrainAt("forget") /\ Rests
    /\ stored' = IF written THEN KeysOf(people) ELSE stored
    /\ UNCHANGED <<people, current, told, ask, line, forgetting, fate>>

----------------------------------------------------------------------------
(* A task's question *)

Closed(a, how) == [ask[a] EXCEPT !.at = "closed", !.how = how]
Closes(a, how) == ask' = IF ask[a].at = "open" THEN [ask EXCEPT ![a] = Closed(a, how)] ELSE ask
Handles(a) == DrainAt("asking") /\ drain.item = a

AskBegins(a) ==
    /\ ask[a].at = "none"
    /\ ask' = [ask EXCEPT ![a].at = "placing"]
    /\ UNCHANGED <<people, stored, current, drain, told, line, forgetting, fate>>

AskPlaced(a) ==
    /\ ask[a].at = "placing"
    /\ ask' = [ask EXCEPT ![a].at = IF ask[a].how = "none" THEN "open" ELSE "closed"]
    /\ line' = Append(line, a)
    /\ UNCHANGED <<people, stored, current, drain, told, forgetting, fate>>

StopsAskTurn(a) ==
    current' = IF Handles(a) /\ current.kind = "ask"
               THEN [current EXCEPT !.stopped = TRUE] ELSE current

OutOfLine(a) == line' = Entries(line, {n \in DOMAIN line : line[n] # a})

(* The task is stopped, and its worker's call with it.                     *)
AskStopped(a) ==
    /\ ask[a].at \in {"placing", "open"}
    /\ ask' = [ask EXCEPT ![a].at = "over", ![a].how = "stopped"]
    /\ StopsAskTurn(a) /\ OutOfLine(a)
    /\ UNCHANGED <<people, stored, drain, told, forgetting, fate>>

(* The worker has its answer and goes on.                                  *)
WorkerGoesOn(a) ==
    /\ ask[a].at = "closed"
    /\ ask' = [ask EXCEPT ![a].at = "over"]
    /\ OutOfLine(a)
    /\ UNCHANGED <<people, stored, current, drain, told, forgetting, fate>>

(* The person's own words answer it, wherever it is.                       *)
Reply(a) ==
    /\ \/ ask[a].at = "open" /\ Closes(a, "person")
       \/ ask[a].at = "placing" /\ ask' = [ask EXCEPT ![a].how = "person"]
    /\ UNCHANGED <<people, stored, current, drain, told, line, forgetting, fate>>

(* A closed one is passed over; a stopped one closes only with its row.    *)
PopAsk ==
    /\ DrainAt("idle") /\ NoTurn /\ people = <<>> /\ line # <<>>
    /\ line' = Tail(line)
    /\ \/ ask[Head(line)].how \in {"none", "stopped"} /\ drain' = [at |-> "opens", item |-> Head(line)]
       \/ ask[Head(line)].how # "none" /\ Rests
    /\ UNCHANGED <<people, stored, current, told, ask, forgetting, fate>>

OpenAsk ==
    /\ DrainAt("opens") /\ Goes("starts")
    /\ UNCHANGED <<people, stored, current, told, ask, line, forgetting, fate>>

(* The chat's row cannot be read: nobody has the question now.             *)
OpenFails ==
    /\ DrainAt("opens") /\ Rests
    /\ fate' = [fate EXCEPT !.lost = @ \cup {drain.item}]
    /\ UNCHANGED <<people, stored, current, told, ask, line, forgetting>>

(* An ask that closed while its turn began has the turn stopped at once.   *)
StartAsk ==
    /\ DrainAt("starts") /\ NoTurn /\ Goes("asking")
    /\ current' = [Quiet EXCEPT !.kind = "ask", !.stopped = ask[drain.item].at # "open"]
    /\ UNCHANGED <<people, stored, told, ask, line, forgetting, fate>>

StartAskBusy ==
    /\ DrainAt("starts") /\ ~NoTurn
    /\ line' = <<drain.item>> \o line /\ Rests
    /\ UNCHANGED <<people, stored, current, told, ask, forgetting, fate>>

StartAskFails ==
    /\ DrainAt("starts")
    /\ Closes(drain.item, "timeout") /\ Rests
    /\ UNCHANGED <<people, stored, current, told, line, forgetting, fate>>

Answering(a) ==
    /\ Handles(a) /\ current.kind = "ask" /\ ~current.over
    /\ ask[a].at = "open" /\ ask[a].on = "owner"

AnswerAsk(a) ==
    /\ Answering(a) /\ Closes(a, "owner")
    /\ UNCHANGED <<people, stored, current, drain, told, line, forgetting, fate>>

AskPerson(a) ==
    /\ Answering(a)
    /\ ask' = [ask EXCEPT ![a].on = "person"]
    /\ UNCHANGED <<people, stored, current, drain, told, line, forgetting, fate>>

TimesOut(a) ==
    /\ Handles(a) /\ ask[a].on = "owner" /\ current.kind = "ask"
    /\ current' = [current EXCEPT !.stopped = TRUE]
    /\ Closes(a, "timeout")
    /\ UNCHANGED <<people, stored, drain, told, line, forgetting, fate>>

AskOverSilently ==
    /\ DrainAt("asking") /\ NoTurn /\ Rests
    /\ UNCHANGED <<people, stored, current, told, ask, line, forgetting, fate>>

(* Its turn is over: no answer, unless it gave one or asked the person.    *)
AskOver ==
    /\ DrainAt("asking") /\ current.kind # "ask" /\ Rests
    /\ IF ask[drain.item].on = "owner" THEN Closes(drain.item, "timeout") ELSE UNCHANGED ask
    /\ UNCHANGED <<people, stored, current, told, line, forgetting, fate>>

----------------------------------------------------------------------------
(* The gateway dies and starts again (restore_queued, expire_stale).       *)
Restarts ==
    /\ people' = [n \in DOMAIN stored |-> [m |-> stored[n], of |-> FALSE]]
    /\ told' = [m \in Msgs |-> IF told[m] \in {"held", "storing", "failing"} THEN "cut" ELSE told[m]]
    /\ ask' = [a \in Asks |-> IF ask[a].at = "none" THEN ask[a] ELSE [ask[a] EXCEPT !.at = "over"]]
    /\ fate' = [fate EXCEPT !.left = @ \cup {m \in fate.read \cup fate.given :
                                              \E n \in DOMAIN stored : stored[n] = m}]
    /\ current' = Quiet /\ drain' = Resting /\ line' = <<>> /\ forgetting' = FALSE
    /\ UNCHANGED stored

----------------------------------------------------------------------------
(* The drain goes on whenever something waits, a chat's turn comes to its  *)
(* end, and a request that is under way goes on.                           *)
OwnerSteps ==
    \/ RunOver \/ TurnOver \/ Forgets(TRUE) \/ ForgetsSent(TRUE)
    \/ Sends \/ SendsRepeated \/ BeginsQueued \/ SendsBusy \/ PopsSent
    \/ PopAsk \/ OpenAsk \/ StartAsk \/ StartAskBusy \/ AskOver
    \/ \E m \in Msgs : QueueMessage(m, TRUE) \/ KeptForLater(m) \/ NotKept(m)
    \/ \E a \in Asks : AskPlaced(a) \/ WorkerGoesOn(a)

OwnerChoices ==
    \/ \E m \in Msgs : SendsHeld(m) \/ AddNote(m, TRUE) \/ ReadNote(m)
    \/ \E a \in Asks : AskBegins(a) \/ AnswerAsk(a) \/ AskPerson(a) \/ TimesOut(a)

OwnerActs ==
    \/ PersonStarts \/ StopTurn \/ CancelMessage
    \/ \E a \in Asks : AskStopped(a) \/ Reply(a)

OwnerFaults ==
    \/ Restarts \/ Forgets(FALSE) \/ ForgetsSent(FALSE)
    \/ SendFails \/ OpenFails \/ StartAskFails
    \/ \E m \in Msgs : QueueMessage(m, FALSE) \/ AddNote(m, FALSE)

OwnerNext == OwnerSteps \/ OwnerChoices \/ OwnerActs \/ OwnerFaults
OwnerSpec == OwnerInit /\ [][OwnerNext]_ownerVars /\ WF_ownerVars(OwnerSteps)

----------------------------------------------------------------------------
Became(m) ==
    fate.ran[m] > 0 \/ m \in fate.read \cup fate.given \cup fate.unsent \cup fate.dropped

(* "Accepted only once it is stored", and once: a message or note that was *)
(* accepted waits in the queue and in the store until it runs, is read,    *)
(* given back or told not sent, and only one of these happens to it, over  *)
(* busy chats, Stops and restarts.  Not meant are one that a failed store  *)
(* had the drain drop, and one read or given back whose entry was stored   *)
(* still at a restart.  (_admit, _add_note, _send_queued, restore_queued)  *)
MessagesKept ==
    \A m \in Msgs :
        /\ told[m] = "accepted" /\ ~Became(m) =>
              Waits(m) /\ \E n \in DOMAIN stored : stored[n] = m
        /\ m \notin fate.left =>
              fate.ran[m] + Cardinality({m} \cap fate.read)
                          + Cardinality({m} \cap fate.given) <= 1

(* What waits for the chat is served: an accepted message runs, is read,   *)
(* given back or told not sent, and a question is answered, timed out,     *)
(* stopped or the person's, unless its chat could not be read.             *)
(* (_drain, _internal_turn, _no_answer)                                    *)
ChatOwes ==
    \/ \E m \in Msgs : told[m] = "accepted" /\ ~Became(m)
    \/ \E a \in Asks : ask[a].at = "open" /\ ask[a].on = "owner" /\ a \notin fate.lost
ChatServes == ChatOwes ~> ~ChatOwes
=============================================================================
