---------------------------- MODULE TelegramBot ----------------------------
(***************************************************************************)
(* A user's Telegram bot as a way in: the supervisor that keeps a listener *)
(* running, the listener's long poll and cursor, and the answer each       *)
(* message gets (modules/telegram/backend/module.py 404-620).              *)
(*                                                                         *)
(* Telegram is external: it numbers the messages, and a poll from an       *)
(* offset drops what is below it for good.  Threads of one process; a      *)
(* listener is at a stage between two statements that others can see.      *)
(***************************************************************************)
EXTENDS Naturals, FiniteSets, Sequences

CONSTANTS
    Threads,      \* listener threads there may be at once
    KindOf,       \* message -> "ask", "reset" or "mute" (nothing to answer)
    HistoryTurns, \* HISTORY_TURNS, in exchanges
    Bounds        \* records of: crashes, module restarts, failures, disconnections

VARIABLES
    arrived,      \* messages Telegram holds: 1 .. arrived
    dropped,      \* the highest one it was told is done with
    connected,    \* the user's connection is enabled
    cursor,       \* telegram_state.last_update
    history,      \* telegram_state.history, as message numbers
    stop,         \* _STOP
    sups,         \* supervisor threads
    listed,       \* _LISTENERS: the thread entered for the user, or Nobody
    thread,
    answered,     \* history: message -> replies it got
    over,         \* history: messages dealt with
    lost,         \* history: messages cut short: the process died, or saving or charging failed
    unpaid,       \* history: messages the agent answered and nobody was charged for
    doubled,      \* history: two listeners ran at once
    left,         \* what is left of the member of Bounds of this behaviour
    again         \* history: message -> polls that did not know the cursor and had it delivered again

botVars == <<arrived, dropped, connected, cursor, history, stop, sups, listed, thread,
             answered, over, lost, unpaid, doubled, left, again>>

Messages == DOMAIN KindOf
Nobody == "nobody"
Listener(at, batch, msg, seen) == [at |-> at, batch |-> batch, msg |-> msg, seen |-> seen]
Idle(at) == Listener(at, <<>>, 0, <<>>)
Off == Idle("off")

At(l, s) == thread[l].at = s
Alive == {l \in Threads : ~At(l, "off")}
Spends(what) == left[what] > 0 /\ left' = [left EXCEPT ![what] = left[what] - 1]
Become(l, rec) == thread' = [thread EXCEPT ![l] = rec]

\* The thread goes on with what is left of a batch, or polls again.
GoesOn(l, batch) == Become(l, Listener(IF batch = <<>> THEN "top" ELSE "batch", batch, 0, <<>>))

\* The thread gets to the next stage of its answer.
Serves(l, stage, seen) == Become(l, Listener(stage, thread[l].batch, thread[l].msg, seen))

-----------------------------------------------------------------------------
(* The supervisor and the module's switch. *)

\* _supervise: a listener for a user who has a bot and no live one.
Supervises(l) ==
    /\ sups > 0 /\ ~stop /\ connected /\ At(l, "off")
    /\ listed \notin Alive
    /\ listed' = l
    /\ Become(l, Idle("top"))
    /\ doubled' = (doubled \/ Alive # {})
    /\ UNCHANGED <<arrived, dropped, connected, cursor, history, stop, sups, answered, over,
                   lost, unpaid, left, again>>

\* A supervisor wakes from its wait to a stop.
SupervisorEnds ==
    /\ sups > 0 /\ stop
    /\ sups' = sups - 1
    /\ UNCHANGED <<arrived, dropped, connected, cursor, history, stop, listed, thread, answered,
                   over, lost, unpaid, doubled, left, again>>

\* _stop and _start, when the module is switched off and on.
Stops ==
    /\ ~stop /\ Spends("restarts")
    /\ stop' = TRUE /\ listed' = Nobody
    /\ UNCHANGED <<arrived, dropped, connected, cursor, history, sups, thread, answered, over,
                   lost, unpaid, doubled, again>>

Starts ==
    /\ stop
    /\ stop' = FALSE /\ sups' = sups + 1
    /\ UNCHANGED <<arrived, dropped, connected, cursor, history, listed, thread, answered, over,
                   lost, unpaid, doubled, left, again>>

Connects ==
    /\ connected' = ~connected
    /\ IF connected THEN Spends("switches") ELSE UNCHANGED left
    /\ UNCHANGED <<arrived, dropped, cursor, history, stop, sups, listed, thread, answered,
                   over, lost, unpaid, doubled, again>>

-----------------------------------------------------------------------------
(* _listen. *)

\* The loop's condition and the token: stopped, disconnected, or on to the poll.
Loops(l) ==
    /\ At(l, "top")
    /\ IF stop THEN Become(l, Off) /\ UNCHANGED listed
       ELSE IF ~connected THEN Become(l, Off) /\ listed' = Nobody
       ELSE Become(l, Idle("poll")) /\ UNCHANGED listed
    /\ UNCHANGED <<arrived, dropped, connected, cursor, history, stop, sups, answered, over,
                   lost, unpaid, doubled, left, again>>

\* The connections could not be read, outside of the try: the thread is gone, and listed.
Dies(l) ==
    /\ At(l, "top") /\ ~stop /\ Spends("failures")
    /\ Become(l, Off)
    /\ UNCHANGED <<arrived, dropped, connected, cursor, history, stop, sups, listed, answered,
                   over, lost, unpaid, doubled, again>>

\* What Telegram delivers beyond a message.
Beyond(from) == [i \in 1..(arrived - from) |-> from + i]

\* poll from the cursor of now: everything after it, and nothing else any more.
Polls(l) ==
    LET from == IF cursor > dropped THEN cursor ELSE dropped
    IN  /\ At(l, "poll")
        /\ dropped' = from
        /\ GoesOn(l, Beyond(from))
        /\ UNCHANGED <<arrived, connected, cursor, history, stop, sups, listed, answered, over,
                   lost, unpaid, doubled, left, again>>

\* The cursor could not be read, which _state takes for a user without one: the poll is
\* from the first message, and Telegram delivers all it was not told is done with.
PollsBlind(l) ==
    /\ At(l, "poll") /\ Spends("failures")
    /\ again' = [u \in Messages |-> IF u \in (dropped + 1)..cursor THEN again[u] + 1 ELSE again[u]]
    /\ GoesOn(l, Beyond(dropped))
    /\ UNCHANGED <<arrived, dropped, connected, cursor, history, stop, sups, listed, answered,
                   over, lost, unpaid, doubled>>

\* Telegram failed, or the cursor could not be written: what is left of the batch comes again.
PollFails(l) ==
    /\ At(l, "poll") \/ At(l, "batch")
    /\ Spends("failures")
    /\ Become(l, Idle("top"))
    /\ UNCHANGED <<arrived, dropped, connected, cursor, history, stop, sups, listed, answered,
                   over, lost, unpaid, doubled, again>>

\* Mutant of Remembered: the whole batch is acknowledged with its first message.
RememberedBatch(l) == thread[l].batch[Len(thread[l].batch)]

\* Where _remember puts the cursor before the message is looked at.
Remembered(l) == Head(thread[l].batch)

Takes(l) == LET u == Head(thread[l].batch) IN
    /\ At(l, "batch")
    /\ cursor' = Remembered(l)
    /\ IF KindOf[u] = "mute"
       THEN over' = over \cup {u} /\ GoesOn(l, Tail(thread[l].batch))
       ELSE UNCHANGED over /\ Become(l, Listener("answer", Tail(thread[l].batch), u, <<>>))
    /\ UNCHANGED <<arrived, dropped, connected, history, stop, sups, listed, answered, lost,
                   unpaid, doubled, left, again>>

-----------------------------------------------------------------------------
(* _answer. *)

Replied(u) == answered' = [answered EXCEPT ![u] = answered[u] + 1]
Deals(l) == over' = over \cup {thread[l].msg} /\ GoesOn(l, thread[l].batch)

\* /reset clears the history and says so.
Resets(l) ==
    /\ At(l, "answer") /\ KindOf[thread[l].msg] = "reset"
    /\ history' = <<>>
    /\ Replied(thread[l].msg) /\ Deals(l)
    /\ UNCHANGED <<arrived, dropped, connected, cursor, stop, sups, listed, lost, unpaid,
                   doubled, left, again>>

\* Out of credits or without a model it says so and is done.
Declines(l) ==
    /\ At(l, "answer") /\ KindOf[thread[l].msg] = "ask" /\ Spends("failures")
    /\ Replied(thread[l].msg) /\ Deals(l)
    /\ UNCHANGED <<arrived, dropped, connected, cursor, history, stop, sups, listed, lost,
                   unpaid, doubled, again>>

\* The agent runs on the history as it is now, or on none when it cannot be read.
Runs(l) ==
    /\ At(l, "answer") /\ KindOf[thread[l].msg] = "ask"
    /\ \/ Serves(l, "reply", history) /\ UNCHANGED left
       \/ Serves(l, "reply", <<>>) /\ Spends("failures")
    /\ UNCHANGED <<arrived, dropped, connected, cursor, history, stop, sups, listed, answered,
                   over, lost, unpaid, doubled, again>>

Replies(l) ==
    /\ At(l, "reply")
    /\ Replied(thread[l].msg)
    /\ unpaid' = unpaid \cup {thread[l].msg}
    /\ Serves(l, "save", thread[l].seen)
    /\ UNCHANGED <<arrived, dropped, connected, cursor, history, stop, sups, listed, over, lost,
                   doubled, left, again>>

\* The reply was refused: an apology, and neither history nor charge.
ReplyFails(l) ==
    /\ At(l, "reply") /\ Spends("failures")
    /\ Deals(l)
    /\ UNCHANGED <<arrived, dropped, connected, cursor, history, stop, sups, listed, answered,
                   lost, unpaid, doubled, again>>

\* _save_history: what was read, and this exchange, over what is there by now.
Saves(l) ==
    LET all == Append(thread[l].seen, thread[l].msg) IN
    /\ At(l, "save")
    /\ history' = IF Len(all) > HistoryTurns THEN Tail(all) ELSE all
    /\ Serves(l, "charge", <<>>)
    /\ UNCHANGED <<arrived, dropped, connected, cursor, stop, sups, listed, answered, over,
                   lost, unpaid, doubled, left, again>>

Charges(l) ==
    /\ At(l, "charge")
    /\ unpaid' = unpaid \ {thread[l].msg}
    /\ Deals(l)
    /\ UNCHANGED <<arrived, dropped, connected, cursor, history, stop, sups, listed, answered,
                   lost, doubled, left, again>>

\* The history could not be saved (an apology follows) or the charge was refused
\* (silently): the reply is out, the rest does not happen.
CutShort(l) ==
    /\ At(l, "save") \/ At(l, "charge")
    /\ Spends("failures")
    /\ lost' = lost \cup {thread[l].msg}
    /\ Deals(l)
    /\ UNCHANGED <<arrived, dropped, connected, cursor, history, stop, sups, listed, answered,
                   unpaid, doubled, again>>

-----------------------------------------------------------------------------
(* Outside. *)

Writes ==
    /\ arrived + 1 \in Messages /\ arrived' = arrived + 1
    /\ UNCHANGED <<dropped, connected, cursor, history, stop, sups, listed, thread, answered,
                   over, lost, unpaid, doubled, left, again>>

\* The process dies and starts again, with what its threads had in hand gone.
Crashes ==
    /\ Spends("crashes")
    /\ lost' = lost \cup {thread[l].msg : l \in {k \in Threads : thread[k].msg # 0}}
    /\ thread' = [l \in Threads |-> Off]
    /\ stop' = FALSE /\ sups' = 1 /\ listed' = Nobody
    /\ UNCHANGED <<arrived, dropped, connected, cursor, history, answered, over, unpaid, doubled, again>>

-----------------------------------------------------------------------------
Init ==
    /\ arrived = 0 /\ dropped = 0 /\ connected = TRUE
    /\ cursor = 0 /\ history = <<>>
    /\ stop = FALSE /\ sups = 1 /\ listed = Nobody
    /\ thread = [l \in Threads |-> Off]
    /\ answered = [u \in Messages |-> 0]
    /\ over = {} /\ lost = {} /\ unpaid = {} /\ doubled = FALSE
    /\ left \in Bounds
    /\ again = [u \in Messages |-> 0]

\* Two listeners on one bot poll, answer and move the cursor under one another:
\* nothing is claimed of them, and a behaviour that gets there ends.
Next == ~doubled /\ (
    \/ \E l \in Threads :
        \/ Supervises(l) \/ Loops(l) \/ Dies(l) \/ Polls(l) \/ PollsBlind(l) \/ PollFails(l) \/ Takes(l)
        \/ Resets(l) \/ Declines(l) \/ Runs(l) \/ Replies(l) \/ ReplyFails(l)
        \/ Saves(l) \/ Charges(l) \/ CutShort(l)
    \/ SupervisorEnds \/ Stops \/ Starts \/ Connects \/ Writes \/ Crashes )

Spec == Init /\ [][Next]_botVars

-----------------------------------------------------------------------------
(* Properties. *)

\* A message is answered once, though the process dies between any two statements
\* and Telegram delivers again what was not acknowledged: "the cursor advances FIRST"
\* (module.py:563-566).  A poll that could not read the cursor has what was
\* answered since the last one delivered again, and it is answered once more.
\* (A restart of the module may leave two listeners with one message in both
\* their batches: see Next.)
AnsweredOnce == \A u \in Messages : answered[u] <= 1 + again[u]

\* An acknowledged message was dealt with, is in the listener's hands, or was
\* when the process died: those behind it in its batch come again.
NothingPassedOver ==
    \A u \in 1..cursor : u \in over \cup lost \/ \E l \in Threads : thread[l].msg = u

\* A message later in the history than another came later, unless it came again.
Ordered(s) == \A i, j \in 1..Len(s) : i < j /\ again[s[j]] = 0 => s[i] < s[j]

\* Every answer of the agent that got through is charged for, unless the process died
\* on it or the books failed, and the exchanges kept are in the order they came.
AnsweredIsKept ==
    /\ \A u \in unpaid : u \in lost \/ \E l \in Threads : thread[l].msg = u
    /\ Ordered(history)

\* All three.
BotIsSteady == AnsweredOnce /\ NothingPassedOver /\ AnsweredIsKept

-----------------------------------------------------------------------------
(* Why it holds: the inductive invariant. *)

InHand == {"answer", "reply", "save", "charge"}
Listeners == [at : {"off", "top", "poll", "batch"} \cup InHand, batch : Seq(Nat), msg : Nat,
              seen : Seq(Messages)]

BotTyped ==
    /\ arrived \in Nat /\ cursor \in 0..arrived /\ dropped \in 0..cursor /\ 1..arrived \subseteq Messages
    /\ history \in Seq(Messages) /\ thread \in [Threads -> Listeners]
    /\ answered \in [Messages -> Nat] /\ again \in [Messages -> Nat]

\* What was kept is older than whatever is beyond n and did not come again.
Before(s, n) == \A u \in Messages : u > n /\ again[u] = 0 => \A i \in 1..Len(s) : s[i] < u

\* What is beyond n was answered only as often as it is to be answered again.
Ahead(n) == Before(history, n) /\ \A u \in Messages : u > n => answered[u] <= again[u]

\* A batch is what follows a message, the one in hand or one not beyond the cursor,
\* which is at the message in hand.
Follows(s, n) == n + Len(s) <= arrived /\ \A i \in 1..Len(s) : s[i] = n + i
InStep(t) ==
    /\ t.at = "off" => t = Off
    /\ t.at = "batch" => t.batch # <<>> /\ \E n \in dropped..cursor : Follows(t.batch, n) /\ Ahead(n)
    /\ t.at # "batch" => Follows(t.batch, cursor)
    /\ t.msg = IF t.at \in InHand THEN cursor ELSE 0
    /\ t.at \in InHand => cursor > dropped
    /\ t.at \in {"answer", "reply"} => Ahead(cursor - 1) /\ (cursor \in unpaid => cursor \in lost)
    /\ t.at \in {"reply", "save"} => Ordered(t.seen) /\ Before(t.seen, cursor - 1)

OneListens == doubled \/ \A l, k \in Alive : l = k

IInv ==
    /\ BotIsSteady /\ BotTyped /\ OneListens /\ Ahead(cursor) /\ 0 \notin unpaid
    /\ \A l \in Threads : InStep(thread[l])
=============================================================================
