--------------------------- MODULE ProfitMonitor ---------------------------
(***************************************************************************)
(* lock-profit-money: the one monitor of the process, shared by its users  *)
(* (backend/trading_api.py _Monitor), and the loop its thread runs         *)
(* (backend/broker_base.py lock_profit_money).  The user calls start and   *)
(* stop; the profit moves between two polls; a poll may be refused, which  *)
(* the loop retries without end.                                           *)
(***************************************************************************)
EXTENDS Integers

CONSTANTS
    Threads,      \* monitor threads, one for each start that went through
    Starters,     \* start requests at once
    Percents, Refs, Profits,
    MaxMoves      \* bound: changes of the profit

VARIABLES
    running,      \* _monitor.state["running"]
    stopEvt,      \* _monitor.stop_evt
    starter,      \* start request -> "idle" or "through": past the running check
    watch,        \* thread -> NoWatch or what the loop holds
    profit,       \* what the broker would answer
    closing,      \* threads that asked the broker to close everything
    moves,
    overlap       \* history: two starts were past the check at once

monVars == <<running, stopEvt, starter, watch, profit, closing, moves, overlap>>

NoWatch == [at |-> "none", percent |-> 0, ref |-> "peak", start |-> 0, peak |-> 0, cur |-> 0]
Alive == {t \in Threads : watch[t].at \notin {"none", "over"}}

Through == {s \in Starters : starter[s] = "through"}

\* lock_profit_money up to the check; the account of the caller is read next.
Asks(s) ==
    /\ starter[s] = "idle" /\ ~running
    /\ starter' = [starter EXCEPT ![s] = "through"]
    /\ overlap' = (overlap \/ Through # {})
    /\ UNCHANGED <<running, stopEvt, watch, profit, closing, moves>>

\* The rest: the event is cleared, the state replaced, the thread started.
Starts(s, t, percent, ref) ==
    /\ starter[s] = "through" /\ watch[t].at = "none"
    /\ starter' = [starter EXCEPT ![s] = "idle"]
    /\ running' = TRUE /\ stopEvt' = FALSE
    /\ watch' = [watch EXCEPT ![t] =
                   [at |-> "arm", percent |-> percent, ref |-> ref, start |-> 0, peak |-> 0, cur |-> 0]]
    /\ UNCHANGED <<profit, closing, moves, overlap>>

\* Mutant of Stop: the state says so at once.
StopAtOnce ==
    /\ running /\ running' = FALSE
    /\ stopEvt' = TRUE
    /\ UNCHANGED <<starter, watch, profit, closing, moves, overlap>>

\* lock_profit_money_stop: the thread sees the event at its next reading.
Stop ==
    /\ running /\ ~stopEvt
    /\ stopEvt' = TRUE
    /\ UNCHANGED <<running, starter, watch, profit, closing, moves, overlap>>

-----------------------------------------------------------------------------
(* The thread. *)

\* A percentage above 1 is one; at most 1 it is the fraction itself, so that
\* "1" keeps all of the profit and "2" a fiftieth.
Threshold(t) ==
    LET w == watch[t]
        base == IF w.ref = "peak" THEN w.peak ELSE w.start
    IN  IF w.percent > 1 THEN (base * w.percent) \div 100 ELSE base * w.percent
Base(t) == IF watch[t].ref = "peak" THEN watch[t].peak ELSE watch[t].start

\* What ends a thread: its state says not running, whoever's state it is by now.
Over(t) == /\ watch' = [watch EXCEPT ![t].at = "over"]
           /\ running' = FALSE

\* The adapter is built without the user the start came from: where it needs
\* one, the thread ends before it watches anything.
Dies(t) ==
    /\ watch[t].at = "arm"
    /\ Over(t)
    /\ UNCHANGED <<stopEvt, starter, profit, closing, moves, overlap>>

Arms(t) ==
    /\ watch[t].at = "arm"
    /\ watch' = [watch EXCEPT ![t] = [@ EXCEPT !.at = "poll", !.start = profit, !.peak = profit]]
    /\ UNCHANGED <<running, stopEvt, starter, profit, closing, moves, overlap>>

\* One reading, then on_update, which raises when the event is set.
Polls(t) ==
    /\ watch[t].at = "poll"
    /\ IF stopEvt THEN Over(t)
       ELSE /\ watch' = [watch EXCEPT ![t] =
                             [watch[t] EXCEPT !.at = "judge", !.cur = profit,
                                              !.peak = IF profit > watch[t].peak THEN profit ELSE watch[t].peak]]
            /\ UNCHANGED running
    /\ UNCHANGED <<stopEvt, starter, profit, closing, moves, overlap>>

\* The trigger, on what was read; close_all asks for every open position.
Judges(t) ==
    /\ watch[t].at = "judge"
    /\ IF Base(t) > 0 /\ watch[t].cur <= Threshold(t)
       THEN /\ closing' = closing \cup {t}
            /\ Over(t)
       ELSE /\ watch' = [watch EXCEPT ![t].at = "poll"]
            /\ UNCHANGED <<running, closing>>
    /\ UNCHANGED <<stopEvt, starter, profit, moves, overlap>>

ProfitMoves(p) ==
    /\ moves < MaxMoves /\ moves' = moves + 1
    /\ p # profit /\ profit' = p
    /\ UNCHANGED <<running, stopEvt, starter, watch, closing, overlap>>

-----------------------------------------------------------------------------
Init ==
    /\ running = FALSE /\ stopEvt = FALSE
    /\ starter = [s \in Starters |-> "idle"] /\ watch = [t \in Threads |-> NoWatch]
    /\ profit \in Profits /\ closing = {} /\ moves = 0 /\ overlap = FALSE

Next ==
    \/ \E s \in Starters :
        \/ Asks(s)
        \/ \E t \in Threads, p \in Percents, r \in Refs : Starts(s, t, p, r)
    \/ Stop
    \/ \E t \in Threads : Dies(t) \/ Arms(t) \/ Polls(t) \/ Judges(t)
    \/ \E p \in Profits : ProfitMoves(p)

Spec == Init /\ [][Next]_monVars

-----------------------------------------------------------------------------
(* Properties. *)

\* What /status and /stop say of the monitor is true of its thread: one is
\* alive exactly while the state says "running", and no other, so "not running"
\* never leaves one that will close the positions (trading_api.py:797-830).  Starts
\* that were both past the check are excepted: the state then forgets one thread,
\* and a third start clears the event it was to stop at.
RunningIsAlive ==
    ~overlap => (running <=> Alive # {}) /\ \A t, u \in Alive : t = u

\* A thread that closed everything had seen its profit at the share it was to keep, or
\* below, which for a share of at most the whole is no more than what it is a share of.
ClosedAtTheLine ==
    \A t \in closing :
        /\ watch[t].cur <= Threshold(t)
        /\ watch[t].percent <= 100 => watch[t].cur <= Base(t)

MonitorIsSeen == RunningIsAlive /\ ClosedAtTheLine

-----------------------------------------------------------------------------
(* Why it holds: the inductive invariant. *)

MonitorTypeOK ==
    /\ running \in BOOLEAN /\ overlap \in BOOLEAN /\ starter \in [Starters -> {"idle", "through"}]
    /\ watch \in [Threads -> [at : {"none", "arm", "poll", "judge", "over"}, percent : Nat,
                              ref : Refs, start : Int, peak : Int, cur : Int]]
    /\ profit \in Int /\ closing \subseteq Threads

\* A start that is alone past the check finds no monitor running.
StartsFindNone ==
    ~overlap => /\ \A r, s \in Through : r = s
                /\ Through # {} => ~running

\* What closed everything is over.
ClosersAreOver == \A t \in closing : watch[t].at = "over"

IInv == MonitorTypeOK /\ StartsFindNone /\ ClosersAreOver /\ MonitorIsSeen
=============================================================================
