------------------------------ MODULE ChatTurns ------------------------------
(***************************************************************************)
(* One user's chat turns (main.agent_chat, agent.run_agent and its two     *)
(* runners, execute_tool, the memory).  A turn passes the billing gate,    *)
(* then goes round: the model answers and may call tools, the tools run in *)
(* a pool, their results go back.  It is paid for at its end, on what its  *)
(* meter gathered.  Turns run side by side, and so do the tools of one.    *)
(*                                                                         *)
(* The browser may leave at any moment: the generator is then closed at    *)
(* its next yield, and nothing after that yield happens.                   *)
(***************************************************************************)
EXTENDS Integers, FiniteSetsExt, Sequences

CONSTANTS
    Turns,        \* requests to /api/agent/chat
    Calls,        \* the tool calls one round may announce
    Notes,        \* facts worth remembering
    Bounds,       \* records of: turns taken, rounds of a turn (12 in the code), calls of a round
    MemoryCap,    \* MEMORY_CAP, in notes
    Funds         \* the balance at the start

VARIABLES
    credits,
    memory,       \* user_memory, oldest first
    turn,
    job,          \* turn -> call -> where the tool's thread is
    told,         \* history: notes a caller was told are stored
    trimmed,      \* history: notes dropped for the cap
    overwritten,  \* history: notes lost to a writer that had read earlier
    bound         \* the member of Bounds this behaviour keeps within

chatVars == <<credits, memory, turn, job, told, trimmed, overwritten, bound>>
memoryVars == <<memory, told, trimmed, overwritten>>

NoJob == [kind |-> "none", at |-> "none", note |-> "", copy |-> <<>>]

\* burned and lost are history: what the turn cost, and whether a part of it
\* was never reported to the meter.
NewTurn == [at |-> "new", round |-> 0, meter |-> 0, burned |-> 0, lost |-> FALSE,
            left |-> FALSE, paid |-> 0, unpaid |-> FALSE, copy |-> <<>>, note |-> ""]

At(t, steps) == turn[t].at \in steps
Live(t) == ~turn[t].left
Busy(t) == \E c \in Calls : job[t][c].at \in {"asked", "read"}

\* _require_credits; several turns may pass on the same balance.
Passes(t) ==
    /\ At(t, {"new"})
    /\ credits > 0
    /\ turn' = [turn EXCEPT ![t].at = "model", ![t].round = 1]
    /\ UNCHANGED <<credits, job, memoryVars>>

-----------------------------------------------------------------------------
(* The runners. *)

\* The model answered: what it burned is metered, and the calls it wants are
\* announced; an answer without calls ends the turn.
Speaks(t, asked) ==
    /\ At(t, {"model"}) /\ Live(t)
    /\ turn' = [turn EXCEPT ![t].burned = @ + 1, ![t].meter = @ + 1,
                            ![t].at = IF DOMAIN asked = {} THEN "charge" ELSE "tools"]
    /\ job' = [job EXCEPT ![t] = [c \in Calls |->
                 IF c \in DOMAIN asked
                 THEN [NoJob EXCEPT !.kind = asked[c].kind, !.note = asked[c].note, !.at = "asked"]
                 ELSE NoJob]]
    /\ UNCHANGED <<credits, memoryVars>>

\* The stream broke, or its last chunk carried no usage: the error is shown
\* and the turn goes on to pay for what was metered.
Breaks(t) ==
    /\ At(t, {"model"}) /\ Live(t)
    /\ turn' = [turn EXCEPT ![t].burned = @ + 1, ![t].lost = TRUE, ![t].at = "charge"]
    /\ UNCHANGED <<credits, job, memoryVars>>

\* All results are there, and are sent in the calls' order.
Answers(t) ==
    /\ At(t, {"tools"}) /\ Live(t) /\ ~Busy(t)
    /\ turn' = [turn EXCEPT ![t].at = IF turn[t].round < bound.rounds THEN "model" ELSE "charge",
                            ![t].round = IF @ < bound.rounds THEN @ + 1 ELSE @]
    /\ job' = [job EXCEPT ![t] = [c \in Calls |-> NoJob]]
    /\ UNCHANGED <<credits, memoryVars>>

\* The browser goes; running tools run on, nobody hears of them.
Leaves(t) ==
    /\ At(t, {"model", "tools"}) /\ Live(t)
    /\ turn' = [turn EXCEPT ![t].left = TRUE]
    /\ UNCHANGED <<credits, job, memoryVars>>

\* GeneratorExit passes the handlers of Exception: no metering, no memory.
Closes(t) ==
    /\ At(t, {"model", "tools"}) /\ ~Live(t) /\ ~Busy(t)
    /\ turn' = [turn EXCEPT ![t].at = "over"]
    /\ job' = [job EXCEPT ![t] = [c \in Calls |-> NoJob]]
    /\ UNCHANGED <<credits, memoryVars>>

-----------------------------------------------------------------------------
(* execute_tool, in a thread of the pool. *)

Done(t, c) == job' = [job EXCEPT ![t][c].at = "done"]

\* Mutant of Runs: the run's cost is not rolled up into the turn.
RunsUnrolled(t, c) ==
    /\ job[t][c].kind = "analysis" /\ job[t][c].at = "asked"
    /\ turn' = [turn EXCEPT ![t].burned = @ + 1]
    /\ Done(t, c)
    /\ UNCHANGED <<credits, memoryVars>>

\* An analysis agent ran on a meter of its own, rolled up under _USAGE_LOCK.
Runs(t, c) ==
    /\ job[t][c].kind = "analysis" /\ job[t][c].at = "asked"
    /\ turn' = [turn EXCEPT ![t].burned = @ + 1, ![t].meter = @ + 1]
    /\ Done(t, c)
    /\ UNCHANGED <<credits, memoryVars>>

\* The run raised, or was refused for a missing variable after a model had been
\* asked for it: the caller gets an error and the run's meter is dropped.
RunFails(t, c) ==
    /\ job[t][c].kind = "analysis" /\ job[t][c].at = "asked"
    /\ turn' = [turn EXCEPT ![t].burned = @ + 1, ![t].lost = TRUE]
    /\ Done(t, c)
    /\ UNCHANGED <<credits, memoryVars>>

\* append_memory reads in one connection and writes in another.
Appended(copy, n) ==
    LET all == Append(copy, n)
    IN  IF Len(all) > MemoryCap THEN Tail(all) ELSE all

InMemory == {memory[i] : i \in DOMAIN memory}

Writes(copy, n) ==
    LET new == Appended(copy, n)
        after == {new[i] : i \in DOMAIN new}
    IN  /\ memory' = new
        /\ told' = told \cup {n}
        /\ trimmed' = trimmed \cup ({copy[i] : i \in DOMAIN copy} \ after)
        /\ overwritten' = overwritten \cup (InMemory \ (after \cup {copy[i] : i \in DOMAIN copy}))

RememberReads(t, c) ==
    /\ job[t][c].kind = "remember" /\ job[t][c].at = "asked"
    /\ IF job[t][c].note \in InMemory
       THEN Done(t, c)
       ELSE job' = [job EXCEPT ![t][c] = [@ EXCEPT !.at = "read", !.copy = memory]]
    /\ UNCHANGED <<credits, turn, memoryVars>>

RememberWrites(t, c) ==
    /\ job[t][c].kind = "remember" /\ job[t][c].at = "read"
    /\ Writes(job[t][c].copy, job[t][c].note)
    /\ job' = [job EXCEPT ![t][c] = [@ EXCEPT !.at = "done", !.copy = <<>>]]
    /\ UNCHANGED <<credits, turn>>

-----------------------------------------------------------------------------
(* The end of a turn. *)

\* charge_cost debits whatever the turn came to, below zero if need be.
Charges(t) ==
    /\ At(t, {"charge"})
    /\ credits' = credits - turn[t].meter
    /\ turn' = [turn EXCEPT ![t].paid = @ + turn[t].meter, ![t].at = "extract"]
    /\ UNCHANGED <<job, memoryVars>>

\* The charge raised, and that is swallowed.
ChargeFails(t) ==
    /\ At(t, {"charge"})
    /\ turn' = [turn EXCEPT ![t].unpaid = TRUE, ![t].at = "extract"]
    /\ UNCHANGED <<credits, job, memoryVars>>

\* extract_memory: one more call of the model, outside the meter, then the same
\* append for each new fact it found; no fact left, or an error, ends the turn.
ExtractReads(t, n) ==
    /\ At(t, {"extract"})
    /\ n \notin InMemory
    /\ turn' = [turn EXCEPT ![t].at = "noting", ![t].copy = memory, ![t].note = n]
    /\ UNCHANGED <<credits, job, memoryVars>>

ExtractWrites(t) ==
    /\ At(t, {"noting"})
    /\ Writes(turn[t].copy, turn[t].note)
    /\ turn' = [turn EXCEPT ![t].at = "extract", ![t].copy = <<>>, ![t].note = ""]
    /\ UNCHANGED <<credits, job>>

Ends(t) ==
    /\ At(t, {"extract"})
    /\ turn' = [turn EXCEPT ![t].at = "over"]
    /\ UNCHANGED <<credits, job, memoryVars>>

-----------------------------------------------------------------------------

Wishes == [kind : {"analysis"}, note : {""}] \cup [kind : {"remember"}, note : Notes]

Init ==
    /\ credits = Funds
    /\ memory = <<>>
    /\ bound \in Bounds
    /\ \E taken \in {T \in SUBSET Turns : Cardinality(T) = bound.turns} :
          turn = [t \in Turns |-> IF t \in taken THEN NewTurn ELSE [NewTurn EXCEPT !.at = "over"]]
    /\ job = [t \in Turns |-> [c \in Calls |-> NoJob]]
    /\ told = {} /\ trimmed = {} /\ overwritten = {}

Next == UNCHANGED bound /\ \E t \in Turns :
    \/ Passes(t) \/ Breaks(t) \/ Answers(t) \/ Leaves(t) \/ Closes(t)
    \/ \E called \in {C \in SUBSET Calls : Cardinality(C) <= bound.calls} :
          \E asked \in [called -> Wishes] : Speaks(t, asked)
    \/ \E c \in Calls : Runs(t, c) \/ RunFails(t, c) \/ RememberReads(t, c) \/ RememberWrites(t, c)
    \/ Charges(t) \/ ChargeFails(t) \/ ExtractWrites(t) \/ Ends(t)
    \/ \E n \in Notes : ExtractReads(t, n)

Spec == Init /\ [][Next]_chatVars

-----------------------------------------------------------------------------
(* Properties. *)

\* The sum of what the turns have.
Together(f) == MapThenSumSet(LAMBDA t : f[t], Turns)

\* A turn that nobody left, whose every cost was reported and whose charge went
\* through has paid for all it burned when it is over, analysis runs of its
\* tools included; and the balance is short of exactly what turns paid, however
\* they overlapped (agent_chat, _run_analysis_agent, _accum_usage).
TurnsAreCharged ==
    /\ credits = Funds - Together([t \in Turns |-> turn[t].paid])
    /\ \A t \in Turns :
          At(t, {"over"}) /\ Live(t) /\ ~turn[t].lost /\ ~turn[t].unpaid
          => turn[t].paid = turn[t].burned

\* A fact somebody was told is stored is still in the memory, or gave way to
\* newer ones at the cap, or was overwritten by a tool that had read the memory
\* before it was written (append_memory).
NotesAreKept == told \subseteq InMemory \cup trimmed \cup overwritten

\* Both of the above.
TurnsAreSettled == TurnsAreCharged /\ NotesAreKept

\* The same and what it rests on, inductive: a tool only runs while its turn
\* waits for it, what was burned is on the meter unless it was lost, nothing is
\* paid before the charge, and after it what was metered.
Facts == Notes \cup {""}
Jobs == [kind : {"none", "analysis", "remember"}, at : {"none", "asked", "read", "done"}, note : Facts,
         copy : Seq(Facts)]
Records == [at : {"new", "model", "tools", "charge", "extract", "noting", "over"}, round : Nat,
            meter : Nat, burned : Nat, lost : BOOLEAN, left : BOOLEAN, paid : Nat, unpaid : BOOLEAN,
            copy : Seq(Facts), note : Facts]

TurnsTyped ==
    /\ credits \in Int /\ memory \in Seq(Facts)
    /\ turn \in [Turns -> Records] /\ job \in [Turns -> [Calls -> Jobs]]

Accounted(r) ==
    /\ ~r.lost => r.burned = r.meter
    /\ r.at \in {"new", "model", "tools", "charge"} => r.paid = 0
    /\ r.at \in {"extract", "noting", "over"} /\ ~r.left /\ ~r.unpaid => r.paid = r.meter

IInv ==
    /\ TurnsTyped /\ TurnsAreSettled
    /\ \A t \in Turns : Accounted(turn[t]) /\ (Busy(t) => At(t, {"tools"}))

=============================================================================
