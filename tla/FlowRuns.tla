------------------------------ MODULE FlowRuns ------------------------------
(***************************************************************************)
(* Runs of analysis flows (analysis_agent.run_flow, _execute_node,         *)
(* _n_octo, _n_call_agent, the 5-second cache).  A flow is a graph drawn   *)
(* by its owner, cycles and all; a run walks it from its trigger along a   *)
(* queue.  An if node picks a branch, an octo node calls the nodes on its  *)
(* tools handle as its model decides, a call node runs another agent's     *)
(* flow and waits for it.  An octo among the nodes called is a body within *)
(* a body: it is given the menu of the node that is walked, itself on it,  *)
(* and nothing limits how deep they nest but the interpreter.              *)
(*                                                                         *)
(* A run works on the flow as it was read when it began; the owner may     *)
(* edit it meanwhile.  What nodes fetch and what models write is left out, *)
(* but for what steers the walk: branches, picks, answers and errors.      *)
(***************************************************************************)
EXTENDS Integers, Sequences, FiniteSets

CONSTANTS
    Agents,
    Wirings,      \* agent -> the flows its owner may draw
    MaxSteps, MaxVisits, OctoRounds, OctoCalls, MaxDepth,  \* the limits of the code
    MaxBodies,    \* the interpreter's limit: octo bodies within each other
    MaxRuns,      \* bound: runs from outside
    MaxEdits      \* bound: edits

VARIABLES
    flow,         \* analysis_agents: agent -> its flow
    stack,        \* the runs in progress, the caller below the called
    fresh,        \* _CACHE: the agents and flows with an answer under 5 s old
    runs, edits,
    ended         \* history: the run that ended last since one began from outside

flowVars == <<flow, stack, fresh, runs, edits, ended>>

\* An edge is [from, handle, to]; handle is "none" for an ordinary one.
Kind(w, n) == w.kind[n]
Nodes(w) == DOMAIN w.kind

\* Any drawing with a node: edges may hang in the air, a call node may name an
\* agent that is gone.
WellDrawn(w) ==
    /\ Nodes(w) # {} /\ Nodes(w) \subseteq STRING \ {"none"}
    /\ w.edges \in Seq([from : STRING, handle : STRING, to : STRING])

\* Where a walk starts; without a trigger, anywhere.
Trigger(w) == LET triggers == {n \in Nodes(w) : Kind(w, n) = "trigger"}
              IN  CHOOSE n \in Nodes(w) : triggers = {} \/ n \in triggers

NewBody == [round |-> 0, called |-> 0, plan |-> <<>>]

NewRun(a, w) ==
    [agent |-> a, wiring |-> w, queue |-> <<Trigger(w)>>, node |-> "none", steps |-> 0,
     visits |-> [n \in Nodes(w) |-> 0], trace |-> <<>>, response |-> "none",
     bodies |-> <<>>, over |-> FALSE]

NoRun == [agent |-> "none", trace |-> <<>>]

Depth == Len(stack)
Run == stack[Depth]
Becomes(r) == stack' = [stack EXCEPT ![Depth] = r]
Step(n, via, branch) == [node |-> n, via |-> via, branch |-> branch]

-----------------------------------------------------------------------------
(* Where a node leads. *)

\* The edges a walk follows out of a node; an if node without an edge for its
\* branch falls back on those without a handle.
Outs(w, n, branch) ==
    LET outs == {i \in DOMAIN w.edges : w.edges[i].from = n /\ w.edges[i].handle # "tools"}
        On(handle) == {i \in outs : w.edges[i].handle = handle}
    IN  IF Kind(w, n) # "if" THEN outs
        ELSE IF On(branch) # {} THEN On(branch) ELSE On("none")

\* What edges lead to, in the order in which they were drawn.
Targets(w, outs) ==
    [k \in 1..Cardinality(outs) |->
        w.edges[CHOOSE i \in outs : Cardinality({j \in outs : j <= i}) = k].to]

\* _octo_menu.
Menu(w, n) == {m \in Nodes(w) : \E i \in DOMAIN w.edges : w.edges[i] = [from |-> n, handle |-> "tools", to |-> m]}

\* Mutant of Finished: any answer ends the run, not a respond node's only.
FinishedByAnyAnswer(r, branch, response) ==
    [r EXCEPT !.node = "none", !.bodies = <<>>,
              !.trace = Append(@, Step(r.node, "edge", branch)),
              !.response = IF response # "none" THEN response ELSE @,
              !.over = response # "none",
              !.queue = @ \o Targets(r.wiring, Outs(r.wiring, r.node, branch))]

\* A walked node is done: its step is kept, its response is the run's until
\* another gives one, a respond node ends the run.
Finished(r, branch, response) ==
    [r EXCEPT !.node = "none", !.bodies = <<>>,
              !.trace = Append(@, Step(r.node, "edge", branch)),
              !.response = IF response # "none" THEN response ELSE @,
              !.over = Kind(r.wiring, r.node) = "respond" /\ response # "none",
              !.queue = @ \o Targets(r.wiring, Outs(r.wiring, r.node, branch))]

\* Of the octo bodies at work the last is within the others; it thinks, or has
\* named a tentacle that is at work.
Top(r) == r.bodies[Len(r.bodies)]
Thinks(r) == r.bodies # <<>> /\ Top(r).plan = <<>>
Pending(r) == IF r.bodies = <<>> THEN r.node ELSE Head(Top(r).plan)
Called(b) == [b EXCEPT !.called = @ + 1, !.plan = IF b.called + 1 < OctoCalls THEN Tail(@) ELSE <<>>]

\* The node at work has its result: for a tentacle it goes back to the body.
Landed(r, branch, response) ==
    LET n == Len(r.bodies)
    IN  IF n = 0 THEN Finished(r, branch, response)
        ELSE [r EXCEPT !.trace = Append(@, Step(Pending(r), IF n = 1 THEN "octo" ELSE "nested", "none")),
                       !.bodies = [@ EXCEPT ![n] = Called(Top(r))]]

\* A body has its answer: the walked node's result, or a tentacle's.
BodyEnds(r, response) ==
    LET n == Len(r.bodies)
    IN  IF n = 1 THEN Finished(r, "none", response)
        ELSE Landed([r EXCEPT !.bodies = SubSeq(@, 1, n - 1)], "none", response)

-----------------------------------------------------------------------------
(* Beginning and ending a run. *)

Cached(a) == <<a, flow[a]>> \in fresh

\* Called from outside: an answer from the cache, a refusal for want of a
\* required variable, or a walk.
Begins(a) ==
    /\ stack = <<>> /\ runs < MaxRuns
    /\ runs' = runs + 1
    /\ \/ stack' = stack
       \/ ~Cached(a) /\ stack' = <<NewRun(a, flow[a])>>
    /\ ended' = NoRun
    /\ UNCHANGED <<flow, fresh, edits>>

WalkIsOver(r) == r.node = "none" /\ (r.over \/ r.queue = <<>> \/ r.steps >= MaxSteps)

\* The answer is the respond node's, or the last one given, or a summary; it
\* is cached, and goes to the run that called this one.
Ends ==
    /\ stack # <<>> /\ WalkIsOver(Run)
    /\ LET answer == IF Run.response = "none" THEN "summary" ELSE Run.response
       IN  /\ ended' = [Run EXCEPT !.response = answer]
           /\ fresh' = fresh \cup {<<Run.agent, Run.wiring>>}
           /\ stack' = IF Depth = 1 THEN <<>>
                       ELSE [SubSeq(stack, 1, Depth - 1) EXCEPT ![Depth - 1] =
                                Landed(stack[Depth - 1], "none", Pending(stack[Depth - 1]))]
    /\ UNCHANGED <<flow, runs, edits>>

\* Five seconds pass.
Expires ==
    /\ fresh # {}
    /\ fresh' = {}
    /\ UNCHANGED <<flow, stack, runs, edits, ended>>

\* The owner, or the chat agent on their behalf, saves another flow.
Edits(a, w) ==
    /\ edits < MaxEdits
    /\ w # flow[a]
    /\ flow' = [flow EXCEPT ![a] = w]
    /\ edits' = edits + 1
    /\ UNCHANGED <<stack, fresh, runs, ended>>

-----------------------------------------------------------------------------
(* The walk. *)

Pops ==
    /\ stack # <<>> /\ Run.node = "none" /\ ~WalkIsOver(Run)
    /\ LET n == Head(Run.queue)
       IN  IF n \notin Nodes(Run.wiring) \/ Run.visits[n] >= MaxVisits
           THEN Becomes([Run EXCEPT !.queue = Tail(@)])
           ELSE Becomes([Run EXCEPT !.queue = Tail(@), !.node = n, !.steps = @ + 1,
                                    !.visits[n] = @ + 1,
                                    !.bodies = IF Kind(Run.wiring, n) = "octo" THEN <<NewBody>> ELSE <<>>])
    /\ UNCHANGED <<flow, fresh, runs, edits, ended>>

Works(kinds) ==
    /\ stack # <<>> /\ Run.node # "none" /\ ~Thinks(Run)
    /\ Kind(Run.wiring, Pending(Run)) \in kinds
    /\ UNCHANGED <<flow, fresh, runs, edits, ended>>

\* A trigger, or a source of data: errors are results.
Fetches == Works({"trigger", "data"}) /\ Becomes(Landed(Run, "none", "none"))

\* An undecidable condition counts as true.
Branches == Works({"if"}) /\ \E b \in {"true", "false"} : Becomes(Landed(Run, b, "none"))

\* A respond node, or one that plans and composes an answer of its own.
Composes == Works({"respond", "versatile"}) /\ Becomes(Landed(Run, "none", Pending(Run)))

\* A call node: nested too deep, at itself, at a deleted agent, an answer from
\* the cache, a refusal, or a run whose end the caller waits for.
CallsAgent ==
    /\ Works({"call"})
    /\ LET a == Run.wiring.calls[Pending(Run)]
           nested == Depth <= MaxDepth /\ a # Run.agent /\ a \in Agents
       IN  \/ Becomes(Landed(Run, "none", "none"))
           \/ nested /\ Cached(a) /\ Becomes(Landed(Run, "none", Pending(Run)))
           \/ nested /\ ~Cached(a) /\ stack' = Append(stack, NewRun(a, flow[a]))

\* An octo body thinks: it answers, or names tentacles to call; names that are
\* not on the menu of the walked node are skipped.  Without a menu it is an error.
OctoThinks ==
    /\ stack # <<>> /\ Run.node # "none" /\ Thinks(Run)
    /\ LET menu == Menu(Run.wiring, Run.node)
           top == Top(Run)
       IN  \/ menu = {} /\ Becomes(BodyEnds(Run, "none"))
           \/ menu # {} /\ Becomes(BodyEnds(Run, Run.node))
           \/ \E named \in 0..OctoCalls : \E plan \in [1..named -> menu] :
                 /\ menu # {} /\ top.round < OctoRounds /\ top.called < OctoCalls
                 /\ Becomes([Run EXCEPT !.bodies[Len(Run.bodies)] =
                                [top EXCEPT !.round = @ + 1, !.plan = plan]])
    /\ UNCHANGED <<flow, fresh, runs, edits, ended>>

\* The tentacle is an octo itself: a body within the body, until the interpreter
\* gives up, and with it the run and those that wait for it.
OctoNests ==
    /\ Works({"octo"})
    /\ IF Len(Run.bodies) < MaxBodies
       THEN Becomes([Run EXCEPT !.bodies = Append(@, NewBody)])
       ELSE stack' = <<>>

-----------------------------------------------------------------------------

Init ==
    /\ flow \in [Agents -> UNION {Wirings[a] : a \in Agents}]
    /\ \A a \in Agents : flow[a] \in Wirings[a]
    /\ stack = <<>> /\ fresh = {}
    /\ runs = 0 /\ edits = 0
    /\ ended = NoRun

Next ==
    \/ \E a \in Agents : Begins(a) \/ \E w \in Wirings[a] : Edits(a, w)
    \/ Ends \/ Expires \/ Pops \/ Fetches \/ Branches \/ Composes \/ CallsAgent
    \/ OctoThinks \/ OctoNests

Spec == Init /\ [][Next]_flowVars

-----------------------------------------------------------------------------
(* Properties. *)

\* What the drawing says about the step after node n: any edge but a tentacle's;
\* after an if node one of the branch it took, or, where the drawing has none for
\* that branch, one without a handle.
LeadsTo(w, n, branch, m) ==
    LET Drawn(handle) == \E i \in DOMAIN w.edges : w.edges[i].from = n /\ w.edges[i].handle = handle
    IN  \E i \in DOMAIN w.edges :
            /\ w.edges[i].from = n /\ w.edges[i].to = m /\ w.edges[i].handle # "tools"
            /\ Kind(w, n) = "if" => w.edges[i].handle = IF Drawn(branch) THEN branch ELSE "none"

Walked(r) == {i \in DOMAIN r.trace : r.trace[i].via = "edge"}
Visits(r, n) == {i \in Walked(r) : r.trace[i].node = n}
Reached(r, m) ==
    \/ m = Trigger(r.wiring)
    \/ \E j \in Walked(r) : LeadsTo(r.wiring, r.trace[j].node, r.trace[j].branch, m)

\* The tentacles' steps right before step i, which is the body's that called them.
Tentacles(r, i) == {k \in 1..(i - 1) : \A l \in k..(i - 1) : r.trace[l].via # "edge"}

\* Those that it called itself.
Own(r, i) == {k \in Tentacles(r, i) : r.trace[k].via = "octo"}

\* Each step of a finished run was drawn: a walked node is the trigger or where
\* an earlier step leads; a tentacle hangs on the octo node that is walked, whoever
\* called it, and that node's body calls no more than its limit itself; octos among
\* its tentacles have limits of their own, any number of times (run_flow, _n_octo).
EveryStepWasDrawn(r) ==
    /\ \A i \in Walked(r) :
          /\ \/ r.trace[i].node = Trigger(r.wiring)
             \/ \E j \in Walked(r) : j < i /\ LeadsTo(r.wiring, r.trace[j].node, r.trace[j].branch, r.trace[i].node)
          /\ \A k \in Tentacles(r, i) :
                Kind(r.wiring, r.trace[i].node) = "octo" /\ r.trace[k].node \in Menu(r.wiring, r.trace[i].node)
          /\ Cardinality(Own(r, i)) <= OctoCalls
    /\ Tentacles(r, Len(r.trace) + 1) = {}

\* A run that neither responded nor met the limit of steps has gone everywhere
\* its steps lead; a respond node is the last step and gives the answer.
NothingWasLeft(r) ==
    LET last == Len(r.trace)
        responded == {i \in Walked(r) : Kind(r.wiring, r.trace[i].node) = "respond"}
    IN  /\ responded \subseteq {last}
        /\ responded # {} => r.response = r.trace[last].node
        /\ responded = {} /\ Cardinality(Walked(r)) < MaxSteps =>
              \A m \in Nodes(r.wiring) : Reached(r, m) => Visits(r, m) # {}

\* A finished run did what its drawing says and no more, whatever cycles,
\* diamonds, tentacles and calls it has and whoever edited it meanwhile, within
\* the limits of the code; and no chain of calls is deeper than allowed.
RunsAsWired ==
    /\ Depth <= MaxDepth + 1
    /\ ended # NoRun =>
          /\ EveryStepWasDrawn(ended)
          /\ NothingWasLeft(ended)
          /\ Cardinality(Walked(ended)) <= MaxSteps
          /\ \A n \in Nodes(ended.wiring) : Cardinality(Visits(ended, n)) <= MaxVisits

-----------------------------------------------------------------------------
(* The inductive invariant. *)

Drawings == UNION {Wirings[a] : a \in Agents}
Names == {"none"} \cup UNION {Nodes(w) : w \in Drawings}
FlowStep == [node : Names, via : {"edge", "octo", "nested"}, branch : {"none", "true", "false"}]
Body == [round : Nat, called : Nat, plan : Seq(Names)]
FlowRun ==
    [agent : Agents, wiring : Drawings, queue : Seq(STRING), node : Names, steps : Nat,
     visits : UNION {[Nodes(w) -> 0..MaxVisits] : w \in Drawings}, trace : Seq(FlowStep),
     response : Names, bodies : Seq(Body), over : BOOLEAN]

\* A run's counts are those of its steps and of the node at work.
Counted(r) ==
    /\ r.steps = Cardinality(Walked(r)) + (IF r.node = "none" THEN 0 ELSE 1)
    /\ r.steps <= MaxSteps
    /\ r.visits \in [Nodes(r.wiring) -> 0..MaxVisits]
    /\ \A n \in Nodes(r.wiring) :
          r.visits[n] = Cardinality(Visits(r, n)) + (IF r.node = n THEN 1 ELSE 0)

\* What was walked, is at work and is queued was reached, and what was reached
\* is one of them.
Followed(r) ==
    /\ \A i \in Walked(r) :
          /\ r.trace[i].node \in Nodes(r.wiring)
          /\ \/ r.trace[i].node = Trigger(r.wiring)
             \/ \E j \in Walked(r) : j < i /\ LeadsTo(r.wiring, r.trace[j].node, r.trace[j].branch, r.trace[i].node)
    /\ r.node # "none" => r.node \in Nodes(r.wiring) /\ Reached(r, r.node)
    /\ \A q \in DOMAIN r.queue : Reached(r, r.queue[q])
    /\ \A m \in Nodes(r.wiring) : Reached(r, m) =>
          Visits(r, m) # {} \/ r.node = m \/ \E q \in DOMAIN r.queue : r.queue[q] = m

\* The steps of tentacles that no walked step follows yet are the body's at work.
Attached(r) ==
    /\ \A i \in Walked(r) :
          /\ \A k \in Tentacles(r, i) :
                Kind(r.wiring, r.trace[i].node) = "octo" /\ r.trace[k].node \in Menu(r.wiring, r.trace[i].node)
          /\ Cardinality(Own(r, i)) <= OctoCalls
    /\ \A k \in Tentacles(r, Len(r.trace) + 1) : r.trace[k].node \in Menu(r.wiring, r.node)
    /\ r.bodies = <<>> => Tentacles(r, Len(r.trace) + 1) = {}
    /\ r.bodies # <<>> => Cardinality(Own(r, Len(r.trace) + 1)) = r.bodies[1].called

\* Bodies are at work for a walked octo only, all but the last waiting for the
\* tentacle they named, each within its own limit.
Staffed(r) ==
    /\ r.bodies # <<>> <=> r.node # "none" /\ Kind(r.wiring, r.node) = "octo"
    /\ \A b \in DOMAIN r.bodies :
          /\ r.bodies[b].called <= OctoCalls
          /\ r.bodies[b].plan # <<>> => r.bodies[b].called < OctoCalls
          /\ b < Len(r.bodies) => r.bodies[b].plan # <<>>
          /\ \A p \in DOMAIN r.bodies[b].plan : r.bodies[b].plan[p] \in Menu(r.wiring, r.node)

\* A respond node is the last to be walked.
Responded(r) ==
    /\ \A i \in Walked(r) : Kind(r.wiring, r.trace[i].node) = "respond" => r.over /\ i = Len(r.trace)
    /\ r.over => /\ r.node = "none" /\ Len(r.trace) \in Walked(r)
                 /\ Kind(r.wiring, r.trace[Len(r.trace)].node) = "respond"
                 /\ r.response = r.trace[Len(r.trace)].node

RunHolds(r) == r \in FlowRun /\ Counted(r) /\ Followed(r) /\ Attached(r) /\ Staffed(r) /\ Responded(r)

\* A run below another waits at a call node.
Waits(r) == r.node # "none" /\ ~Thinks(r) /\ Kind(r.wiring, Pending(r)) = "call"

IInv ==
    /\ flow \in [Agents -> Drawings]
    /\ stack \in Seq(FlowRun) /\ Depth <= MaxDepth + 1
    /\ \A d \in DOMAIN stack : RunHolds(stack[d])
    /\ \A d \in 1..(Depth - 1) : Waits(stack[d])
    /\ RunsAsWired
=============================================================================
