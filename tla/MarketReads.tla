----------------------------- MODULE MarketReads -----------------------------
(***************************************************************************)
(* Reading the market through whichever account still works                *)
(* (backend/market.py).  A read tries the accounts of a shortlist, then    *)
(* the others the user owns.  An account that refuses is remembered for    *)
(* TTL, process-wide, and left alone by every read; when nothing is left   *)
(* the memory is wiped and the first account gets one more attempt.        *)
(*                                                                         *)
(* Reads run on threads of their own and share nothing but the memory.  A  *)
(* read is told by what it does with an account that lacks the instrument: *)
(* resolving a name goes on to the next, pulling candles or a quote stops. *)
(***************************************************************************)
EXTENDS Integers, Sequences

CONSTANTS
    Readers,      \* reads at once
    Shortlist,    \* the active account, then the chosen ones
    OwnAccounts,  \* every account of the user's logins, the active broker's first
    TTL,          \* _REFUSED_TTL_S
    Bounds        \* bounds: reads begun, turns of an account, the last minute

VARIABLES
    answers,      \* account -> what the broker answers on it now
    marks,        \* _REFUSED: account -> when the read it refused began, or Never
    clock,
    read,         \* reader -> its read
    steady,       \* history: accounts that would have served its read all along, unless marked
                  \* and wiped by another read
    left          \* of the bounds, what is left

readVars == <<answers, marks, clock, read, steady, left>>

None == "none"
Never == -1
In(list) == {list[i] : i \in DOMAIN list}
Accounts == In(OwnAccounts) \cup In(Shortlist)
Answers == {"serves", "refuses", "lacks", "fails"}

Read(at, kind, first, phase, todo, asking, tried) ==
    [at |-> at, kind |-> kind, first |-> first, phase |-> phase, todo |-> todo, asking |-> asking,
     tried |-> tried, end |-> None]
Done(end) ==
    [at |-> 0, kind |-> "pull", first |-> None, phase |-> "over", todo |-> {}, asking |-> None,
     tried |-> FALSE, end |-> end]

TypeOK ==
    /\ answers \in [Accounts -> Answers]
    /\ clock \in Nat /\ marks \in [Accounts -> {Never} \cup 0..clock]
    /\ read \in [Readers -> [at : 0..clock, kind : {"resolve", "pull"}, first : Accounts \cup {None},
                             phase : {"short", "rest", "last", "over"}, todo : SUBSET Accounts,
                             asking : Accounts \cup {None}, tried : BOOLEAN,
                             end : {None, "served", "raised", "refused"}]]
    /\ steady \in [Readers -> SUBSET Accounts]
    /\ \A r \in Readers : read[r].phase = "over" => read[r].asking = None /\ read[r].end # None

Spends(what) == left[what] > 0 /\ left' = [left EXCEPT ![what] = left[what] - 1]

------------------------------------------------------------------------------
(* _read. *)

\* _candidates: the one asked for, then the shortlist, each once.
Candidates(first) == ({first} \ {None}) \cup In(Shortlist)
Preferred(first) == IF first # None THEN first ELSE IF Shortlist = <<>> THEN None ELSE Shortlist[1]

\* The order in which accounts are tried.
Place(first, a) ==
    LET order == Shortlist \o OwnAccounts
    IN  IF a = first THEN 0
        ELSE CHOOSE i \in DOMAIN order : order[i] = a /\ \A j \in 1..(i - 1) : order[j] # a

Fresh(r, a) == marks[a] = Never \/ read[r].at - marks[a] >= TTL

Begins(r, kind, first) ==
    /\ read[r].phase = "over" /\ Spends("read")
    /\ read' = [read EXCEPT ![r] = Read(clock, kind, first, "short", Candidates(first), None, FALSE)]
    /\ steady' = [steady EXCEPT ![r] =
                    {a \in Accounts : /\ answers[a] = "serves"
                                      /\ marks[a] = Never \/ clock - marks[a] >= TTL \/ a = Preferred(first)}]
    /\ UNCHANGED <<answers, marks, clock>>

GoesOn(r, phase, todo, asking, tried) ==
    read' = [read EXCEPT ![r] = Read(read[r].at, read[r].kind, read[r].first, phase, todo, asking, tried)]

\* The next account that is not marked; the last attempt does not look.
Asks(r) ==
    LET at(a) == Place(read[r].first, a)
        open == {a \in read[r].todo : read[r].phase = "last" \/ Fresh(r, a)}
    IN  /\ read[r].phase # "over" /\ read[r].asking = None
        /\ \E a \in open :
              /\ \A b \in open : at(a) <= at(b)
              /\ GoesOn(r, read[r].phase, {b \in read[r].todo \ {a} : at(a) <= at(b)}, a, read[r].tried)
        /\ UNCHANGED <<answers, marks, clock, steady, left>>

Over(r, end) == read' = [read EXCEPT ![r] = Done(end)]

\* is_refusal, and for a name what resolve_symbol adds to it.
Refusal(r, answer) == answer = "refuses" \/ (answer = "lacks" /\ read[r].kind = "resolve")

\* The account answers: it serves, the read goes on to the next, or the error is
\* the caller's.
Hears(r) ==
    \E a \in Accounts : a = read[r].asking /\
        /\ \/ /\ answers[a] = "serves"
              /\ Over(r, "served") /\ UNCHANGED marks
           \/ /\ answers[a] # "serves" /\ read[r].phase = "last"
              /\ Over(r, "refused") /\ UNCHANGED marks
           \/ /\ Refusal(r, answers[a]) /\ read[r].phase # "last"
              /\ marks' = [marks EXCEPT ![a] = read[r].at]
              /\ GoesOn(r, read[r].phase, read[r].todo, None, read[r].tried \/ read[r].phase = "short")
           \/ /\ answers[a] # "serves" /\ ~Refusal(r, answers[a]) /\ read[r].phase # "last"
              /\ Over(r, "raised") /\ UNCHANGED marks
        /\ UNCHANGED <<answers, clock, steady, left>>

\* Mutant of Rest: the active broker's accounts only.
RestOfShortlist(r) == In(Shortlist) \ Candidates(read[r].first)

\* _login_accounts, without those of the shortlist, asked or skipped.
Rest(r) == In(OwnAccounts) \ Candidates(read[r].first)

Spent(r, phase) ==
    /\ read[r].phase = phase /\ read[r].asking = None
    /\ \A a \in read[r].todo : ~Fresh(r, a)

Widens(r) ==
    /\ Spent(r, "short")
    /\ GoesOn(r, "rest", Rest(r), None, read[r].tried)
    /\ UNCHANGED <<answers, marks, clock, steady, left>>

\* Mutant of LastTry: nothing more is tried.
LastTryNone(r) == {}

\* One honest attempt, on the preferred account.
LastTry(r) == {Preferred(read[r].first)} \ {None}

\* Everything is marked: the marks may be stale, and are wiped.
Wipes(r) ==
    /\ Spent(r, "rest")
    /\ IF (read[r].tried \/ \E a \in Accounts : marks[a] # Never) /\ LastTry(r) # {}
       THEN GoesOn(r, "last", LastTry(r), None, read[r].tried)
       ELSE Over(r, "refused")
    /\ marks' = [a \in Accounts |-> Never]
    /\ steady' = [q \in Readers |-> IF q = r THEN steady[q] ELSE {a \in steady[q] : marks[a] = Never}]
    /\ UNCHANGED <<answers, clock, left>>

------------------------------------------------------------------------------
(* Brokers and time. *)

Turns(a, answer) ==
    /\ answer # answers[a] /\ Spends("turn")
    /\ answers' = [answers EXCEPT ![a] = answer]
    /\ steady' = [r \in Readers |-> steady[r] \ {a}]
    /\ UNCHANGED <<marks, clock, read>>

Ticks ==
    /\ Spends("tick") /\ clock' = clock + 1
    /\ UNCHANGED <<answers, marks, read, steady>>

Init ==
    /\ answers = [a \in Accounts |-> "serves"]
    /\ marks = [a \in Accounts |-> Never] /\ clock = 0
    /\ read = [r \in Readers |-> Done("served")] /\ steady = [r \in Readers |-> {}]
    /\ left \in Bounds

Next ==
    \/ \E r \in Readers :
        \/ \E kind \in {"resolve", "pull"}, first \in {None} \cup (Accounts \ {Shortlist[1]}) : Begins(r, kind, first)
        \/ Asks(r) \/ Hears(r) \/ Widens(r) \/ Wipes(r)
    \/ \E a \in Accounts, answer \in Answers : Turns(a, answer)
    \/ Ticks

------------------------------------------------------------------------------
(* Properties. *)

\* "One refused account should never cost the caller its candles" (market.py:95-99):
\* a read is refused only if no account of the user's would have served it all
\* along: none of those not marked when it began, and not the preferred one even if
\* marked, but when another read wiped its mark, which takes the last attempt away
\* from a read that skipped the account (lines 192 and 218).
RefusedByAll == \A r \in Readers : read[r].phase = "over" /\ read[r].end = "refused" => steady[r] = {}

ReadsHold == TypeOK /\ RefusedByAll

------------------------------------------------------------------------------
(* Why it holds: the inductive invariant. *)

\* An account that would have served a read all along is still before it, unless it is
\* the preferred one, and marked: then the last attempt is for it.
SteadyIsAhead ==
    \A r \in Readers : \A a \in steady[r] :
        /\ answers[a] = "serves"
        /\ read[r].phase \in {"short", "rest"} /\ ~Fresh(r, a) => a = Preferred(read[r].first)
        /\ read[r].phase = "short" /\ Fresh(r, a) /\ a \in Candidates(read[r].first) =>
              a \in read[r].todo \cup {read[r].asking}
        /\ read[r].phase = "rest" /\ Fresh(r, a) => a \in read[r].todo \cup {read[r].asking}
        /\ read[r].phase = "last" => a = Preferred(read[r].first)

LastIsPreferred ==
    \A r \in Readers : read[r].phase = "last" =>
        read[r].todo \cup {read[r].asking} \subseteq {Preferred(read[r].first), None}

IInv == ReadsHold /\ SteadyIsAhead /\ LastIsPreferred
==============================================================================
