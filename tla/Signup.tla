------------------------------- MODULE Signup -------------------------------
(***************************************************************************)
(* Becoming a user of an instance (backend/main.py): ask for a code, enter *)
(* it, complete the profile.  A multi-tenant instance lets in whoever      *)
(* carries the invite code, or everybody while registrations are open; a   *)
(* single-user one lets in one person, once.  Every user holds an API key. *)
(***************************************************************************)
EXTENDS Naturals

CONSTANTS
    Emails,
    Requests,     \* requests to verify and to complete, which may overlap
    Editions,     \* subset of {"single", "multi"}
    MaxCodes,     \* bound: codes sent to one address
    MaxKeys,      \* bound: keys of one user
    MaxEdits      \* bound: administrators' changes

VARIABLES
    edition,
    open,         \* admin_settings.registrations_open
    invite,       \* admin_settings.signup_invite_code: "none", "old", "new"
    signup,       \* email -> its signups row
    doing,        \* request -> what it is in the middle of, "nothing" when it is over
    who,          \* request -> the email it is about
    users,        \* emails with an account
    suspended,
    keys,         \* email -> API keys not revoked
    looking,      \* users whose keys were looked up and none was found
    edits,
    proved,       \* history: email -> the last code entered correctly
    raced,        \* history: emails sent a code under a verification or a completion
    beside        \* history: emails with a completion beside another

svars == <<edition, open, invite, signup, doing, who, users, suspended, keys, looking,
           edits, proved, raced, beside>>
adminVars == <<edition, open, invite, suspended, edits>>
keyVars == <<keys, looking>>
requestVars == <<doing, who, proved, raced, beside>>

NoSignup == [code |-> 0, verified |-> FALSE, attempts |-> 0, expired |-> FALSE]
MaxAttempts == 1        \* 8 in the code
Asking == {p \in Requests : doing[p] \in {"asks", "completes"}}
At(e, step) == \E p \in Requests : doing[p] = step /\ who[p] = e

\* _signup_allowed
Allowed(inv) ==
    IF edition = "single" THEN users = {}
    ELSE open \/ (invite # "none" /\ inv = invite)

Raced(e) == IF At(e, "enters") \/ At(e, "completes") THEN raced \cup {e} ELSE raced \ {e}

\* Mutant of Start: what was verified stays verified.
StartKeeps(e, inv) ==
    /\ Allowed(inv) /\ e \notin users
    /\ signup[e].code < MaxCodes
    /\ signup' = [signup EXCEPT ![e].code = @ + 1, ![e].attempts = 0, ![e].expired = FALSE]
    /\ raced' = Raced(e)
    /\ UNCHANGED <<doing, who, users, proved, beside, adminVars, keyVars>>

\* signup_start: a new code voids what was verified with the one before, but
\* not what a request has just read of that one.
Start(e, inv) ==
    /\ Allowed(inv) /\ e \notin users
    /\ signup[e].code < MaxCodes
    /\ signup' = [signup EXCEPT ![e] = [NoSignup EXCEPT !.code = signup[e].code + 1]]
    /\ raced' = Raced(e)
    /\ UNCHANGED <<doing, who, users, proved, beside, adminVars, keyVars>>

\* Fifteen minutes.
Expires(e) ==
    /\ signup[e].code # 0 /\ ~signup[e].expired
    /\ signup' = [signup EXCEPT ![e].expired = TRUE]
    /\ UNCHANGED <<users, requestVars, adminVars, keyVars>>

Begins(p, step, e) ==
    /\ doing[p] = "nothing"
    /\ doing' = [doing EXCEPT ![p] = step] /\ who' = [who EXCEPT ![p] = e]
    /\ UNCHANGED <<signup, users, raced, adminVars, keyVars>>

Ends(p) == doing' = [doing EXCEPT ![p] = "nothing"] /\ who' = [who EXCEPT ![p] = "none"]

\* signup_verify's SELECT, with a code that was sent or with another.
Verify(p, e, inv, code) ==
    /\ Allowed(inv)
    /\ signup[e].code # 0 /\ signup[e].attempts < MaxAttempts /\ ~signup[e].expired
    /\ IF code = signup[e].code
       THEN Begins(p, "enters", e) /\ proved' = [proved EXCEPT ![e] = code]
       ELSE Begins(p, "misses", e) /\ UNCHANGED proved
    /\ UNCHANGED beside

\* Its UPDATE, of the row the address has by now, if it still has one.
Verified(p) == LET e == who[p] IN
    /\ \/ doing[p] = "enters" /\ signup' = [signup EXCEPT ![e].verified = signup[e].code # 0]
       \/ doing[p] = "misses" /\ signup' = [signup EXCEPT ![e].attempts =
                                               IF signup[e].code = 0 THEN 0 ELSE @ + 1]
    /\ Ends(p)
    /\ UNCHANGED <<users, proved, raced, beside, adminVars, keyVars>>

\* signup_complete asks whether the door is open ...
CompleteAsks(p, e, inv) ==
    /\ Allowed(inv) /\ Begins(p, "asks", e)
    /\ beside' = IF Asking = {} THEN beside ELSE beside \cup {who[q] : q \in Asking} \cup {e}
    /\ UNCHANGED proved

\* ... and whether the address is verified and has no account, and goes on to
\* the brokers' prechecks, which take their time.
CompleteBegins(p) ==
    /\ doing[p] = "asks" /\ signup[who[p]].verified /\ who[p] \notin users
    /\ doing' = [doing EXCEPT ![p] = "completes"]
    /\ UNCHANGED <<signup, who, users, proved, raced, beside, adminVars, keyVars>>

\* The transaction that makes the user, with a key; UNIQUE (email) refuses a second.
CompleteEnds(p) == LET e == who[p] IN
    /\ doing[p] = "completes"
    /\ IF e \in users THEN UNCHANGED <<users, keys, signup>>
       ELSE /\ users' = users \cup {e}
            /\ keys' = [keys EXCEPT ![e] = 1]
            /\ signup' = [signup EXCEPT ![e] = NoSignup]
    /\ Ends(p)
    /\ UNCHANGED <<looking, proved, raced, beside, adminVars>>

\* Refused for the address, or by a precheck: nothing was written.
CompleteFails(p) ==
    /\ p \in Asking /\ Ends(p)
    /\ UNCHANGED <<signup, users, proved, raced, beside, adminVars, keyVars>>

-----------------------------------------------------------------------------
(* Keys: looking at them issues one to a user who has none. *)

\* _ensure_default_key: the look and the insert are one transaction, without a lock.
LooksForKey(e) ==
    /\ e \in users \ looking /\ keys[e] = 0
    /\ looking' = looking \cup {e}
    /\ UNCHANGED <<signup, users, requestVars, keys, adminVars>>

IssuesKey(e) ==
    /\ e \in looking /\ keys[e] < MaxKeys
    /\ keys' = [keys EXCEPT ![e] = @ + 1]
    /\ looking' = looking \ {e}
    /\ UNCHANGED <<signup, users, requestVars, adminVars>>

CreateKey(e) ==
    /\ e \in users /\ keys[e] < MaxKeys
    /\ keys' = [keys EXCEPT ![e] = @ + 1]
    /\ UNCHANGED <<signup, users, requestVars, looking, adminVars>>

RevokeKey(e) ==
    /\ e \in users /\ keys[e] > 0
    /\ keys' = [keys EXCEPT ![e] = @ - 1]
    /\ UNCHANGED <<signup, users, requestVars, looking, adminVars>>

-----------------------------------------------------------------------------
(* The console, which a single-user instance does not have. *)

Edit == edition = "multi" /\ edits < MaxEdits /\ edits' = edits + 1

SetRegistrations ==
    /\ Edit /\ open' = ~open
    /\ UNCHANGED <<edition, invite, suspended, signup, users, requestVars, keyVars>>

RotateInvite ==
    /\ Edit /\ invite' = IF invite = "none" THEN "old" ELSE "new"
    /\ UNCHANGED <<edition, open, suspended, signup, users, requestVars, keyVars>>

\* suspend_user sets a status, which the chat asks for; the user stays one.
Suspend(e) ==
    /\ Edit /\ e \in users
    /\ suspended' = IF e \in suspended THEN suspended \ {e} ELSE suspended \cup {e}
    /\ UNCHANGED <<edition, open, invite, signup, users, requestVars, keyVars>>

-----------------------------------------------------------------------------
Init ==
    /\ edition \in Editions /\ open = FALSE /\ invite = "none" /\ suspended = {}
    /\ signup = [e \in Emails |-> NoSignup]
    /\ doing = [p \in Requests |-> "nothing"] /\ who = [p \in Requests |-> "none"]
    /\ users = {} /\ keys = [e \in Emails |-> 0] /\ looking = {}
    /\ edits = 0 /\ proved = [e \in Emails |-> 0]
    /\ raced = {} /\ beside = {}

Next ==
    \/ \E e \in Emails, inv \in {"none", "old", "new"} :
        \/ Start(e, inv)
        \/ \E p \in Requests :
              CompleteAsks(p, e, inv) \/ \E c \in 0..MaxCodes : Verify(p, e, inv, c)
    \/ \E p \in Requests :
        Verified(p) \/ CompleteBegins(p) \/ CompleteEnds(p) \/ CompleteFails(p)
    \/ \E e \in Emails :
        \/ Expires(e) \/ Suspend(e)
        \/ LooksForKey(e) \/ IssuesKey(e) \/ CreateKey(e) \/ RevokeKey(e)
    \/ SetRegistrations \/ RotateInvite

Spec == Init /\ [][Next]_svars

-----------------------------------------------------------------------------
(* Properties. *)

UsersProvedTheirCode == \A e \in users : proved[e] # 0
CompletionsAreVerified ==
    \A e \in Emails \ (raced \cup users) :
        At(e, "completes") => signup[e].verified /\ proved[e] = signup[e].code
OneUserIsAlone == edition = "single" => \A d, e \in users : d # e => {d, e} \subseteq beside

\* Nobody becomes a user but by a code sent to the address, and by the last
\* one, unless it was sent between the two statements of a verification or
\* while a completion waited for the brokers: neither write looks again.  And a
\* single-user instance has one user "whatever any setting says"
\* (main.py:412-426), unless two completions overlap: over restarted, expired
\* and refused sign-ups, and settings changed between two of their steps.
EveryoneWasLetIn == UsersProvedTheirCode /\ CompletionsAreVerified /\ OneUserIsAlone

-----------------------------------------------------------------------------
(* Why it holds: the inductive invariant. *)

Steps == {"nothing", "enters", "misses", "asks", "completes"}

SignupTypeOK ==
    /\ edition \in Editions
    /\ signup \in [Emails -> [code : Nat, verified : BOOLEAN, attempts : Nat, expired : BOOLEAN]]
    /\ doing \in [Requests -> Steps] /\ who \in [Requests -> Emails \cup {"none"}]
    /\ \A p \in Requests : doing[p] # "nothing" => who[p] \in Emails
    /\ users \subseteq Emails /\ proved \in [Emails -> Nat]

\* What is verified, or about to be, was proved: with the code the sign-up has,
\* unless that came in between.
VerifiedIsProved ==
    /\ \A e \in Emails : signup[e].verified =>
          proved[e] # 0 /\ signup[e].code # 0 /\ (e \notin raced => proved[e] = signup[e].code)
    /\ \A p \in Requests : doing[p] = "enters" =>
          proved[who[p]] # 0 /\ (who[p] \notin raced => signup[who[p]].code \in {0, proved[who[p]]})

\* What completes was proved.
CompletesIsProved == \A p \in Requests : doing[p] = "completes" => proved[who[p]] # 0

\* Of completions that overlap, all are known to.
OverlapsAreKnown == \A p, q \in Asking : p # q => who[p] \in beside

\* Whoever asks to complete the sign-up of a single-user instance that has a
\* user by now asked beside that one.
NobodyIsIn == edition = "single" => \A p \in Asking, e \in users : {who[p], e} \subseteq beside

IInv ==
    /\ SignupTypeOK /\ VerifiedIsProved /\ CompletesIsProved /\ OverlapsAreKnown /\ NobodyIsIn
    /\ EveryoneWasLetIn
=============================================================================
