------------------------------- MODULE Platform -------------------------------
(***************************************************************************)
(* Parts of the server that share no state with one another, side by side. *)
(* A behaviour exercises one of them, its "machine", and leaves the others *)
(* out: Parts and ModuleParts say what each machine does, MCPlatform puts  *)
(* them together.  The two sets of interchangeable names stand for         *)
(* whatever threads and things a part has.                                 *)
(***************************************************************************)
EXTENDS Integers, Sequences, FiniteSets

CONSTANTS Actors, Things,   \* model values: who acts, and what is acted upon
          Machines          \* the parts to exercise

ASSUME PlatformAssumption == {"none", "nobody"} \cap (Actors \cup Things) = {}

\* Since a behaviour has one machine, the machines take turns with the same
\* variables: a part's state is the first of v1, v2, ... in the order in which
\* its module declares it, and what it has no use for stays 0.
VARIABLES machine, v1, v2, v3, v4, v5, v6, v7, v8, v9, v10, v11, v12, v13, v14, v15, v16, v17

vars == <<machine, v1, v2, v3, v4, v5, v6, v7, v8, v9, v10, v11, v12, v13, v14, v15, v16, v17>>

\* The variables beyond the first n.
Unused(n) ==
    /\ IF n < 2 THEN v2 = 0 ELSE TRUE
    /\ IF n < 3 THEN v3 = 0 ELSE TRUE
    /\ IF n < 4 THEN v4 = 0 ELSE TRUE
    /\ IF n < 5 THEN v5 = 0 ELSE TRUE
    /\ IF n < 6 THEN v6 = 0 ELSE TRUE
    /\ IF n < 7 THEN v7 = 0 ELSE TRUE
    /\ IF n < 8 THEN v8 = 0 ELSE TRUE
    /\ IF n < 9 THEN v9 = 0 ELSE TRUE
    /\ IF n < 10 THEN v10 = 0 ELSE TRUE
    /\ IF n < 11 THEN v11 = 0 ELSE TRUE
    /\ IF n < 12 THEN v12 = 0 ELSE TRUE
    /\ IF n < 13 THEN v13 = 0 ELSE TRUE
    /\ IF n < 14 THEN v14 = 0 ELSE TRUE
    /\ IF n < 15 THEN v15 = 0 ELSE TRUE
    /\ IF n < 16 THEN v16 = 0 ELSE TRUE
    /\ IF n < 17 THEN v17 = 0 ELSE TRUE
Rest(n) ==
    /\ UNCHANGED machine
    /\ IF n < 2 THEN UNCHANGED v2 ELSE TRUE
    /\ IF n < 3 THEN UNCHANGED v3 ELSE TRUE
    /\ IF n < 4 THEN UNCHANGED v4 ELSE TRUE
    /\ IF n < 5 THEN UNCHANGED v5 ELSE TRUE
    /\ IF n < 6 THEN UNCHANGED v6 ELSE TRUE
    /\ IF n < 7 THEN UNCHANGED v7 ELSE TRUE
    /\ IF n < 8 THEN UNCHANGED v8 ELSE TRUE
    /\ IF n < 9 THEN UNCHANGED v9 ELSE TRUE
    /\ IF n < 10 THEN UNCHANGED v10 ELSE TRUE
    /\ IF n < 11 THEN UNCHANGED v11 ELSE TRUE
    /\ IF n < 12 THEN UNCHANGED v12 ELSE TRUE
    /\ IF n < 13 THEN UNCHANGED v13 ELSE TRUE
    /\ IF n < 14 THEN UNCHANGED v14 ELSE TRUE
    /\ IF n < 15 THEN UNCHANGED v15 ELSE TRUE
    /\ IF n < 16 THEN UNCHANGED v16 ELSE TRUE
    /\ IF n < 17 THEN UNCHANGED v17 ELSE TRUE
==============================================================================
