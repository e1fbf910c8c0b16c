--------------------------- MODULE MCDataTriggers ---------------------------
(***************************************************************************)
(* `either` waits for a story or the print of a release, `both` for a      *)
(* story shortly before the release.                                       *)
(***************************************************************************)
EXTENDS DataTriggers, TLC

CONSTANTS either, both, release

MCReleaseAt == [r \in Releases |-> 1]
MCCombine == [a \in Agents |-> IF a = either THEN "or" ELSE "and"]
AnyStory == [kind |-> "story", of |-> Stories, wait |-> 0]
MCConditions ==
    [a \in Agents |->
        IF a = either THEN {AnyStory, [kind |-> "after", of |-> Releases, wait |-> 0]}
        ELSE {AnyStory, [kind |-> "before", of |-> Releases, wait |-> 1]}]
Symmetry == Permutations(Workers) \cup Permutations(Stories)
=============================================================================
