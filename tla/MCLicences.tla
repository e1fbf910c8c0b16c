----------------------------- MODULE MCLicences -----------------------------
EXTENDS Licences, TLC
CONSTANTS single, pack, part, gift, everything, i1, i2, c1
MCGrants == {{everything}}
MCIncludes == pack :> {single}
Order(p, i, c) == [product |-> p, inst |-> i, customer |-> c]
MCOrders == {Order(single, i1, c1), Order(pack, i1, c1)}
MCTwoBoxes == {Order(single, i1, c1), Order(single, i2, c1)}
Bound(o, a, t) == [orders |-> o, admin |-> a, until |-> t]
MCBounds == {Bound(2, 0, 1), Bound(1, 1, 1), Bound(1, 0, 2)}
MCWith == part :> single
Symmetry == Permutations(Keys) \cup Permutations(Procs)
=============================================================================
