---------------------------- MODULE MCCoordinator ----------------------------
(* Small instances of Coordinator for TLC. *)
EXTENDS CoordinatorProperties

Forward == [v |-> 1, w |-> 0]
Back    == [v |-> -1, w |-> 0]
Turn    == [v |-> 0, w |-> 1]

FrontGone == [fwd |-> FALSE, rev |-> TRUE]
BothGone  == [fwd |-> FALSE, rev |-> FALSE]

Nothing     == {}
ForwardOnly == {Forward}
StopForward == {Stop, Forward}
ThreeWays   == {Forward, Back, Turn}

FrontLedge == {Level, FrontGone}
TwoLedges  == {Level, FrontGone, BothGone}

FarOnly     == {FALSE}
AnyObstacle == BOOLEAN

NeutralExcited == {"boot", "excited"}
ExcitedOnly == {"excited"}
=============================================================================
