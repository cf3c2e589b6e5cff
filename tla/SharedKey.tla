------------------------------ MODULE SharedKey ------------------------------
(* What a pair is, seen from outside: two key slots, the robot's and the     *)
(* app's.  The robot enrols when its slot is empty, and the app learns a key *)
(* that was enrolled.  Each side then moves from one key to the next one of  *)
(* its line, the robot first, and the app's key is never more than one       *)
(* behind.  Either side may forget.                                          *)
EXTENDS Naturals, Sequences

VARIABLES robotKey, appKey

NoKey == <<>>

Enrolled(k) == Len(k) = 1

SameLine(j, k) == j # NoKey /\ k # NoKey /\ Head(j) = Head(k)

NextOf(k, next) == Len(next) = Len(k) + 1 /\ SubSeq(next, 1, Len(k)) = k

Init == robotKey = appKey /\ (appKey = NoKey \/ Enrolled(appKey))

Enrol ==
  /\ robotKey = NoKey
  /\ Enrolled(robotKey') /\ ~SameLine(robotKey', appKey)
  /\ UNCHANGED appKey

Learn ==
  /\ appKey = NoKey
  /\ Enrolled(appKey')
  /\ SameLine(appKey', robotKey) => appKey' = robotKey
  /\ UNCHANGED robotKey

Rotate ==
  /\ robotKey # NoKey /\ NextOf(robotKey, robotKey')
  /\ SameLine(robotKey, appKey) => appKey = robotKey
  /\ UNCHANGED appKey

Confirm ==
  /\ appKey # NoKey /\ NextOf(appKey, appKey')
  /\ SameLine(robotKey, appKey) => robotKey = appKey'
  /\ UNCHANGED robotKey

RobotForgets == robotKey' = NoKey /\ UNCHANGED appKey

AppForgets == appKey' = NoKey /\ UNCHANGED robotKey

Next == Enrol \/ Learn \/ Rotate \/ Confirm \/ RobotForgets \/ AppForgets

Spec == Init /\ [][Next]_<<robotKey, appKey>>
=============================================================================
