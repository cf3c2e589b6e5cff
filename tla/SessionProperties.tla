------------------------- MODULE SessionProperties -------------------------
(* What a pair promises its two ends. *)
EXTENDS Session

Settled == \A t \in Task : ~Busy(t)

(* The app holds a pair, and its key at rest is the one the robot verifies  *)
(* with.                                                                    *)
SameKey == row.on /\ robot.paired /\ vault = robot.psk

(* Each side moves one key at a time along its line, the robot first, and   *)
(* neither is ever more than one key from the other (PairRefreshUseCase     *)
(* with handlePairRefresh; the robot's key is the one a reboot would load). *)
SK == INSTANCE SharedKey WITH
        robotKey <- IF Loads(flash) THEN flash.psk ELSE NoKey,
        appKey <- GetPairPsk

KeysShared == SK!Spec

(* With no failed write and no killed app, the next frame of the app is     *)
(* fresh for the robot: also after a refresh, which resets the counter of   *)
(* each side at a different time, and after a power loss between two writes *)
(* of it, when only the wrap makes it so.                                   *)
NextIsFresh ==
  faults = 0 /\ kills = 0 /\ SameKey /\ holder.on /\ refresh.at \notin {"row", "holder"} =>
    IsFreshCounter(robot.fromApp, holder.last + 1)

(* A frame is consumed at most once in a boot of the robot, however often   *)
(* the network delivers it: none that was consumed is fresh again.          *)
ConsumedOnce ==
  \A h \in heard :
    robot.paired /\ h[1] = robot.psk => ~IsFreshCounter(robot.fromApp, h[2])

(* While no save is under way and no write has failed, a reboot restores    *)
(* the pair the robot is in: also after earlier power losses, within saves. *)
RebootRestores ==
  Settled /\ faults = 0 =>
    LET r == RestorePair(flash, FALSE)
    IN r.paired = robot.paired /\ r.psk = robot.psk /\ r.era = robot.era

(* A row always has a key: neither a pairing, a refresh, a forget nor an    *)
(* eviction leaves Room with a pair whose key is lost, at any instant.      *)
RowHasKey == row.on => vault # NoKey

(* Between two refreshes the two ends agree on the era of a key they share, *)
(* and a robot that is ahead is ahead by the very key that the next attempt *)
(* derives: a lost answer costs a retry, never the pair.                    *)
NextAttemptFits ==
  refresh.at = "idle" /\ Settled /\ row.on /\ robot.paired /\ SK!SameLine(vault, robot.psk) =>
    \/ robot.psk = vault /\ robot.era = row.era
    \/ robot.psk = DerivePairRefreshPsk(vault, row.era + 1) /\ robot.era = row.era + 1

(* The app lets itself be evicted only when the robot has let go of the     *)
(* key: a goodbye of an older pair or era, or a repeated one, is ignored.   *)
EvictionHonest == purge.evict = "row" => ~SameKey

(* Whatever the app has sent, a restart allocates above what the robot has  *)
(* consumed (ToRobotCounter: "so an unclean kill loses nothing").           *)
RestartsAhead ==
  SameKey /\ row.era = robot.era /\ refresh.at = "idle" => robot.fromApp <= row.ctr
=============================================================================
