------------------------------- MODULE Pairing -------------------------------
(* The robot's side of a pair: PairingTask with pairing::Core, and the flash *)
(* keys of ConfigStore.  Handlers run on the radio task; the pair button is  *)
(* polled by the main loop.  A save writes one flash key after another, and  *)
(* every write is a step of its own.                                         *)
EXTENDS Wire

CONSTANTS
  MaxTries,     \* wrong codes before a lockout
  MaxWindows,   \* bound: pairing windows opened
  MaxBoots,     \* bound: power losses
  MaxFaults,    \* bound: flash writes that fail
  Torn,         \* power may be lost between two writes of one save
  Overlap       \* the button and the radio may save at the same time

ASSUME PairingAssumption ==
  /\ MaxTries \in Nat \ {0}
  /\ MaxWindows \in Nat
  /\ MaxBoots \in Nat
  /\ MaxFaults \in Nat
  /\ Torn \in BOOLEAN
  /\ Overlap \in BOOLEAN

VARIABLES
  robot,   \* PairingTask: paired, psk, era, fromApp, toApp, valid; peer: an
           \* address was pinned since boot
  core,    \* pairing::Core: paired, code (0 when no window is open or it is
           \* burned), tries, locked
  flash,   \* NVS; an absent key is the value its reader defaults to
  job,     \* per task, the save it is in the middle of
  shown,   \* codes displayed so far
  heard,   \* frames consumed since boot
  boots,
  faults

robotVars == <<robot, core, flash, job, shown, heard, boots, faults>>

Task == {"radio", "loop"}

Field == {"psk", "ctr", "paired", "era", "tapp"}

NoFlash == [psk |-> NoKey, ctr |-> 0, paired |-> FALSE, era |-> 0, tapp |-> 0]

ClosedCore == [paired |-> FALSE, code |-> 0, tries |-> 0, locked |-> FALSE]

NoJob == [op |-> "none", todo |-> <<>>, goal |-> NoFlash, ok |-> TRUE, frame |-> NoFrame]

-----------------------------------------------------------------------------
(* Flash *)

SavePairOrder == <<"psk", "ctr", "paired", "era", "tapp">>

SavePairRefreshOrder_NoEra == <<"psk", "ctr", "paired", "tapp">>

SavePairRefreshOrder == <<"psk", "era", "ctr", "paired", "tapp">>

ClearPairOrder == <<"psk", "ctr", "paired", "era", "tapp">>

PairGoal(key, era) ==
  [psk |-> key, ctr |-> 0, paired |-> TRUE, era |-> era, tapp |-> 0]

(* loadPair: both keys are there, and the flag is set. *)
Loads(f) == f.psk # NoKey /\ f.paired

RestorePair(f, peer) ==
  IF Loads(f)
  THEN [paired |-> TRUE, psk |-> f.psk, era |-> f.era, fromApp |-> f.ctr,
        toApp |-> f.tapp, valid |-> 0, peer |-> peer]
  ELSE [paired |-> FALSE, psk |-> NoKey, era |-> 0, fromApp |-> 0,
        toApp |-> 0, valid |-> 0, peer |-> peer]

Busy(t) == job[t].op # "none"

Free(t) == ~Busy(t) /\ (Overlap \/ \A u \in Task : ~Busy(u))

Save(t, op, order, goal, frame) ==
  job' = [job EXCEPT ![t] =
            [op |-> op, todo |-> order, goal |-> goal, ok |-> TRUE, frame |-> frame]]

Saved(t, op) == job[t].op = op /\ job[t].todo = <<>>

FlashPut(t) ==
  /\ Busy(t) /\ job[t].todo # <<>>
  /\ LET f == Head(job[t].todo)
     IN flash' = [flash EXCEPT ![f] = job[t].goal[f]]
  /\ job' = [job EXCEPT ![t].todo = Tail(@)]
  /\ UNCHANGED <<robot, core, shown, heard, boots, faults, air>>

(* A failed write leaves its key alone; the save goes on and reports it. *)
PutFails(t) ==
  /\ Busy(t) /\ job[t].todo # <<>>
  /\ faults < MaxFaults
  /\ faults' = faults + 1
  /\ job' = [job EXCEPT ![t].todo = Tail(@), ![t].ok = FALSE]
  /\ UNCHANGED <<robot, core, flash, shown, heard, boots, air>>

-----------------------------------------------------------------------------
(* The radio task's handlers: a frame that fails a check changes nothing.    *)

(* A try counts from zero again once its lockout is over. *)
Tries == IF core.tries >= MaxTries THEN 0 ELSE core.tries

(* The first match burns the code. *)
TryCode(code) ==
  IF code = core.code
  THEN [core EXCEPT !.paired = TRUE, !.code = 0, !.tries = Tries]
  ELSE [core EXCEPT !.tries = Tries + 1, !.locked = Tries + 1 >= MaxTries]

(* A paired robot answers with an error or with the cached PAIR_OK, which   *)
(* is on the air already; a closed or locked window answers with an error.  *)
PairReq(f) ==
  /\ Free("radio")
  /\ ~robot.paired /\ ~core.paired /\ core.code # 0 /\ ~core.locked
  /\ core' = TryCode(f.code)
  /\ IF f.code = core.code
     THEN LET key == MintKey(f.code)
          IN Save("radio", "pair", SavePairOrder, PairGoal(key, 0),
                  PairOkFrame(f.code, f.nonce, key))
     ELSE UNCHANGED job
  /\ UNCHANGED <<robot, flash, shown, heard, boots, faults, air>>

(* PAIR_OK leaves only after a full save; otherwise the reply is an error,  *)
(* with the code burned and the RAM still unpaired.                         *)
PairSaved ==
  /\ Saved("radio", "pair")
  /\ job' = [job EXCEPT !["radio"] = NoJob]
  /\ IF job["radio"].ok
     THEN /\ robot' = [robot EXCEPT !.paired = TRUE, !.psk = job["radio"].goal.psk,
                                    !.era = 0, !.fromApp = 0, !.toApp = 0, !.peer = TRUE]
          /\ core' = [core EXCEPT !.paired = TRUE, !.code = 0]
          /\ air' = air \union {job["radio"].frame}
     ELSE UNCHANGED <<robot, core, air>>
  /\ UNCHANGED <<flash, shown, heard, boots, faults>>

(* Paired, of this key, and newer than the last. *)
Verified(f) ==
  /\ robot.paired
  /\ f.key = robot.psk
  /\ IsFreshCounter(robot.fromApp, f.ctr)

(* Every PersistEvery-th consumed counter is saved. *)
TryConsume(f) ==
  IF (robot.valid + 1) % PersistEvery = 0
  THEN Save("radio", "counter", <<"ctr">>, [flash EXCEPT !.ctr = f.ctr], NoFrame)
  ELSE UNCHANGED job

(* DRIVE carries no era; the other frames must carry the robot's. *)
Accept(f) ==
  /\ Free("radio")
  /\ f.kind \in Traffic
  /\ Verified(f)
  /\ f.kind # "drive" => f.era = robot.era
  /\ robot' = [robot EXCEPT !.fromApp = f.ctr, !.valid = (@ + 1) % PersistEvery,
                            !.peer = @ \/ f.kind # "bye"]
  /\ TryConsume(f)
  /\ heard' = heard \union {<<f.key, f.ctr>>}
  /\ UNCHANGED <<core, flash, shown, boots, faults, air>>

Unpair(f) ==
  /\ Free("radio")
  /\ Verified(f)
  /\ Save("radio", "unpair", ClearPairOrder, NoFlash, NoFrame)
  /\ UNCHANGED <<robot, core, flash, shown, heard, boots, faults, air>>

UnpairSaved ==
  /\ Saved("radio", "unpair")
  /\ job' = [job EXCEPT !["radio"] = NoJob]
  /\ robot' = [robot EXCEPT !.paired = FALSE, !.psk = NoKey, !.era = 0,
                            !.fromApp = 0, !.toApp = 0]
  /\ core' = ClosedCore
  /\ UNCHANGED <<flash, shown, heard, boots, faults, air>>

(* A request for the era the robot is in was answered before: its answer is *)
(* sent again, with nothing verified.                                       *)
ReAck(f) ==
  /\ Free("radio")
  /\ robot.paired /\ f.era = robot.era
  /\ air' = air \union {AckFrame(robot.psk, robot.era)}
  /\ UNCHANGED robotVars

PairRefresh(f) ==
  /\ Free("radio")
  /\ Verified(f) /\ f.era = robot.era + 1
  /\ LET key == DerivePairRefreshPsk(robot.psk, f.era)
     IN Save("radio", "refresh", SavePairRefreshOrder, PairGoal(key, f.era),
             AckFrame(key, f.era))
  /\ UNCHANGED <<robot, core, flash, shown, heard, boots, faults, air>>

RefreshSaved_AnswersAnyway ==
  /\ Saved("radio", "refresh")
  /\ job' = [job EXCEPT !["radio"] = NoJob]
  /\ robot' = [robot EXCEPT !.psk = job["radio"].goal.psk,
                            !.era = job["radio"].goal.era, !.fromApp = 0,
                            !.toApp = 0, !.valid = 0, !.peer = TRUE]
  /\ air' = air \union {job["radio"].frame}
  /\ UNCHANGED <<core, flash, shown, heard, boots, faults>>

(* The switch to the next key, after a full save; a failed one is silent.   *)
RefreshSaved ==
  /\ Saved("radio", "refresh")
  /\ job' = [job EXCEPT !["radio"] = NoJob]
  /\ IF job["radio"].ok
     THEN /\ robot' = [robot EXCEPT !.psk = job["radio"].goal.psk,
                                    !.era = job["radio"].goal.era, !.fromApp = 0,
                                    !.toApp = 0, !.valid = 0, !.peer = TRUE]
          /\ air' = air \union {job["radio"].frame}
     ELSE UNCHANGED <<robot, air>>
  /\ UNCHANGED <<core, flash, shown, heard, boots, faults>>

CounterSaved_Answers ==
  /\ Saved("radio", "counter")
  /\ job' = [job EXCEPT !["radio"] = NoJob]
  /\ air' = air \union {job["radio"].frame}
  /\ UNCHANGED <<robot, core, flash, shown, heard, boots, faults>>

CounterSaved ==
  /\ Saved("radio", "counter")
  /\ job' = [job EXCEPT !["radio"] = NoJob]
  /\ UNCHANGED <<robot, core, flash, shown, heard, boots, faults, air>>

-----------------------------------------------------------------------------
(* The pair button: say goodbye to the owner, forget him, open a window.    *)

ClearPair ==
  /\ robot' = [robot EXCEPT !.paired = FALSE, !.psk = NoKey, !.era = 0,
                            !.fromApp = 0, !.toApp = 0, !.valid = 0]
  /\ core' = ClosedCore
  /\ Save("loop", "clear", ClearPairOrder, NoFlash, NoFrame)

PairButton ==
  /\ Free("loop") /\ shown < MaxWindows
  /\ IF robot.paired /\ robot.peer
     THEN LET ctr == NextToAppCounter(robot.toApp)
          IN /\ robot' = [robot EXCEPT !.toApp = ctr]
             /\ Save("loop", "goodbye", <<"tapp">>, [flash EXCEPT !.tapp = ctr],
                     SignedFrame("evict", robot.psk, robot.era, ctr))
             /\ UNCHANGED core
     ELSE ClearPair
  /\ UNCHANGED <<flash, shown, heard, boots, faults, air>>

(* The frame is sent whether or not its counter could be saved; the resends *)
(* of the burst are the same bytes.                                         *)
GoodbyeSaved ==
  /\ Saved("loop", "goodbye")
  /\ air' = air \union {job["loop"].frame}
  /\ ClearPair
  /\ UNCHANGED <<flash, shown, heard, boots, faults>>

(* No window opens over a pair that the radio made meanwhile. *)
WindowOpens ==
  /\ Saved("loop", "clear")
  /\ job' = [job EXCEPT !["loop"] = NoJob]
  /\ IF robot.paired
     THEN UNCHANGED <<core, shown>>
     ELSE /\ shown' = shown + 1
          /\ core' = [core EXCEPT !.code = shown + 1, !.tries = 0, !.locked = FALSE]
  /\ UNCHANGED <<robot, flash, heard, boots, faults, air>>

-----------------------------------------------------------------------------
(* Time and power *)

WindowCloses ==
  /\ core.code # 0
  /\ core' = [core EXCEPT !.code = 0]
  /\ UNCHANGED <<robot, flash, job, shown, heard, boots, faults, air>>

LockoutEnds ==
  /\ core.locked
  /\ core' = [core EXCEPT !.locked = FALSE]
  /\ UNCHANGED <<robot, flash, job, shown, heard, boots, faults, air>>

PowerLoss ==
  /\ boots < MaxBoots
  /\ Torn \/ \A t \in Task : ~Busy(t)
  /\ robot' = RestorePair(flash, FALSE)
  /\ core' = ClosedCore
  /\ job' = [t \in Task |-> NoJob]
  /\ heard' = {}
  /\ boots' = boots + 1
  /\ UNCHANGED <<flash, shown, faults, air>>

-----------------------------------------------------------------------------
Hear ==
  \/ \E f \in OnAir({"pairReq"}) : PairReq(f)
  \/ \E f \in OnAir(Traffic) : Accept(f)
  \/ \E f \in OnAir({"unpair"}) : Unpair(f)
  \/ \E f \in OnAir({"refresh"}) : ReAck(f) \/ PairRefresh(f)

(* A robot in its first boot with the flash f, and n codes shown before. *)
RobotInit(f, n) ==
  /\ flash = f
  /\ robot = RestorePair(f, FALSE)
  /\ core = ClosedCore
  /\ job = [t \in Task |-> NoJob]
  /\ shown = n
  /\ heard = {}
  /\ boots = 0
  /\ faults = 0

RobotNext ==
  \/ Hear
  \/ PairSaved \/ UnpairSaved \/ RefreshSaved \/ CounterSaved
  \/ PairButton \/ GoodbyeSaved \/ WindowOpens
  \/ WindowCloses \/ LockoutEnds \/ PowerLoss
  \/ \E t \in Task : FlashPut(t) \/ PutFails(t)
=============================================================================
