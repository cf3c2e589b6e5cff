------------------------------- MODULE Session -------------------------------
(* The robot and its owner's phone over a network that loses, duplicates and *)
(* reorders: Pairing and Phone share only the air, and the code that the     *)
(* user reads off the robot and types.                                       *)
EXTENDS Pairing, Phone

CONSTANTS
  OldPair,   \* the run starts with a pair of long standing
  Start,     \* its counter, at a multiple of the cadence
  Typos      \* bound: whether the user may type a wrong code

ASSUME SessionAssumption ==
  /\ OldPair \in BOOLEAN /\ Typos \in BOOLEAN
  /\ Start \in 0 .. Gate - PersistEvery - 1

vars == <<robotVars, phoneVars, air>>

OldKey == MintKey(1)

Init ==
  /\ air = {}
  /\ IF OldPair
     THEN /\ RobotInit([PairGoal(OldKey, 0) EXCEPT !.ctr = Start], 1)
          /\ PhoneInit([NoRow EXCEPT !.on = TRUE, !.ctr = Start + PersistEvery], OldKey)
     ELSE RobotInit(NoFlash, 0) /\ PhoneInit(NoRow, NoKey)

(* Code 0 is never shown. *)
UserPairs ==
  \E code \in {core.code} \union (IF Typos THEN {0} ELSE {}) :
    /\ core.code # 0
    /\ StartPairing(code)

Next ==
  \/ RobotNext /\ UNCHANGED phoneVars
  \/ (PhoneNext \/ UserPairs) /\ UNCHANGED robotVars

Spec == Init /\ [][Next]_vars

-----------------------------------------------------------------------------
(* Every datagram: the key of a PAIR_OK is a real one. *)
Frame ==
  [kind : {"pairReq"}, code : Nat, nonce : Nat]
  \union [kind : {"pairOk"}, code : Nat, nonce : Nat, key : Key \ {NoKey}]
  \union [kind : Traffic \union {"unpair", "refresh", "evict"},
          key : Key, era : Nat, ctr : Nat]
  \union [kind : {"ack"}, key : Key, era : Nat]

RobotType ==
  [paired : BOOLEAN, psk : Key, era : Nat, fromApp : Nat, toApp : Nat, valid : Nat,
   peer : BOOLEAN]

CoreType == [paired : BOOLEAN, code : Nat, tries : Nat, locked : BOOLEAN]

FlashType == [psk : Key, ctr : Nat, paired : BOOLEAN, era : Nat, tapp : Nat]

JobType ==
  [op : {"none", "pair", "refresh", "unpair", "counter", "goodbye", "clear"},
   todo : Seq(Field), goal : FlashType, ok : BOOLEAN, frame : Frame \union {NoFrame}]

(* A save that ends in a datagram knows which one. *)
Answers(j) == j.op \in {"pair", "refresh", "goodbye"} => j.frame \in Frame

RobotTypeOK ==
  /\ robot \in RobotType
  /\ core \in CoreType
  /\ flash \in FlashType
  /\ job \in [Task -> JobType]
  /\ \A t \in Task : Answers(job[t])
  /\ shown \in Nat /\ boots \in Nat /\ faults \in Nat
  /\ heard \subseteq Key \X Nat

RowType == [on : BOOLEAN, ctr : Nat, era : Nat, rctr : Nat]

HolderType == [on : BOOLEAN, last : Nat, since : Nat]

PhoneTypeOK ==
  /\ row \in RowType
  /\ vault \in Key
  /\ holder \in HolderType
  /\ rx \in [on : BOOLEAN, last : Nat]
  /\ sess \in [seen : RowType, key : Key, missing : BOOLEAN, fired : BOOLEAN]
  /\ enrol \in [at : {"idle", "wait", "row"}, code : Nat, nonce : Nat]
  /\ refresh \in [at : {"idle", "wait", "vault", "row", "holder", "done"},
                  era : Nat, key : Key]
  /\ purge \in [forget : {"idle", "send", "row", "vault", "rx"},
                evict : {"idle", "row", "vault", "rx"}]
  /\ pairs \in Nat /\ kills \in Nat

(* The domains of every variable. *)
TypeOK == RobotTypeOK /\ PhoneTypeOK /\ air \subseteq Frame
=============================================================================
