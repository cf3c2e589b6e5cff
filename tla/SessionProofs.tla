---------------------------- MODULE SessionProofs ----------------------------
(***************************************************************************)
(* What a pair promises its two ends, for every range of counters, every   *)
(* cadence, and any number of windows, power losses, failed writes, pairing *)
(* attempts and deaths of the app.                                         *)
EXTENDS SessionProperties, TLAPS

-----------------------------------------------------------------------------
(* Data                                                                     *)

(* A key is a sequence of numbers; minting and deriving give real keys.     *)
LEMMA Keys ==
  /\ NoKey \in Key
  /\ \A c \in Nat : MintKey(c) \in Key \ {NoKey}
  /\ \A k \in Key, e \in Nat : DerivePairRefreshPsk(k, e) \in Key \ {NoKey}
<1>1. \A k \in Seq(Nat), e \in Nat : Append(k, e) \in Seq(Nat) /\ Len(Append(k, e)) > 0
  OBVIOUS
<1>2. \A c \in Nat : <<c>> \in Seq(Nat) /\ Len(<<c>>) = 1
  OBVIOUS
<1>3. Len(<<>>) = 0 /\ <<>> \in Seq(Nat)
  OBVIOUS
<1>4. \A c \in Nat : MintKey(c) \in Key \ {NoKey}
  BY <1>2, <1>3 DEF Key, NoKey, MintKey
<1>5. \A k \in Key, e \in Nat : DerivePairRefreshPsk(k, e) \in Key \ {NoKey}
  BY <1>1, <1>3 DEF Key, NoKey, DerivePairRefreshPsk
<1> QED
  BY <1>3, <1>4, <1>5 DEF Key, NoKey

(* The fields a datagram of each kind carries.                              *)
LEMMA Fields ==
  ASSUME NEW f \in Frame
  PROVE  /\ f.kind = "pairReq" => f.code \in Nat /\ f.nonce \in Nat
         /\ f.kind = "pairOk" =>
              f.code \in Nat /\ f.nonce \in Nat /\ f.key \in Key \ {NoKey}
         /\ f.kind \in Traffic \union {"unpair", "refresh", "evict"} =>
              f.key \in Key /\ f.era \in Nat /\ f.ctr \in Nat
         /\ f.kind = "ack" => f.key \in Key /\ f.era \in Nat
BY DEF Frame, Traffic

(* The constructors make datagrams.                                         *)
LEMMA MakesFrames ==
  /\ \A c, n \in Nat : PairReqFrame(c, n) \in Frame
  /\ \A c, n \in Nat, k \in Key \ {NoKey} : PairOkFrame(c, n, k) \in Frame
  /\ \A kind \in Traffic \union {"unpair", "refresh", "evict"}, k \in Key, e, c \in Nat :
       SignedFrame(kind, k, e, c) \in Frame
  /\ \A k \in Key, e \in Nat : AckFrame(k, e) \in Frame
BY DEF Frame, PairReqFrame, PairOkFrame, SignedFrame, AckFrame

(* The orders of the saves name fields, and each but the counter's names    *)
(* every field.                                                             *)
LEMMA Orders ==
  /\ SavePairOrder \in Seq(Field)
  /\ SavePairRefreshOrder \in Seq(Field)
  /\ ClearPairOrder \in Seq(Field)
  /\ <<"ctr">> \in Seq(Field) /\ <<"tapp">> \in Seq(Field) /\ <<>> \in Seq(Field)
BY DEF SavePairOrder, SavePairRefreshOrder, ClearPairOrder, Field

(* What flash and a reboot hold is well typed.                              *)
LEMMA FlashData ==
  /\ NoFlash \in FlashType
  /\ \A k \in Key, e \in Nat : PairGoal(k, e) \in FlashType
  /\ \A f \in FlashType, p \in BOOLEAN : RestorePair(f, p) \in RobotType
BY Keys DEF NoFlash, FlashType, PairGoal, RestorePair, RobotType

(* A job that was just begun is well typed.                                 *)
LEMMA BeginsJob ==
  ASSUME job \in [Task -> JobType], NEW t \in Task, NEW op, NEW order \in Seq(Field),
         NEW goal \in FlashType, NEW frame \in Frame \union {NoFrame},
         op \in {"none", "pair", "refresh", "unpair", "counter", "goodbye", "clear"},
         op \in {"pair", "refresh", "goodbye"} => frame \in Frame,
         \A u \in Task : Answers(job[u]),
         Save(t, op, order, goal, frame)
  PROVE  job' \in [Task -> JobType] /\ \A u \in Task : Answers(job'[u])
<1> DEFINE j == [op |-> op, todo |-> order, goal |-> goal, ok |-> TRUE, frame |-> frame]
<1>1. j \in JobType /\ Answers(j)
  BY DEF JobType, Answers
<1>2. job' = [job EXCEPT ![t] = j]
  BY DEF Save
<1> HIDE DEF j
<1> QED
  BY <1>1, <1>2

(* So is one that ended.                                                    *)
LEMMA EndsJob ==
  ASSUME job \in [Task -> JobType], \A u \in Task : Answers(job[u]),
         NEW t \in Task, job' = [job EXCEPT ![t] = NoJob]
  PROVE  job' \in [Task -> JobType] /\ \A u \in Task : Answers(job'[u])
<1>1. NoJob \in JobType /\ Answers(NoJob)
  BY Orders, FlashData DEF NoJob, JobType, Answers
<1> QED
  BY <1>1

-----------------------------------------------------------------------------
(* Types of the robot's side                                                *)

RobotOK == RobotTypeOK /\ air \subseteq Frame

(* A power-up with well-typed flash gives well-typed state.                 *)
LEMMA RobotInitType ==
  ASSUME NEW f \in FlashType, NEW n \in Nat, RobotInit(f, n), air = {}
  PROVE  RobotOK
<1>1. robot \in RobotType
  BY FlashData DEF RobotInit
<1>2. core \in CoreType
  BY DEF RobotInit, ClosedCore, CoreType
<1>3. NoJob \in JobType /\ Answers(NoJob)
  BY Orders, FlashData DEF NoJob, JobType, Answers
<1>4. job \in [Task -> JobType] /\ \A t \in Task : Answers(job[t])
  BY <1>3 DEF RobotInit
<1> QED
  BY <1>1, <1>2, <1>4 DEF RobotInit, RobotOK, RobotTypeOK

(* One write of a save.                                                     *)
LEMMA FlashPutType ==
  ASSUME RobotOK, NEW t \in Task, FlashPut(t) \/ PutFails(t)
  PROVE  RobotOK'
<1> USE DEF RobotOK, RobotTypeOK
<1>1. job[t] \in JobType /\ job[t].todo # <<>> /\ Answers(job[t])
  BY DEF FlashPut, PutFails
<1>2. Head(job[t].todo) \in Field /\ Tail(job[t].todo) \in Seq(Field)
  <2>1. job[t].todo \in Seq(Field)
    BY <1>1 DEF JobType
  <2> QED
    BY <2>1, <1>1
<1>3. CASE FlashPut(t)
  <2>1. job' = [job EXCEPT ![t] = [job[t] EXCEPT !.todo = Tail(job[t].todo)]]
    BY <1>3 DEF FlashPut
  <2>2. [job[t] EXCEPT !.todo = Tail(job[t].todo)] \in JobType
    BY <1>1, <1>2 DEF JobType
  <2>3. Answers([job[t] EXCEPT !.todo = Tail(job[t].todo)])
    BY <1>1 DEF Answers, JobType
  <2>4. job' \in [Task -> JobType] /\ \A u \in Task : Answers(job'[u])
    BY <2>1, <2>2, <2>3
  <2>5. flash' \in FlashType
    <3>1. job[t].goal \in FlashType
      BY <1>1 DEF JobType
    <3>2. flash' = [flash EXCEPT ![Head(job[t].todo)] = job[t].goal[Head(job[t].todo)]]
      BY <1>3 DEF FlashPut
    <3> QED
      BY <3>1, <3>2, <1>2 DEF FlashType, Field
  <2> QED
    BY <1>3, <2>4, <2>5 DEF FlashPut
<1>4. CASE PutFails(t)
  <2>1. job' = [job EXCEPT ![t] = [job[t] EXCEPT !.todo = Tail(job[t].todo), !.ok = FALSE]]
    BY <1>4 DEF PutFails
  <2>2. [job[t] EXCEPT !.todo = Tail(job[t].todo), !.ok = FALSE] \in JobType
    BY <1>1, <1>2 DEF JobType
  <2>3. Answers([job[t] EXCEPT !.todo = Tail(job[t].todo), !.ok = FALSE])
    BY <1>1 DEF Answers, JobType
  <2>4. job' \in [Task -> JobType] /\ \A u \in Task : Answers(job'[u])
    BY <2>1, <2>2, <2>3
  <2> QED
    BY <1>4, <2>4 DEF PutFails
<1> QED
  BY <1>3, <1>4

(* A pairing request.                                                       *)
LEMMA PairReqType ==
  ASSUME RobotOK, NEW f \in OnAir({"pairReq"}), PairReq(f)
  PROVE  RobotOK'
<1> USE DEF RobotOK, RobotTypeOK
<1>1. f.code \in Nat /\ f.nonce \in Nat
  BY Fields DEF OnAir
<1>2. core' \in CoreType
  <2>1. Tries \in Nat
    BY DEF Tries, CoreType
  <2>2. core' = TryCode(f.code)
    BY DEF PairReq
  <2> DEFINE over == Tries + 1 >= MaxTries
  <2>3. over \in BOOLEAN
    OBVIOUS
  <2>4. core' = [core EXCEPT !.paired = TRUE, !.code = 0, !.tries = Tries]
        \/ core' = [core EXCEPT !.tries = Tries + 1, !.locked = over]
    BY <2>2 DEF TryCode
  <2> HIDE DEF over
  <2>5. CASE core' = [core EXCEPT !.paired = TRUE, !.code = 0, !.tries = Tries]
    BY <2>1, <2>5 DEF CoreType
  <2>6. CASE core' = [core EXCEPT !.tries = Tries + 1, !.locked = over]
    <3> DEFINE n == Tries + 1
    <3>1. n \in Nat
      BY <2>1
    <3>2. core' = [core EXCEPT !.tries = n, !.locked = over]
      BY <2>6
    <3> HIDE DEF n
    <3> QED
      BY <2>3, <3>1, <3>2, Zenon DEF CoreType
  <2> QED
    BY <2>4, <2>5, <2>6
<1>3. job' \in [Task -> JobType] /\ \A u \in Task : Answers(job'[u])
  <2>1. CASE f.code = core.code
    <3> DEFINE key == MintKey(f.code)
    <3>1. key \in Key \ {NoKey} /\ key \in Key
      BY <1>1, Keys
    <3>2. PairOkFrame(f.code, f.nonce, key) \in Frame /\ PairGoal(key, 0) \in FlashType
      BY <3>1, <1>1, MakesFrames, FlashData
    <3>3. Save("radio", "pair", SavePairOrder, PairGoal(key, 0), PairOkFrame(f.code, f.nonce, key))
      BY <2>1 DEF PairReq
    <3>4. "radio" \in Task
      BY DEF Task
    <3> HIDE DEF key
    <3> QED
      BY <3>2, <3>3, <3>4, Orders, BeginsJob
  <2>2. CASE f.code # core.code
    BY <2>2 DEF PairReq
  <2> QED
    BY <2>1, <2>2
<1> QED
  BY <1>2, <1>3 DEF PairReq

(* The other frames that the radio task hears.                              *)
LEMMA HearType ==
  ASSUME RobotOK, Hear
  PROVE  RobotOK'
<1> USE DEF RobotOK, RobotTypeOK
<1>0. "radio" \in Task
  BY DEF Task
<1>1. ASSUME NEW f \in OnAir({"pairReq"}), PairReq(f) PROVE RobotOK'
  BY <1>1, PairReqType
<1>2. ASSUME NEW f \in OnAir(Traffic), Accept(f) PROVE RobotOK'
  <2>1. f.key \in Key /\ f.ctr \in Nat
    BY Fields DEF OnAir
  <2>2. robot' \in RobotType
    <3>1. (robot.valid + 1) % PersistEvery \in Nat
      BY WireAssumption DEF RobotType
    <3> QED
      BY <1>2, <2>1, <3>1 DEF Accept, RobotType
  <2>3. job' \in [Task -> JobType] /\ \A u \in Task : Answers(job'[u])
    <3>1. CASE (robot.valid + 1) % PersistEvery = 0
      <4>1. Save("radio", "counter", <<"ctr">>, [flash EXCEPT !.ctr = f.ctr], NoFrame)
        BY <1>2, <3>1 DEF Accept, TryConsume
      <4>2. [flash EXCEPT !.ctr = f.ctr] \in FlashType
        BY <2>1 DEF FlashType
      <4> QED
        BY <4>1, <4>2, <1>0, Orders, BeginsJob
    <3>2. CASE (robot.valid + 1) % PersistEvery # 0
      BY <1>2, <3>2 DEF Accept, TryConsume
    <3> QED
      BY <3>1, <3>2
  <2> QED
    BY <1>2, <2>1, <2>2, <2>3 DEF Accept
<1>3. ASSUME NEW f \in OnAir({"unpair"}), Unpair(f) PROVE RobotOK'
  <2>1. Save("radio", "unpair", ClearPairOrder, NoFlash, NoFrame)
    BY <1>3 DEF Unpair
  <2>2. job' \in [Task -> JobType] /\ \A u \in Task : Answers(job'[u])
    BY <2>1, <1>0, FlashData, Orders, BeginsJob
  <2> QED
    BY <1>3, <2>2 DEF Unpair
<1>4. ASSUME NEW f \in OnAir({"refresh"}), ReAck(f) PROVE RobotOK'
  <2>1. AckFrame(robot.psk, robot.era) \in Frame
    BY MakesFrames DEF RobotType
  <2> QED
    BY <1>4, <2>1 DEF ReAck, robotVars
<1>5. ASSUME NEW f \in OnAir({"refresh"}), PairRefresh(f) PROVE RobotOK'
  <2> DEFINE key == DerivePairRefreshPsk(robot.psk, f.era)
  <2>1. f.era \in Nat
    BY Fields DEF OnAir
  <2>2. key \in Key
    BY <2>1, Keys DEF RobotType
  <2>3. Save("radio", "refresh", SavePairRefreshOrder, PairGoal(key, f.era), AckFrame(key, f.era))
    BY <1>5 DEF PairRefresh
  <2> HIDE DEF key
  <2>4. PairGoal(key, f.era) \in FlashType /\ AckFrame(key, f.era) \in Frame
    BY <2>1, <2>2, FlashData, MakesFrames
  <2>5. job' \in [Task -> JobType] /\ \A u \in Task : Answers(job'[u])
    BY <2>3, <2>4, <1>0, Orders, BeginsJob
  <2> QED
    BY <1>5, <2>5 DEF PairRefresh
<1> QED
  BY <1>1, <1>2, <1>3, <1>4, <1>5 DEF Hear

(* The ends of the radio's saves.                                           *)
LEMMA SavedType ==
  ASSUME RobotOK, PairSaved \/ UnpairSaved \/ RefreshSaved \/ CounterSaved
  PROVE  RobotOK'
<1> USE DEF RobotOK, RobotTypeOK
<1> DEFINE j == job["radio"]
<1>1. "radio" \in Task /\ j \in JobType /\ Answers(j)
  BY DEF Task
<1>2. job' = [job EXCEPT !["radio"] = NoJob]
  BY DEF PairSaved, UnpairSaved, RefreshSaved, CounterSaved
<1>3. job' \in [Task -> JobType] /\ \A u \in Task : Answers(job'[u])
  BY <1>1, <1>2, EndsJob
<1>4. j.goal.psk \in Key /\ j.goal.era \in Nat
  BY <1>1 DEF JobType, FlashType
<1>5. CASE PairSaved
  <2>1. j.frame \in Frame
    BY <1>1, <1>5 DEF PairSaved, Saved, Answers
  <2>2. CASE j.ok
    <3>1. /\ robot' = [robot EXCEPT !.paired = TRUE, !.psk = j.goal.psk, !.era = 0,
                                    !.fromApp = 0, !.toApp = 0, !.peer = TRUE]
          /\ core' = [core EXCEPT !.paired = TRUE, !.code = 0]
          /\ air' = air \union {j.frame}
      BY <1>5, <2>2 DEF PairSaved
    <3>2. robot' \in RobotType
      BY <1>4, <3>1 DEF RobotType
    <3>3. core' \in CoreType
      BY <3>1 DEF CoreType
    <3> QED
      BY <1>3, <1>5, <2>1, <3>1, <3>2, <3>3 DEF PairSaved
  <2>3. CASE ~j.ok
    BY <1>3, <1>5, <2>3 DEF PairSaved
  <2> QED
    BY <2>2, <2>3
<1>6. CASE UnpairSaved
  <2>1. robot' \in RobotType /\ core' \in CoreType
    BY <1>6, Keys DEF UnpairSaved, RobotType, CoreType, ClosedCore
  <2> QED
    BY <1>3, <1>6, <2>1 DEF UnpairSaved
<1>7. CASE RefreshSaved
  <2>1. j.frame \in Frame
    BY <1>1, <1>7 DEF RefreshSaved, Saved, Answers
  <2>2. CASE j.ok
    <3>1. /\ robot' = [robot EXCEPT !.psk = j.goal.psk, !.era = j.goal.era, !.fromApp = 0,
                                    !.toApp = 0, !.valid = 0, !.peer = TRUE]
          /\ air' = air \union {j.frame}
      BY <1>7, <2>2 DEF RefreshSaved
    <3>2. robot' \in RobotType
      BY <1>4, <3>1 DEF RobotType
    <3> QED
      BY <1>3, <1>7, <2>1, <3>1, <3>2 DEF RefreshSaved
  <2>3. CASE ~j.ok
    BY <1>3, <1>7, <2>3 DEF RefreshSaved
  <2> QED
    BY <2>2, <2>3
<1>8. CASE CounterSaved
  BY <1>3, <1>8 DEF CounterSaved
<1> QED
  BY <1>5, <1>6, <1>7, <1>8

(* Forgetting the pair in RAM, with its removal from flash begun.           *)
LEMMA ClearPairType ==
  ASSUME RobotOK, ClearPair
  PROVE  /\ robot' \in RobotType /\ core' \in CoreType
         /\ job' \in [Task -> JobType] /\ \A u \in Task : Answers(job'[u])
<1> USE DEF RobotOK, RobotTypeOK
<1>1. robot' \in RobotType /\ core' \in CoreType
  BY Keys DEF ClearPair, RobotType, CoreType, ClosedCore
<1>2. Save("loop", "clear", ClearPairOrder, NoFlash, NoFrame) /\ "loop" \in Task
  BY DEF ClearPair, Task
<1> QED
  BY <1>1, <1>2, FlashData, Orders, BeginsJob

(* The pair button.                                                         *)
LEMMA ButtonType ==
  ASSUME RobotOK, PairButton \/ GoodbyeSaved \/ WindowOpens
  PROVE  RobotOK'
<1> USE DEF RobotOK, RobotTypeOK
<1>0. "loop" \in Task
  BY DEF Task
<1>1. CASE PairButton
  <2>1. CASE robot.paired /\ robot.peer
    <3> DEFINE ctr == NextToAppCounter(robot.toApp)
               goal == [flash EXCEPT !.tapp = ctr]
               frame == SignedFrame("evict", robot.psk, robot.era, ctr)
    <3>1. ctr \in Nat
      BY DEF NextToAppCounter, RobotType
    <3>2. /\ robot' = [robot EXCEPT !.toApp = ctr]
          /\ Save("loop", "goodbye", <<"tapp">>, goal, frame)
          /\ core' = core
      BY <1>1, <2>1 DEF PairButton
    <3> HIDE DEF ctr
    <3>3. goal \in FlashType
      BY <3>1 DEF FlashType
    <3>4. frame \in Frame
      BY <3>1, MakesFrames DEF RobotType
    <3>5. robot' \in RobotType
      BY <3>1, <3>2 DEF RobotType
    <3> HIDE DEF goal, frame
    <3>6. job' \in [Task -> JobType] /\ \A u \in Task : Answers(job'[u])
      BY <3>2, <3>3, <3>4, <1>0, Orders, BeginsJob
    <3> QED
      BY <1>1, <3>2, <3>5, <3>6 DEF PairButton
  <2>2. CASE ~(robot.paired /\ robot.peer)
    <3>1. ClearPair
      BY <1>1, <2>2 DEF PairButton
    <3> QED
      BY <1>1, <3>1, ClearPairType DEF PairButton
  <2> QED
    BY <2>1, <2>2
<1>2. CASE GoodbyeSaved
  <2>1. job["loop"].frame \in Frame
    BY <1>0, <1>2 DEF GoodbyeSaved, Saved, Answers
  <2> QED
    BY <1>2, <2>1, ClearPairType DEF GoodbyeSaved
<1>3. CASE WindowOpens
  <2>1. job' \in [Task -> JobType] /\ \A u \in Task : Answers(job'[u])
    BY <1>0, <1>3, EndsJob DEF WindowOpens
  <2>2. core' \in CoreType /\ shown' \in Nat
    <3>1. CASE robot.paired
      BY <1>3, <3>1 DEF WindowOpens
    <3>2. CASE ~robot.paired
      <4> DEFINE n == shown + 1
      <4>1. n \in Nat /\ 0 \in Nat
        OBVIOUS
      <4>2. shown' = n /\ core' = [core EXCEPT !.code = n, !.tries = 0, !.locked = FALSE]
        BY <1>3, <3>2, Zenon DEF WindowOpens
      <4> HIDE DEF n
      <4> QED
        BY <4>1, <4>2 DEF CoreType
    <3> QED
      BY <3>1, <3>2
  <2> QED
    BY <1>3, <2>1, <2>2 DEF WindowOpens
<1> QED
  BY <1>1, <1>2, <1>3

(* Time and power.                                                          *)
LEMMA TimeType ==
  ASSUME RobotOK, WindowCloses \/ LockoutEnds \/ PowerLoss
  PROVE  RobotOK'
<1> USE DEF RobotOK, RobotTypeOK
<1>1. CASE WindowCloses
  BY <1>1 DEF WindowCloses, CoreType
<1>2. CASE LockoutEnds
  BY <1>2 DEF LockoutEnds, CoreType
<1>3. CASE PowerLoss
  <2>1. robot' \in RobotType
    BY <1>3, FlashData DEF PowerLoss
  <2>2. core' \in CoreType
    BY <1>3 DEF PowerLoss, ClosedCore, CoreType
  <2>3. NoJob \in JobType /\ Answers(NoJob)
    BY Orders, FlashData DEF NoJob, JobType, Answers
  <2>4. job' \in [Task -> JobType] /\ \A t \in Task : Answers(job'[t])
    BY <1>3, <2>3 DEF PowerLoss
  <2>5. heard' = {} /\ boots' \in Nat /\ UNCHANGED <<flash, shown, faults, air>>
    BY <1>3 DEF PowerLoss
  <2> QED
    BY <2>1, <2>2, <2>4, <2>5
<1> QED
  BY <1>1, <1>2, <1>3

(* Every step of the robot keeps its types.                                 *)
LEMMA RobotNextType == RobotOK /\ RobotNext => RobotOK'
BY FlashPutType, HearType, SavedType, ButtonType, TimeType DEF RobotNext

-----------------------------------------------------------------------------
(* Types of the phone's side                                                *)

PhoneOK == PhoneTypeOK /\ air \subseteq Frame

(* The empty values.                                                        *)
LEMMA EmptyTypes ==
  /\ NoRow \in RowType /\ NoHolder \in HolderType
  /\ NoRx \in [on : BOOLEAN, last : Nat]
  /\ NoSess \in [seen : RowType, key : Key, missing : BOOLEAN, fired : BOOLEAN]
  /\ NoEnrol \in [at : {"idle", "wait", "row"}, code : Nat, nonce : Nat]
  /\ NoRefresh \in [at : {"idle", "wait", "vault", "row", "holder", "done"},
                    era : Nat, key : Key]
  /\ NoPurge \in [forget : {"idle", "send", "row", "vault", "rx"},
                  evict : {"idle", "row", "vault", "rx"}]
<1>1. NoRow \in RowType /\ NoHolder \in HolderType /\ NoKey \in Key
  BY Keys DEF NoRow, RowType, NoHolder, HolderType
<1> QED
  BY <1>1 DEF NoRx, NoSess, NoEnrol, NoRefresh, NoPurge

(* The counter's operations keep its holder and the row well formed.        *)
LEMMA CounterTypes ==
  ASSUME NEW h \in HolderType, NEW r \in RowType
  PROVE  /\ [h EXCEPT !.since = 0] \in HolderType
         /\ Allocate(h) \in HolderType
         /\ Flush(r, h) \in RowType
         /\ PersistAhead(r, h) \in RowType
         /\ \A c \in Nat : Ensure(h, c) \in HolderType
<1>1. \A c \in Nat : SetCounter(r, c) \in RowType
  BY DEF SetCounter, RowType
<1>2. h.last \in Nat /\ h.since \in Nat
  BY DEF HolderType
<1>3. [h EXCEPT !.since = 0] \in HolderType
  BY DEF HolderType
<1>4. Allocate(h) \in HolderType
  <2> DEFINE last == h.last + 1
             since == IF h.since = PersistEvery THEN 1 ELSE h.since + 1
  <2>1. last \in Nat /\ since \in Nat
    BY <1>2
  <2>2. Allocate(h) = [h EXCEPT !.last = last, !.since = since]
    BY DEF Allocate
  <2> HIDE DEF last, since
  <2> QED
    BY <2>1, <2>2 DEF HolderType
<1>5. Flush(r, h) \in RowType
  BY <1>1, <1>2 DEF Flush
<1>6. PersistAhead(r, h) \in RowType
  <2>1. Gate - 1 \in Nat /\ h.last + PersistEvery \in Nat
    BY <1>2, PhoneAssumption, WireAssumption
  <2> QED
    BY <1>1, <2>1 DEF PersistAhead
<1>7. \A c \in Nat : Ensure(h, c) \in HolderType
  BY DEF Ensure, HolderType
<1> QED
  BY <1>3, <1>4, <1>5, <1>6, <1>7

(* The session's key and cache.                                             *)
LEMMA CachedType ==
  ASSUME PhoneOK
  PROVE  /\ PskFor \in Key /\ sess.seen \in RowType
         /\ Cached \in [seen : RowType, key : Key, missing : BOOLEAN, fired : BOOLEAN]
<1> USE DEF PhoneOK, PhoneTypeOK
<1>1. PskFor \in Key
  BY Keys DEF PskFor, GetPairPsk
<1> DEFINE none == PskFor = NoKey
<1>2. none \in BOOLEAN /\ Cached = [sess EXCEPT !.key = PskFor, !.missing = none]
  BY DEF Cached
<1> HIDE DEF none
<1>3. Cached \in [seen : RowType, key : Key, missing : BOOLEAN, fired : BOOLEAN]
  BY <1>1, <1>2
<1> QED
  BY <1>1, <1>3

(* A frame sent, or refused, with any holder and row.                       *)
LEMMA SendFromType ==
  ASSUME PhoneOK, NEW r \in RowType, NEW h \in HolderType, NEW kind \in Traffic,
         SendFrom(r, h, kind) \/ RefuseFrom(r, h)
  PROVE  PhoneOK'
<1> USE DEF PhoneOK, PhoneTypeOK
<1>1. CASE SendFrom(r, h, kind)
  <2>1. Allocate(h) \in HolderType /\ PersistAhead(r, Allocate(h)) \in RowType
    BY CounterTypes
  <2>2. SignedFrame(kind, PskFor, sess.seen.era, h.last + 1) \in Frame
    <3>1. sess.seen.era \in Nat /\ h.last + 1 \in Nat
      BY CachedType DEF RowType, HolderType
    <3> QED
      BY <3>1, CachedType, MakesFrames
  <2> QED
    BY <1>1, <2>1, <2>2, CachedType DEF SendFrom
<1>2. CASE RefuseFrom(r, h)
  <2>1. holder' \in HolderType /\ row' \in RowType
    BY <1>2 DEF RefuseFrom
  <2>2. sess' \in [seen : RowType, key : Key, missing : BOOLEAN, fired : BOOLEAN]
    BY <1>2, CachedType DEF RefuseFrom
  <2>3. purge' \in [forget : {"idle", "send", "row", "vault", "rx"},
                   evict : {"idle", "row", "vault", "rx"}]
    BY <1>2 DEF RefuseFrom
  <2> QED
    BY <1>2, <2>1, <2>2, <2>3 DEF RefuseFrom
<1> QED
  BY <1>1, <1>2

(* The send loops.                                                          *)
LEMMA SendType ==
  ASSUME PhoneOK, (\E kind \in SentKinds \ {"bye"} : Send(kind)) \/ Background
  PROVE  PhoneOK'
<1>0. row \in RowType /\ holder \in HolderType /\ sess.seen.ctr \in Nat
  BY CachedType DEF PhoneOK, PhoneTypeOK, RowType
<1>1. ASSUME NEW kind \in SentKinds, Send(kind) PROVE PhoneOK'
  <2>1. Ensure(holder, sess.seen.ctr) \in HolderType /\ kind \in Traffic
    BY <1>0, CounterTypes, PhoneAssumption
  <2> QED
    BY <1>0, <1>1, <2>1, SendFromType DEF Send
<1>2. CASE Background
  <2> DEFINE clean == [holder EXCEPT !.since = 0]
  <2>1. clean \in HolderType /\ Flush(row, holder) \in RowType
    BY <1>0, CounterTypes
  <2>2. Ensure(clean, sess.seen.ctr) \in HolderType /\ "bye" \in Traffic
    BY <1>0, <2>1, CounterTypes DEF Traffic
  <2> QED
    BY <1>2, <2>1, <2>2, SendFromType DEF Background
<1> QED
  BY <1>1, <1>2

(* A pairing attempt, whatever number is typed.                             *)
LEMMA StartPairingType ==
  ASSUME PhoneOK, NEW code \in Nat, StartPairing(code)
  PROVE  PhoneOK'
<1> USE DEF PhoneOK, PhoneTypeOK
<1> DEFINE nonce == pairs + 1
<1>1. nonce \in Nat /\ PairReqFrame(code, nonce) \in Frame
  <2>1. nonce \in Nat
    OBVIOUS
  <2> QED
    BY <2>1, MakesFrames
<1>2. /\ pairs' = nonce /\ enrol' = [at |-> "wait", code |-> code, nonce |-> nonce]
      /\ air' = air \union {PairReqFrame(code, nonce)}
      /\ UNCHANGED <<row, vault, holder, rx, sess, refresh, purge, kills>>
  BY DEF StartPairing
<1> HIDE DEF nonce
<1> QED
  BY <1>1, <1>2

LEMMA PairingType ==
  ASSUME PhoneOK,
         PairingFails \/ PairingSavesRow \/ \E f \in OnAir({"pairOk"}) : PairingSavesPsk(f)
  PROVE  PhoneOK'
<1> USE DEF PhoneOK, PhoneTypeOK
<1>1. CASE PairingFails
  BY <1>1, EmptyTypes DEF PairingFails
<1>2. CASE PairingSavesRow
  <2>1. row' \in RowType
    BY <1>2, EmptyTypes DEF PairingSavesRow, RowType
  <2> QED
    BY <1>2, <2>1, EmptyTypes DEF PairingSavesRow
<1>3. ASSUME NEW f \in OnAir({"pairOk"}), PairingSavesPsk(f) PROVE PhoneOK'
  <2>1. f.key \in Key
    BY Fields DEF OnAir
  <2> QED
    BY <1>3, <2>1 DEF PairingSavesPsk
<1> QED
  BY <1>1, <1>2, <1>3

(* The refresh coroutine.                                                   *)
LEMMA RefreshType ==
  ASSUME PhoneOK,
         \/ StartRefresh \/ RefreshTimesOut \/ RefreshSavesPsk \/ RefreshSavesRow
         \/ CompletePairRefresh \/ InvalidateSession
         \/ \E f \in OnAir({"ack"}) : RefreshAnswered(f)
  PROVE  PhoneOK'
<1> USE DEF PhoneOK, PhoneTypeOK
<1>1. CASE StartRefresh
  <2> DEFINE era == row.era + 1
             ctr == holder.last + 1
             key == DerivePairRefreshPsk(vault, era)
  <2>1. era \in Nat /\ ctr \in Nat
    BY DEF RowType, HolderType
  <2>2. key \in Key
    BY <2>1, Keys
  <2>3. SignedFrame("refresh", vault, era, ctr) \in Frame
    BY <2>1, MakesFrames
  <2>4. Allocate(holder) \in HolderType /\ PersistAhead(row, Allocate(holder)) \in RowType
    BY CounterTypes
  <2>5. /\ holder' = Allocate(holder)
        /\ row' = PersistAhead(row, Allocate(holder))
        /\ refresh' = [at |-> "wait", era |-> era, key |-> key]
        /\ air' = air \union {SignedFrame("refresh", vault, era, ctr)}
        /\ UNCHANGED <<vault, rx, sess, enrol, purge, pairs, kills>>
    BY <1>1 DEF StartRefresh
  <2> HIDE DEF era, ctr, key
  <2> QED
    BY <2>1, <2>2, <2>3, <2>4, <2>5
<1>2. CASE RefreshTimesOut
  BY <1>2, EmptyTypes DEF RefreshTimesOut
<1>3. CASE RefreshSavesPsk
  BY <1>3 DEF RefreshSavesPsk
<1>4. CASE RefreshSavesRow
  <2>1. row' \in RowType
    BY <1>4, EmptyTypes DEF RefreshSavesRow, RowType
  <2> QED
    BY <1>4, <2>1 DEF RefreshSavesRow
<1>5. CASE CompletePairRefresh
  <2>1. holder' \in HolderType
    BY <1>5 DEF CompletePairRefresh, HolderType
  <2> QED
    BY <1>5, <2>1, EmptyTypes DEF CompletePairRefresh
<1>6. CASE InvalidateSession
  BY <1>6, Keys, EmptyTypes DEF InvalidateSession
<1>7. ASSUME NEW f \in OnAir({"ack"}), RefreshAnswered(f) PROVE PhoneOK'
  <2>1. CASE f.key = refresh.key
    BY <1>7, <2>1 DEF RefreshAnswered
  <2>2. CASE f.key # refresh.key
    BY <1>7, <2>2, EmptyTypes DEF RefreshAnswered
  <2> QED
    BY <2>1, <2>2
<1> QED
  BY <1>1, <1>2, <1>3, <1>4, <1>5, <1>6, <1>7

(* The flow of the row, and the ways a pair ends.                           *)
LEMMA ObserveType ==
  ASSUME PhoneOK, Observe
  PROVE  PhoneOK'
<1> USE DEF PhoneOK, PhoneTypeOK
<1>1. holder' \in HolderType
  BY EmptyTypes DEF Observe
<1>2. sess' \in [seen : RowType, key : Key, missing : BOOLEAN, fired : BOOLEAN]
  <2>1. [NoSess EXCEPT !.seen = row] \in [seen : RowType, key : Key, missing : BOOLEAN,
                                         fired : BOOLEAN]
    BY EmptyTypes
  <2> QED
    BY <2>1, Keys DEF Observe
<1> QED
  BY <1>1, <1>2 DEF Observe

LEMMA ForgetType ==
  ASSUME PhoneOK, ForgetTapped \/ ForgetSends
  PROVE  PhoneOK'
<1> USE DEF PhoneOK, PhoneTypeOK
<1>1. CASE ForgetTapped
  BY <1>1 DEF ForgetTapped
<1>2. CASE ForgetSends
  <2> DEFINE h == Ensure(holder, row.ctr)
             clean == [h EXCEPT !.since = 0]
             ctr == h.last + 1
  <2>1. h \in HolderType /\ clean \in HolderType
    <3>1. row.ctr \in Nat
      BY DEF RowType
    <3>2. h \in HolderType
      BY <3>1, CounterTypes
    <3> QED
      BY <3>2, CounterTypes
  <2>2. Flush(row, h) \in RowType /\ Allocate(clean) \in HolderType
    BY <2>1, CounterTypes
  <2>3. PersistAhead(Flush(row, h), Allocate(clean)) \in RowType
    BY <2>2, CounterTypes
  <2>4. ctr \in Nat
    BY <2>1 DEF HolderType
  <2>5. SignedFrame("unpair", vault, 0, ctr) \in Frame
    BY <2>4, MakesFrames
  <2>6. \/ /\ holder' = Allocate(clean)
           /\ row' = PersistAhead(Flush(row, h), Allocate(clean))
           /\ air' = air \union {SignedFrame("unpair", vault, 0, ctr)}
        \/ holder' = clean /\ row' = Flush(row, h) /\ air' = air
        \/ UNCHANGED <<holder, row, air>>
    BY <1>2 DEF ForgetSends
  <2>7. /\ purge' = [purge EXCEPT !.forget = IF row.on THEN "row" ELSE "rx"]
        /\ UNCHANGED <<vault, rx, sess, enrol, refresh, pairs, kills>>
    BY <1>2 DEF ForgetSends
  <2> HIDE DEF h, clean, ctr
  <2>8. holder' \in HolderType /\ row' \in RowType /\ air' \subseteq Frame
    BY <2>1, <2>2, <2>3, <2>5, <2>6
  <2> QED
    BY <2>7, <2>8
<1> QED
  BY <1>1, <1>2

LEMMA PurgeType ==
  ASSUME PhoneOK,
         \/ \E f \in OnAir({"evict"}) : Evicted(f)
         \/ \E p \in {"forget", "evict"} : PurgeRow(p) \/ PurgeVault(p) \/ PurgeCounters(p)
  PROVE  PhoneOK'
<1> USE DEF PhoneOK, PhoneTypeOK
<1>1. ASSUME NEW f \in OnAir({"evict"}), Evicted(f) PROVE PhoneOK'
  <2>1. f.ctr \in Nat
    BY Fields DEF OnAir
  <2>2. row' \in RowType
    BY <1>1, <2>1 DEF Evicted, RowType
  <2> QED
    BY <1>1, <2>1, <2>2 DEF Evicted
<1>2. ASSUME NEW p \in {"forget", "evict"}, PurgeRow(p) PROVE PhoneOK'
  BY <1>2, EmptyTypes DEF PurgeRow
<1>3. ASSUME NEW p \in {"forget", "evict"}, PurgeVault(p) PROVE PhoneOK'
  BY <1>3, Keys DEF PurgeVault
<1>4. ASSUME NEW p \in {"forget", "evict"}, PurgeCounters(p) PROVE PhoneOK'
  <2>1. holder' \in HolderType
    BY <1>4, EmptyTypes DEF PurgeCounters
  <2> QED
    BY <1>4, <2>1, EmptyTypes DEF PurgeCounters
<1> QED
  BY <1>1, <1>2, <1>3, <1>4

LEMMA KillType ==
  ASSUME PhoneOK, Kill
  PROVE  PhoneOK'
BY EmptyTypes DEF PhoneOK, PhoneTypeOK, Kill

(* Every step of the phone keeps its types.                                 *)
LEMMA PhoneNextType == PhoneOK /\ PhoneNext => PhoneOK'
BY SendType, PairingType, RefreshType, ObserveType, ForgetType, PurgeType, KillType
   DEF PhoneNext, Answered

-----------------------------------------------------------------------------
(* Types of the composition: the domains of every variable, whatever the    *)
(* network, the flash and the user do.                                      *)
THEOREM SessionTypeCorrect == Spec => []TypeOK
<1>1. Init => TypeOK
  <2> SUFFICES ASSUME Init PROVE TypeOK
    OBVIOUS
  <2>1. OldKey \in Key
    BY Keys DEF OldKey
  <2>2. Start \in Nat /\ Start + PersistEvery \in Nat
    BY SessionAssumption, WireAssumption
  <2>3. CASE OldPair
    <3> DEFINE r == [NoRow EXCEPT !.on = TRUE, !.ctr = Start + PersistEvery]
               f == [PairGoal(OldKey, 0) EXCEPT !.ctr = Start]
    <3>1. f \in FlashType
      BY <2>1, <2>2, FlashData DEF FlashType
    <3>2. r \in RowType
      BY <2>2, EmptyTypes DEF RowType
    <3>3. RobotInit(f, 1) /\ PhoneInit(r, OldKey) /\ air = {}
      BY <2>3 DEF Init
    <3> HIDE DEF r, f
    <3>4. RobotOK
      BY <3>1, <3>3, RobotInitType
    <3>5. PhoneTypeOK
      BY <3>2, <3>3, <2>1, EmptyTypes DEF PhoneInit, PhoneTypeOK
    <3> QED
      BY <3>4, <3>5 DEF RobotOK, TypeOK
  <2>4. CASE ~OldPair
    <3>1. RobotInit(NoFlash, 0) /\ PhoneInit(NoRow, NoKey) /\ air = {}
      BY <2>4 DEF Init
    <3>2. RobotOK
      BY <3>1, FlashData, RobotInitType
    <3>3. PhoneTypeOK
      BY <3>1, Keys, EmptyTypes DEF PhoneInit, PhoneTypeOK
    <3> QED
      BY <3>2, <3>3 DEF RobotOK, TypeOK
  <2> QED
    BY <2>3, <2>4
<1>2. TypeOK /\ [Next]_vars => TypeOK'
  <2> SUFFICES ASSUME TypeOK, [Next]_vars PROVE TypeOK'
    OBVIOUS
  <2>1. RobotOK /\ PhoneOK
    BY DEF TypeOK, RobotOK, PhoneOK
  <2>2. CASE RobotNext /\ UNCHANGED phoneVars
    <3>1. RobotOK'
      BY <2>1, <2>2, RobotNextType
    <3>2. PhoneTypeOK'
      BY <2>2 DEF TypeOK, PhoneTypeOK, phoneVars
    <3> QED
      BY <3>1, <3>2 DEF RobotOK, TypeOK
  <2>3. CASE (PhoneNext \/ UserPairs) /\ UNCHANGED robotVars
    <3>1. PhoneOK'
      <4>1. core.code \in Nat
        BY DEF TypeOK, RobotTypeOK, CoreType
      <4>2. CASE UserPairs
        BY <2>1, <4>1, <4>2, StartPairingType DEF UserPairs
      <4> QED
        BY <2>1, <2>3, <4>2, PhoneNextType
    <3>2. RobotTypeOK'
      BY <2>3 DEF TypeOK, RobotTypeOK, robotVars
    <3> QED
      BY <3>1, <3>2 DEF PhoneOK, TypeOK
  <2>4. CASE UNCHANGED vars
    BY <2>4 DEF vars, robotVars, phoneVars, TypeOK, RobotTypeOK, PhoneTypeOK
  <2> QED
    BY <2>2, <2>3, <2>4 DEF Next
<1> QED
  BY <1>1, <1>2, PTL DEF Spec

-----------------------------------------------------------------------------
(* A reboot restores the pair.  Without overlap one save is under way at a   *)
(* time; what it has not written yet, it still has to write, and its goal is *)
(* the pair that the robot will be in when it ends.                          *)

Matches(f) ==
  IF Loads(f) THEN robot.paired /\ robot.psk = f.psk /\ robot.era = f.era
  ELSE ~robot.paired /\ robot.psk = NoKey /\ robot.era = 0

Pending(j, f) == \E i \in 1 .. Len(j.todo) : j.todo[i] = f

Leads(j) ==
  /\ j.op \in {"counter", "goodbye", "clear"} => Matches(j.goal)
  /\ j.op = "unpair" => j.goal = NoFlash
  /\ j.op = "pair" => Loads(j.goal) /\ j.goal.era = 0
  /\ j.op = "refresh" => Loads(j.goal) /\ robot.paired

SaveOK(t) ==
  /\ job[t].ok
  /\ \A f \in Field : flash[f] = job[t].goal[f] \/ Pending(job[t], f)
  /\ Leads(job[t])

OneSave == \A t, u \in Task : Busy(t) /\ Busy(u) => t = u

SaveInv ==
  /\ OneSave
  /\ faults = 0 =>
       /\ \A t \in Task : Busy(t) => SaveOK(t)
       /\ Settled => Matches(flash)

(* A save that begins while nothing is saved.                               *)
LEMMA SaveBegins ==
  ASSUME RobotTypeOK, Settled, NEW t \in Task, NEW op, NEW order, NEW goal, NEW frame,
         op # "none", Save(t, op, order, goal, frame),
         UNCHANGED <<flash, faults>>,
         \A f \in Field : flash[f] = goal[f] \/ \E i \in 1 .. Len(order) : order[i] = f,
         faults = 0 => Leads(job[t])'
  PROVE  SaveInv'
<1> DEFINE j == [op |-> op, todo |-> order, goal |-> goal, ok |-> TRUE, frame |-> frame]
<1>1. job' = [job EXCEPT ![t] = j] /\ job \in [Task -> JobType]
  BY DEF Save, RobotTypeOK
<1>2. job'[t] = j /\ \A u \in Task \ {t} : job'[u] = job[u] /\ ~Busy(u)
  BY <1>1 DEF Settled
<1>3. \A u \in Task : Busy(u)' => u = t
  BY <1>2 DEF Busy
<1>4. OneSave'
  BY <1>3 DEF OneSave
<1>5. Busy(t)'
  BY <1>2 DEF Busy
<1>6. ~Settled'
  BY <1>5 DEF Settled
<1>7. ASSUME faults' = 0 PROVE SaveOK(t)'
  <2>1. Leads(job[t])'
    BY <1>7
  <2>2. job'[t].ok
    BY <1>2
  <2>3. \A f \in Field : flash'[f] = job'[t].goal[f] \/ Pending(job'[t], f)
    BY <1>2 DEF Pending
  <2> QED
    BY <2>1, <2>2, <2>3 DEF SaveOK
<1> QED
  BY <1>3, <1>4, <1>6, <1>7 DEF SaveInv

(* A save that ends with all of it written: flash is what it was to become. *)
LEMMA SaveEnds ==
  ASSUME RobotTypeOK, SaveInv, NEW t \in Task, Busy(t), job[t].todo = <<>>
  PROVE  /\ \A u \in Task \ {t} : ~Busy(u)
         /\ faults = 0 => /\ job[t].ok /\ Leads(job[t])
                         /\ flash.psk = job[t].goal.psk
                         /\ flash.paired = job[t].goal.paired
                         /\ flash.era = job[t].goal.era
<1>1. \A u \in Task \ {t} : ~Busy(u)
  BY DEF SaveInv, OneSave
<1>2. ASSUME faults = 0
      PROVE  job[t].ok /\ Leads(job[t]) /\ \A f \in Field : flash[f] = job[t].goal[f]
  <2>1. SaveOK(t)
    BY <1>2 DEF SaveInv
  <2>2. \A f \in Field : ~Pending(job[t], f)
    BY DEF Pending
  <2> QED
    BY <2>1, <2>2 DEF SaveOK
<1>3. ASSUME faults = 0, \A f \in Field : flash[f] = job[t].goal[f]
      PROVE  /\ flash.psk = job[t].goal.psk /\ flash.paired = job[t].goal.paired
             /\ flash.era = job[t].goal.era
  <2>1. "psk" \in Field /\ "paired" \in Field /\ "era" \in Field
    BY DEF Field
  <2> QED
    BY <1>3, <2>1
<1> QED
  BY <1>1, <1>2, <1>3

(* Once it ended, nothing is saved.                                         *)
LEMMA Ended ==
  ASSUME RobotTypeOK, NEW t \in Task, \A u \in Task \ {t} : ~Busy(u),
         job' = [job EXCEPT ![t] = NoJob],
         faults' = 0 => Matches(flash)'
  PROVE  SaveInv'
<1>1. \A u \in Task : ~Busy(u)'
  BY DEF RobotTypeOK, Busy, NoJob
<1> QED
  BY <1>1 DEF SaveInv, OneSave

(* A step that neither begins nor ends a save, writes nothing, and leaves   *)
(* the robot in its pair.                                                   *)
LEMMA SaveIdle ==
  ASSUME SaveInv, UNCHANGED <<job, flash, faults>>,
         robot'.paired = robot.paired, robot'.psk = robot.psk, robot'.era = robot.era
  PROVE  SaveInv'
<1>1. \A t \in Task : (Busy(t)' <=> Busy(t)) /\ (SaveOK(t)' <=> SaveOK(t))
  BY DEF Busy, SaveOK, Leads, Matches, Pending, Loads
<1>2. (Settled' <=> Settled) /\ (Matches(flash)' <=> Matches(flash)) /\ (OneSave' <=> OneSave)
  BY <1>1 DEF Settled, Matches, OneSave, Loads
<1> QED
  BY <1>1, <1>2 DEF SaveInv

(* One write, which may fail.                                               *)
LEMMA SaveWrites ==
  ASSUME RobotTypeOK, SaveInv, NEW t \in Task, FlashPut(t) \/ PutFails(t)
  PROVE  SaveInv'
<1> DEFINE todo == job[t].todo
<1>0. /\ job \in [Task -> JobType] /\ flash \in FlashType /\ Busy(t)
      /\ todo \in Seq(Field) /\ todo # <<>>
  BY DEF FlashPut, PutFails, RobotTypeOK, JobType
<1>1. /\ \A u \in Task \ {t} : ~Busy(u) /\ job'[u] = job[u]
      /\ job'[t].op = job[t].op /\ job'[t].goal = job[t].goal
  BY <1>0 DEF FlashPut, PutFails, SaveInv, OneSave, JobType
<1>2. OneSave' /\ ~Settled'
  <2>1. Busy(t)' /\ \A u \in Task \ {t} : ~Busy(u)'
    BY <1>0, <1>1 DEF Busy
  <2> QED
    BY <2>1 DEF OneSave, Settled
<1>3. CASE PutFails(t)
  <2>1. faults' # 0
    BY <1>3 DEF PutFails, RobotTypeOK
  <2> QED
    BY <1>2, <2>1 DEF SaveInv
<1>4. CASE FlashPut(t)
  <2> SUFFICES ASSUME faults' = 0 PROVE SaveOK(t)'
    BY <1>1, <1>2 DEF SaveInv, Busy
  <2>1. SaveOK(t)
    BY <1>0, <1>4 DEF FlashPut, SaveInv
  <2>2. /\ job'[t].todo = Tail(todo) /\ job'[t].ok = job[t].ok
        /\ flash' = [flash EXCEPT ![Head(todo)] = job[t].goal[Head(todo)]]
        /\ robot' = robot
    BY <1>0, <1>4 DEF FlashPut, JobType
  <2>3. Leads(job[t])'
    BY <1>1, <2>1, <2>2 DEF SaveOK, Leads, Matches, Loads
  <2>4. ASSUME NEW f \in Field
        PROVE  flash'[f] = job'[t].goal[f] \/ Pending(job'[t], f)
    <3>1. CASE f = Head(todo)
      BY <1>0, <1>1, <2>2, <3>1 DEF FlashType, Field
    <3>2. CASE f # Head(todo) /\ flash[f] = job[t].goal[f]
      BY <1>0, <1>1, <2>2, <3>2 DEF FlashType, Field
    <3>3. CASE f # Head(todo) /\ Pending(job[t], f)
      <4>1. PICK i \in 1 .. Len(todo) : todo[i] = f
        BY <3>3 DEF Pending
      <4>2. i # 1
        BY <1>0, <3>3, <4>1
      <4>3. i - 1 \in 1 .. Len(Tail(todo)) /\ Tail(todo)[i - 1] = f
        BY <1>0, <4>1, <4>2
      <4> QED
        BY <2>2, <4>3 DEF Pending
    <3> QED
      BY <2>1, <3>1, <3>2, <3>3 DEF SaveOK
  <2> QED
    BY <2>1, <2>2, <2>3, <2>4 DEF SaveOK
<1> QED
  BY <1>3, <1>4

(* Without overlap a save begins only when nothing is saved.                *)
LEMMA FreeIsSettled ==
  ASSUME ~Overlap, NEW t \in Task, Free(t)
  PROVE  Settled
BY DEF Free, Settled

(* Every field is in the order of a whole save.                             *)
LEMMA Whole ==
  ASSUME NEW f \in Field
  PROVE  /\ \E i \in 1 .. Len(SavePairOrder) : SavePairOrder[i] = f
         /\ \E i \in 1 .. Len(SavePairRefreshOrder) : SavePairRefreshOrder[i] = f
         /\ \E i \in 1 .. Len(ClearPairOrder) : ClearPairOrder[i] = f
<1> USE DEF Field, SavePairOrder, SavePairRefreshOrder, ClearPairOrder
<1>1. Len(SavePairOrder) = 5 /\ Len(SavePairRefreshOrder) = 5 /\ Len(ClearPairOrder) = 5
  OBVIOUS
<1>2. /\ SavePairOrder[1] = "psk" /\ SavePairOrder[2] = "ctr" /\ SavePairOrder[3] = "paired"
      /\ SavePairOrder[4] = "era" /\ SavePairOrder[5] = "tapp"
  OBVIOUS
<1>3. /\ SavePairRefreshOrder[1] = "psk" /\ SavePairRefreshOrder[2] = "era"
      /\ SavePairRefreshOrder[3] = "ctr" /\ SavePairRefreshOrder[4] = "paired"
      /\ SavePairRefreshOrder[5] = "tapp"
  OBVIOUS
<1>4. ClearPairOrder = SavePairOrder
  OBVIOUS
<1>5. 1 \in 1 .. 5 /\ 2 \in 1 .. 5 /\ 3 \in 1 .. 5 /\ 4 \in 1 .. 5 /\ 5 \in 1 .. 5
  OBVIOUS
<1>6. f = "psk" \/ f = "ctr" \/ f = "paired" \/ f = "era" \/ f = "tapp"
  OBVIOUS
<1> QED
  BY <1>1, <1>2, <1>3, <1>4, <1>5, <1>6, Zenon

(* The radio task's handlers.                                               *)
LEMMA SaveHear ==
  ASSUME RobotOK, SaveInv, ~Overlap, Hear
  PROVE  SaveInv'
<1> USE DEF RobotOK
<1>0. "radio" \in Task
  BY DEF Task
<1>1. ASSUME NEW f \in OnAir({"pairReq"}), PairReq(f) PROVE SaveInv'
  <2>1. CASE f.code = core.code
    <3> DEFINE key == MintKey(f.code)
               frame == PairOkFrame(f.code, f.nonce, key)
    <3>1. Save("radio", "pair", SavePairOrder, PairGoal(key, 0), frame)
      BY <1>1, <2>1 DEF PairReq
    <3>2. key # NoKey
      BY Fields, Keys DEF OnAir
    <3> HIDE DEF key, frame
    <3>3. /\ job'["radio"].op = "pair"
          /\ job'["radio"].goal = PairGoal(key, 0)
      BY <1>0, <3>1 DEF Save, RobotTypeOK
    <3>4. Leads(job["radio"])'
      BY <3>2, <3>3 DEF Leads, Loads, PairGoal
    <3>5. Settled /\ UNCHANGED <<flash, faults>>
      BY <1>0, <1>1, FreeIsSettled DEF PairReq
    <3> QED
      BY <1>0, <3>1, <3>4, <3>5, Whole, SaveBegins
  <2>2. CASE f.code # core.code
    BY <1>1, <2>2, SaveIdle DEF PairReq
  <2> QED
    BY <2>1, <2>2
<1>2. ASSUME NEW f \in OnAir(Traffic), Accept(f) PROVE SaveInv'
  <2>1. /\ robot'.paired = robot.paired /\ robot'.psk = robot.psk /\ robot'.era = robot.era
        /\ UNCHANGED <<flash, faults>>
    BY <1>2 DEF Accept, RobotTypeOK, RobotType
  <2>2. CASE UNCHANGED job
    BY <2>1, <2>2, SaveIdle
  <2>3. CASE ~UNCHANGED job
    <3> DEFINE goal == [flash EXCEPT !.ctr = f.ctr]
    <3>1. Save("radio", "counter", <<"ctr">>, goal, NoFrame)
      BY <1>2, <2>3 DEF Accept, TryConsume
    <3>2. Settled
      BY <1>0, <1>2, FreeIsSettled DEF Accept
    <3>3. /\ \A g \in Field : g # "ctr" => flash[g] = goal[g]
          /\ goal.psk = flash.psk /\ goal.paired = flash.paired /\ goal.era = flash.era
      BY DEF RobotTypeOK, FlashType, Field
    <3>4. \A g \in Field : flash[g] = goal[g] \/ \E i \in 1 .. Len(<<"ctr">>) : <<"ctr">>[i] = g
      <4>1. Len(<<"ctr">>) = 1 /\ <<"ctr">>[1] = "ctr" /\ 1 \in 1 .. 1
        OBVIOUS
      <4> QED
        BY <3>3, <4>1
    <3> HIDE DEF goal
    <3>5. job'["radio"].op = "counter" /\ job'["radio"].goal = goal
      BY <1>0, <3>1 DEF Save, RobotTypeOK
    <3>6. faults = 0 => Leads(job["radio"])'
      <4>1. faults = 0 => Matches(flash)
        BY <3>2 DEF SaveInv
      <4> QED
        BY <2>1, <3>3, <3>5, <4>1 DEF Leads, Matches, Loads
    <3> QED
      BY <1>0, <2>1, <3>1, <3>2, <3>4, <3>6, SaveBegins
  <2> QED
    BY <2>2, <2>3
<1>3. ASSUME NEW f \in OnAir({"unpair"}), Unpair(f) PROVE SaveInv'
  <2>1. Save("radio", "unpair", ClearPairOrder, NoFlash, NoFrame)
    BY <1>3 DEF Unpair
  <2>2. job'["radio"].op = "unpair" /\ job'["radio"].goal = NoFlash
    BY <1>0, <2>1 DEF Save, RobotTypeOK
  <2>3. Leads(job["radio"])'
    BY <2>2 DEF Leads
  <2>4. Settled /\ UNCHANGED <<flash, faults>>
    BY <1>0, <1>3, FreeIsSettled DEF Unpair
  <2> QED
    BY <1>0, <2>1, <2>3, <2>4, Whole, SaveBegins
<1>4. ASSUME NEW f \in OnAir({"refresh"}), ReAck(f) PROVE SaveInv'
  BY <1>4, SaveIdle DEF ReAck, robotVars
<1>5. ASSUME NEW f \in OnAir({"refresh"}), PairRefresh(f) PROVE SaveInv'
  <2> DEFINE key == DerivePairRefreshPsk(robot.psk, f.era)
             frame == AckFrame(key, f.era)
  <2>1. Save("radio", "refresh", SavePairRefreshOrder, PairGoal(key, f.era), frame)
    BY <1>5 DEF PairRefresh
  <2>2. key # NoKey
    BY Fields, Keys DEF OnAir, RobotTypeOK, RobotType
  <2> HIDE DEF key, frame
  <2>3. /\ job'["radio"].op = "refresh"
        /\ job'["radio"].goal = PairGoal(key, f.era)
        /\ robot'.paired
    BY <1>0, <1>5, <2>1 DEF Save, RobotTypeOK, PairRefresh, Verified
  <2>4. Leads(job["radio"])'
    BY <2>2, <2>3 DEF Leads, Loads, PairGoal
  <2>5. Settled /\ UNCHANGED <<flash, faults>>
    BY <1>0, <1>5, FreeIsSettled DEF PairRefresh
  <2> QED
    BY <1>0, <2>1, <2>4, <2>5, Whole, SaveBegins
<1> QED
  BY <1>1, <1>2, <1>3, <1>4, <1>5 DEF Hear

(* The ends of the radio's saves: the robot moves to the pair just saved.   *)
LEMMA SaveSaved ==
  ASSUME RobotOK, SaveInv, PairSaved \/ UnpairSaved \/ RefreshSaved \/ CounterSaved
  PROVE  SaveInv'
<1> USE DEF RobotOK
<1> DEFINE j == job["radio"]
<1>1. /\ "radio" \in Task /\ Busy("radio") /\ j.todo = <<>>
      /\ job' = [job EXCEPT !["radio"] = NoJob] /\ UNCHANGED <<flash, faults>>
  BY DEF PairSaved, UnpairSaved, RefreshSaved, CounterSaved, Saved, Busy, Task
<1>2. /\ \A u \in Task \ {"radio"} : ~Busy(u)
      /\ faults = 0 => /\ j.ok /\ Leads(j) /\ flash.psk = j.goal.psk
                      /\ flash.paired = j.goal.paired /\ flash.era = j.goal.era
  BY <1>1, SaveEnds
<1>3. ASSUME faults' = 0 PROVE Matches(flash)'
  <2>1. /\ j.ok /\ Leads(j) /\ flash.psk = j.goal.psk
        /\ flash.paired = j.goal.paired /\ flash.era = j.goal.era /\ UNCHANGED flash
    BY <1>1, <1>2, <1>3
  <2>2. CASE PairSaved
    <3>1. robot'.paired /\ robot'.psk = j.goal.psk /\ robot'.era = 0
      BY <2>1, <2>2 DEF PairSaved, RobotTypeOK, RobotType
    <3>2. Loads(j.goal) /\ j.goal.era = 0
      BY <2>1, <2>2 DEF PairSaved, Saved, Leads
    <3> QED
      BY <2>1, <3>1, <3>2 DEF Matches, Loads
  <2>3. CASE UnpairSaved
    <3>1. ~robot'.paired /\ robot'.psk = NoKey /\ robot'.era = 0
      BY <2>3 DEF UnpairSaved, RobotTypeOK, RobotType
    <3>2. j.goal = NoFlash
      BY <2>1, <2>3 DEF UnpairSaved, Saved, Leads
    <3> QED
      BY <2>1, <3>1, <3>2 DEF Matches, Loads, NoFlash
  <2>4. CASE RefreshSaved
    <3>1. Loads(j.goal) /\ robot.paired
      BY <2>1, <2>4 DEF RefreshSaved, Saved, Leads
    <3>2. robot'.paired /\ robot'.psk = j.goal.psk /\ robot'.era = j.goal.era
      BY <2>1, <2>4, <3>1 DEF RefreshSaved, RobotTypeOK, RobotType
    <3> QED
      BY <2>1, <3>1, <3>2 DEF Matches, Loads
  <2>5. CASE CounterSaved
    <3>1. Matches(j.goal) /\ robot' = robot
      BY <2>1, <2>5 DEF CounterSaved, Saved, Leads
    <3> QED
      BY <2>1, <3>1 DEF Matches, Loads
  <2> QED
    BY <2>2, <2>3, <2>4, <2>5
<1> QED
  BY <1>1, <1>2, <1>3, Ended

(* Clearing the pair once nothing else is saved.                            *)
LEMMA SaveClears ==
  ASSUME RobotOK, \A t \in Task \ {"loop"} : ~Busy(t), ClearPair, UNCHANGED <<flash, faults>>
  PROVE  SaveInv'
<1> USE DEF RobotOK
<1>0. "loop" \in Task
  BY DEF Task
<1>1. Save("loop", "clear", ClearPairOrder, NoFlash, NoFrame)
  BY DEF ClearPair
<1>2. /\ job'["loop"].op = "clear" /\ job'["loop"].goal = NoFlash /\ job'["loop"].ok
      /\ job'["loop"].todo = ClearPairOrder
      /\ \A u \in Task \ {"loop"} : job'[u] = job[u]
  BY <1>0, <1>1 DEF Save, RobotTypeOK
<1>3. ~robot'.paired /\ robot'.psk = NoKey /\ robot'.era = 0
  BY DEF ClearPair, RobotTypeOK, RobotType
<1>4. Leads(job["loop"])'
  BY <1>2, <1>3 DEF Leads, Matches, Loads, NoFlash
<1>5. SaveOK("loop")'
  <2>1. \A f \in Field : Pending(job'["loop"], f)
    BY <1>2, Whole DEF Pending
  <2> QED
    BY <1>2, <1>4, <2>1 DEF SaveOK
<1>6. Busy("loop")' /\ \A u \in Task \ {"loop"} : ~Busy(u)'
  BY <1>2 DEF Busy
<1> QED
  BY <1>0, <1>5, <1>6 DEF SaveInv, OneSave, Settled

(* The pair button.                                                         *)
LEMMA SaveButton ==
  ASSUME RobotOK, SaveInv, ~Overlap, PairButton \/ GoodbyeSaved \/ WindowOpens
  PROVE  SaveInv'
<1> USE DEF RobotOK
<1>0. "loop" \in Task
  BY DEF Task
<1>1. CASE PairButton
  <2>1. Settled /\ UNCHANGED <<flash, faults>>
    BY <1>0, <1>1, FreeIsSettled DEF PairButton
  <2>2. CASE robot.paired /\ robot.peer
    <3> DEFINE ctr == NextToAppCounter(robot.toApp)
               goal == [flash EXCEPT !.tapp = ctr]
               frame == SignedFrame("evict", robot.psk, robot.era, ctr)
    <3>1. robot' = [robot EXCEPT !.toApp = ctr] /\ Save("loop", "goodbye", <<"tapp">>, goal, frame)
      BY <1>1, <2>2 DEF PairButton
    <3>2. robot'.paired = robot.paired /\ robot'.psk = robot.psk /\ robot'.era = robot.era
      BY <3>1 DEF RobotTypeOK, RobotType
    <3>3. /\ \A g \in Field : g # "tapp" => flash[g] = goal[g]
          /\ goal.psk = flash.psk /\ goal.paired = flash.paired /\ goal.era = flash.era
      BY DEF RobotTypeOK, FlashType, Field
    <3>4. \A g \in Field : flash[g] = goal[g] \/ \E i \in 1 .. Len(<<"tapp">>) : <<"tapp">>[i] = g
      <4>1. Len(<<"tapp">>) = 1 /\ <<"tapp">>[1] = "tapp" /\ 1 \in 1 .. 1
        OBVIOUS
      <4> QED
        BY <3>3, <4>1
    <3> HIDE DEF ctr, goal, frame
    <3>5. job'["loop"].op = "goodbye" /\ job'["loop"].goal = goal
      BY <1>0, <3>1 DEF Save, RobotTypeOK
    <3>6. faults = 0 => Leads(job["loop"])'
      <4>1. faults = 0 => Matches(flash)
        BY <2>1 DEF SaveInv
      <4> QED
        BY <3>2, <3>3, <3>5, <4>1 DEF Leads, Matches, Loads
    <3> QED
      BY <1>0, <2>1, <3>1, <3>4, <3>6, SaveBegins
  <2>3. CASE ~(robot.paired /\ robot.peer)
    <3>1. ClearPair
      BY <1>1, <2>3 DEF PairButton
    <3> QED
      BY <2>1, <3>1, SaveClears DEF Settled
  <2> QED
    BY <2>2, <2>3
<1>2. CASE GoodbyeSaved
  <2>1. Busy("loop") /\ ClearPair /\ UNCHANGED <<flash, faults>>
    BY <1>2 DEF GoodbyeSaved, Saved, Busy
  <2>2. \A t \in Task \ {"loop"} : ~Busy(t)
    BY <1>0, <2>1 DEF SaveInv, OneSave
  <2> QED
    BY <2>1, <2>2, SaveClears
<1>3. CASE WindowOpens
  <2>1. /\ Busy("loop") /\ job["loop"].todo = <<>> /\ job["loop"].op = "clear"
        /\ job' = [job EXCEPT !["loop"] = NoJob] /\ UNCHANGED <<robot, flash, faults>>
    BY <1>3 DEF WindowOpens, Saved, Busy
  <2>2. /\ \A u \in Task \ {"loop"} : ~Busy(u)
        /\ faults = 0 => /\ Leads(job["loop"]) /\ flash.psk = job["loop"].goal.psk
                        /\ flash.paired = job["loop"].goal.paired
                        /\ flash.era = job["loop"].goal.era
    BY <1>0, <2>1, SaveEnds
  <2>3. faults' = 0 => Matches(flash)'
    BY <2>1, <2>2 DEF Leads, Matches, Loads
  <2> QED
    BY <1>0, <2>1, <2>2, <2>3, Ended
<1> QED
  BY <1>1, <1>2, <1>3

(* Time, and a power loss wherever it hits.                                 *)
LEMMA SaveTime ==
  ASSUME RobotOK, SaveInv, WindowCloses \/ LockoutEnds \/ PowerLoss
  PROVE  SaveInv'
<1>1. CASE WindowCloses \/ LockoutEnds
  BY <1>1, SaveIdle DEF WindowCloses, LockoutEnds
<1>2. CASE PowerLoss
  <2>1. \A t \in Task : ~Busy(t)'
    BY <1>2 DEF PowerLoss, Busy, NoJob
  <2>2. Matches(flash)'
    <3>1. robot' = RestorePair(flash, FALSE) /\ flash' = flash
      BY <1>2 DEF PowerLoss
    <3> QED
      BY <3>1 DEF RestorePair, Matches, Loads
  <2> QED
    BY <2>1, <2>2 DEF SaveInv, OneSave
<1> QED
  BY <1>1, <1>2

(* Without overlap every save is sound, from boot on.                       *)
LEMMA SaveAlways ==
  ASSUME ~Overlap
  PROVE  Spec => []SaveInv
<1>1. Init => SaveInv
  <2> SUFFICES ASSUME Init PROVE SaveInv
    OBVIOUS
  <2>1. PICK f, n : RobotInit(f, n)
    BY DEF Init
  <2>2. Matches(flash)
    BY <2>1 DEF RobotInit, RestorePair, Matches, Loads
  <2>3. \A t \in Task : ~Busy(t)
    BY <2>1 DEF RobotInit, Busy, NoJob
  <2> QED
    BY <2>2, <2>3 DEF SaveInv, OneSave
<1>2. TypeOK /\ SaveInv /\ [Next]_vars => SaveInv'
  <2> SUFFICES ASSUME TypeOK, SaveInv, [Next]_vars PROVE SaveInv'
    OBVIOUS
  <2>1. RobotOK
    BY DEF TypeOK, RobotOK
  <2>2. CASE RobotNext
    BY <2>1, <2>2, SaveHear, SaveSaved, SaveButton, SaveTime, SaveWrites DEF RobotNext, RobotOK
  <2>3. CASE UNCHANGED robotVars
    BY <2>3, SaveIdle DEF robotVars
  <2> QED
    BY <2>2, <2>3 DEF Next, vars, robotVars
<1> QED
  BY <1>1, <1>2, SessionTypeCorrect, PTL DEF Spec

(* While no save is under way and no write has failed, a reboot restores    *)
(* the pair that the robot is in, whatever power losses hit earlier saves,   *)
(* if the button and the radio do not save at the same time (restorePair     *)
(* with savePair, savePairRefresh and clearPair of ConfigStore).             *)
THEOREM RebootSafe ==
  ASSUME ~Overlap
  PROVE  Spec => []RebootRestores
<1>1. TypeOK /\ SaveInv => RebootRestores
  <2> SUFFICES ASSUME TypeOK, SaveInv, Settled, faults = 0
               PROVE  LET r == RestorePair(flash, FALSE)
                      IN r.paired = robot.paired /\ r.psk = robot.psk /\ r.era = robot.era
    BY DEF RebootRestores
  <2>1. robot.paired \in BOOLEAN /\ Matches(flash)
    BY DEF SaveInv, TypeOK, RobotTypeOK, RobotType
  <2>2. CASE Loads(flash)
    BY <2>1, <2>2 DEF Matches, RestorePair
  <2>3. CASE ~Loads(flash)
    BY <2>1, <2>3 DEF Matches, RestorePair
  <2> QED
    BY <2>2, <2>3
<1> QED
  BY <1>1, SaveAlways, SessionTypeCorrect, PTL
-----------------------------------------------------------------------------
(* A row and its key.  An attempt to pair runs alone: nothing that deletes   *)
(* can start before its row is there, and a delete takes the row first.      *)

KeyInv ==
  /\ row.on => vault # NoKey
  /\ enrol.at # "idle" => ~row.on /\ ~sess.seen.on /\ purge = NoPurge
  /\ enrol.at = "row" => vault # NoKey
  /\ refresh.at # "idle" => refresh.key # NoKey
  /\ \A p \in {"forget", "evict"} : purge[p] = "vault" => ~row.on

(* Saving a counter neither makes nor removes a row. *)
LEMMA CountersKeepRow ==
  ASSUME NEW r \in RowType, NEW h
  PROVE  PersistAhead(r, h).on = r.on /\ Flush(r, h).on = r.on
BY DEF PersistAhead, Flush, SetCounter, RowType

(* Sends, with or without a refusal, leave the keys alone. *)
LEMMA KeySends ==
  ASSUME PhoneOK, KeyInv, (\E kind \in SentKinds \ {"bye"} : Send(kind)) \/ Background
  PROVE  KeyInv'
<1> USE DEF PhoneOK, PhoneTypeOK
<1>1. Flush(row, holder) \in RowType /\ Flush(row, holder).on = row.on
  BY CountersKeepRow, CounterTypes
<1>2. sess.seen.on /\ enrol' = enrol /\ refresh' = refresh /\ vault' = vault
  BY DEF Send, Background, SendFrom, RefuseFrom
<1>3. row'.on = row.on
  BY <1>1, CountersKeepRow DEF Send, Background, SendFrom, RefuseFrom
<1>4. sess'.seen = sess.seen
  BY DEF Send, Background, SendFrom, RefuseFrom, Cached
<1>5. \A p \in {"forget", "evict"} : purge'[p] = "vault" => purge[p] = "vault"
  BY DEF Send, Background, SendFrom, RefuseFrom
<1> QED
  BY <1>2, <1>3, <1>4, <1>5 DEF KeyInv

(* Pairing and refresh: the vault is filled before the row. *)
LEMMA KeyFills ==
  ASSUME PhoneOK, KeyInv,
         \/ Answered \/ PairingFails \/ PairingSavesRow \/ UserPairs
         \/ StartRefresh \/ RefreshTimesOut \/ RefreshSavesPsk \/ RefreshSavesRow
         \/ CompletePairRefresh \/ InvalidateSession
  PROVE  KeyInv'
<1> USE DEF PhoneOK, PhoneTypeOK
<1>1. ASSUME NEW f \in OnAir({"pairOk"}), PairingSavesPsk(f) PROVE KeyInv'
  <2>1. f.key # NoKey
    BY DEF OnAir, Frame, Traffic
  <2> QED
    BY <1>1, <2>1 DEF PairingSavesPsk, KeyInv
<1>2. ASSUME NEW f \in OnAir({"ack"}), RefreshAnswered(f) PROVE KeyInv'
  BY <1>2 DEF RefreshAnswered, KeyInv, NoRefresh
<1>3. ASSUME NEW f \in OnAir({"evict"}), Evicted(f) PROVE KeyInv'
  <2>1. row.on /\ row'.on = row.on /\ vault' = vault
    BY <1>3 DEF Evicted, GetPairPsk, RowType
  <2>2. enrol.at = "idle" /\ enrol' = enrol /\ refresh' = refresh
    BY <1>3, <2>1 DEF Evicted, KeyInv
  <2>3. \A p \in {"forget", "evict"} : purge'[p] = "vault" => purge[p] = "vault"
    BY <1>3 DEF Evicted
  <2> QED
    BY <2>1, <2>2, <2>3 DEF KeyInv
<1>4. CASE PairingFails
  BY <1>4 DEF PairingFails, KeyInv, NoEnrol
<1>5. CASE PairingSavesRow
  <2>1. vault' # NoKey /\ enrol'.at = "idle" /\ refresh' = refresh
    BY <1>5 DEF PairingSavesRow, KeyInv, NoEnrol
  <2>2. purge' = NoPurge
    BY <1>5 DEF PairingSavesRow, KeyInv
  <2> QED
    BY <2>1, <2>2 DEF KeyInv, NoPurge
<1>6. CASE UserPairs
  BY <1>6 DEF UserPairs, StartPairing, KeyInv
<1>7. CASE StartRefresh
  <2>1. row'.on = row.on /\ vault' = vault /\ enrol' = enrol /\ purge' = purge /\ sess' = sess
    BY <1>7, CountersKeepRow DEF StartRefresh
  <2>2. row.era + 1 \in Nat
    BY DEF RowType
  <2>3. refresh'.key # NoKey
    <3>1. refresh'.key = DerivePairRefreshPsk(vault, row.era + 1)
      BY <1>7 DEF StartRefresh
    <3> QED
      BY <2>2, <3>1, Keys
  <2> QED
    BY <2>1, <2>3 DEF KeyInv
<1>8. CASE RefreshTimesOut
  BY <1>8 DEF RefreshTimesOut, KeyInv, NoRefresh
<1>9. CASE RefreshSavesPsk
  BY <1>9 DEF RefreshSavesPsk, KeyInv
<1>10. CASE RefreshSavesRow
  <2>1. row'.on = row.on
    BY <1>10 DEF RefreshSavesRow, NoRow
  <2> QED
    BY <1>10, <2>1 DEF RefreshSavesRow, KeyInv
<1>11. CASE CompletePairRefresh
  BY <1>11 DEF CompletePairRefresh, KeyInv
<1>12. CASE InvalidateSession
  BY <1>12 DEF InvalidateSession, KeyInv, NoRefresh
<1> QED
  BY <1>1, <1>2, <1>3, <1>4, <1>5, <1>6, <1>7, <1>8, <1>9, <1>10, <1>11, <1>12 DEF Answered

(* Forget, eviction, the row's flow and death: the row goes before its key. *)
LEMMA KeyDeletes ==
  ASSUME PhoneOK, KeyInv,
         \/ Observe \/ ForgetTapped \/ ForgetSends \/ Kill
         \/ \E p \in {"forget", "evict"} : PurgeRow(p) \/ PurgeVault(p) \/ PurgeCounters(p)
  PROVE  KeyInv'
<1> USE DEF PhoneOK, PhoneTypeOK
<1>1. CASE Observe
  <2>1. sess'.seen = row
    BY <1>1 DEF Observe, NoSess
  <2> QED
    BY <1>1, <2>1 DEF Observe, KeyInv
<1>2. CASE ForgetTapped
  BY <1>2 DEF ForgetTapped, KeyInv
<1>3. CASE ForgetSends
  <2>1. Flush(row, Ensure(holder, row.ctr)) \in RowType
    BY CounterTypes DEF RowType
  <2>2. row'.on = row.on
    BY <1>3, <2>1, CountersKeepRow DEF ForgetSends
  <2>3. vault' = vault /\ enrol' = enrol /\ refresh' = refresh /\ sess' = sess
    BY <1>3 DEF ForgetSends
  <2>4. enrol.at = "idle"
    BY <1>3 DEF ForgetSends, KeyInv, NoPurge
  <2>5. \A p \in {"forget", "evict"} : purge'[p] = "vault" => purge[p] = "vault"
    BY <1>3 DEF ForgetSends
  <2> QED
    BY <2>2, <2>3, <2>4, <2>5 DEF KeyInv
<1>4. CASE Kill
  BY <1>4 DEF Kill, KeyInv, NoEnrol, NoRefresh, NoPurge, NoSess, NoRow
<1>5. ASSUME NEW p \in {"forget", "evict"}, PurgeRow(p) PROVE KeyInv'
  <2>1. ~row'.on /\ enrol.at = "idle"
    BY <1>5 DEF PurgeRow, KeyInv, NoPurge, NoRow
  <2> QED
    BY <1>5, <2>1 DEF PurgeRow, KeyInv
<1>6. ASSUME NEW p \in {"forget", "evict"}, PurgeVault(p) PROVE KeyInv'
  <2>1. ~row.on /\ enrol.at = "idle"
    BY <1>6 DEF PurgeVault, KeyInv, NoPurge
  <2> QED
    BY <1>6, <2>1 DEF PurgeVault, KeyInv
<1>7. ASSUME NEW p \in {"forget", "evict"}, PurgeCounters(p) PROVE KeyInv'
  <2>1. enrol.at = "idle"
    BY <1>7 DEF PurgeCounters, KeyInv, NoPurge
  <2> QED
    BY <1>7, <2>1 DEF PurgeCounters, KeyInv
<1> QED
  BY <1>1, <1>2, <1>3, <1>4, <1>5, <1>6, <1>7

(* A row and its key, from the first start on.                              *)
LEMMA KeyAlways == Spec => []KeyInv
<1>1. Init => KeyInv
  <2> SUFFICES ASSUME Init PROVE KeyInv
    OBVIOUS
  <2>1. PICK r, k : PhoneInit(r, k) /\ (r.on => k # NoKey)
    <3>1. OldKey # NoKey
      BY DEF OldKey, MintKey, NoKey
    <3> QED
      BY <3>1 DEF Init, NoRow
  <2> QED
    BY <2>1 DEF PhoneInit, KeyInv, NoEnrol, NoRefresh, NoPurge
<1>2. TypeOK /\ KeyInv /\ [Next]_vars => KeyInv'
  <2> SUFFICES ASSUME TypeOK, KeyInv, [Next]_vars PROVE KeyInv'
    OBVIOUS
  <2>1. PhoneOK
    BY DEF TypeOK, PhoneOK
  <2>2. CASE UNCHANGED phoneVars
    BY <2>2 DEF phoneVars, KeyInv
  <2>3. CASE PhoneNext \/ UserPairs
    BY <2>1, <2>3, KeySends, KeyFills, KeyDeletes DEF PhoneNext
  <2> QED
    BY <2>2, <2>3 DEF Next, vars
<1> QED
  BY <1>1, <1>2, SessionTypeCorrect, PTL DEF Spec

(* A row always has a key, whatever the app is killed in the middle of       *)
(* (PairDeviceWithCodeUseCase and PairRefreshUseCase write the vault first,  *)
(* ForgetDeviceUseCase and ObserveRemoteDisconnectUseCase the row first).    *)
THEOREM RowKeepsKey == Spec => []RowHasKey
<1>1. KeyInv => RowHasKey
  BY DEF KeyInv, RowHasKey
<1> QED
  BY <1>1, KeyAlways, PTL
=============================================================================
