----------------------------- MODULE PairProofs -----------------------------
(***************************************************************************)
(* What the two ends of a pair owe each other, for every range of counters *)
(* and any number of windows, power losses and pairing attempts: keys are  *)
(* known by the code they were minted for (their first element, the line), *)
(* and a line is never taken up again.                                     *)
EXTENDS SessionProofs, SequenceTheorems

Radio == job["radio"]

Loop == job["loop"]

SameLine(j, k) == j # NoKey /\ k # NoKey /\ Head(j) = Head(k)

-----------------------------------------------------------------------------
(* Data                                                                     *)

(* The first element and the length of a minted and of a derived key.       *)
LEMMA Lines ==
  /\ \A c \in Nat : MintKey(c) \in Key /\ MintKey(c) # NoKey /\ Head(MintKey(c)) = c
                    /\ Len(MintKey(c)) = 1
  /\ \A k \in Key, e \in Nat :
       /\ Append(k, e) \in Key /\ Append(k, e) # NoKey /\ Len(Append(k, e)) = Len(k) + 1
       /\ k # NoKey => Head(Append(k, e)) = Head(k)
  /\ \A k \in Key : Len(k) \in Nat /\ (k # NoKey => Len(k) > 0 /\ Head(k) \in Nat)
<1>1. ASSUME NEW c \in Nat
      PROVE  <<c>> \in Seq(Nat) /\ <<c>> # <<>> /\ Head(<<c>>) = c /\ Len(<<c>>) = 1
  <2>1. <<c>> \in Seq(Nat) /\ Head(<<c>>) = c /\ Len(<<c>>) = 1 /\ Len(<<>>) = 0
    OBVIOUS
  <2> QED
    BY <2>1
<1>2. ASSUME NEW k \in Seq(Nat), NEW e \in Nat
      PROVE  /\ Append(k, e) \in Seq(Nat) /\ Append(k, e) # <<>>
             /\ Len(Append(k, e)) = Len(k) + 1
             /\ k # <<>> => Head(Append(k, e)) = Head(k)
  <2>1. Append(k, e) \in Seq(Nat) /\ Len(Append(k, e)) = Len(k) + 1 /\ Len(k) \in Nat
    OBVIOUS
  <2>2. Append(k, e) # <<>>
    <3>1. Len(<<>>) = 0
      OBVIOUS
    <3> QED
      BY <2>1, <3>1
  <2>3. k # <<>> => Head(Append(k, e)) = Head(k)
    <3> SUFFICES ASSUME k # <<>> PROVE Head(Append(k, e)) = Head(k)
      OBVIOUS
    <3>1. Len(k) > 0 /\ Append(k, e)[1] = k[1]
      OBVIOUS
    <3>2. Head(k) = k[1] /\ Head(Append(k, e)) = Append(k, e)[1]
      BY <2>1, <2>2
    <3> QED
      BY <3>1, <3>2
  <2> QED
    BY <2>1, <2>2, <2>3
<1>3. ASSUME NEW k \in Seq(Nat) PROVE Len(k) \in Nat /\ (k # <<>> => Len(k) > 0 /\ Head(k) \in Nat)
  OBVIOUS
<1> QED
  BY <1>1, <1>2, <1>3 DEF Key, NoKey, MintKey

(* What a save leaves in the job of its task and of the other.              *)
LEMMA Begun ==
  ASSUME RobotTypeOK, NEW t \in Task, NEW op, NEW order, NEW goal, NEW frame,
         Save(t, op, order, goal, frame)
  PROVE  /\ job'[t].op = op /\ job'[t].todo = order /\ job'[t].goal = goal
         /\ job'[t].ok /\ job'[t].frame = frame
         /\ \A u \in Task \ {t} : job'[u] = job[u]
BY DEF Save, RobotTypeOK

(* What the end of a save leaves.                                           *)
LEMMA Over ==
  ASSUME RobotTypeOK, NEW t \in Task, job' = [job EXCEPT ![t] = NoJob]
  PROVE  job'[t] = NoJob /\ \A u \in Task \ {t} : job'[u] = job[u]
BY DEF RobotTypeOK

(* What a write, failed or not, leaves: the job shrinks, and at most the    *)
(* field at its head is written.                                            *)
LEMMA Wrote ==
  ASSUME RobotTypeOK, NEW t \in Task, FlashPut(t) \/ PutFails(t)
  PROVE  /\ job'[t].op = job[t].op /\ job'[t].goal = job[t].goal
         /\ job'[t].frame = job[t].frame /\ job'[t].todo = Tail(job[t].todo)
         /\ \A u \in Task \ {t} : job'[u] = job[u]
         /\ job[t].op # "none" /\ job[t].todo # <<>>
         /\ UNCHANGED <<robot, core, shown, heard, boots, air>>
         /\ \/ FlashPut(t) /\ job'[t].ok = job[t].ok /\ UNCHANGED faults
               /\ flash' = [flash EXCEPT ![Head(job[t].todo)] = job[t].goal[Head(job[t].todo)]]
            \/ PutFails(t) /\ ~job'[t].ok /\ UNCHANGED flash /\ faults' = faults + 1
               /\ faults < MaxFaults
<1>1. job \in [Task -> JobType] /\ job[t] \in JobType
  BY DEF RobotTypeOK
<1>2. CASE FlashPut(t)
  <2>1. job' = [job EXCEPT ![t].todo = Tail(@)]
    BY <1>2 DEF FlashPut
  <2>2. /\ job'[t].op = job[t].op /\ job'[t].goal = job[t].goal /\ job'[t].ok = job[t].ok
        /\ job'[t].frame = job[t].frame /\ job'[t].todo = Tail(job[t].todo)
        /\ \A u \in Task \ {t} : job'[u] = job[u]
    BY <1>1, <2>1 DEF JobType
  <2> QED
    BY <1>2, <2>2 DEF FlashPut, Busy
<1>3. CASE PutFails(t)
  <2>1. job' = [job EXCEPT ![t].todo = Tail(@), ![t].ok = FALSE]
    BY <1>3 DEF PutFails
  <2>2. /\ job'[t].op = job[t].op /\ job'[t].goal = job[t].goal /\ ~job'[t].ok
        /\ job'[t].frame = job[t].frame /\ job'[t].todo = Tail(job[t].todo)
        /\ \A u \in Task \ {t} : job'[u] = job[u]
    BY <1>1, <2>1 DEF JobType
  <2> QED
    BY <1>3, <2>2 DEF PutFails, Busy
<1> QED
  BY <1>2, <1>3

(* The two tasks.                                                           *)
LEMMA Tasks == Task = {"radio", "loop"} /\ "radio" \in Task /\ "loop" \in Task
BY DEF Task

-----------------------------------------------------------------------------
(* The saves of each task, and what they carry.  A refresh that outlives    *)
(* its pair (the button may clear it meanwhile) moves the key of a robot    *)
(* that is no longer paired.                                                *)

RoleInv ==
  /\ Radio.op \in {"none", "pair", "refresh", "unpair", "counter"}
  /\ Loop.op \in {"none", "goodbye", "clear"}
  /\ robot.paired => robot.psk # NoKey
  /\ Radio.op = "pair" =>
       /\ ~robot.paired
       /\ Radio.frame.kind = "pairOk" /\ Radio.frame.key = Radio.goal.psk
       /\ Radio.goal = PairGoal(MintKey(Radio.frame.code), 0)
  /\ Radio.op = "refresh" =>
       /\ Radio.frame = AckFrame(Radio.goal.psk, Radio.goal.era)
       /\ Radio.goal.psk # NoKey
       /\ robot.paired => Radio.goal.psk = Append(robot.psk, Radio.goal.era)
  /\ Loop.op = "goodbye" => Loop.frame.kind = "evict" /\ Loop.frame.key # NoKey

(* The key that is being enrolled. *)
LEMMA Minting ==
  ASSUME RobotTypeOK, RoleInv, Radio.op = "pair"
  PROVE  /\ Radio.frame.code \in Nat /\ Radio.frame.kind = "pairOk"
         /\ Radio.frame.key = Radio.goal.psk /\ Radio.goal.psk = MintKey(Radio.frame.code)
         /\ Radio.goal.psk # NoKey /\ Head(Radio.goal.psk) = Radio.frame.code
<1>1. Radio.frame \in Frame
  BY Tasks DEF Radio, RobotTypeOK, Answers
<1>2. /\ Radio.frame.kind = "pairOk" /\ Radio.frame.key = Radio.goal.psk
      /\ Radio.goal = PairGoal(MintKey(Radio.frame.code), 0)
  BY DEF RoleInv
<1>3. Radio.frame.code \in Nat
  BY <1>1, <1>2, Fields
<1>4. Radio.goal.psk = MintKey(Radio.frame.code)
  BY <1>2 DEF PairGoal
<1> QED
  BY <1>2, <1>3, <1>4, Lines

(* The pair a power loss leaves. *)
LEMMA Restored ==
  ASSUME PowerLoss
  PROVE  /\ Loads(flash) => robot'.paired /\ robot'.psk = flash.psk /\ robot'.era = flash.era
         /\ ~Loads(flash) => ~robot'.paired /\ robot'.psk = NoKey
<1>1. robot' = RestorePair(flash, FALSE)
  BY DEF PowerLoss
<1> QED
  BY <1>1 DEF RestorePair

(* Handlers that leave the robot in its pair and both tasks in their saves. *)
LEMMA RoleIdle ==
  ASSUME RoleInv, robot'.paired = robot.paired, robot'.psk = robot.psk,
         \A t \in Task : /\ job'[t].op = job[t].op /\ job'[t].goal = job[t].goal
                         /\ job'[t].frame = job[t].frame
  PROVE  RoleInv'
BY Tasks DEF RoleInv, Radio, Loop

(* A frame heard. *)
LEMMA RoleHear ==
  ASSUME RobotOK, RoleInv, Hear
  PROVE  RoleInv'
<1> USE Tasks DEF RobotOK
<1>1. ASSUME NEW f \in OnAir({"pairReq"}), PairReq(f) PROVE RoleInv'
  <2>1. CASE f.code = core.code
    <3> DEFINE key == MintKey(f.code)
               frame == PairOkFrame(f.code, f.nonce, key)
    <3>1. Save("radio", "pair", SavePairOrder, PairGoal(key, 0), frame)
      BY <1>1, <2>1 DEF PairReq
    <3>2. frame.kind = "pairOk" /\ frame.key = key /\ frame.code = f.code
      BY DEF PairOkFrame
    <3>3. PairGoal(key, 0).psk = key
      BY DEF PairGoal
    <3> HIDE DEF frame
    <3>4. /\ job'["radio"].op = "pair" /\ job'["radio"].goal = PairGoal(key, 0)
          /\ job'["radio"].frame = frame /\ job'["loop"] = job["loop"]
      BY <3>1, Begun
    <3>5. UNCHANGED robot /\ ~robot.paired
      BY <1>1 DEF PairReq
    <3> QED
      BY <3>2, <3>3, <3>4, <3>5 DEF RoleInv, Radio, Loop
  <2>2. CASE f.code # core.code
    BY <1>1, <2>2, RoleIdle DEF PairReq
  <2> QED
    BY <2>1, <2>2
<1>2. ASSUME NEW f \in OnAir(Traffic), Accept(f) PROVE RoleInv'
  <2>1. robot'.paired = robot.paired /\ robot'.psk = robot.psk
    BY <1>2 DEF Accept, RobotTypeOK, RobotType
  <2>2. CASE UNCHANGED job
    BY <2>1, <2>2, RoleIdle
  <2>3. CASE ~UNCHANGED job
    <3>1. Save("radio", "counter", <<"ctr">>, [flash EXCEPT !.ctr = f.ctr], NoFrame)
      BY <1>2, <2>3 DEF Accept, TryConsume
    <3>2. job'["radio"].op = "counter" /\ job'["loop"] = job["loop"]
      BY <3>1, Begun
    <3> QED
      BY <2>1, <3>2 DEF RoleInv, Radio, Loop
  <2> QED
    BY <2>2, <2>3
<1>3. ASSUME NEW f \in OnAir({"unpair"}), Unpair(f) PROVE RoleInv'
  <2>1. job'["radio"].op = "unpair" /\ job'["loop"] = job["loop"] /\ UNCHANGED robot
    BY <1>3, Begun DEF Unpair
  <2> QED
    BY <2>1 DEF RoleInv, Radio, Loop
<1>4. ASSUME NEW f \in OnAir({"refresh"}), ReAck(f) PROVE RoleInv'
  BY <1>4, RoleIdle DEF ReAck, robotVars
<1>5. ASSUME NEW f \in OnAir({"refresh"}), PairRefresh(f) PROVE RoleInv'
  <2> DEFINE key == DerivePairRefreshPsk(robot.psk, f.era)
             frame == AckFrame(key, f.era)
  <2>1. Save("radio", "refresh", SavePairRefreshOrder, PairGoal(key, f.era), frame)
    BY <1>5 DEF PairRefresh
  <2>2. key # NoKey /\ key = Append(robot.psk, f.era)
    BY Fields, Keys DEF OnAir, RobotTypeOK, RobotType, DerivePairRefreshPsk
  <2>3. PairGoal(key, f.era).psk = key /\ PairGoal(key, f.era).era = f.era
    BY DEF PairGoal
  <2> HIDE DEF key
  <2>4. /\ job'["radio"].op = "refresh" /\ job'["radio"].goal = PairGoal(key, f.era)
        /\ job'["radio"].frame = frame /\ job'["loop"] = job["loop"]
    BY <2>1, Begun
  <2>5. UNCHANGED robot
    BY <1>5 DEF PairRefresh
  <2> QED
    BY <2>2, <2>3, <2>4, <2>5 DEF RoleInv, Radio, Loop
<1> QED
  BY <1>1, <1>2, <1>3, <1>4, <1>5 DEF Hear

(* The end of a radio save. *)
LEMMA RoleSaved ==
  ASSUME RobotOK, RoleInv, PairSaved \/ UnpairSaved \/ RefreshSaved \/ CounterSaved
  PROVE  RoleInv'
<1> USE Tasks DEF RobotOK
<1>1. job' = [job EXCEPT !["radio"] = NoJob]
  BY DEF PairSaved, UnpairSaved, RefreshSaved, CounterSaved
<1>2. job'["radio"] = NoJob /\ job'["loop"] = job["loop"]
  BY <1>1, Over
<1>3. robot'.paired => robot'.psk # NoKey
  <2>1. CASE PairSaved
    <3>1. Radio.goal.psk # NoKey
      BY <2>1, Minting DEF PairSaved, Saved, Radio
    <3> QED
      BY <2>1, <3>1 DEF PairSaved, Radio, RoleInv, RobotTypeOK, RobotType
  <2>2. CASE UnpairSaved
    BY <2>2 DEF UnpairSaved, RobotTypeOK, RobotType
  <2>3. CASE RefreshSaved
    BY <2>3 DEF RefreshSaved, Saved, Radio, RoleInv, RobotTypeOK, RobotType
  <2>4. CASE CounterSaved
    BY <2>4 DEF CounterSaved, RoleInv
  <2> QED
    BY <2>1, <2>2, <2>3, <2>4
<1> QED
  BY <1>2, <1>3 DEF RoleInv, Radio, Loop, NoJob

(* The button, writes, time and power. *)
LEMMA RoleRest ==
  ASSUME RobotOK, RoleInv,
         \/ PairButton \/ GoodbyeSaved \/ WindowOpens \/ WindowCloses \/ LockoutEnds \/ PowerLoss
         \/ \E t \in Task : FlashPut(t) \/ PutFails(t)
  PROVE  RoleInv'
<1> USE Tasks DEF RobotOK
<1>1. ASSUME NEW t \in Task, FlashPut(t) \/ PutFails(t) PROVE RoleInv'
  <2>1. \A u \in Task : /\ job'[u].op = job[u].op /\ job'[u].goal = job[u].goal
                        /\ job'[u].frame = job[u].frame
    BY <1>1, Wrote
  <2> QED
    BY <1>1, <2>1, Wrote, RoleIdle
<1>2. CASE ClearPair
  <2>1. job'["loop"].op = "clear" /\ job'["radio"] = job["radio"]
    BY <1>2, Begun DEF ClearPair
  <2>2. ~robot'.paired
    BY <1>2 DEF ClearPair, RobotTypeOK, RobotType
  <2> QED
    BY <2>1, <2>2 DEF RoleInv, Radio, Loop
<1>3. CASE PairButton /\ ~ClearPair
  <2> DEFINE ctr == NextToAppCounter(robot.toApp)
             frame == SignedFrame("evict", robot.psk, robot.era, ctr)
  <2>1. /\ robot.paired /\ robot' = [robot EXCEPT !.toApp = ctr]
        /\ Save("loop", "goodbye", <<"tapp">>, [flash EXCEPT !.tapp = ctr], frame)
    BY <1>3 DEF PairButton
  <2>2. frame.kind = "evict" /\ frame.key = robot.psk
    BY DEF SignedFrame
  <2> HIDE DEF ctr, frame
  <2>3. /\ job'["loop"].op = "goodbye" /\ job'["loop"].frame = frame
        /\ job'["radio"] = job["radio"]
    BY <2>1, Begun
  <2>4. robot'.paired = robot.paired /\ robot'.psk = robot.psk
    BY <2>1 DEF RobotTypeOK, RobotType
  <2> QED
    BY <2>1, <2>2, <2>3, <2>4 DEF RoleInv, Radio, Loop
<1>4. CASE GoodbyeSaved
  BY <1>2, <1>4 DEF GoodbyeSaved
<1>5. CASE WindowOpens
  <2>1. job' = [job EXCEPT !["loop"] = NoJob] /\ UNCHANGED robot
    BY <1>5 DEF WindowOpens
  <2>2. job'["loop"] = NoJob /\ job'["radio"] = job["radio"]
    BY <2>1, Over
  <2> QED
    BY <2>1, <2>2 DEF RoleInv, Radio, Loop, NoJob
<1>6. CASE WindowCloses \/ LockoutEnds
  BY <1>6, RoleIdle DEF WindowCloses, LockoutEnds
<1>7. CASE PowerLoss
  <2>1. Radio'.op = "none" /\ Loop'.op = "none"
    BY <1>7 DEF PowerLoss, Radio, Loop, NoJob
  <2>2. robot'.paired => robot'.psk # NoKey
    BY <1>7, Restored DEF Loads
  <2> QED
    BY <2>1, <2>2 DEF RoleInv
<1> QED
  BY <1>1, <1>2, <1>3, <1>4, <1>5, <1>6, <1>7

(* Every step keeps the roles.                                              *)
LEMMA RoleNext == TypeOK /\ RoleInv /\ [Next]_vars => RoleInv'
<1> SUFFICES ASSUME TypeOK, RoleInv, [Next]_vars PROVE RoleInv'
  OBVIOUS
<1>1. CASE RobotNext
  BY <1>1, RoleHear, RoleSaved, RoleRest DEF RobotNext, TypeOK, RobotOK
<1>2. CASE UNCHANGED robotVars
  BY <1>2, RoleIdle DEF robotVars
<1> QED
  BY <1>1, <1>2 DEF Next, vars

(* A robot just booted has no save under way.                               *)
LEMMA RoleInit == Init => RoleInv
<1> SUFFICES ASSUME Init PROVE RoleInv
  OBVIOUS
<1>1. PICK f, n : RobotInit(f, n)
  BY DEF Init
<1> QED
  BY <1>1, Tasks DEF RobotInit, RoleInv, Radio, Loop, NoJob, RestorePair, Loads

-----------------------------------------------------------------------------
(* Who puts which datagram on the air.                                      *)

(* The robot answers with what its saves carry, or repeats an answer.       *)
LEMMA RobotAir ==
  ASSUME RobotOK, RoleInv, RobotNext
  PROVE  /\ air \subseteq air'
         /\ \A f \in air' \ air :
              \/ PairSaved /\ Radio.op = "pair" /\ Radio.ok /\ f = Radio.frame
              \/ RefreshSaved /\ Radio.op = "refresh" /\ Radio.ok /\ f = Radio.frame
              \/ GoodbyeSaved /\ Loop.op = "goodbye" /\ f = Loop.frame
              \/ /\ robot.paired /\ f = AckFrame(robot.psk, robot.era) /\ UNCHANGED robotVars
                 /\ \E g \in OnAir({"refresh"}) : g.era = robot.era
<1>1. CASE Hear
  <2>1. CASE \E f \in OnAir({"refresh"}) : ReAck(f)
    BY <2>1 DEF ReAck
  <2>2. \A f : PairReq(f) => UNCHANGED air
    BY DEF PairReq
  <2>3. \A f : Accept(f) \/ Unpair(f) \/ PairRefresh(f) => UNCHANGED air
    BY DEF Accept, Unpair, PairRefresh
  <2> QED
    BY <1>1, <2>1, <2>2, <2>3 DEF Hear
<1>2. CASE PairSaved
  BY <1>2 DEF PairSaved, Saved, Radio
<1>3. CASE RefreshSaved
  BY <1>3 DEF RefreshSaved, Saved, Radio
<1>4. CASE GoodbyeSaved
  BY <1>4 DEF GoodbyeSaved, Saved, Loop
<1>5. CASE UnpairSaved \/ CounterSaved \/ PairButton \/ WindowOpens \/ WindowCloses \/ LockoutEnds
             \/ PowerLoss \/ \E t \in Task : FlashPut(t) \/ PutFails(t)
  BY <1>5 DEF UnpairSaved, CounterSaved, PairButton, WindowOpens, WindowCloses, LockoutEnds,
              PowerLoss, FlashPut, PutFails
<1> QED
  BY <1>1, <1>2, <1>3, <1>4, <1>5 DEF RobotNext

(* The kinds of those datagrams. *)
LEMMA RobotKinds ==
  ASSUME RobotOK, RoleInv, RobotNext, NEW f \in air' \ air
  PROVE  /\ f.kind \in {"pairOk", "ack", "evict"}
         /\ f.kind = "evict" => GoodbyeSaved /\ f = Loop.frame /\ Loop.op = "goodbye"
         /\ f.kind = "pairOk" => PairSaved /\ f = Radio.frame /\ Radio.op = "pair" /\ Radio.ok
<1>1. CASE PairSaved /\ Radio.op = "pair" /\ Radio.ok /\ f = Radio.frame
  BY <1>1 DEF RoleInv
<1>2. CASE RefreshSaved /\ Radio.op = "refresh" /\ Radio.ok /\ f = Radio.frame
  BY <1>2 DEF RoleInv, AckFrame
<1>3. CASE GoodbyeSaved /\ Loop.op = "goodbye" /\ f = Loop.frame
  BY <1>3 DEF RoleInv
<1>4. CASE f = AckFrame(robot.psk, robot.era)
  BY <1>4 DEF AckFrame
<1> QED
  BY <1>1, <1>2, <1>3, <1>4, RobotAir

(* The app signs its requests with the key of its vault.                    *)
LEMMA PhoneAir ==
  ASSUME PhoneNext \/ UserPairs
  PROVE  /\ air \subseteq air'
         /\ \A f \in air' \ air :
              \/ f.kind \in Traffic \union {"unpair", "pairReq"}
              \/ f.kind = "refresh" /\ StartRefresh /\ f.key = vault
<1>1. CASE \/ \E kind \in SentKinds \ {"bye"} : Send(kind)
           \/ Background
  <2>1. UNCHANGED air \/ \E kind \in SentKinds : \E k, e, c : air' = air \union {SignedFrame(kind, k, e, c)}
    BY <1>1 DEF Send, Background, SendFrom, RefuseFrom
  <2> QED
    BY <2>1, PhoneAssumption DEF SignedFrame
<1>2. CASE StartRefresh
  BY <1>2 DEF StartRefresh, SignedFrame
<1>3. CASE ForgetSends
  BY <1>3 DEF ForgetSends, SignedFrame
<1>4. CASE UserPairs
  BY <1>4 DEF UserPairs, StartPairing, PairReqFrame
<1>5. CASE \/ Observe \/ Answered \/ PairingFails \/ PairingSavesRow \/ RefreshTimesOut
           \/ RefreshSavesPsk \/ RefreshSavesRow \/ CompletePairRefresh \/ InvalidateSession
           \/ ForgetTapped \/ Kill
           \/ \E p \in {"forget", "evict"} : PurgeRow(p) \/ PurgeVault(p) \/ PurgeCounters(p)
  BY <1>5 DEF Observe, Answered, PairingSavesPsk, RefreshAnswered, Evicted, PairingFails,
              PairingSavesRow, RefreshTimesOut, RefreshSavesPsk, RefreshSavesRow,
              CompletePairRefresh, InvalidateSession, ForgetTapped, Kill, PurgeRow, PurgeVault,
              PurgeCounters
<1> QED
  BY <1>1, <1>2, <1>3, <1>4, <1>5 DEF PhoneNext

(* How the key of the robot changes. *)
LEMMA RobotKeys ==
  ASSUME RobotOK, RoleInv, RobotNext
  PROVE  \/ /\ robot'.psk = robot.psk /\ robot'.paired = robot.paired
            /\ robot'.fromApp = robot.fromApp \/ \E f \in OnAir(Traffic) : Accept(f)
         \/ robot'.psk = NoKey /\ ~robot'.paired
         \/ /\ PairSaved /\ Radio.op = "pair" /\ Radio.ok
            /\ robot'.psk = Radio.goal.psk /\ robot'.paired
         \/ /\ RefreshSaved /\ Radio.op = "refresh"
            /\ robot'.psk = Radio.goal.psk /\ robot'.paired = robot.paired
         \/ PowerLoss /\ Loads(flash) /\ robot'.psk = flash.psk /\ robot'.paired
<1> USE Tasks DEF RobotOK
<1>1. CASE Hear
  <2>1. \A f : PairReq(f) \/ Unpair(f) \/ ReAck(f) \/ PairRefresh(f) => UNCHANGED robot
    BY DEF PairReq, Unpair, ReAck, PairRefresh, robotVars
  <2>2. \A f : Accept(f) => robot'.psk = robot.psk /\ robot'.paired = robot.paired
    BY DEF Accept, RobotTypeOK, RobotType
  <2> QED
    BY <1>1, <2>1, <2>2 DEF Hear
<1>2. CASE PairSaved
  BY <1>2 DEF PairSaved, Saved, Radio, RobotTypeOK, RobotType
<1>3. CASE RefreshSaved
  BY <1>3 DEF RefreshSaved, Saved, Radio, RobotTypeOK, RobotType
<1>4. CASE UnpairSaved \/ GoodbyeSaved
  BY <1>4 DEF UnpairSaved, GoodbyeSaved, ClearPair, RobotTypeOK, RobotType
<1>5. CASE PairButton
  BY <1>5 DEF PairButton, ClearPair, RobotTypeOK, RobotType
<1>6. CASE PowerLoss
  BY <1>6, Restored
<1>7. CASE CounterSaved \/ WindowOpens \/ WindowCloses \/ LockoutEnds
             \/ \E t \in Task : FlashPut(t) \/ PutFails(t)
  BY <1>7 DEF CounterSaved, WindowOpens, WindowCloses, LockoutEnds, FlashPut, PutFails
<1> QED
  BY <1>1, <1>2, <1>3, <1>4, <1>5, <1>6, <1>7 DEF RobotNext

(* How the saves change: one goes on, ends, or begins. *)
LEMMA RobotSaves ==
  ASSUME RobotOK, RoleInv, RobotNext, NEW t \in Task
  PROVE  \/ /\ job'[t].op = job[t].op /\ job'[t].goal = job[t].goal
            /\ job'[t].frame = job[t].frame
         \/ job'[t].op \in {"none", "unpair", "clear"} /\ job'[t].goal = NoFlash
         \/ t = "radio" /\ job'[t].op = "counter" /\ job'[t].goal.psk = flash.psk
         \/ /\ t = "radio" /\ job'[t].op = "pair" /\ core.code # 0
            /\ job'[t].goal.psk = MintKey(core.code)
         \/ /\ t = "radio" /\ job'[t].op = "refresh" /\ robot.paired
            /\ \E e \in Nat : job'[t].goal.psk = Append(robot.psk, e)
         \/ /\ t = "loop" /\ job'[t].op = "goodbye" /\ robot.paired
            /\ job'[t].frame.key = robot.psk /\ job'[t].goal.psk = flash.psk
<1> USE Tasks DEF RobotOK
<1> DEFINE Same(u) == job'[u].op = job[u].op /\ job'[u].goal = job[u].goal
                      /\ job'[u].frame = job[u].frame
<1>1. CASE Hear
  <2>1. ASSUME NEW f \in OnAir({"pairReq"}), PairReq(f)
        PROVE  \/ Same(t)
               \/ /\ t = "radio" /\ job'[t].op = "pair" /\ core.code # 0
                  /\ job'[t].goal.psk = MintKey(core.code)
    <3>1. CASE f.code # core.code
      BY <2>1, <3>1 DEF PairReq
    <3>2. CASE f.code = core.code
      <4> DEFINE key == MintKey(f.code)
                 frame == PairOkFrame(f.code, f.nonce, key)
      <4>1. Save("radio", "pair", SavePairOrder, PairGoal(key, 0), frame)
        BY <2>1, <3>2 DEF PairReq
      <4>2. PairGoal(key, 0).psk = key /\ key = MintKey(core.code) /\ core.code # 0
        BY <2>1, <3>2 DEF PairGoal, PairReq
      <4> HIDE DEF key, frame
      <4>3. /\ job'["radio"].op = "pair" /\ job'["radio"].goal = PairGoal(key, 0)
            /\ job'["loop"] = job["loop"]
        BY <4>1, Begun
      <4> QED
        BY <4>2, <4>3
    <3> QED
      BY <3>1, <3>2
  <2>2. ASSUME NEW f \in OnAir(Traffic), Accept(f)
        PROVE  Same(t) \/ (t = "radio" /\ job'[t].op = "counter" /\ job'[t].goal.psk = flash.psk)
    <3>1. CASE UNCHANGED job
      BY <3>1
    <3>2. CASE ~UNCHANGED job
      <4> DEFINE goal == [flash EXCEPT !.ctr = f.ctr]
      <4>1. Save("radio", "counter", <<"ctr">>, goal, NoFrame)
        BY <2>2, <3>2 DEF Accept, TryConsume
      <4>2. goal.psk = flash.psk
        BY DEF RobotTypeOK, FlashType
      <4> HIDE DEF goal
      <4>3. job'["radio"].op = "counter" /\ job'["radio"].goal = goal /\ job'["loop"] = job["loop"]
        BY <4>1, Begun
      <4> QED
        BY <4>2, <4>3
    <3> QED
      BY <3>1, <3>2
  <2>3. ASSUME NEW f \in OnAir({"unpair"}), Unpair(f)
        PROVE  Same(t) \/ (job'[t].op = "unpair" /\ job'[t].goal = NoFlash)
    <3>1. /\ job'["radio"].op = "unpair" /\ job'["radio"].goal = NoFlash
          /\ job'["loop"] = job["loop"]
      BY <2>3, Begun DEF Unpair
    <3> QED
      BY <3>1
  <2>4. \A f : ReAck(f) => Same(t)
    BY DEF ReAck, robotVars
  <2>5. ASSUME NEW f \in OnAir({"refresh"}), PairRefresh(f)
        PROVE  \/ Same(t)
               \/ /\ t = "radio" /\ job'[t].op = "refresh" /\ robot.paired
                  /\ \E e \in Nat : job'[t].goal.psk = Append(robot.psk, e)
    <3> DEFINE key == DerivePairRefreshPsk(robot.psk, f.era)
               frame == AckFrame(key, f.era)
    <3>1. Save("radio", "refresh", SavePairRefreshOrder, PairGoal(key, f.era), frame)
      BY <2>5 DEF PairRefresh
    <3>2. f.era \in Nat /\ robot.paired
      BY <2>5, Fields DEF OnAir, PairRefresh, Verified
    <3>3. PairGoal(key, f.era).psk = Append(robot.psk, f.era)
      BY DEF PairGoal, DerivePairRefreshPsk
    <3> HIDE DEF key, frame
    <3>4. /\ job'["radio"].op = "refresh" /\ job'["radio"].goal = PairGoal(key, f.era)
          /\ job'["loop"] = job["loop"]
      BY <3>1, Begun
    <3> QED
      BY <3>2, <3>3, <3>4
  <2> HIDE DEF Same
  <2>6. PICK f : \/ f \in OnAir({"pairReq"}) /\ PairReq(f)
                 \/ f \in OnAir(Traffic) /\ Accept(f)
                 \/ f \in OnAir({"unpair"}) /\ Unpair(f)
                 \/ ReAck(f)
                 \/ f \in OnAir({"refresh"}) /\ PairRefresh(f)
    BY <1>1 DEF Hear
  <2> QED
    BY <2>1, <2>2, <2>3, <2>4, <2>5, <2>6 DEF Same
<1>2. CASE PairSaved \/ UnpairSaved \/ RefreshSaved \/ CounterSaved
  <2>1. job' = [job EXCEPT !["radio"] = NoJob]
    BY <1>2 DEF PairSaved, UnpairSaved, RefreshSaved, CounterSaved
  <2>2. job'["radio"] = NoJob /\ job'["loop"] = job["loop"]
    BY <2>1, Over
  <2> QED
    BY <2>2 DEF NoJob
<1>3. ASSUME ClearPair
      PROVE  Same(t) \/ (job'[t].op = "clear" /\ job'[t].goal = NoFlash)
  <2>1. /\ job'["loop"].op = "clear" /\ job'["loop"].goal = NoFlash
        /\ job'["radio"] = job["radio"]
    BY <1>3, Begun DEF ClearPair
  <2> QED
    BY <2>1
<1>4. CASE PairButton /\ ~ClearPair
  <2> DEFINE ctr == NextToAppCounter(robot.toApp)
             goal == [flash EXCEPT !.tapp = ctr]
             frame == SignedFrame("evict", robot.psk, robot.era, ctr)
  <2>1. robot.paired /\ Save("loop", "goodbye", <<"tapp">>, goal, frame)
    BY <1>4 DEF PairButton
  <2>2. goal.psk = flash.psk /\ frame.key = robot.psk
    BY DEF RobotTypeOK, FlashType, SignedFrame
  <2> HIDE DEF ctr, goal, frame
  <2>3. /\ job'["loop"].op = "goodbye" /\ job'["loop"].goal = goal /\ job'["loop"].frame = frame
        /\ job'["radio"] = job["radio"]
    BY <2>1, Begun
  <2> QED
    BY <2>1, <2>2, <2>3
<1>5. CASE GoodbyeSaved
  BY <1>3, <1>5 DEF GoodbyeSaved
<1>6. CASE WindowOpens
  <2>1. job' = [job EXCEPT !["loop"] = NoJob]
    BY <1>6 DEF WindowOpens
  <2>2. job'["loop"] = NoJob /\ job'["radio"] = job["radio"]
    BY <2>1, Over
  <2> QED
    BY <2>2 DEF NoJob
<1>7. CASE WindowCloses \/ LockoutEnds
  BY <1>7 DEF WindowCloses, LockoutEnds
<1>8. CASE PowerLoss
  BY <1>8 DEF PowerLoss, NoJob
<1>9. ASSUME NEW u \in Task, FlashPut(u) \/ PutFails(u) PROVE Same(t)
  BY <1>9, Wrote
<1> QED
  BY <1>1, <1>2, <1>3, <1>4, <1>5, <1>6, <1>7, <1>8, <1>9 DEF RobotNext

-----------------------------------------------------------------------------
(* A code is shown once.  The open lines are the code on the display and    *)
(* the one that is being enrolled; no key of either is anywhere else, and   *)
(* no key is of a line that was never shown.                                *)

Open == {core.code} \union (IF Radio.op = "pair" THEN {Head(Radio.goal.psk)} ELSE {})

Minted(k, n, open) == k # NoKey => Head(k) \in (1 .. n) \ open

HeadInv ==
  /\ core.code \in 0 .. shown
  /\ Minted(flash.psk, shown, {}) /\ \A t \in Task : Minted(job[t].goal.psk, shown, {})
  /\ Minted(robot.psk, shown, Open)
  /\ Minted(vault, shown, Open) /\ Minted(refresh.key, shown, Open)
  /\ \A f \in OnAir({"pairOk", "ack", "refresh", "evict"}) : Minted(f.key, shown, Open)
  /\ \A h \in heard : Minted(h[1], shown, Open)
  /\ Loop.op = "goodbye" => Minted(Loop.frame.key, shown, Open)
  /\ Radio.op = "refresh" => Minted(Radio.goal.psk, shown, Open)

(* The code on the display and the number of codes shown.                   *)
LEMMA Codes ==
  ASSUME RobotOK, RobotNext
  PROVE  \/ core'.code \in {0, core.code} /\ shown' = shown
         \/ shown' = shown + 1 /\ core'.code = shown + 1
<1> USE DEF RobotOK, RobotTypeOK
<1>1. CASE Hear
  <2>1. \A f : PairReq(f) => core'.code \in {0, core.code} /\ shown' = shown
    BY DEF PairReq, TryCode, CoreType
  <2>2. \A f : Accept(f) \/ Unpair(f) \/ ReAck(f) \/ PairRefresh(f) => UNCHANGED <<core, shown>>
    BY DEF Accept, Unpair, ReAck, PairRefresh, robotVars
  <2> QED
    BY <1>1, <2>1, <2>2 DEF Hear
<1>2. CASE PairSaved \/ UnpairSaved \/ RefreshSaved \/ CounterSaved \/ PairButton \/ GoodbyeSaved
  <2>1. PairSaved => core'.code \in {0, core.code} /\ shown' = shown
    BY DEF PairSaved, CoreType
  <2>2. UnpairSaved \/ GoodbyeSaved \/ PairButton =>
          core' \in {core, ClosedCore} /\ shown' = shown
    BY DEF UnpairSaved, GoodbyeSaved, PairButton, ClearPair
  <2>3. RefreshSaved \/ CounterSaved => core' = core /\ shown' = shown
    BY DEF RefreshSaved, CounterSaved
  <2> QED
    BY <1>2, <2>1, <2>2, <2>3 DEF ClosedCore
<1>3. CASE WindowOpens
  <2>1. CASE robot.paired
    BY <1>3, <2>1 DEF WindowOpens
  <2>2. CASE ~robot.paired
    <3> DEFINE n == shown + 1
    <3>1. shown' = n /\ core' = [core EXCEPT !.code = n, !.tries = 0, !.locked = FALSE]
      BY <1>3, <2>2, Zenon DEF WindowOpens
    <3> HIDE DEF n
    <3>2. shown' = n /\ core'.code = n
      BY <3>1 DEF CoreType
    <3> QED
      BY <3>2 DEF n
  <2> QED
    BY <2>1, <2>2
<1>4. CASE \/ WindowCloses \/ LockoutEnds \/ PowerLoss
           \/ \E t \in Task : FlashPut(t) \/ PutFails(t)
  <2>1. WindowCloses \/ LockoutEnds => core'.code \in {0, core.code} /\ shown' = shown
    BY DEF WindowCloses, LockoutEnds, CoreType
  <2>2. PowerLoss => core'.code = 0 /\ shown' = shown
    BY DEF PowerLoss, ClosedCore
  <2>3. \A t \in Task : FlashPut(t) \/ PutFails(t) => UNCHANGED <<core, shown>>
    BY DEF FlashPut, PutFails
  <2> QED
    BY <1>4, <2>1, <2>2, <2>3
<1> QED
  BY <1>1, <1>2, <1>3, <1>4 DEF RobotNext

(* No line that was shown before is opened again.                           *)
LEMMA OpenStays ==
  ASSUME RobotOK, RoleInv, core.code \in 0 .. shown, RobotNext
  PROVE  /\ shown \in Nat /\ shown' \in Nat /\ shown <= shown' /\ core'.code \in 0 .. shown'
         /\ \A c \in 1 .. shown : c \in Open' => c \in Open
<1> USE Tasks DEF RobotOK
<1>1. /\ shown \in Nat /\ shown' \in Nat /\ shown <= shown' /\ core'.code \in 0 .. shown'
      /\ core'.code \in {0, core.code} \/ core'.code = shown + 1
  BY Codes DEF RobotTypeOK
<1>2. Radio'.op = "pair" =>
        \/ Radio.op = "pair" /\ Radio'.goal.psk = Radio.goal.psk
        \/ Head(Radio'.goal.psk) = core.code
  <2>1. MintKey(core.code) # NoKey /\ Head(MintKey(core.code)) = core.code
    BY Lines DEF RobotTypeOK, CoreType
  <2>2. \/ Radio'.op = Radio.op /\ Radio'.goal = Radio.goal
        \/ Radio'.op # "pair"
        \/ Radio'.goal.psk = MintKey(core.code)
    BY RobotSaves DEF Radio
  <2> QED
    BY <2>1, <2>2
<1>3. ASSUME NEW c \in 1 .. shown, c \in Open' PROVE c \in Open
  <2>1. \/ c = core'.code
        \/ Radio'.op = "pair" /\ c = Head(Radio'.goal.psk)
    BY <1>3 DEF Open
  <2>2. CASE c = core'.code
    BY <1>1, <2>2 DEF Open
  <2>3. CASE Radio'.op = "pair" /\ c = Head(Radio'.goal.psk)
    BY <1>2, <2>3 DEF Open
  <2> QED
    BY <2>1, <2>2, <2>3
<1> QED
  BY <1>1, <1>3

(* What was minted stays so. *)
LEMMA MintedStays ==
  ASSUME NEW n \in Nat, NEW m \in Nat, NEW open, NEW still, n <= m,
         \A c \in 1 .. n : c \in still => c \in open, NEW k
  PROVE  /\ Minted(k, n, open) => Minted(k, m, still)
         /\ Minted(k, n, {}) => Minted(k, m, {})
BY DEF Minted

(* A derived key is of its parent's line; no key is of none.                *)
LEMMA MintedKeys ==
  ASSUME NEW n \in Nat, NEW open
  PROVE  /\ Minted(NoKey, n, open)
         /\ \A k \in Key, e \in Nat : 
              k # NoKey /\ Minted(k, n, open) => Minted(Append(k, e), n, open)
         /\ \A k \in Key : Minted(k, n, open) => Minted(k, n, {})
         /\ \A c \in (1 .. n) \ open : Minted(MintKey(c), n, open)
<1>1. \A k \in Key, e \in Nat : k # NoKey => Head(Append(k, e)) = Head(k)
  BY Lines
<1>2. \A c \in 1 .. n : Head(MintKey(c)) = c
  BY Lines
<1> QED
  BY <1>1, <1>2 DEF Minted

(* Flash is written by the saves alone. *)
LEMMA RobotFlash ==
  ASSUME RobotOK, RobotNext
  PROVE  \/ UNCHANGED flash
         \/ \E t \in Task : FlashPut(t) /\ flash'.psk \in {flash.psk, job[t].goal.psk}
<1> USE DEF RobotOK
<1>1. CASE Hear
  <2>1. \A f : PairReq(f) \/ Accept(f) \/ Unpair(f) => UNCHANGED flash
    BY DEF PairReq, Accept, Unpair
  <2>2. \A f : ReAck(f) \/ PairRefresh(f) => UNCHANGED flash
    BY DEF ReAck, PairRefresh, robotVars
  <2> QED
    BY <1>1, <2>1, <2>2 DEF Hear
<1>2. ASSUME NEW t \in Task, FlashPut(t) PROVE flash'.psk \in {flash.psk, job[t].goal.psk}
  <2> DEFINE g == Head(job[t].todo)
  <2>1. flash' = [flash EXCEPT ![g] = job[t].goal[g]]
    BY <1>2 DEF FlashPut
  <2>2. flash \in FlashType
    BY DEF RobotTypeOK
  <2> HIDE DEF g
  <2> QED
    BY <2>1, <2>2 DEF FlashType
<1>3. CASE \/ PairSaved \/ UnpairSaved \/ RefreshSaved \/ CounterSaved \/ PairButton \/ GoodbyeSaved
           \/ WindowOpens
  BY <1>3 DEF PairSaved, UnpairSaved, RefreshSaved, CounterSaved, PairButton, GoodbyeSaved,
              WindowOpens
<1>4. CASE \/ WindowCloses \/ LockoutEnds \/ PowerLoss \/ \E t \in Task : PutFails(t)
  BY <1>4 DEF WindowCloses, LockoutEnds, PowerLoss, PutFails
<1> QED
  BY <1>1, <1>2, <1>3, <1>4 DEF RobotNext

(* What the robot has consumed since boot. *)
LEMMA RobotHeard ==
  ASSUME RobotOK, RobotNext
  PROVE  \/ UNCHANGED heard
         \/ \E f \in OnAir(Traffic) : Accept(f) /\ heard' = heard \union {<<f.key, f.ctr>>}
         \/ PowerLoss /\ heard' = {}
<1>1. CASE Hear
  <2>1. \A f : PairReq(f) \/ Unpair(f) \/ ReAck(f) \/ PairRefresh(f) => UNCHANGED heard
    BY DEF PairReq, Unpair, ReAck, PairRefresh, robotVars
  <2>2. \A f : Accept(f) => heard' = heard \union {<<f.key, f.ctr>>}
    BY DEF Accept
  <2> QED
    BY <1>1, <2>1, <2>2 DEF Hear
<1>2. CASE \/ PairSaved \/ UnpairSaved \/ RefreshSaved \/ CounterSaved \/ PairButton \/ GoodbyeSaved
           \/ WindowOpens
  BY <1>2 DEF PairSaved, UnpairSaved, RefreshSaved, CounterSaved, PairButton, GoodbyeSaved,
              WindowOpens
<1>3. CASE WindowCloses \/ LockoutEnds \/ PowerLoss \/ \E t \in Task : FlashPut(t) \/ PutFails(t)
  BY <1>3 DEF WindowCloses, LockoutEnds, PowerLoss, FlashPut, PutFails
<1> QED
  BY <1>1, <1>2, <1>3 DEF RobotNext

(* The robot's steps keep the lines. *)
LEMMA HeadRobot ==
  ASSUME RobotOK, RoleInv, HeadInv, RobotNext, UNCHANGED <<vault, refresh>>
  PROVE  HeadInv'
<1> USE Tasks
<1> DEFINE Known(k) == Minted(k, shown', Open')
           Seen(k) == Minted(k, shown', {})
<1>1. /\ shown \in Nat /\ shown' \in Nat /\ shown <= shown' /\ core'.code \in 0 .. shown'
      /\ core.code \in 0 .. shown
      /\ \A c \in 1 .. shown : c \in Open' => c \in Open
  BY OpenStays DEF HeadInv
<1>2. \A k : (Minted(k, shown, Open) => Known(k)) /\ (Minted(k, shown, {}) => Seen(k))
  BY <1>1, MintedStays
<1>3. /\ Known(NoKey) /\ Seen(NoKey)
      /\ \A k \in Key, e \in Nat : k # NoKey /\ Known(k) => Known(Append(k, e))
      /\ \A k \in Key : Known(k) => Seen(k)
      /\ \A c \in (1 .. shown') \ Open' : Known(MintKey(c))
      /\ \A c \in 1 .. shown' : Seen(MintKey(c))
  BY <1>1, MintedKeys
<1> HIDE DEF Known, Seen
<1>4. robot.psk \in Key /\ (robot.paired => robot.psk # NoKey) /\ Known(robot.psk)
  BY <1>2 DEF RobotOK, RobotTypeOK, RobotType, RoleInv, HeadInv
<1>5. Seen(flash.psk) /\ \A t \in Task : Seen(job[t].goal.psk)
  BY <1>2 DEF HeadInv
<1>6. /\ Radio.op = "refresh" => Known(Radio.goal.psk)
      /\ Loop.op = "goodbye" => Known(Loop.frame.key)
  BY <1>2 DEF HeadInv
<1>7. Radio.op = "pair" /\ PairSaved /\ Radio.ok => Known(Radio.goal.psk)
  <2> SUFFICES ASSUME Radio.op = "pair", PairSaved, Radio.ok PROVE Known(Radio.goal.psk)
    OBVIOUS
  <2>1. job'["radio"].op = "none" /\ core'.code = 0
    <3>1. job' = [job EXCEPT !["radio"] = NoJob] /\ core' = [core EXCEPT !.paired = TRUE, !.code = 0]
      BY DEF PairSaved, Radio
    <3> QED
      BY <3>1, Over DEF RobotOK, RobotTypeOK, CoreType, NoJob
  <2>2. Open' = {0}
    BY <2>1 DEF Open, Radio
  <2>3. Seen(Radio.goal.psk)
    BY <1>5 DEF Radio
  <2> QED
    BY <2>2, <2>3 DEF Known, Seen, Minted
<1>8. PowerLoss => Known(flash.psk)
  <2> SUFFICES ASSUME PowerLoss PROVE Known(flash.psk)
    OBVIOUS
  <2>1. Open' = {0}
    BY DEF PowerLoss, Open, ClosedCore, NoJob, Radio
  <2> QED
    BY <1>5, <2>1 DEF Known, Seen, Minted
<1>9. Seen(flash'.psk)
  BY <1>5, RobotFlash DEF RobotOK
<1>10. Known(robot'.psk)
  BY <1>3, <1>4, <1>6, <1>7, <1>8, RobotKeys
<1>11. ASSUME NEW t \in Task PROVE Seen(job'[t].goal.psk)
  <2>1. NoFlash.psk = NoKey
    BY DEF NoFlash
  <2>2. core.code # 0 => Seen(MintKey(core.code))
    BY <1>1, <1>3
  <2>3. robot.paired => \A e \in Nat : Seen(Append(robot.psk, e))
    BY <1>3, <1>4, Lines
  <2> QED
    BY <1>3, <1>5, <2>1, <2>2, <2>3, RobotSaves
<1>12. Radio'.op = "refresh" => Known(Radio'.goal.psk)
  <2>1. robot.paired => \A e \in Nat : Known(Append(robot.psk, e))
    BY <1>3, <1>4
  <2> QED
    BY <1>6, <2>1, RobotSaves DEF Radio
<1>13. Loop'.op = "goodbye" => Known(Loop'.frame.key)
  BY <1>4, <1>6, RobotSaves DEF Loop
<1>14. ASSUME NEW f \in air', f.kind \in {"pairOk", "ack", "refresh", "evict"}
       PROVE  Known(f.key)
  <2>1. CASE f \in air
    BY <1>2, <1>14, <2>1 DEF HeadInv, OnAir
  <2>2. CASE PairSaved /\ Radio.op = "pair" /\ Radio.ok /\ f = Radio.frame
    BY <1>7, <2>2 DEF RoleInv
  <2>3. CASE RefreshSaved /\ Radio.op = "refresh" /\ Radio.ok /\ f = Radio.frame
    BY <1>6, <2>3 DEF RoleInv, AckFrame
  <2>4. CASE GoodbyeSaved /\ Loop.op = "goodbye" /\ f = Loop.frame
    BY <1>6, <2>4
  <2>5. CASE f = AckFrame(robot.psk, robot.era)
    BY <1>4, <2>5 DEF AckFrame
  <2> QED
    BY <2>1, <2>2, <2>3, <2>4, <2>5, RobotAir
<1>15. ASSUME NEW h \in heard' PROVE Known(h[1])
  <2>1. CASE h \in heard
    BY <1>2, <2>1 DEF HeadInv
  <2>2. ASSUME NEW f, Accept(f), h = <<f.key, f.ctr>> PROVE Known(h[1])
    BY <1>4, <2>2 DEF Accept, Verified
  <2> QED
    BY <2>1, <2>2, RobotHeard
<1>16. Known(vault') /\ Known(refresh'.key)
  BY <1>2 DEF HeadInv
<1> QED
  BY <1>1, <1>9, <1>10, <1>11, <1>12, <1>13, <1>14, <1>15, <1>16
     DEF HeadInv, Known, Seen, OnAir

(* How the keys of the app change. *)
LEMMA PhoneKeys ==
  ASSUME PhoneOK, PhoneNext \/ UserPairs
  PROVE  /\ \/ vault' = vault
            \/ vault' = NoKey /\ \E p \in {"forget", "evict"} : PurgeVault(p)
            \/ RefreshSavesPsk /\ vault' = refresh.key
            \/ \E f \in OnAir({"pairOk"}) : PairingSavesPsk(f) /\ vault' = f.key
         /\ \/ refresh'.key = refresh.key
            \/ refresh' = NoRefresh
            \/ /\ StartRefresh /\ row.on /\ vault # NoKey /\ refresh'.at = "wait"
               /\ refresh'.key = Append(vault, row.era + 1)
<1>1. CASE \/ \E kind \in SentKinds \ {"bye"} : Send(kind)
           \/ Background
  BY <1>1 DEF Send, Background, SendFrom, RefuseFrom
<1>2. CASE StartRefresh
  BY <1>2 DEF StartRefresh, GetPairPsk, DerivePairRefreshPsk
<1>3. CASE Answered
  BY <1>3 DEF Answered, PairingSavesPsk, RefreshAnswered, Evicted, PhoneOK, PhoneTypeOK
<1>4. CASE \/ UserPairs \/ Observe \/ PairingFails \/ PairingSavesRow \/ ForgetTapped
           \/ ForgetSends
  BY <1>4 DEF UserPairs, StartPairing, Observe, PairingFails, PairingSavesRow, ForgetTapped,
              ForgetSends
<1>5. CASE \/ RefreshTimesOut \/ RefreshSavesPsk \/ RefreshSavesRow \/ CompletePairRefresh
           \/ InvalidateSession
  BY <1>5 DEF RefreshTimesOut, RefreshSavesPsk, RefreshSavesRow, CompletePairRefresh,
              InvalidateSession, PhoneOK, PhoneTypeOK
<1>6. CASE Kill \/ \E p \in {"forget", "evict"} : PurgeRow(p) \/ PurgeVault(p) \/ PurgeCounters(p)
  BY <1>6 DEF Kill, PurgeRow, PurgeVault, PurgeCounters
<1> QED
  BY <1>1, <1>2, <1>3, <1>4, <1>5, <1>6 DEF PhoneNext

(* The app's steps keep the lines. *)
LEMMA HeadPhone ==
  ASSUME TypeOK, HeadInv, PhoneNext \/ UserPairs, UNCHANGED robotVars
  PROVE  HeadInv'
<1> DEFINE Known(k) == Minted(k, shown, Open)
<1>1. UNCHANGED <<robot, core, flash, job, shown, heard>> /\ Open' = Open
  BY DEF robotVars, Open, Radio
<1>2. /\ Known(vault) /\ Known(refresh.key) /\ vault \in Key
      /\ \A f \in OnAir({"pairOk", "ack", "refresh", "evict"}) : Known(f.key)
  BY DEF HeadInv, TypeOK, PhoneTypeOK
<1>3. Known(NoKey) /\ \A k \in Key, e \in Nat : k # NoKey /\ Known(k) => Known(Append(k, e))
  BY MintedKeys DEF TypeOK, RobotTypeOK
<1> HIDE DEF Known
<1>4. Known(vault') /\ Known(refresh'.key)
  <2>1. row.era + 1 \in Nat /\ NoRefresh.key = NoKey
    BY DEF TypeOK, PhoneTypeOK, RowType, NoRefresh
  <2> QED
    BY <1>2, <1>3, <2>1, PhoneKeys DEF TypeOK, PhoneOK, OnAir
<1>5. ASSUME NEW f \in air', f.kind \in {"pairOk", "ack", "refresh", "evict"}
      PROVE  Known(f.key)
  <2>1. CASE f \in air
    BY <1>2, <1>5, <2>1 DEF OnAir
  <2>2. CASE f \notin air
    <3>1. f.key = vault
      BY <1>5, <2>2, PhoneAir DEF Traffic
    <3> QED
      BY <1>2, <3>1
  <2> QED
    BY <2>1, <2>2
<1> QED
  BY <1>1, <1>4, <1>5 DEF HeadInv, Known, OnAir, Radio, Loop

(* A line is never taken up again, and the tasks keep their roles.          *)
LEMMA LinesAlways == Spec => [](RoleInv /\ HeadInv)
<1>1. Init => HeadInv
  <2> SUFFICES ASSUME Init PROVE HeadInv
    OBVIOUS
  <2>1. PICK f, n : /\ RobotInit(f, n) /\ n \in Nat
                    /\ \/ f.psk = NoKey /\ n = 0 /\ vault = NoKey
                       \/ f.psk = MintKey(1) /\ n = 1 /\ vault = f.psk
    <3>1. NoFlash.psk = NoKey
      BY DEF NoFlash
    <3>2. [PairGoal(OldKey, 0) EXCEPT !.ctr = Start].psk = MintKey(1)
      BY DEF PairGoal, OldKey
    <3> QED
      BY <3>1, <3>2 DEF Init, PhoneInit, OldKey
  <2>2. refresh.key = NoKey /\ air = {}
    BY DEF Init, PhoneInit, NoRefresh
  <2>3. /\ flash = f /\ shown = n /\ core.code = 0 /\ heard = {} /\ robot.psk \in {f.psk, NoKey}
        /\ \A t \in Task : job[t].op = "none" /\ job[t].goal.psk = NoKey
    BY <2>1 DEF RobotInit, RestorePair, ClosedCore, NoJob, NoFlash
  <2>4. Open = {0}
    BY <2>3, Tasks DEF Open, Radio
  <2>5. Minted(NoKey, n, {0}) /\ Minted(NoKey, n, {})
    BY DEF Minted
  <2>6. n = 1 => Minted(MintKey(1), n, {0}) /\ Minted(MintKey(1), n, {})
    BY Lines DEF Minted
  <2> QED
    BY <2>1, <2>2, <2>3, <2>4, <2>5, <2>6, Tasks DEF HeadInv, OnAir, Radio, Loop
<1>2. TypeOK /\ RoleInv /\ HeadInv /\ [Next]_vars => HeadInv'
  <2> SUFFICES ASSUME TypeOK, RoleInv, HeadInv, [Next]_vars PROVE HeadInv'
    OBVIOUS
  <2>1. CASE RobotNext /\ UNCHANGED phoneVars
    BY <2>1, HeadRobot DEF TypeOK, RobotOK, phoneVars
  <2>2. CASE (PhoneNext \/ UserPairs) /\ UNCHANGED robotVars
    BY <2>2, HeadPhone
  <2>3. CASE UNCHANGED vars
    BY <2>3 DEF vars, robotVars, phoneVars, HeadInv, Open, OnAir, Radio, Loop
  <2> QED
    BY <2>1, <2>2, <2>3 DEF Next
<1> QED
  BY <1>1, <1>2, RoleInit, RoleNext, SessionTypeCorrect, PTL DEF Spec

-----------------------------------------------------------------------------
(* Evictions.  A goodbye is on the air only when the robot has left the     *)
(* line of its key, or may take it up again only by a reboot from a flash   *)
(* that was not cleared: one that a torn, failed or overlapping save left.  *)

Clean == boots = 0 \/ (~Overlap /\ ~Torn /\ faults = 0)

Gone(k) == \E f \in OnAir({"evict"}) : SameLine(f.key, k)

EvictInv ==
  /\ Clean /\ robot.paired => ~Gone(robot.psk)
  /\ refresh.at \in {"wait", "vault"} /\ vault # NoKey => SameLine(vault, refresh.key)
  /\ enrol.at # "idle" => refresh.at = "idle"
  /\ purge.evict = "row" =>
       /\ vault # NoKey => Gone(vault)
       /\ refresh.at \in {"wait", "vault"} => Gone(refresh.key)

(* A run that is clean was clean before. *)
LEMMA CleanBefore ==
  ASSUME RobotTypeOK, RobotNext, Clean'
  PROVE  Clean
<1> USE DEF RobotTypeOK
<1>1. boots' \in {boots, boots + 1} /\ faults' \in {faults, faults + 1}
  <2>1. CASE Hear
    <3>1. \A f : PairReq(f) \/ Accept(f) \/ Unpair(f) => UNCHANGED <<boots, faults>>
      BY DEF PairReq, Accept, Unpair
    <3>2. \A f : ReAck(f) \/ PairRefresh(f) => UNCHANGED <<boots, faults>>
      BY DEF ReAck, PairRefresh, robotVars
    <3> QED
      BY <2>1, <3>1, <3>2 DEF Hear
  <2>2. CASE \/ PairSaved \/ UnpairSaved \/ RefreshSaved \/ CounterSaved \/ PairButton
             \/ GoodbyeSaved \/ WindowOpens
    BY <2>2 DEF PairSaved, UnpairSaved, RefreshSaved, CounterSaved, PairButton, GoodbyeSaved,
                WindowOpens
  <2>3. CASE WindowCloses \/ LockoutEnds \/ PowerLoss \/ \E t \in Task : FlashPut(t) \/ PutFails(t)
    BY <2>3 DEF WindowCloses, LockoutEnds, PowerLoss, FlashPut, PutFails
  <2> QED
    BY <2>1, <2>2, <2>3 DEF RobotNext
<1>2. (boots' = 0 => boots = 0) /\ (faults' = 0 => faults = 0)
  BY <1>1
<1> QED
  BY <1>2 DEF Clean

(* How the attempts of the app go on. *)
LEMMA PhoneAttempts ==
  ASSUME PhoneOK, PhoneNext \/ UserPairs
  PROVE  /\ refresh'.at \in {"wait", "vault"} =>
              \/ refresh.at \in {"wait", "vault"} /\ refresh'.key = refresh.key
              \/ StartRefresh
         /\ refresh'.at # "idle" => refresh.at # "idle" \/ StartRefresh
         /\ enrol'.at # "idle" => enrol.at # "idle" \/ (refresh' = refresh /\ refresh.at = "idle")
         /\ purge'.evict = "row" =>
              purge.evict = "row" \/ \E f \in OnAir({"evict"}) : Evicted(f)
<1> USE DEF PhoneOK, PhoneTypeOK
<1>1. CASE \/ \E kind \in SentKinds \ {"bye"} : Send(kind)
           \/ Background
  BY <1>1 DEF Send, Background, SendFrom, RefuseFrom
<1>2. CASE StartRefresh
  BY <1>2 DEF StartRefresh
<1>3. CASE UserPairs
  BY <1>3 DEF UserPairs, StartPairing
<1>4. CASE Answered
  <2>1. \A f : PairingSavesPsk(f) => enrol.at # "idle" /\ UNCHANGED <<refresh, purge>>
    BY DEF PairingSavesPsk
  <2>2. \A f : RefreshAnswered(f) =>
          /\ refresh.at = "wait" /\ UNCHANGED <<enrol, purge>>
          /\ refresh' = [refresh EXCEPT !.at = "vault"] \/ refresh' = NoRefresh
    BY DEF RefreshAnswered
  <2>3. \A f : Evicted(f) => UNCHANGED <<enrol, refresh>>
    BY DEF Evicted
  <2> QED
    BY <1>4, <2>1, <2>2, <2>3 DEF Answered, NoRefresh
<1>5. CASE Observe \/ PairingFails \/ PairingSavesRow
  BY <1>5 DEF Observe, PairingFails, PairingSavesRow, NoEnrol
<1>6. CASE ForgetTapped \/ ForgetSends \/ Kill
  BY <1>6 DEF ForgetTapped, ForgetSends, Kill, NoEnrol, NoRefresh, NoPurge
<1>7. CASE \/ RefreshTimesOut \/ RefreshSavesPsk \/ RefreshSavesRow \/ CompletePairRefresh
           \/ InvalidateSession
  BY <1>7 DEF RefreshTimesOut, RefreshSavesPsk, RefreshSavesRow, CompletePairRefresh,
              InvalidateSession, NoRefresh
<1>8. CASE \E p \in {"forget", "evict"} : PurgeRow(p) \/ PurgeVault(p) \/ PurgeCounters(p)
  BY <1>8 DEF PurgeRow, PurgeVault, PurgeCounters
<1> QED
  BY <1>1, <1>2, <1>3, <1>4, <1>5, <1>6, <1>7, <1>8 DEF PhoneNext

(* The robot's steps keep evictions honest. *)
LEMMA EvictRobot ==
  ASSUME TypeOK, RoleInv, HeadInv, ~Overlap => SaveInv, EvictInv, RobotNext, UNCHANGED phoneVars
  PROVE  EvictInv'
<1> USE Tasks
<1>0. RobotOK /\ UNCHANGED <<vault, refresh, enrol, purge>>
  BY DEF TypeOK, RobotOK, phoneVars
<1>1. air \subseteq air'
  BY <1>0, RobotAir
<1>2. \A k : Gone(k) => Gone(k)'
  BY <1>1 DEF Gone, OnAir
<1>3. ASSUME Clean', robot'.paired PROVE ~Gone(robot.psk)'
  <2>1. Clean
    BY <1>0, <1>3, CleanBefore DEF RobotOK
  <2>2. ASSUME NEW f \in air', f.kind = "evict" PROVE f \in OnAir({"evict"})
    <3>1. ~GoodbyeSaved
      <4>1. GoodbyeSaved => ~robot'.paired
        BY <1>0 DEF GoodbyeSaved, ClearPair, RobotOK, RobotTypeOK, RobotType
      <4> QED
        BY <1>3, <4>1
    <3> QED
      BY <1>0, <2>2, <3>1, RobotKinds DEF OnAir
  <2> SUFFICES ASSUME NEW f \in OnAir({"evict"}) PROVE ~SameLine(f.key, robot'.psk)
    BY <2>2 DEF Gone, OnAir
  <2>3. robot.paired => ~SameLine(f.key, robot.psk)
    BY <2>1 DEF EvictInv, Gone
  <2>4. CASE robot'.psk = robot.psk /\ robot'.paired = robot.paired
    BY <1>3, <2>3, <2>4
  <2>5. CASE Radio.op = "pair" /\ robot'.psk = Radio.goal.psk
    <3>1. Head(Radio.goal.psk) \in Open
      BY <2>5 DEF Open
    <3>2. Minted(f.key, shown, Open)
      BY DEF HeadInv, OnAir
    <3> QED
      BY <2>5, <3>1, <3>2 DEF Minted, SameLine
  <2>6. CASE Radio.op = "refresh" /\ robot'.psk = Radio.goal.psk /\ robot'.paired = robot.paired
    <3> DEFINE e == Radio.goal.era
    <3>1. robot'.psk = Append(robot.psk, e) /\ robot.psk # NoKey
      BY <1>3, <2>6 DEF RoleInv
    <3>2. e \in Nat /\ robot.psk \in Key
      BY <1>0 DEF RobotOK, RobotTypeOK, RobotType, JobType, FlashType, Radio
    <3> HIDE DEF e
    <3>3. Head(robot'.psk) = Head(robot.psk)
      <4>1. Head(Append(robot.psk, e)) = Head(robot.psk)
        BY <3>1, <3>2, Lines
      <4> QED
        BY <3>1, <4>1
    <3> QED
      BY <1>3, <2>3, <2>6, <3>1, <3>3 DEF SameLine
  <2>7. CASE PowerLoss /\ Loads(flash) /\ robot'.psk = flash.psk
    <3>1. ~Overlap /\ ~Torn /\ faults = 0
      <4>1. boots \in Nat /\ boots' = boots + 1 /\ faults' = faults
        BY <1>0, <2>7 DEF PowerLoss, RobotOK, RobotTypeOK
      <4>2. boots' # 0
        BY <4>1
      <4> QED
        BY <1>3, <4>1, <4>2 DEF Clean
    <3>2. Matches(flash)
      BY <2>7, <3>1 DEF PowerLoss, SaveInv, Settled
    <3> QED
      BY <2>3, <2>7, <3>2 DEF Matches
  <2> QED
    BY <1>0, <1>3, <2>4, <2>5, <2>6, <2>7, RobotKeys
<1> QED
  BY <1>0, <1>2, <1>3 DEF EvictInv

(* The app's steps keep evictions honest. *)
LEMMA EvictPhone ==
  ASSUME TypeOK, KeyInv, HeadInv, EvictInv, PhoneNext \/ UserPairs, UNCHANGED robotVars
  PROVE  EvictInv'
<1>0. /\ PhoneOK /\ UNCHANGED <<robot, boots, faults>> /\ vault \in Key /\ row.era + 1 \in Nat
  BY DEF TypeOK, PhoneOK, PhoneTypeOK, RowType, robotVars
<1>1. OnAir({"evict"})' = OnAir({"evict"})
  BY PhoneAir DEF OnAir, Traffic
<1>2. \A k : Gone(k)' <=> Gone(k)
  BY <1>1 DEF Gone
<1>3. Clean' /\ robot'.paired => ~Gone(robot.psk)'
  BY <1>0, <1>1 DEF EvictInv, Clean, Gone
<1>4. StartRefresh => /\ row.on /\ vault # NoKey /\ vault' = vault /\ enrol' = enrol /\ purge' = purge
                      /\ refresh'.key = Append(vault, row.era + 1)
  BY DEF StartRefresh, GetPairPsk, DerivePairRefreshPsk
<1>5. vault # NoKey => SameLine(vault, Append(vault, row.era + 1))
  BY <1>0, Lines DEF SameLine
<1>6. (\E f : PairingSavesPsk(f)) => /\ enrol.at = "wait" /\ refresh.at = "idle"
                                     /\ refresh' = refresh /\ purge' = purge /\ purge = NoPurge
  BY DEF PairingSavesPsk, KeyInv, EvictInv
<1>7. RefreshSavesPsk => refresh.at = "vault" /\ refresh'.at = "row" /\ purge' = purge
  BY <1>0 DEF RefreshSavesPsk, PhoneOK, PhoneTypeOK
<1>8. refresh'.at \in {"wait", "vault"} /\ vault' # NoKey => SameLine(vault', refresh'.key)
  BY <1>0, <1>4, <1>5, <1>6, <1>7, PhoneKeys, PhoneAttempts DEF EvictInv
<1>9. enrol'.at # "idle" => refresh'.at = "idle"
  BY <1>0, <1>4, PhoneAttempts DEF EvictInv, KeyInv
<1>10. ASSUME purge'.evict = "row"
       PROVE  /\ vault' # NoKey => Gone(vault')
              /\ refresh'.at \in {"wait", "vault"} => Gone(refresh'.key)
  <2>1. ASSUME NEW f \in OnAir({"evict"}), Evicted(f) 
        PROVE  /\ UNCHANGED <<vault, refresh>> /\ Gone(vault)
               /\ refresh.at \in {"wait", "vault"} => Gone(refresh.key)
    <3>1. UNCHANGED <<vault, refresh>> /\ vault # NoKey /\ f.key = vault
      BY <2>1 DEF Evicted, GetPairPsk
    <3> QED
      BY <3>1 DEF Gone, SameLine, EvictInv
  <2>2. CASE purge.evict = "row"
    <3>1. ~\E f : PairingSavesPsk(f)
      BY <1>6, <2>2 DEF NoPurge
    <3>2. vault' # NoKey => Gone(vault')
      BY <1>0, <1>7, <2>2, <3>1, PhoneKeys DEF EvictInv
    <3>3. ASSUME StartRefresh PROVE Gone(refresh'.key)
      <4>1. Gone(vault) /\ vault # NoKey
        BY <1>4, <2>2, <3>3 DEF EvictInv
      <4> QED
        BY <1>4, <1>5, <3>3, <4>1 DEF Gone, SameLine
    <3>4. refresh'.at \in {"wait", "vault"} => Gone(refresh'.key)
      BY <1>0, <2>2, <3>3, PhoneAttempts DEF EvictInv
    <3> QED
      BY <3>2, <3>4
  <2> QED
    BY <1>0, <1>10, <2>1, <2>2, PhoneAttempts
<1> QED
  BY <1>1, <1>3, <1>8, <1>9, <1>10 DEF EvictInv, Gone

(* Saves are sound unless the button and the radio overlap. *)
LEMMA SavesAlways == Spec => [](~Overlap => SaveInv)
<1>1. CASE ~Overlap
  <2>1. SaveInv => (~Overlap => SaveInv)
    OBVIOUS
  <2> QED
    BY <1>1, <2>1, SaveAlways, PTL
<1>2. CASE Overlap
  <2>1. ~Overlap => SaveInv
    BY <1>2
  <2> QED
    BY <2>1, PTL
<1> QED
  BY <1>1, <1>2

(* Where a goodbye leaves the robot, at any time. *)
LEMMA EvictAlways == Spec => []EvictInv
<1>1. Init => EvictInv
  <2> SUFFICES ASSUME Init PROVE EvictInv
    OBVIOUS
  <2>1. /\ air = {} /\ refresh.at = "idle" /\ enrol.at = "idle" /\ purge.evict = "idle"
    BY DEF Init, PhoneInit, NoRefresh, NoEnrol, NoPurge
  <2> QED
    BY <2>1 DEF EvictInv, Gone, OnAir
<1>2. /\ TypeOK /\ RoleInv /\ HeadInv /\ KeyInv /\ (~Overlap => SaveInv) /\ EvictInv
      /\ [Next]_vars
      => EvictInv'
  <2> SUFFICES ASSUME TypeOK, RoleInv, HeadInv, KeyInv, ~Overlap => SaveInv, EvictInv, [Next]_vars
               PROVE  EvictInv'
    OBVIOUS
  <2>1. CASE RobotNext /\ UNCHANGED phoneVars
    BY <2>1, EvictRobot
  <2>2. CASE (PhoneNext \/ UserPairs) /\ UNCHANGED robotVars
    BY <2>2, EvictPhone
  <2>3. CASE UNCHANGED vars
    BY <2>3 DEF vars, robotVars, phoneVars, EvictInv, Clean, Gone, OnAir
  <2> QED
    BY <2>1, <2>2, <2>3 DEF Next
<1> QED
  BY <1>1, <1>2, LinesAlways, KeyAlways, SavesAlways, SessionTypeCorrect, PTL DEF Spec

(* In a run of the robot whose saves neither fail, overlap nor are torn by a *)
(* power loss, and in any run until its first reboot, the app deletes its    *)
(* pair at a goodbye only when the robot no longer verifies with that key   *)
(* (ObserveRemoteDisconnectUseCase with sayGoodbye of PairingTask).         *)
THEOREM EvictionsHonest == Spec => [](Clean => EvictionHonest)
<1>1. KeyInv /\ EvictInv => (Clean => EvictionHonest)
  BY DEF KeyInv, EvictInv, EvictionHonest, SameKey
<1> QED
  BY <1>1, EvictAlways, KeyAlways, PTL

-----------------------------------------------------------------------------
(* Frames heard.  The comparison of counters goes across the wrap, so that  *)
(* it tells old from new only among frames less than half a range apart.    *)

Young == \A f, g \in OnAir(Traffic) : f.key = g.key => f.ctr - g.ctr < CounterMod \div 2

HeardInv ==
  /\ \A h \in heard : h[1] # NoKey /\ \E f \in OnAir(Traffic) : h = <<f.key, f.ctr>>
  /\ robot.paired =>
       \A h \in heard : SameLine(h[1], robot.psk) => Len(h[1]) <= Len(robot.psk)
  /\ Young /\ robot.paired =>
       \A h \in heard : h[1] = robot.psk =>
         h[2] <= robot.fromApp /\ <<robot.psk, robot.fromApp>> \in heard

(* A counter behind by less than half the range is not fresh.               *)
LEMMA Stale ==
  ASSUME NEW a \in Nat, NEW b \in Nat, a - b < CounterMod \div 2, b < a
  PROVE  ~IsFreshCounter(a, b)
<1> DEFINE m == CounterMod
<1>1. m \in Nat \ {0} /\ a - b < m \div 2
  BY WireAssumption
<1> HIDE DEF m
<1>2. (b - a) % m = b - a + m
  <2>1. m \div 2 <= m
    BY <1>1
  <2>2. b - a + m \in 0 .. m - 1
    BY <1>1, <2>1
  <2>3. \A x \in 0 .. m - 1 : (x - m) % m = x
    BY <1>1
  <2> QED
    BY <1>1, <2>2, <2>3
<1>3. m - (m \div 2) >= m \div 2 /\ m \div 2 \in Int
  BY <1>1
<1>4. ~((b - a) % m < m \div 2)
  BY <1>1, <1>2, <1>3
<1> QED
  BY <1>4 DEF IsFreshCounter, m

(* A run that is young was young before. *)
LEMMA YoungBefore ==
  ASSUME air \subseteq air', Young'
  PROVE  Young
BY DEF Young, OnAir

(* The frame just accepted is the newest of its key. *)
LEMMA HeardAccept ==
  ASSUME RobotOK, RoleInv, HeardInv, NEW f \in OnAir(Traffic), Accept(f)
  PROVE  HeardInv'
<1> USE DEF RobotOK, RobotTypeOK
<1>1. /\ robot.paired /\ f.key = robot.psk /\ robot.psk # NoKey /\ UNCHANGED air
      /\ heard' = heard \union {<<f.key, f.ctr>>}
      /\ IsFreshCounter(robot.fromApp, f.ctr)
  BY DEF Accept, Verified, RoleInv
<1>2. /\ robot'.paired /\ robot'.psk = robot.psk /\ robot'.fromApp = f.ctr
  BY <1>1 DEF Accept, RobotType
<1>3. robot.psk \in Key /\ robot.fromApp \in Nat /\ f.ctr \in Nat /\ f.key \in Key
  BY Fields DEF RobotType, OnAir
<1>4. ASSUME NEW h \in heard'
      PROVE  /\ h[1] # NoKey /\ \E g \in OnAir(Traffic)' : h = <<g.key, g.ctr>>
             /\ SameLine(h[1], robot.psk) => Len(h[1]) <= Len(robot.psk)
  <2>1. CASE h \in heard
    BY <1>1, <2>1 DEF HeardInv, OnAir
  <2>2. CASE h = <<f.key, f.ctr>>
    <3>1. h[1] = robot.psk /\ Len(robot.psk) \in Nat
      BY <1>1, <1>3, <2>2, Lines
    <3>2. f \in OnAir(Traffic)'
      BY <1>1 DEF OnAir
    <3> QED
      BY <1>1, <2>2, <3>1, <3>2
  <2> QED
    BY <1>1, <2>1, <2>2
<1>5. ASSUME Young', NEW h \in heard', h[1] = robot.psk
      PROVE  h[2] <= f.ctr
  <2>1. CASE h = <<f.key, f.ctr>>
    BY <1>3, <2>1
  <2>2. CASE h \in heard
    <3>1. Young
      BY <1>1, <1>5 DEF Young, OnAir
    <3>2. h[2] <= robot.fromApp /\ <<robot.psk, robot.fromApp>> \in heard
      BY <1>1, <1>5, <2>2, <3>1 DEF HeardInv
    <3>3. PICK g \in OnAir(Traffic) : <<robot.psk, robot.fromApp>> = <<g.key, g.ctr>>
      BY <3>2 DEF HeardInv
    <3>4. robot.fromApp - f.ctr < CounterMod \div 2
      BY <1>1, <3>1, <3>3 DEF Young
    <3>5. f.ctr > robot.fromApp
      <4>1. ~(f.ctr < robot.fromApp)
        BY <1>1, <1>3, <3>4, Stale
      <4>2. f.ctr # robot.fromApp
        BY <1>1 DEF IsFreshCounter
      <4> QED
        BY <1>3, <4>1, <4>2
    <3>6. h[2] \in Nat
      BY <2>2
    <3> QED
      BY <1>3, <3>2, <3>5, <3>6
  <2> QED
    BY <1>1, <2>1, <2>2
<1>6. <<robot.psk, f.ctr>> \in heard'
  BY <1>1
<1> QED
  BY <1>2, <1>4, <1>5, <1>6 DEF HeardInv

(* The robot's steps keep what was heard in order. *)
LEMMA HeardRobot ==
  ASSUME RobotOK, RoleInv, HeadInv, HeardInv, RobotNext
  PROVE  HeardInv'
<1> USE Tasks
<1>1. CASE \E f \in OnAir(Traffic) : Accept(f)
  BY <1>1, HeardAccept
<1>2. CASE heard' = {}
  BY <1>2 DEF HeardInv
<1>3. CASE UNCHANGED heard /\ ~PowerLoss /\ ~\E f \in OnAir(Traffic) : Accept(f)
  <2>1. air \subseteq air'
    BY RobotAir
  <2>2. \A h \in heard' : h[1] # NoKey /\ \E f \in OnAir(Traffic)' : h = <<f.key, f.ctr>>
    BY <1>3, <2>1 DEF HeardInv, OnAir
  <2>3. ASSUME robot'.paired, NEW h \in heard'
        PROVE  /\ SameLine(h[1], robot'.psk) => Len(h[1]) <= Len(robot'.psk)
               /\ Young' /\ h[1] = robot'.psk =>
                    h[2] <= robot'.fromApp /\ <<robot'.psk, robot'.fromApp>> \in heard'
    <3>1. h \in heard /\ h[1] \in Key
      BY <1>3, <2>3 DEF RobotOK, RobotTypeOK
    <3>2. CASE robot'.psk = robot.psk /\ robot'.paired = robot.paired /\ robot'.fromApp = robot.fromApp
      BY <1>3, <2>1, <2>3, <3>1, <3>2, YoungBefore DEF HeardInv
    <3>3. CASE Radio.op = "pair" /\ robot'.psk = Radio.goal.psk
      <4>1. Head(Radio.goal.psk) \in Open
        BY <3>3 DEF Open
      <4>2. Minted(h[1], shown, Open) /\ h[1] # NoKey
        BY <3>1 DEF HeadInv, HeardInv
      <4>3. Head(h[1]) # Head(robot'.psk)
        BY <3>3, <4>1, <4>2 DEF Minted
      <4> QED
        BY <4>3 DEF SameLine
    <3>4. CASE Radio.op = "refresh" /\ robot'.psk = Radio.goal.psk /\ robot'.paired = robot.paired
      <4> DEFINE e == Radio.goal.era
      <4>1. robot'.psk = Append(robot.psk, e) /\ robot.psk # NoKey
        BY <2>3, <3>4 DEF RoleInv
      <4>2. e \in Nat /\ robot.psk \in Key
        BY DEF RobotOK, RobotTypeOK, RobotType, JobType, FlashType, Radio
      <4> HIDE DEF e
      <4>3. /\ Head(Append(robot.psk, e)) = Head(robot.psk) /\ Append(robot.psk, e) # NoKey
            /\ Len(Append(robot.psk, e)) = Len(robot.psk) + 1 /\ Len(robot.psk) \in Nat
        BY <4>1, <4>2, Lines
      <4>4. SameLine(h[1], robot'.psk) => Len(h[1]) <= Len(robot.psk)
        BY <2>3, <3>1, <3>4, <4>1, <4>3 DEF HeardInv, SameLine
      <4>5. Len(h[1]) \in Nat
        BY <3>1, Lines
      <4>6. SameLine(h[1], robot'.psk) => Len(h[1]) < Len(robot'.psk)
        BY <4>1, <4>3, <4>4, <4>5
      <4>7. h[1] # robot'.psk
        <5> SUFFICES ASSUME h[1] = robot'.psk PROVE FALSE
          OBVIOUS
        <5>1. SameLine(h[1], robot'.psk)
          BY <4>1, <4>3 DEF SameLine
        <5> QED
          BY <4>5, <4>6, <5>1
      <4> QED
        BY <4>1, <4>3, <4>5, <4>6, <4>7
    <3> QED
      BY <1>3, <2>3, <3>2, <3>3, <3>4, RobotKeys
  <2> QED
    BY <2>2, <2>3 DEF HeardInv
<1> QED
  BY <1>1, <1>2, <1>3, RobotHeard DEF PowerLoss

(* As long as the frames on the air under one key are less than half the    *)
(* range of a counter apart, a frame is consumed at most once in a boot of  *)
(* the robot, across refreshes, new pairs and counters restored from flash  *)
(* (tryConsume and isFreshCounter; half a range is what the comparison can  *)
(* tell).                                                                   *)
THEOREM ConsumedAtMostOnce == Spec => [](Young => ConsumedOnce)
<1>1. Init => HeardInv
  <2> SUFFICES ASSUME Init PROVE HeardInv
    OBVIOUS
  <2>1. PICK f, n : RobotInit(f, n)
    BY DEF Init
  <2>2. heard = {}
    BY <2>1 DEF RobotInit
  <2> QED
    BY <2>2 DEF HeardInv
<1>2. TypeOK /\ RoleInv /\ HeadInv /\ HeardInv /\ [Next]_vars => HeardInv'
  <2> SUFFICES ASSUME TypeOK, RoleInv, HeadInv, HeardInv, [Next]_vars PROVE HeardInv'
    OBVIOUS
  <2>1. CASE RobotNext
    BY <2>1, HeardRobot DEF TypeOK, RobotOK
  <2>2. ASSUME UNCHANGED robotVars, air \subseteq air' PROVE HeardInv'
    <3>1. Young' => Young
      BY <2>2, YoungBefore
    <3> QED
      BY <2>2, <3>1 DEF HeardInv, robotVars, OnAir
  <2>3. CASE (PhoneNext \/ UserPairs) /\ UNCHANGED robotVars
    BY <2>2, <2>3, PhoneAir
  <2>4. CASE UNCHANGED vars
    BY <2>2, <2>4 DEF vars
  <2> QED
    BY <2>1, <2>3, <2>4 DEF Next
<1>3. TypeOK /\ HeardInv => (Young => ConsumedOnce)
  <2> SUFFICES ASSUME TypeOK, HeardInv, Young, NEW h \in heard, robot.paired, h[1] = robot.psk
               PROVE  ~IsFreshCounter(robot.fromApp, h[2])
    BY DEF ConsumedOnce
  <2>1. /\ h[2] <= robot.fromApp /\ <<robot.psk, robot.fromApp>> \in heard
        /\ h[2] \in Nat /\ robot.fromApp \in Nat
    BY DEF HeardInv, TypeOK, RobotTypeOK, RobotType
  <2>2. CASE h[2] = robot.fromApp
    BY <2>2 DEF IsFreshCounter
  <2>3. CASE h[2] < robot.fromApp
    <3>1. PICK f \in OnAir(Traffic) : h = <<f.key, f.ctr>>
      BY DEF HeardInv
    <3>2. PICK g \in OnAir(Traffic) : <<robot.psk, robot.fromApp>> = <<g.key, g.ctr>>
      BY <2>1 DEF HeardInv
    <3>3. robot.fromApp - h[2] < CounterMod \div 2
      BY <3>1, <3>2 DEF Young
    <3> QED
      BY <2>1, <2>3, <3>3, Stale
  <2> QED
    BY <2>1, <2>2, <2>3
<1> QED
  BY <1>1, <1>2, <1>3, LinesAlways, SessionTypeCorrect, PTL DEF Spec

-----------------------------------------------------------------------------
(* The pair in flash, write by write.                                       *)

NextKey == Append(robot.psk, robot.era + 1)

Ordered(todo, order) ==
  /\ Len(todo) <= 5
  /\ \A i \in 1 .. Len(todo) : todo[i] = order[5 - Len(todo) + i]

Staged(j) ==
  /\ j.op \in {"pair", "unpair", "clear"} => Ordered(j.todo, SavePairOrder)
  /\ j.op = "refresh" => Ordered(j.todo, SavePairRefreshOrder)
  /\ j.op \in {"counter", "goodbye"} =>
       \A i \in 1 .. Len(j.todo) : j.todo[i] \notin {"psk", "paired"}

(* No pair in flash; a key is there only if it could not be removed. *)
Blank == ~Loads(flash) /\ (faults # 0 \/ flash.psk = NoKey)

FlashInv ==
  /\ \A t \in Task : Staged(job[t])
  /\ robot.paired /\ Radio.op # "unpair" => Loads(flash)
  /\ robot.paired /\ Loads(flash) => flash.psk \in {robot.psk, NextKey}
  /\ core.code # 0 => Settled /\ ~robot.paired /\ Blank
  /\ Radio.op = "pair" =>
       /\ Loads(flash) => flash.psk = Radio.goal.psk
       /\ Len(Radio.todo) = 5 => Blank
       /\ Len(Radio.todo) < 5 => flash.psk \in {Radio.goal.psk, NoKey}
       /\ Radio.ok /\ Len(Radio.todo) < 5 => flash.psk = Radio.goal.psk
       /\ Radio.ok /\ Len(Radio.todo) < 3 => flash.paired
  /\ Radio.op = "refresh" =>
       /\ robot.paired /\ Radio.goal = PairGoal(NextKey, robot.era + 1)
       /\ Radio.ok /\ Len(Radio.todo) < 5 => flash.psk = Radio.goal.psk
       /\ \E f \in OnAir({"refresh"}) : f.key = robot.psk
  /\ Radio.op = "unpair" => Radio.goal = NoFlash
  /\ Loop.op = "clear" =>
       /\ Loop.goal = NoFlash /\ ~robot.paired
       /\ Len(Loop.todo) < 5 => faults # 0 \/ flash.psk = NoKey
       /\ Len(Loop.todo) < 3 => ~Loads(flash)

(* The orders, place by place. *)
LEMMA Places ==
  /\ Len(SavePairOrder) = 5 /\ Len(SavePairRefreshOrder) = 5
  /\ SavePairOrder[1] = "psk" /\ SavePairOrder[2] = "ctr" /\ SavePairOrder[3] = "paired"
  /\ SavePairOrder[4] = "era" /\ SavePairOrder[5] = "tapp"
  /\ SavePairRefreshOrder[1] = "psk" /\ SavePairRefreshOrder[2] = "era"
  /\ SavePairRefreshOrder[3] = "ctr" /\ SavePairRefreshOrder[4] = "paired"
  /\ SavePairRefreshOrder[5] = "tapp"
  /\ ClearPairOrder = SavePairOrder
BY DEF SavePairOrder, SavePairRefreshOrder, ClearPairOrder

(* What is written next when n fields are left. *)
LEMMA PlaceOf ==
  ASSUME NEW n \in Nat \ {0}, n <= 5
  PROVE  /\ (SavePairOrder[6 - n] = "psk" <=> n = 5) /\ (SavePairOrder[6 - n] = "paired" <=> n = 3)
         /\ (SavePairRefreshOrder[6 - n] = "psk" <=> n = 5)
         /\ (SavePairRefreshOrder[6 - n] = "paired" <=> n = 2)
<1>1. n = 1 \/ n = 2 \/ n = 3 \/ n = 4 \/ n = 5
  OBVIOUS
<1>2. 6 - 1 = 5 /\ 6 - 2 = 4 /\ 6 - 3 = 3 /\ 6 - 4 = 2 /\ 6 - 5 = 1
  OBVIOUS
<1>3. CASE n = 1
  BY <1>2, <1>3, Places
<1>4. CASE n = 2
  BY <1>2, <1>4, Places
<1>5. CASE n = 3
  BY <1>2, <1>5, Places
<1>6. CASE n = 4
  BY <1>2, <1>6, Places
<1>7. CASE n = 5
  BY <1>2, <1>7, Places
<1> QED
  BY <1>1, <1>3, <1>4, <1>5, <1>6, <1>7

(* A save begins with its whole order to write. *)
LEMMA StagedFresh ==
  /\ Ordered(SavePairOrder, SavePairOrder)
  /\ Ordered(SavePairRefreshOrder, SavePairRefreshOrder)
  /\ \A i \in 1 .. Len(<<"ctr">>) : <<"ctr">>[i] \notin {"psk", "paired"}
  /\ \A i \in 1 .. Len(<<"tapp">>) : <<"tapp">>[i] \notin {"psk", "paired"}
<1>1. \A i \in 1 .. 5 : 5 - 5 + i = i
  OBVIOUS
<1>2. Len(<<"ctr">>) = 1 /\ <<"ctr">>[1] = "ctr" /\ Len(<<"tapp">>) = 1 /\ <<"tapp">>[1] = "tapp"
  OBVIOUS
<1>3. \A i \in 1 .. 1 : i = 1
  OBVIOUS
<1>4. Ordered(SavePairOrder, SavePairOrder)
  BY <1>1, Places DEF Ordered
<1>5. Ordered(SavePairRefreshOrder, SavePairRefreshOrder)
  BY <1>1, Places DEF Ordered
<1> QED
  BY <1>2, <1>3, <1>4, <1>5

(* What is written next, and what is then left. *)
LEMMA StagedNext ==
  ASSUME NEW todo \in Seq(Field), todo # <<>>, NEW order
  PROVE  /\ Len(todo) \in Nat \ {0} /\ Len(Tail(todo)) = Len(todo) - 1
         /\ Ordered(todo, order) => /\ Ordered(Tail(todo), order) /\ Len(todo) <= 5
                                    /\ Head(todo) = order[6 - Len(todo)]
         /\ (\A i \in 1 .. Len(todo) : todo[i] \notin {"psk", "paired"}) =>
              /\ \A i \in 1 .. Len(Tail(todo)) : Tail(todo)[i] \notin {"psk", "paired"}
              /\ Head(todo) \notin {"psk", "paired"}
<1>1. /\ Len(todo) \in Nat \ {0} /\ Len(Tail(todo)) = Len(todo) - 1 /\ Head(todo) = todo[1]
      /\ \A i \in 1 .. Len(Tail(todo)) : Tail(todo)[i] = todo[i + 1]
  OBVIOUS
<1> DEFINE n == Len(todo)
<1>2. 1 \in 1 .. n /\ \A i \in 1 .. n - 1 : i + 1 \in 1 .. n /\ 5 - n + (i + 1) = 5 - (n - 1) + i
  BY <1>1
<1>3. 5 - n + 1 = 6 - n /\ (n <= 5 => n - 1 <= 5)
  BY <1>1
<1> HIDE DEF n
<1>4. Ordered(todo, order) => Ordered(Tail(todo), order)
  <2> SUFFICES ASSUME Ordered(todo, order), NEW i \in 1 .. n - 1
               PROVE  Tail(todo)[i] = order[5 - (n - 1) + i]
    BY <1>1, <1>3 DEF Ordered, n
  <2>1. Tail(todo)[i] = todo[i + 1] /\ i + 1 \in 1 .. n
    BY <1>1, <1>2 DEF n
  <2>2. todo[i + 1] = order[5 - n + (i + 1)]
    BY <2>1 DEF Ordered, n
  <2> QED
    BY <1>2, <2>1, <2>2
<1>5. Ordered(todo, order) => Head(todo) = order[6 - n] /\ n <= 5
  BY <1>1, <1>2, <1>3 DEF Ordered, n
<1>6. ASSUME \A i \in 1 .. n : todo[i] \notin {"psk", "paired"}
      PROVE  /\ \A i \in 1 .. n - 1 : Tail(todo)[i] \notin {"psk", "paired"}
             /\ Head(todo) \notin {"psk", "paired"}
  BY <1>1, <1>2, <1>6 DEF n
<1> QED
  BY <1>1, <1>4, <1>5, <1>6 DEF n

(* One write changes the field it names. *)
LEMMA Put ==
  ASSUME RobotOK, NEW t \in Task, FlashPut(t), NEW q, q = Head(job[t].todo)
  PROVE  /\ flash'.psk = IF q = "psk" THEN job[t].goal.psk ELSE flash.psk
         /\ q = "paired" => (flash'.paired <=> job[t].goal.paired)
         /\ q # "paired" => (flash'.paired <=> flash.paired)
<1>1. flash' = [flash EXCEPT ![q] = job[t].goal[q]]
  BY DEF FlashPut
<1>2. flash \in FlashType
  BY DEF RobotOK, RobotTypeOK
<1>3. CASE q = "psk"
  BY <1>1, <1>2, <1>3 DEF FlashType
<1>4. CASE q = "paired"
  BY <1>1, <1>2, <1>4 DEF FlashType
<1>5. CASE q \notin {"psk", "paired"}
  BY <1>1, <1>2, <1>5 DEF FlashType
<1> QED
  BY <1>3, <1>4, <1>5

(* A write of a save, by what is left to write. *)
LEMMA Writes ==
  ASSUME RobotOK, FlashInv, NEW t \in Task, FlashPut(t) \/ PutFails(t), NEW n, NEW q,
         n = Len(job[t].todo), q = Head(job[t].todo)
  PROVE  /\ n \in Nat \ {0} /\ Len(job'[t].todo) = n - 1 /\ Staged(job'[t])
         /\ job[t].op \in {"pair", "unpair", "clear"} =>
              n <= 5 /\ (q = "psk" <=> n = 5) /\ (q = "paired" <=> n = 3)
         /\ job[t].op = "refresh" =>
              n <= 5 /\ (q = "psk" <=> n = 5) /\ (q = "paired" <=> n = 2)
         /\ job[t].op \in {"counter", "goodbye"} => q \notin {"psk", "paired"}
<1> DEFINE todo == job[t].todo
<1>1. todo \in Seq(Field) /\ todo # <<>> /\ job'[t].todo = Tail(todo) /\ job'[t].op = job[t].op
  BY Wrote DEF RobotOK, RobotTypeOK, JobType
<1>2. Staged(job[t]) /\ n = Len(todo) /\ q = Head(todo)
  BY DEF FlashInv
<1> HIDE DEF todo
<1>3. n \in Nat \ {0} /\ Len(job'[t].todo) = n - 1
  BY <1>1, <1>2, StagedNext
<1>4. ASSUME NEW order, Ordered(todo, order)
      PROVE  Ordered(Tail(todo), order) /\ n <= 5 /\ q = order[6 - n]
  BY <1>1, <1>2, <1>4, StagedNext
<1>6. CASE job[t].op \in {"pair", "unpair", "clear"}
  <2>1. Ordered(Tail(todo), SavePairOrder) /\ n <= 5 /\ q = SavePairOrder[6 - n]
    BY <1>2, <1>4, <1>6 DEF Staged, todo
  <2>2. (q = "psk" <=> n = 5) /\ (q = "paired" <=> n = 3)
    BY <1>3, <2>1, PlaceOf
  <2> QED
    BY <1>1, <1>3, <1>6, <2>1, <2>2 DEF Staged
<1>7. CASE job[t].op = "refresh"
  <2>1. Ordered(Tail(todo), SavePairRefreshOrder) /\ n <= 5 /\ q = SavePairRefreshOrder[6 - n]
    BY <1>2, <1>4, <1>7 DEF Staged, todo
  <2>2. (q = "psk" <=> n = 5) /\ (q = "paired" <=> n = 2)
    BY <1>3, <2>1, PlaceOf
  <2> QED
    BY <1>1, <1>3, <1>7, <2>1, <2>2 DEF Staged
<1>8. CASE job[t].op \in {"counter", "goodbye"}
  <2>1. \A i \in 1 .. Len(todo) : todo[i] \notin {"psk", "paired"}
    BY <1>2, <1>8 DEF Staged, todo
  <2>2. /\ \A i \in 1 .. Len(Tail(todo)) : Tail(todo)[i] \notin {"psk", "paired"}
        /\ q \notin {"psk", "paired"}
    BY <1>1, <1>2, <2>1, StagedNext
  <2> QED
    BY <1>1, <1>3, <1>8, <2>2 DEF Staged
<1>9. job[t].op \in {"none", "pair", "refresh", "unpair", "counter", "goodbye", "clear"}
  BY DEF RobotOK, RobotTypeOK, JobType
<1> QED
  BY <1>1, <1>3, <1>6, <1>7, <1>8, <1>9 DEF Staged

(* A write of the radio's save keeps the pair in flash in its stage.        *)
LEMMA FlashRadioWrites ==
  ASSUME RobotOK, RoleInv, OneSave, FlashInv, faults' <= 1,
         FlashPut("radio") \/ PutFails("radio")
  PROVE  FlashInv'
<1> USE Tasks
<1> DEFINE n == Len(Radio.todo)
           q == Head(Radio.todo)
           goal == Radio.goal
<1>1. /\ UNCHANGED <<robot, core, air>> /\ Radio'.op = Radio.op /\ Radio'.goal = goal
      /\ job'["loop"] = job["loop"] /\ Radio.op # "none" /\ faults \in Nat
      /\ \/ FlashPut("radio") /\ Radio'.ok = Radio.ok /\ UNCHANGED faults
         \/ ~Radio'.ok /\ UNCHANGED flash /\ faults' = faults + 1
  BY Wrote DEF RobotOK, Radio, RobotTypeOK
<1>2. /\ n \in Nat \ {0} /\ Len(Radio'.todo) = n - 1 /\ Staged(job'["radio"])
      /\ Radio.op \in {"pair", "unpair"} => n <= 5 /\ (q = "psk" <=> n = 5) /\ (q = "paired" <=> n = 3)
      /\ Radio.op = "refresh" => n <= 5 /\ (q = "psk" <=> n = 5) /\ (q = "paired" <=> n = 2)
      /\ Radio.op = "counter" => q \notin {"psk", "paired"}
  BY Writes DEF Radio
<1>3. FlashPut("radio") =>
        /\ flash'.psk = IF q = "psk" THEN goal.psk ELSE flash.psk
        /\ q = "paired" => (flash'.paired <=> goal.paired)
        /\ q # "paired" => (flash'.paired <=> flash.paired)
  BY Put DEF Radio
<1>4. PutFails("radio") => flash' = flash /\ faults = 0 /\ faults' # 0 /\ ~Radio'.ok
  BY <1>1 DEF PutFails, FlashPut
<1>5. Loop.op = "none" /\ core.code = 0
  <2>1. Busy("radio")
    BY DEF FlashPut, PutFails
  <2> QED
    BY <2>1 DEF OneSave, Busy, Loop, FlashInv, Settled
<1>6. \A t \in Task : Staged(job'[t])
  BY <1>1, <1>2 DEF FlashInv
<1>7. NextKey' = NextKey /\ OnAir({"refresh"})' = OnAir({"refresh"})
  BY <1>1 DEF NextKey, OnAir
<1> HIDE DEF n, q, goal
<1>8. CASE Radio.op = "pair"
  <2>1. goal.psk # NoKey /\ goal.paired /\ ~robot.paired
    BY <1>8, Minting DEF RobotOK, RoleInv, PairGoal, goal
  <2>2. /\ Loads(flash) => flash.psk = goal.psk
        /\ n = 5 => ~Loads(flash) /\ (faults # 0 \/ flash.psk = NoKey)
        /\ n < 5 => flash.psk \in {goal.psk, NoKey}
        /\ Radio.ok /\ n < 5 => flash.psk = goal.psk
        /\ Radio.ok /\ n < 3 => flash.paired
    BY <1>8 DEF FlashInv, Blank, n, goal
  <2>3. /\ Loads(flash') => flash'.psk = goal.psk
        /\ flash'.psk \in {goal.psk, NoKey}
        /\ Radio'.ok => flash'.psk = goal.psk
        /\ Radio'.ok /\ n - 1 < 3 => flash'.paired
    <3>1. CASE FlashPut("radio")
      <4>1. n = 5 \/ n < 5
        BY <1>2, <1>8
      <4>2. n - 1 < 3 => n = 3 \/ n < 3
        BY <1>2
      <4>3. Radio'.ok => Radio.ok
        BY <1>1, <3>1
      <4>4. flash'.psk \in {goal.psk, NoKey} /\ (Radio'.ok => flash'.psk = goal.psk)
        BY <1>2, <1>3, <1>8, <2>2, <3>1, <4>1, <4>3
      <4>5. Radio'.ok /\ n - 1 < 3 => flash'.paired
        <5>1. CASE n = 3
          BY <1>2, <1>3, <1>8, <2>1, <3>1, <5>1
        <5>2. CASE n < 3
          <6>1. q # "paired"
            BY <1>2, <1>8, <5>2
          <6> QED
            BY <1>3, <2>2, <3>1, <4>3, <5>2, <6>1
        <5> QED
          BY <4>2, <5>1, <5>2
      <4> QED
        BY <4>4, <4>5 DEF Loads
    <3>2. CASE PutFails("radio")
      <4>1. n = 5 \/ n < 5
        BY <1>2, <1>8
      <4> QED
        BY <1>4, <2>2, <3>2, <4>1
    <3> QED
      BY <3>1, <3>2
  <2>4. n - 1 # 5
    BY <1>2, <1>8
  <2> QED
    BY <1>1, <1>2, <1>5, <1>6, <1>8, <2>1, <2>3, <2>4 DEF FlashInv, Loop, goal
<1>9. CASE Radio.op = "refresh"
  <2>1. goal = PairGoal(NextKey, robot.era + 1) /\ robot.paired
    BY <1>9 DEF FlashInv, goal
  <2>2. goal.psk = NextKey /\ goal.psk # NoKey /\ goal.paired
    BY <1>9, <2>1 DEF PairGoal, RoleInv, goal
  <2>3. Loads(flash) /\ flash.psk \in {robot.psk, NextKey}
    BY <1>9, <2>1 DEF FlashInv
  <2>4. Loads(flash') /\ flash'.psk \in {flash.psk, NextKey}
    BY <1>2, <1>3, <1>4, <2>2, <2>3 DEF Loads
  <2>5. Radio'.ok => flash'.psk = goal.psk
    <3>1. Radio.ok /\ n < 5 => flash.psk = goal.psk
      BY <1>9 DEF FlashInv, n, goal
    <3>2. n = 5 \/ n < 5
      BY <1>2, <1>9
    <3> QED
      BY <1>1, <1>2, <1>3, <1>4, <1>9, <3>1, <3>2
  <2> QED
    BY <1>1, <1>5, <1>6, <1>7, <1>9, <2>1, <2>3, <2>4, <2>5 DEF FlashInv, Loop, goal
<1>10. CASE Radio.op = "unpair"
  <2>1. goal.psk = NoKey /\ ~goal.paired /\ goal = NoFlash
    BY <1>10 DEF FlashInv, NoFlash, goal
  <2>2. Loads(flash') => Loads(flash) /\ flash'.psk = flash.psk
    BY <1>3, <1>4, <2>1 DEF Loads
  <2>3. robot.paired /\ Loads(flash) => flash.psk \in {robot.psk, NextKey}
    BY DEF FlashInv
  <2> QED
    BY <1>1, <1>5, <1>6, <1>7, <1>10, <2>1, <2>2, <2>3 DEF FlashInv, Loop, goal
<1>11. CASE Radio.op = "counter"
  <2>1. (Loads(flash') <=> Loads(flash)) /\ flash'.psk = flash.psk
    BY <1>2, <1>3, <1>4, <1>11 DEF Loads
  <2>2. /\ robot.paired => Loads(flash)
        /\ robot.paired /\ Loads(flash) => flash.psk \in {robot.psk, NextKey}
    BY <1>11 DEF FlashInv
  <2> QED
    BY <1>1, <1>5, <1>6, <1>7, <1>11, <2>1, <2>2 DEF FlashInv, Loop
<1> QED
  BY <1>1, <1>8, <1>9, <1>10, <1>11 DEF RoleInv

(* So does a write of the button's.                                         *)
LEMMA FlashLoopWrites ==
  ASSUME RobotOK, RoleInv, OneSave, FlashInv, faults' <= 1,
         FlashPut("loop") \/ PutFails("loop")
  PROVE  FlashInv'
<1> USE Tasks
<1> DEFINE n == Len(Loop.todo)
           q == Head(Loop.todo)
           goal == Loop.goal
<1>1. /\ UNCHANGED <<robot, core, air>> /\ Loop'.op = Loop.op /\ Loop'.goal = goal
      /\ job'["radio"] = job["radio"] /\ Loop.op # "none" /\ faults \in Nat
      /\ \/ FlashPut("loop") /\ UNCHANGED faults
         \/ UNCHANGED flash /\ faults' = faults + 1
  BY Wrote DEF RobotOK, Loop, RobotTypeOK
<1>2. /\ n \in Nat \ {0} /\ Len(Loop'.todo) = n - 1 /\ Staged(job'["loop"])
      /\ Loop.op = "clear" => n <= 5 /\ (q = "psk" <=> n = 5) /\ (q = "paired" <=> n = 3)
      /\ Loop.op = "goodbye" => q \notin {"psk", "paired"}
  BY Writes DEF Loop
<1>3. FlashPut("loop") =>
        /\ flash'.psk = IF q = "psk" THEN goal.psk ELSE flash.psk
        /\ q = "paired" => (flash'.paired <=> goal.paired)
        /\ q # "paired" => (flash'.paired <=> flash.paired)
  BY Put DEF Loop
<1>4. PutFails("loop") => flash' = flash /\ faults = 0 /\ faults' # 0
  BY <1>1 DEF PutFails, FlashPut
<1>5. Radio.op = "none" /\ core.code = 0
  <2>1. Busy("loop")
    BY DEF FlashPut, PutFails
  <2> QED
    BY <2>1 DEF OneSave, Busy, Radio, FlashInv, Settled
<1>6. \A t \in Task : Staged(job'[t])
  BY <1>1, <1>2 DEF FlashInv
<1>7. NextKey' = NextKey
  BY <1>1 DEF NextKey
<1> HIDE DEF n, q, goal
<1>8. CASE Loop.op = "clear"
  <2>1. /\ goal.psk = NoKey /\ ~goal.paired /\ goal = NoFlash /\ ~robot.paired
        /\ n < 5 => faults # 0 \/ flash.psk = NoKey
        /\ n < 3 => ~Loads(flash)
    BY <1>8 DEF FlashInv, NoFlash, goal, n
  <2>2. n = 5 \/ n < 5
    BY <1>2, <1>8
  <2>3. n - 1 < 3 => n = 3 \/ n < 3
    BY <1>2
  <2>4. faults' # 0 \/ flash'.psk = NoKey
    BY <1>1, <1>2, <1>3, <1>4, <1>8, <2>1, <2>2
  <2>5. n - 1 < 3 => ~Loads(flash')
    <3>1. CASE n = 3 /\ FlashPut("loop")
      BY <1>2, <1>3, <1>8, <2>1, <3>1 DEF Loads
    <3>2. CASE n = 3 /\ PutFails("loop")
      BY <1>4, <2>1, <3>2 DEF Loads
    <3>3. CASE n < 3
      BY <1>2, <1>3, <1>4, <1>8, <2>1, <3>3 DEF Loads
    <3> QED
      BY <2>3, <3>1, <3>2, <3>3
  <2> QED
    BY <1>1, <1>2, <1>5, <1>6, <1>8, <2>1, <2>4, <2>5 DEF FlashInv, Radio, goal
<1>9. CASE Loop.op = "goodbye"
  <2>1. (Loads(flash') <=> Loads(flash)) /\ flash'.psk = flash.psk
    BY <1>2, <1>3, <1>4, <1>9 DEF Loads
  <2>2. /\ robot.paired => Loads(flash)
        /\ robot.paired /\ Loads(flash) => flash.psk \in {robot.psk, NextKey}
    BY <1>5 DEF FlashInv
  <2> QED
    BY <1>1, <1>5, <1>6, <1>7, <1>9, <2>1, <2>2 DEF FlashInv, Radio
<1> QED
  BY <1>1, <1>8, <1>9 DEF RoleInv

(* A step that moves neither the pair nor a save.                           *)
LEMMA FlashIdle ==
  ASSUME FlashInv, UNCHANGED <<job, flash, faults>>, core'.code \in {0, core.code},
         robot'.paired = robot.paired, robot'.psk = robot.psk, robot'.era = robot.era,
         air \subseteq air'
  PROVE  FlashInv'
<1>1. NextKey' = NextKey /\ (Settled' <=> Settled) /\ (Blank' <=> Blank)
  BY DEF NextKey, Settled, Busy, Blank
<1>2. OnAir({"refresh"}) \subseteq OnAir({"refresh"})'
  BY DEF OnAir
<1> QED
  BY <1>1, <1>2 DEF FlashInv, Radio, Loop

(* A save that begins is the only one, and has all to write yet. *)
LEMMA FlashBegins ==
  ASSUME RobotOK, FlashInv, Settled, NEW t \in Task, NEW op, NEW order, NEW goal, NEW frame,
         Save(t, op, order, goal, frame), op # "none",
         op \in {"pair", "unpair", "clear"} => order = SavePairOrder,
         op = "refresh" => order = SavePairRefreshOrder,
         op \in {"counter", "goodbye"} => order \in {<<"ctr">>, <<"tapp">>}
  PROVE  /\ \A u \in Task : Staged(job'[u])
         /\ job'[t].op = op /\ job'[t].goal = goal /\ job'[t].todo = order
         /\ \A u \in Task \ {t} : job'[u].op = "none"
         /\ Len(SavePairOrder) = 5 /\ Len(SavePairRefreshOrder) = 5
<1>1. /\ job'[t].op = op /\ job'[t].todo = order /\ job'[t].goal = goal
      /\ \A u \in Task \ {t} : job'[u] = job[u]
  BY Begun DEF RobotOK
<1>2. \A u \in Task \ {t} : job'[u].op = "none"
  BY <1>1 DEF Settled, Busy
<1>3. Staged(job'[t])
  BY <1>1, StagedFresh DEF Staged
<1>4. \A u \in Task : Staged(job'[u])
  BY <1>1, <1>3 DEF FlashInv
<1> QED
  BY <1>1, <1>2, <1>4, Places

(* The radio task's handlers begin their saves from a whole pair, or from   *)
(* none.                                                                    *)
LEMMA FlashHear ==
  ASSUME RobotOK, RoleInv, ~Overlap, FlashInv, Hear
  PROVE  FlashInv'
<1> USE Tasks
<1>1. ASSUME NEW f \in OnAir({"pairReq"}), PairReq(f) PROVE FlashInv'
  <2>1. UNCHANGED <<robot, flash, faults, air>> /\ core.code # 0 /\ core' = TryCode(f.code)
    BY <1>1 DEF PairReq
  <2>2. core'.code \in {0, core.code} /\ (f.code = core.code => core'.code = 0)
    BY <2>1 DEF TryCode, RobotOK, RobotTypeOK, CoreType
  <2>3. CASE f.code # core.code
    BY <1>1, <2>1, <2>2, <2>3, FlashIdle DEF PairReq
  <2>4. CASE f.code = core.code
    <3> DEFINE key == MintKey(f.code)
               frame == PairOkFrame(f.code, f.nonce, key)
               goal == PairGoal(key, 0)
    <3>1. Save("radio", "pair", SavePairOrder, goal, frame)
      BY <1>1, <2>4 DEF PairReq
    <3> HIDE DEF goal, frame
    <3>2. Settled /\ ~robot.paired /\ Blank /\ Blank'
      BY <2>1 DEF FlashInv, Blank
    <3>3. /\ \A u \in Task : Staged(job'[u])
          /\ job'["radio"].op = "pair" /\ job'["loop"].op = "none"
          /\ Len(job'["radio"].todo) = 5
      BY <3>1, <3>2, FlashBegins
    <3> QED
      BY <2>1, <2>2, <2>4, <3>2, <3>3 DEF FlashInv, Radio, Loop, Blank
  <2> QED
    BY <2>3, <2>4
<1>2. ASSUME NEW f, Free("radio"), robot.paired
      PROVE  /\ Settled /\ core.code = 0 /\ Loads(flash) /\ flash.psk \in {robot.psk, NextKey}
             /\ NextKey = Append(robot.psk, robot.era + 1)
  <2>1. Settled
    BY <1>2, FreeIsSettled
  <2>2. Radio.op = "none"
    BY <2>1 DEF Settled, Busy, Radio
  <2> QED
    BY <1>2, <2>1, <2>2 DEF FlashInv, NextKey
<1>3. ASSUME NEW f \in OnAir(Traffic), Accept(f) PROVE FlashInv'
  <2>1. /\ Free("radio") /\ robot.paired /\ UNCHANGED <<core, flash, faults, air>>
        /\ robot'.paired = robot.paired /\ robot'.psk = robot.psk /\ robot'.era = robot.era
    BY <1>3 DEF Accept, Verified, RobotOK, RobotTypeOK, RobotType
  <2>2. CASE UNCHANGED job
    BY <2>1, <2>2, FlashIdle
  <2>3. CASE ~UNCHANGED job
    <3> DEFINE goal == [flash EXCEPT !.ctr = f.ctr]
    <3>1. Save("radio", "counter", <<"ctr">>, goal, NoFrame)
      BY <1>3, <2>3 DEF Accept, TryConsume
    <3> HIDE DEF goal
    <3>2. Settled /\ core.code = 0 /\ Loads(flash) /\ flash.psk \in {robot.psk, NextKey}
      BY <1>2, <2>1
    <3>3. /\ \A u \in Task : Staged(job'[u])
          /\ job'["radio"].op = "counter" /\ job'["loop"].op = "none"
      BY <3>1, <3>2, FlashBegins
    <3> QED
      BY <2>1, <3>2, <3>3 DEF FlashInv, Radio, Loop, NextKey
  <2> QED
    BY <2>2, <2>3
<1>4. ASSUME NEW f \in OnAir({"unpair"}), Unpair(f) PROVE FlashInv'
  <2>1. Free("radio") /\ robot.paired /\ UNCHANGED <<robot, core, flash, faults, air>>
    BY <1>4 DEF Unpair, Verified
  <2>2. Save("radio", "unpair", SavePairOrder, NoFlash, NoFrame)
    BY <1>4, Places DEF Unpair
  <2>3. Settled /\ core.code = 0 /\ flash.psk \in {robot.psk, NextKey}
    BY <1>2, <2>1
  <2>4. /\ \A u \in Task : Staged(job'[u])
        /\ job'["radio"].op = "unpair" /\ job'["loop"].op = "none"
        /\ job'["radio"].goal = NoFlash
    BY <2>2, <2>3, FlashBegins
  <2> QED
    BY <2>1, <2>3, <2>4 DEF FlashInv, Radio, Loop, NextKey
<1>5. ASSUME NEW f \in OnAir({"refresh"}), ReAck(f) PROVE FlashInv'
  BY <1>5, FlashIdle DEF ReAck, robotVars
<1>6. ASSUME NEW f \in OnAir({"refresh"}), PairRefresh(f) PROVE FlashInv'
  <2>1. /\ Free("radio") /\ robot.paired /\ f.key = robot.psk /\ f.era = robot.era + 1
        /\ UNCHANGED <<robot, core, flash, faults, air>>
    BY <1>6 DEF PairRefresh, Verified
  <2>2. /\ Settled /\ core.code = 0 /\ Loads(flash) /\ flash.psk \in {robot.psk, NextKey}
        /\ NextKey = Append(robot.psk, robot.era + 1)
    BY <1>2, <2>1
  <2> DEFINE key == DerivePairRefreshPsk(robot.psk, f.era)
             frame == AckFrame(key, f.era)
             goal == PairGoal(key, f.era)
  <2>3. Save("radio", "refresh", SavePairRefreshOrder, goal, frame)
    BY <1>6 DEF PairRefresh
  <2>4. goal = PairGoal(NextKey, robot.era + 1)
    BY <2>1, <2>2 DEF DerivePairRefreshPsk
  <2> HIDE DEF goal, frame
  <2>5. /\ \A u \in Task : Staged(job'[u])
        /\ job'["radio"].op = "refresh" /\ job'["loop"].op = "none"
        /\ job'["radio"].goal = goal /\ Len(job'["radio"].todo) = 5
    BY <2>2, <2>3, FlashBegins
  <2>6. NextKey' = NextKey /\ f \in OnAir({"refresh"})'
    BY <2>1 DEF NextKey, OnAir
  <2> QED
    BY <2>1, <2>2, <2>4, <2>5, <2>6 DEF FlashInv, Radio, Loop
<1> QED
  BY <1>1, <1>3, <1>4, <1>5, <1>6 DEF Hear

(* The ends of the radio's saves: the robot moves to what flash holds.      *)
LEMMA FlashSaved ==
  ASSUME RobotOK, RoleInv, OneSave, FlashInv, PairSaved \/ UnpairSaved \/ RefreshSaved \/ CounterSaved
  PROVE  FlashInv'
<1> USE Tasks
<1>1. /\ job' = [job EXCEPT !["radio"] = NoJob] /\ UNCHANGED <<flash, faults>> /\ Radio.todo = <<>>
      /\ Busy("radio")
  BY DEF PairSaved, UnpairSaved, RefreshSaved, CounterSaved, Saved, Radio, Busy
<1>2. job'["radio"] = NoJob /\ job'["loop"] = job["loop"] /\ Loop.op = "none" /\ core.code = 0
  BY <1>1, Over DEF RobotOK, OneSave, Busy, Loop, FlashInv, Settled
<1>3. \A t \in Task : Staged(job'[t])
  BY <1>2 DEF FlashInv, NoJob, Staged
<1>4. Radio'.op = "none" /\ Loop'.op = "none" /\ Len(Radio.todo) = 0
  BY <1>1, <1>2 DEF Radio, Loop, NoJob
<1>5. CASE PairSaved
  <2>1. Radio.op = "pair" /\ ~robot.paired
    BY <1>5 DEF PairSaved, Saved, Radio, RoleInv
  <2>2. CASE Radio.ok
    <3>1. /\ robot'.paired /\ robot'.psk = Radio.goal.psk /\ core'.code = 0
      BY <1>5, <2>2 DEF PairSaved, Radio, RobotOK, RobotTypeOK, RobotType, CoreType
    <3>2. flash.psk = Radio.goal.psk /\ flash.paired /\ Radio.goal.psk # NoKey
      BY <1>4, <2>1, <2>2, Minting DEF FlashInv, RobotOK
    <3> QED
      BY <1>1, <1>3, <1>4, <3>1, <3>2 DEF FlashInv, Loads
  <2>3. CASE ~Radio.ok
    <3>1. UNCHANGED <<robot, core>>
      BY <1>5, <2>3 DEF PairSaved, Radio
    <3> QED
      BY <1>2, <1>3, <1>4, <2>1, <3>1 DEF FlashInv
  <2> QED
    BY <2>2, <2>3
<1>6. CASE UnpairSaved
  <2>1. ~robot'.paired /\ core'.code = 0
    BY <1>6 DEF UnpairSaved, ClosedCore, RobotOK, RobotTypeOK, RobotType
  <2> QED
    BY <1>3, <1>4, <2>1 DEF FlashInv
<1>7. CASE RefreshSaved
  <2>1. Radio.op = "refresh" /\ core' = core
    BY <1>7 DEF RefreshSaved, Saved, Radio
  <2>2. Loads(flash) /\ robot.paired /\ (Radio.ok => flash.psk = Radio.goal.psk)
    BY <1>4, <2>1 DEF FlashInv
  <2>3. CASE Radio.ok
    <3>1. robot'.paired /\ robot'.psk = Radio.goal.psk
      BY <1>7, <2>2, <2>3 DEF RefreshSaved, Radio, RobotOK, RobotTypeOK, RobotType
    <3> QED
      BY <1>1, <1>2, <1>3, <1>4, <2>1, <2>2, <2>3, <3>1 DEF FlashInv
  <2>4. CASE ~Radio.ok
    <3>1. UNCHANGED robot
      BY <1>7, <2>4 DEF RefreshSaved, Radio
    <3>2. flash.psk \in {robot.psk, NextKey}
      BY <2>2 DEF FlashInv
    <3> QED
      BY <1>1, <1>2, <1>3, <1>4, <2>1, <2>2, <3>1, <3>2 DEF FlashInv, NextKey
  <2> QED
    BY <2>3, <2>4
<1>8. CASE CounterSaved
  <2>1. Radio.op = "counter" /\ UNCHANGED <<robot, core>>
    BY <1>8 DEF CounterSaved, Saved, Radio
  <2>2. robot.paired => Loads(flash) /\ flash.psk \in {robot.psk, NextKey}
    BY <2>1 DEF FlashInv
  <2> QED
    BY <1>1, <1>2, <1>3, <1>4, <2>1, <2>2 DEF FlashInv, NextKey
<1> QED
  BY <1>5, <1>6, <1>7, <1>8

(* The button, time and power.                                              *)
LEMMA FlashRest ==
  ASSUME RobotOK, RoleInv, ~Overlap, OneSave, FlashInv,
         \/ PairButton \/ GoodbyeSaved \/ WindowOpens \/ WindowCloses \/ LockoutEnds \/ PowerLoss
  PROVE  FlashInv'
<1> USE Tasks
<1>1. ASSUME ClearPair, ~Busy("radio"), UNCHANGED <<flash, faults>> PROVE FlashInv'
  <2>1. Save("loop", "clear", SavePairOrder, NoFlash, NoFrame)
    BY <1>1, Places DEF ClearPair
  <2>2. /\ job'["loop"].op = "clear" /\ job'["loop"].goal = NoFlash
        /\ job'["loop"].todo = SavePairOrder /\ job'["radio"] = job["radio"]
    BY <2>1, Begun DEF RobotOK
  <2>3. \A t \in Task : Staged(job'[t])
    BY <2>2, StagedFresh DEF FlashInv, Staged
  <2>4. Radio'.op = "none" /\ Len(Loop'.todo) = 5
    BY <1>1, <2>2, Places DEF Busy, Radio, Loop
  <2>5. ~robot'.paired /\ core'.code = 0
    BY <1>1 DEF ClearPair, ClosedCore, RobotOK, RobotTypeOK, RobotType
  <2> QED
    BY <2>2, <2>3, <2>4, <2>5 DEF FlashInv, Loop
<1>2. CASE PairButton
  <2>1. Settled /\ UNCHANGED <<flash, faults, air>>
    BY <1>2, FreeIsSettled DEF PairButton
  <2>2. CASE ClearPair
    BY <1>1, <2>1, <2>2 DEF Settled
  <2>3. CASE ~ClearPair
    <3> DEFINE ctr == NextToAppCounter(robot.toApp)
               goal == [flash EXCEPT !.tapp = ctr]
               frame == SignedFrame("evict", robot.psk, robot.era, ctr)
    <3>1. /\ robot.paired /\ robot' = [robot EXCEPT !.toApp = ctr] /\ UNCHANGED core
          /\ Save("loop", "goodbye", <<"tapp">>, goal, frame)
      BY <1>2, <2>3 DEF PairButton
    <3>2. robot'.paired = robot.paired /\ robot'.psk = robot.psk /\ robot'.era = robot.era
      BY <3>1 DEF RobotOK, RobotTypeOK, RobotType
    <3> HIDE DEF ctr, goal, frame
    <3>3. /\ \A u \in Task : Staged(job'[u])
          /\ job'["loop"].op = "goodbye" /\ job'["radio"].op = "none"
      BY <2>1, <3>1, FlashBegins
    <3>4. Loads(flash) /\ flash.psk \in {robot.psk, NextKey} /\ core.code = 0
      BY <2>1, <3>1 DEF FlashInv, Settled, Busy, Radio
    <3> QED
      BY <2>1, <3>1, <3>2, <3>3, <3>4 DEF FlashInv, Radio, Loop, NextKey
  <2> QED
    BY <2>2, <2>3
<1>3. CASE GoodbyeSaved
  <2>1. ~Busy("radio")
    BY <1>3 DEF GoodbyeSaved, Saved, OneSave, Busy
  <2> QED
    BY <1>1, <1>3, <2>1 DEF GoodbyeSaved
<1>4. CASE WindowOpens
  <2>1. /\ Loop.op = "clear" /\ Loop.todo = <<>> /\ job' = [job EXCEPT !["loop"] = NoJob]
        /\ UNCHANGED <<robot, flash, faults, air>>
    BY <1>4 DEF WindowOpens, Saved, Loop
  <2>2. job'["loop"] = NoJob /\ job'["radio"] = job["radio"] /\ Radio.op = "none"
    BY <2>1, Over DEF RobotOK, OneSave, Busy, Radio, Loop
  <2>3. /\ \A t \in Task : Staged(job'[t])
        /\ Radio'.op = "none" /\ Loop'.op = "none" /\ Settled'
    BY <2>2 DEF FlashInv, NoJob, Staged, Settled, Busy, Radio, Loop
  <2>4. ~robot.paired /\ Blank
    BY <2>1 DEF FlashInv, Blank
  <2> QED
    BY <2>1, <2>3, <2>4 DEF FlashInv, Blank
<1>5. CASE WindowCloses \/ LockoutEnds
  <2>1. core'.code \in {0, core.code}
    BY <1>5 DEF WindowCloses, LockoutEnds, RobotOK, RobotTypeOK, CoreType
  <2> QED
    BY <1>5, <2>1, FlashIdle DEF WindowCloses, LockoutEnds
<1>6. CASE PowerLoss
  <2>1. /\ \A t \in Task : job'[t] = NoJob
        /\ core'.code = 0 /\ flash' = flash
    BY <1>6 DEF PowerLoss, ClosedCore
  <2>2. \A t \in Task : Staged(job'[t])
    BY <2>1 DEF NoJob, Staged
  <2>3. Radio'.op = "none" /\ Loop'.op = "none"
    BY <2>1 DEF Radio, Loop, NoJob
  <2>4. robot'.paired => Loads(flash) /\ robot'.psk = flash.psk
    BY <1>6, Restored
  <2> QED
    BY <2>1, <2>2, <2>3, <2>4 DEF FlashInv
<1> QED
  BY <1>2, <1>3, <1>4, <1>5, <1>6

(* While at most one write has failed, and without overlap, what is in      *)
(* flash follows the saves.                                                 *)
LEMMA FlashNext ==
  ASSUME TypeOK, RoleInv, ~Overlap, SaveInv, FlashInv, faults' <= 1, [Next]_vars
  PROVE  FlashInv'
<1>1. RobotOK /\ OneSave
  BY DEF TypeOK, RobotOK, SaveInv
<1>2. CASE RobotNext
  <2>1. CASE \E t \in Task : FlashPut(t) \/ PutFails(t)
    BY <1>1, <2>1, FlashRadioWrites, FlashLoopWrites, Tasks
  <2> QED
    BY <1>1, <1>2, <2>1, FlashHear, FlashSaved, FlashRest DEF RobotNext
<1>3. ASSUME UNCHANGED robotVars, air \subseteq air' PROVE FlashInv'
  BY <1>3, FlashIdle DEF robotVars
<1>4. CASE (PhoneNext \/ UserPairs) /\ UNCHANGED robotVars
  BY <1>3, <1>4, PhoneAir
<1>5. CASE UNCHANGED vars
  BY <1>3, <1>5 DEF vars
<1> QED
  BY <1>2, <1>4, <1>5 DEF Next

(* A robot just started holds what flash holds. *)
LEMMA FlashInit == Init => FlashInv
<1> SUFFICES ASSUME Init PROVE FlashInv
  OBVIOUS
<1>1. PICK f, n : RobotInit(f, n)
  BY DEF Init
<1>2. (\A t \in Task : job[t] = NoJob) /\ core.code = 0 /\ flash = f /\ robot = RestorePair(f, FALSE)
  BY <1>1 DEF RobotInit, ClosedCore
<1>3. \A t \in Task : Staged(job[t])
  BY <1>2 DEF NoJob, Staged
<1>4. Radio.op = "none" /\ Loop.op = "none"
  BY <1>2, Tasks DEF Radio, Loop, NoJob
<1>5. robot.paired => Loads(flash) /\ robot.psk = flash.psk
  BY <1>2 DEF RestorePair
<1> QED
  BY <1>2, <1>3, <1>4, <1>5 DEF FlashInv

-----------------------------------------------------------------------------
(* The two keys of SharedKey.                                               *)

RobotKey == IF Loads(flash) THEN flash.psk ELSE NoKey

(* How the key that a reboot would load moves. *)
LEMMA RobotMoves ==
  ASSUME TypeOK, RoleInv, OneSave, FlashInv, RobotNext
  PROVE  \/ RobotKey' = RobotKey
         \/ RobotKey' = NoKey
         \/ RobotKey = NoKey /\ Radio.op = "pair" /\ RobotKey' = Radio.goal.psk
         \/ /\ Radio.op = "refresh" /\ RobotKey = robot.psk /\ RobotKey # NoKey
            /\ RobotKey' = NextKey
            /\ \E f \in OnAir({"refresh"}) : f.key = RobotKey
<1> USE Tasks
<1>0. RobotOK
  BY DEF TypeOK, RobotOK
<1>1. CASE UNCHANGED flash
  BY <1>1 DEF RobotKey
<1>2. CASE FlashPut("radio")
  <2> DEFINE n == Len(Radio.todo)
             q == Head(Radio.todo)
             goal == Radio.goal
  <2>1. /\ Radio.op = "refresh" => n <= 5 /\ (q = "psk" <=> n = 5) /\ (q = "paired" <=> n = 2)
        /\ Radio.op = "pair" => n <= 5 /\ (q = "psk" <=> n = 5) /\ (q = "paired" <=> n = 3)
        /\ Radio.op = "counter" => q \notin {"psk", "paired"}
        /\ n \in Nat
    BY <1>0, <1>2, Writes DEF Radio
  <2>2. /\ flash'.psk = IF q = "psk" THEN goal.psk ELSE flash.psk
        /\ q = "paired" => (flash'.paired <=> goal.paired)
        /\ q # "paired" => (flash'.paired <=> flash.paired)
    BY <1>0, <1>2, Put DEF Radio
  <2>3. Radio.op # "none"
    BY <1>2 DEF FlashPut, Busy, Radio
  <2> HIDE DEF n, q, goal
  <2>4. CASE Radio.op = "counter"
    BY <2>1, <2>2, <2>4 DEF RobotKey, Loads
  <2>5. CASE Radio.op = "unpair"
    <3>1. goal.psk = NoKey /\ ~goal.paired
      BY <2>5 DEF FlashInv, NoFlash, goal
    <3> QED
      BY <2>2, <3>1 DEF RobotKey, Loads
  <2>6. CASE Radio.op = "pair"
    <3>1. /\ Loads(flash) => flash.psk = goal.psk
          /\ n < 5 => flash.psk \in {goal.psk, NoKey}
      BY <2>6 DEF FlashInv, n, goal
    <3>2. n = 5 \/ n < 5
      BY <2>1, <2>6
    <3>3. Loads(flash') => flash'.psk = goal.psk
      BY <2>1, <2>2, <2>6, <3>1, <3>2 DEF Loads
    <3> QED
      BY <2>6, <3>1, <3>3 DEF RobotKey, goal
  <2>7. CASE Radio.op = "refresh"
    <3>1. /\ robot.paired /\ goal.psk = NextKey /\ goal.paired
          /\ \E f \in OnAir({"refresh"}) : f.key = robot.psk
      BY <2>7 DEF FlashInv, PairGoal, goal
    <3>2. Loads(flash) /\ flash.psk \in {robot.psk, NextKey} /\ robot.psk # NoKey
      BY <2>7, <3>1 DEF FlashInv, RoleInv
    <3>3. NextKey # NoKey
      BY <2>7, <3>1 DEF RoleInv, goal
    <3>4. Loads(flash') /\ flash'.psk \in {flash.psk, NextKey}
      BY <2>2, <3>1, <3>2, <3>3 DEF Loads
    <3> QED
      BY <2>7, <3>1, <3>2, <3>4 DEF RobotKey
  <2> QED
    BY <2>3, <2>4, <2>5, <2>6, <2>7 DEF RoleInv
<1>3. CASE FlashPut("loop")
  <2> DEFINE q == Head(Loop.todo)
             goal == Loop.goal
  <2>1. Loop.op = "goodbye" => q \notin {"psk", "paired"}
    BY <1>0, <1>3, Writes DEF Loop
  <2>2. /\ flash'.psk = IF q = "psk" THEN goal.psk ELSE flash.psk
        /\ q = "paired" => (flash'.paired <=> goal.paired)
        /\ q # "paired" => (flash'.paired <=> flash.paired)
    BY <1>0, <1>3, Put DEF Loop
  <2>3. Loop.op # "none"
    BY <1>3 DEF FlashPut, Busy, Loop
  <2> HIDE DEF q, goal
  <2>4. CASE Loop.op = "goodbye"
    BY <2>1, <2>2, <2>4 DEF RobotKey, Loads
  <2>5. CASE Loop.op = "clear"
    <3>1. goal.psk = NoKey /\ ~goal.paired
      BY <2>5 DEF FlashInv, NoFlash, goal
    <3> QED
      BY <2>2, <3>1 DEF RobotKey, Loads
  <2> QED
    BY <2>3, <2>4, <2>5 DEF RoleInv
<1> QED
  BY <1>0, <1>1, <1>2, <1>3, RobotFlash

(* Only an attempt to pair makes a row, and only a delete takes it away.    *)
LEMMA RowMoves ==
  ASSUME PhoneOK, PhoneNext \/ UserPairs
  PROVE  row'.on = row.on \/ ~row'.on \/ PairingSavesRow
<1> USE DEF PhoneOK, PhoneTypeOK
<1>1. CASE (\E kind \in SentKinds \ {"bye"} : Send(kind)) \/ Background
  <2>1. Flush(row, holder) \in RowType /\ Flush(row, holder).on = row.on
    BY CountersKeepRow, CounterTypes
  <2> QED
    BY <1>1, <2>1, CountersKeepRow DEF Send, Background, SendFrom, RefuseFrom
<1>2. CASE StartRefresh
  BY <1>2, CountersKeepRow DEF StartRefresh
<1>3. CASE Answered
  <2>1. \A f : PairingSavesPsk(f) \/ RefreshAnswered(f) => UNCHANGED row
    BY DEF PairingSavesPsk, RefreshAnswered
  <2>2. \A f : Evicted(f) => row'.on = row.on
    BY DEF Evicted, RowType
  <2> QED
    BY <1>3, <2>1, <2>2 DEF Answered
<1>4. CASE ForgetSends
  <2>1. Flush(row, Ensure(holder, row.ctr)) \in RowType
    BY CounterTypes DEF RowType
  <2> QED
    BY <1>4, <2>1, CountersKeepRow DEF ForgetSends
<1>5. CASE RefreshSavesRow
  BY <1>5 DEF RefreshSavesRow, NoRow
<1>6. CASE UserPairs \/ Observe \/ PairingFails \/ ForgetTapped \/ Kill
  BY <1>6 DEF UserPairs, StartPairing, Observe, PairingFails, ForgetTapped, Kill
<1>7. CASE RefreshTimesOut \/ RefreshSavesPsk \/ CompletePairRefresh \/ InvalidateSession
  BY <1>7 DEF RefreshTimesOut, RefreshSavesPsk, CompletePairRefresh, InvalidateSession
<1>8. CASE \E p \in {"forget", "evict"} : PurgeRow(p) \/ PurgeVault(p) \/ PurgeCounters(p)
  BY <1>8 DEF PurgeRow, PurgeVault, PurgeCounters, NoRow
<1> QED
  BY <1>1, <1>2, <1>3, <1>4, <1>5, <1>6, <1>7, <1>8 DEF PhoneNext

(* How the key of the app's pair moves. *)
LEMMA AppMoves ==
  ASSUME PhoneOK, KeyInv, PhoneNext \/ UserPairs
  PROVE  \/ GetPairPsk' = GetPairPsk
         \/ GetPairPsk' = NoKey
         \/ PairingSavesRow /\ GetPairPsk = NoKey /\ GetPairPsk' = vault
         \/ RefreshSavesPsk /\ GetPairPsk # NoKey /\ GetPairPsk' = refresh.key
<1>1. CASE row'.on = row.on
  <2>1. CASE ~row.on
    BY <1>1, <2>1 DEF GetPairPsk
  <2>2. CASE row.on
    <3>1. GetPairPsk = vault /\ GetPairPsk' = vault' /\ vault # NoKey
      BY <1>1, <2>2 DEF GetPairPsk, KeyInv
    <3>2. ~\E f : PairingSavesPsk(f)
      BY <2>2 DEF PairingSavesPsk, KeyInv
    <3> QED
      BY <3>1, <3>2, PhoneKeys
  <2> QED
    BY <2>1, <2>2 DEF PhoneOK, PhoneTypeOK, RowType
<1>2. CASE ~row'.on
  BY <1>2 DEF GetPairPsk
<1>3. CASE PairingSavesRow
  BY <1>3 DEF PairingSavesRow, GetPairPsk, KeyInv, NoRow
<1> QED
  BY <1>1, <1>2, <1>3, RowMoves

-----------------------------------------------------------------------------
(* What is on the air of a line is behind, or at, the key of its reader.    *)

UpTo(j, k) == SameLine(j, k) => j = k \/ Len(j) < Len(k)

LineInv ==
  /\ \A f \in OnAir({"ack"}) : f.key # NoKey /\ UpTo(f.key, RobotKey)
  /\ \A f \in OnAir({"refresh"}) : f.key # NoKey /\ UpTo(f.key, GetPairPsk)
  /\ \A f \in OnAir({"pairOk"}) : f.key = MintKey(f.code)
  /\ SameLine(RobotKey, GetPairPsk) => RobotKey = GetPairPsk \/ SK!NextOf(GetPairPsk, RobotKey)
  /\ GetPairPsk # NoKey /\ refresh.at \in {"wait", "vault"} =>
       refresh.key = Append(GetPairPsk, refresh.era)
  /\ refresh.at = "vault" => \E f \in OnAir({"ack"}) : f.key = refresh.key
  /\ enrol.at # "idle" =>
       /\ \A f \in OnAir({"refresh"}) : Head(f.key) # enrol.code
       /\ RobotKey # NoKey /\ Head(RobotKey) = enrol.code => RobotKey = MintKey(enrol.code)
  /\ enrol.at = "row" => vault = MintKey(enrol.code)

(* A derived key is the next of its line. *)
LEMMA Follows ==
  ASSUME NEW k \in Key, k # NoKey, NEW e \in Nat
  PROVE  /\ Append(k, e) \in Key /\ Append(k, e) # NoKey /\ SameLine(k, Append(k, e))
         /\ Len(Append(k, e)) = Len(k) + 1 /\ Len(k) \in Nat
         /\ SK!NextOf(k, Append(k, e))
         /\ \A j : SameLine(j, Append(k, e)) <=> SameLine(j, k)
         /\ \A j \in Key : UpTo(j, k) => UpTo(j, Append(k, e))
<1>1. /\ Append(k, e) \in Key /\ Append(k, e) # NoKey /\ Head(Append(k, e)) = Head(k)
      /\ Len(Append(k, e)) = Len(k) + 1 /\ Len(k) \in Nat
  BY Lines
<1>2. \A j : SameLine(j, Append(k, e)) <=> SameLine(j, k)
  BY <1>1 DEF SameLine
<1>3. ASSUME NEW j \in Key, UpTo(j, k) PROVE UpTo(j, Append(k, e))
  <2>1. Len(j) \in Nat
    BY Lines
  <2>2. SameLine(j, Append(k, e)) => j = k \/ Len(j) < Len(k)
    BY <1>2, <1>3 DEF UpTo
  <2>3. SameLine(j, Append(k, e)) => Len(j) < Len(Append(k, e))
    BY <1>1, <2>1, <2>2
  <2> QED
    BY <2>3 DEF UpTo
<1>4. SubSeq(Append(k, e), 1, Len(k)) = k
  <2> DEFINE s == Append(k, e)
             b == SubSeq(s, 1, Len(k))
  <2>1. k \in Seq(Nat) /\ s \in Seq(Nat) /\ Len(s) = Len(k) + 1
        /\ \A i \in 1 .. Len(k) : s[i] = k[i]
    BY DEF Key
  <2> HIDE DEF s
  <2>2. b \in Seq(Nat) /\ Len(b) = Len(k) /\ \A i \in 1 .. Len(k) : b[i] = s[i]
    BY <2>1
  <2> HIDE DEF b
  <2>3. \A i \in 1 .. Len(k) : b[i] = k[i]
    BY <2>1, <2>2
  <2>4. b = k
    BY <2>1, <2>2, <2>3, SeqEqual
  <2> QED
    BY <2>4 DEF b, s
<1>5. SK!NextOf(k, Append(k, e))
  BY <1>1, <1>4 DEF SK!NextOf
<1> QED
  BY <1>1, <1>2, <1>3, <1>5 DEF SameLine

(* Both keys are keys. *)
LEMMA TwoKeys == TypeOK => RobotKey \in Key /\ GetPairPsk \in Key
<1>1. NoKey \in Key
  BY Keys
<1> QED
  BY <1>1 DEF TypeOK, RobotTypeOK, PhoneTypeOK, FlashType, RobotKey, GetPairPsk

(* Answers of the robot are behind, or at, the key it would load.           *)
LEMMA LineAnswers ==
  ASSUME TypeOK, RoleInv, FlashInv, RobotNext, NEW f \in air' \ air
  PROVE  /\ f.kind = "ack" => f.key # NoKey /\ UpTo(f.key, RobotKey) /\ RobotKey' = RobotKey
         /\ f.kind = "pairOk" => f.key = MintKey(f.code)
<1> USE Tasks
<1>0. RobotOK
  BY DEF TypeOK, RobotOK
<1>1. CASE PairSaved /\ Radio.op = "pair" /\ f = Radio.frame
  BY <1>0, <1>1, Minting DEF RobotOK
<1>2. CASE RefreshSaved /\ Radio.op = "refresh" /\ Radio.ok /\ f = Radio.frame
  <2>1. f.kind = "ack" /\ f.key = Radio.goal.psk /\ f.key # NoKey
    BY <1>2 DEF RoleInv, AckFrame
  <2>2. Radio.todo = <<>> /\ flash' = flash
    BY <1>2 DEF RefreshSaved, Saved, Radio
  <2>3. Len(Radio.todo) < 5
    BY <2>2
  <2>4. Loads(flash) /\ flash.psk = Radio.goal.psk
    BY <1>2, <2>3 DEF FlashInv
  <2> QED
    BY <2>1, <2>2, <2>4 DEF RobotKey, UpTo
<1>3. CASE GoodbyeSaved /\ f.kind = "evict"
  BY <1>3
<1>4. CASE robot.paired /\ f = AckFrame(robot.psk, robot.era) /\ UNCHANGED robotVars
  <2>1. f.kind = "ack" /\ f.key = robot.psk /\ f.key # NoKey
    BY <1>4 DEF RoleInv, AckFrame
  <2>2. robot.psk \in Key /\ robot.era + 1 \in Nat
    BY <1>0 DEF RobotOK, RobotTypeOK, RobotType
  <2>3. Loads(flash) => flash.psk \in {robot.psk, NextKey}
    BY <1>4 DEF FlashInv
  <2>4. UpTo(robot.psk, robot.psk)
    BY DEF UpTo
  <2>5. UpTo(robot.psk, NextKey)
    BY <2>1, <2>2, <2>4, Follows DEF NextKey
  <2>6. UpTo(robot.psk, RobotKey)
    BY <2>3, <2>4, <2>5 DEF RobotKey, UpTo, SameLine
  <2> QED
    BY <1>4, <2>1, <2>6 DEF RobotKey, robotVars
<1> QED
  BY <1>0, <1>1, <1>2, <1>3, <1>4, RobotAir DEF RoleInv

(* The robot's steps keep the lines in order, and are steps of SharedKey.   *)
LEMMA LineRobot ==
  ASSUME TypeOK, RoleInv, OneSave, HeadInv, FlashInv, LineInv, RobotNext, UNCHANGED phoneVars
  PROVE  LineInv' /\ [SK!Next]_<<RobotKey, GetPairPsk>>
<1>0. /\ RobotOK /\ UNCHANGED <<vault, refresh, enrol>> /\ GetPairPsk' = GetPairPsk
      /\ RobotKey \in Key /\ GetPairPsk \in Key /\ robot.era + 1 \in Nat
  BY TwoKeys DEF TypeOK, RobotOK, RobotTypeOK, RobotType, phoneVars, GetPairPsk
<1>1. air \subseteq air' /\ OnAir({"refresh"})' = OnAir({"refresh"})
  BY <1>0, RobotAir, RobotKinds DEF OnAir
<1>2. ASSUME \A f \in OnAir({"ack"}) : UpTo(f.key, RobotKey'), 
             SameLine(RobotKey', GetPairPsk) =>
               RobotKey' = GetPairPsk \/ SK!NextOf(GetPairPsk, RobotKey'),
             enrol.at # "idle" /\ RobotKey' # NoKey /\ Head(RobotKey') = enrol.code =>
               RobotKey' = MintKey(enrol.code)
      PROVE  LineInv'
  <2>1. ASSUME NEW f \in OnAir({"ack"})' PROVE f.key # NoKey /\ UpTo(f.key, RobotKey')
    BY <1>2, <2>1, LineAnswers DEF OnAir, LineInv
  <2>2. ASSUME NEW f \in OnAir({"pairOk"})' PROVE f.key = MintKey(f.code)
    BY <2>2, LineAnswers DEF OnAir, LineInv
  <2>3. refresh.at = "vault" => \E f \in OnAir({"ack"})' : f.key = refresh.key
    BY <1>1 DEF OnAir, LineInv
  <2> QED
    BY <1>0, <1>1, <1>2, <2>1, <2>2, <2>3 DEF LineInv, UpTo, SameLine
<1>3. CASE RobotKey' = RobotKey
  BY <1>0, <1>2, <1>3 DEF LineInv
<1>4. CASE RobotKey' = NoKey
  <2>1. LineInv'
    BY <1>2, <1>4 DEF UpTo, SameLine
  <2>2. SK!RobotForgets
    BY <1>0, <1>4 DEF SK!RobotForgets, SK!NoKey, NoKey, RobotKey
  <2> QED
    BY <2>1, <2>2 DEF SK!Next
<1>5. CASE RobotKey = NoKey /\ Radio.op = "pair" /\ RobotKey' = Radio.goal.psk
  <2> DEFINE c == Radio.frame.code
  <2>1. c \in Nat /\ RobotKey' = MintKey(c) /\ Head(RobotKey') = c
    BY <1>0, <1>5, Minting DEF RobotOK
  <2>2. c \in Open
    BY <1>5, <2>1 DEF Open
  <2> HIDE DEF c
  <2>3. \A f \in OnAir({"ack"}) : ~SameLine(f.key, RobotKey')
    BY <2>1, <2>2 DEF HeadInv, OnAir, Minted, SameLine
  <2>4. ~SameLine(RobotKey', GetPairPsk)
    BY <2>1, <2>2 DEF HeadInv, Minted, SameLine, GetPairPsk
  <2>5. LineInv'
    BY <1>2, <2>1, <2>3, <2>4 DEF UpTo
  <2>6. SK!Enrol
    <3>1. Len(RobotKey') = 1
      BY <2>1, Lines
    <3> QED
      BY <1>0, <1>5, <2>4, <3>1
         DEF SK!Enrol, SK!Enrolled, SK!SameLine, SameLine, SK!NoKey, NoKey, RobotKey
  <2> QED
    BY <2>5, <2>6 DEF SK!Next
<1>6. CASE /\ RobotKey = robot.psk /\ RobotKey # NoKey /\ RobotKey' = NextKey
           /\ \E f \in OnAir({"refresh"}) : f.key = RobotKey
  <2>1. RobotKey' = Append(RobotKey, robot.era + 1)
    BY <1>6 DEF NextKey
  <2>2. UpTo(RobotKey, GetPairPsk)
    BY <1>6 DEF LineInv
  <2>3. Len(GetPairPsk) \in Nat /\ (SK!NextOf(GetPairPsk, RobotKey) => Len(RobotKey) = Len(GetPairPsk) + 1)
    BY <1>0, Lines DEF SK!NextOf
  <2>4. SameLine(RobotKey, GetPairPsk) => RobotKey = GetPairPsk
    BY <2>2, <2>3 DEF LineInv, UpTo
  <2>5. /\ SK!NextOf(RobotKey, RobotKey')
        /\ \A j : SameLine(j, RobotKey') <=> SameLine(j, RobotKey)
        /\ \A j \in Key : UpTo(j, RobotKey) => UpTo(j, RobotKey')
    BY <1>0, <1>6, <2>1, Follows
  <2>6. \A f \in OnAir({"ack"}) : UpTo(f.key, RobotKey')
    <3>1. \A f \in OnAir({"ack"}) : f.key \in Key
      BY Fields DEF TypeOK, OnAir
    <3> QED
      BY <2>5, <3>1 DEF LineInv
  <2>7. SameLine(RobotKey', GetPairPsk) => RobotKey' = GetPairPsk \/ SK!NextOf(GetPairPsk, RobotKey')
    <3>1. SameLine(RobotKey', GetPairPsk) => SameLine(RobotKey, GetPairPsk)
      BY <2>5 DEF SameLine
    <3> QED
      BY <2>4, <2>5, <3>1
  <2>8. enrol.at # "idle" => Head(RobotKey') # enrol.code
    <3>1. Head(Append(RobotKey, robot.era + 1)) = Head(RobotKey)
      BY <1>0, <1>6, Lines
    <3> QED
      BY <1>6, <2>1, <3>1 DEF LineInv
  <2>9. SK!Rotate
    BY <1>0, <1>6, <2>4, <2>5 DEF SK!Rotate, SK!SameLine, SameLine, SK!NoKey, NoKey, RobotKey
  <2> QED
    BY <1>2, <2>6, <2>7, <2>8, <2>9 DEF SK!Next
<1> QED
  BY <1>3, <1>4, <1>5, <1>6, RobotMoves

(* How the attempts of the app go on, field by field.                       *)
LEMMA Attempts ==
  ASSUME PhoneOK, KeyInv, PhoneNext \/ UserPairs
  PROVE  /\ \/ refresh' = refresh
            \/ refresh'.at \notin {"wait", "vault"}
            \/ /\ StartRefresh /\ refresh'.at = "wait" /\ refresh'.era = row.era + 1
               /\ refresh'.key = Append(vault, row.era + 1)
            \/ /\ refresh.at = "wait" /\ refresh'.at = "vault"
               /\ refresh'.key = refresh.key /\ refresh'.era = refresh.era
               /\ \E f \in OnAir({"ack"}) : f.key = refresh.key
         /\ \/ enrol' = enrol
            \/ enrol'.at = "idle"
            \/ /\ enrol'.at = "wait" /\ enrol'.code \in {core.code, 0} /\ core.code # 0
               /\ OnAir({"refresh"})' = OnAir({"refresh"})
            \/ /\ enrol.at = "wait" /\ enrol'.at = "row" /\ enrol'.code = enrol.code
               /\ \E f \in OnAir({"pairOk"}) : f.code = enrol.code /\ vault' = f.key
<1> USE DEF PhoneOK, PhoneTypeOK
<1>1. CASE \/ \E kind \in SentKinds \ {"bye"} : Send(kind)
           \/ Background
  BY <1>1 DEF Send, Background, SendFrom, RefuseFrom
<1>2. CASE StartRefresh
  BY <1>2 DEF StartRefresh, DerivePairRefreshPsk
<1>3. CASE UserPairs
  <2>1. PICK code : code \in {core.code, 0} /\ core.code # 0 /\ StartPairing(code)
    BY <1>3 DEF UserPairs
  <2>2. OnAir({"refresh"})' = OnAir({"refresh"})
    BY <2>1 DEF StartPairing, PairReqFrame, OnAir
  <2> QED
    BY <2>1, <2>2 DEF StartPairing
<1>4. CASE Answered
  <2>1. ASSUME NEW f \in OnAir({"pairOk"}), PairingSavesPsk(f)
        PROVE  /\ refresh' = refresh
               /\ enrol.at = "wait" /\ enrol'.at = "row" /\ enrol'.code = enrol.code
               /\ f.code = enrol.code /\ vault' = f.key
    BY <2>1 DEF PairingSavesPsk
  <2>2. ASSUME NEW f \in OnAir({"ack"}), RefreshAnswered(f)
        PROVE  /\ enrol' = enrol
               /\ \/ refresh' = NoRefresh
                  \/ /\ refresh.at = "wait" /\ refresh'.at = "vault"
                     /\ refresh'.key = refresh.key /\ refresh'.era = refresh.era
                     /\ f.key = refresh.key
    BY <2>2 DEF RefreshAnswered
  <2>3. \A f : Evicted(f) => UNCHANGED <<enrol, refresh>>
    BY DEF Evicted
  <2> QED
    BY <1>4, <2>1, <2>2, <2>3 DEF Answered, NoRefresh
<1>5. CASE Observe \/ PairingFails \/ PairingSavesRow
  BY <1>5 DEF Observe, PairingFails, PairingSavesRow, NoEnrol
<1>6. CASE ForgetTapped \/ ForgetSends \/ Kill
  BY <1>6 DEF ForgetTapped, ForgetSends, Kill, NoEnrol, NoRefresh
<1>7. CASE \/ RefreshTimesOut \/ RefreshSavesPsk \/ RefreshSavesRow \/ CompletePairRefresh
           \/ InvalidateSession
  BY <1>7 DEF RefreshTimesOut, RefreshSavesPsk, RefreshSavesRow, CompletePairRefresh,
              InvalidateSession, NoRefresh
<1>8. CASE \E p \in {"forget", "evict"} : PurgeRow(p) \/ PurgeVault(p) \/ PurgeCounters(p)
  BY <1>8 DEF PurgeRow, PurgeVault, PurgeCounters
<1> QED
  BY <1>1, <1>2, <1>3, <1>4, <1>5, <1>6, <1>7, <1>8 DEF PhoneNext

(* The app's steps keep the lines in order, and are steps of SharedKey.     *)
LEMMA LinePhone ==
  ASSUME TypeOK, KeyInv, HeadInv, EvictInv, FlashInv, LineInv, PhoneNext \/ UserPairs,
         UNCHANGED robotVars
  PROVE  LineInv' /\ [SK!Next]_<<RobotKey, GetPairPsk>>
<1>0. /\ PhoneOK /\ UNCHANGED <<robot, core, flash>> /\ RobotKey' = RobotKey
      /\ RobotKey \in Key /\ GetPairPsk \in Key /\ refresh.era \in Nat /\ air \subseteq air'
  BY TwoKeys, PhoneAir DEF TypeOK, PhoneOK, PhoneTypeOK, robotVars, RobotKey
<1>1. /\ OnAir({"ack"})' = OnAir({"ack"}) /\ OnAir({"pairOk"})' = OnAir({"pairOk"})
      /\ \A f \in OnAir({"refresh"})' : f \in OnAir({"refresh"}) \/ (StartRefresh /\ f.key = vault)
  BY PhoneAir DEF OnAir, Traffic
<1>2. StartRefresh => /\ row.on /\ vault # NoKey /\ vault' = vault /\ row'.on /\ enrol' = enrol
                      /\ refresh'.at = "wait" /\ GetPairPsk = vault /\ GetPairPsk' = vault
  <2>1. StartRefresh => row.on /\ vault # NoKey /\ vault' = vault /\ enrol' = enrol
                        /\ refresh'.at = "wait" /\ row'.on = row.on
    BY <1>0, CountersKeepRow DEF StartRefresh, GetPairPsk, PhoneOK, PhoneTypeOK
  <2> QED
    BY <2>1 DEF GetPairPsk
<1>3. \/ GetPairPsk' = GetPairPsk
      \/ GetPairPsk' = NoKey
      \/ PairingSavesRow /\ GetPairPsk = NoKey /\ GetPairPsk' = vault
      \/ RefreshSavesPsk /\ GetPairPsk # NoKey /\ GetPairPsk' = refresh.key
  BY <1>0, AppMoves
<1>4. /\ PairingSavesRow => enrol.at = "row" /\ ~StartRefresh /\ refresh' = refresh /\ refresh.at = "idle"
      /\ RefreshSavesPsk => refresh.at = "vault" /\ refresh'.at = "row" /\ ~StartRefresh
  BY <1>0 DEF PairingSavesRow, RefreshSavesPsk, EvictInv, PhoneOK, PhoneTypeOK, StartRefresh
<1>5. ASSUME RefreshSavesPsk, GetPairPsk # NoKey, GetPairPsk' = refresh.key
      PROVE  /\ SK!NextOf(GetPairPsk, GetPairPsk')
             /\ SameLine(RobotKey, GetPairPsk) => RobotKey = GetPairPsk'
             /\ SameLine(RobotKey, GetPairPsk') => SameLine(RobotKey, GetPairPsk)
             /\ \A j \in Key : UpTo(j, GetPairPsk) => UpTo(j, GetPairPsk')
  <2>1. GetPairPsk' = Append(GetPairPsk, refresh.era)
    BY <1>4, <1>5 DEF LineInv
  <2>2. PICK f \in OnAir({"ack"}) : f.key = GetPairPsk'
    BY <1>4, <1>5 DEF LineInv
  <2>3. UpTo(GetPairPsk', RobotKey)
    BY <2>2 DEF LineInv
  <2>4. /\ SK!NextOf(GetPairPsk, GetPairPsk') /\ Len(GetPairPsk') = Len(GetPairPsk) + 1
        /\ Len(GetPairPsk) \in Nat
        /\ \A j : SameLine(j, GetPairPsk') <=> SameLine(j, GetPairPsk)
        /\ \A j \in Key : UpTo(j, GetPairPsk) => UpTo(j, GetPairPsk')
    BY <1>0, <1>5, <2>1, Follows
  <2>5. ASSUME SameLine(RobotKey, GetPairPsk) PROVE RobotKey = GetPairPsk'
    <3>1. GetPairPsk' = RobotKey \/ Len(GetPairPsk') < Len(RobotKey)
      <4>1. SameLine(RobotKey, GetPairPsk')
        BY <2>4, <2>5
      <4> QED
        BY <2>3, <4>1 DEF UpTo, SameLine
    <3>2. Len(RobotKey) = Len(GetPairPsk) \/ Len(RobotKey) = Len(GetPairPsk) + 1
      BY <2>5 DEF LineInv, SK!NextOf
    <3> QED
      BY <2>4, <3>1, <3>2
  <2> QED
    BY <2>4, <2>5
<1>6. ASSUME PairingSavesRow, GetPairPsk = NoKey, GetPairPsk' = vault
      PROVE  /\ GetPairPsk' = MintKey(enrol.code) /\ Len(GetPairPsk') = 1
             /\ SameLine(RobotKey, GetPairPsk') => RobotKey = GetPairPsk'
             /\ \A f \in OnAir({"refresh"}) : ~SameLine(f.key, GetPairPsk')
  <2>1. vault = MintKey(enrol.code) /\ enrol.code \in Nat
    BY <1>0, <1>4, <1>6 DEF LineInv, PhoneOK, PhoneTypeOK
  <2>2. Len(MintKey(enrol.code)) = 1 /\ Head(MintKey(enrol.code)) = enrol.code
    BY <2>1, Lines
  <2> QED
    BY <1>4, <1>6, <2>1, <2>2 DEF LineInv, SameLine
<1>7. ASSUME NEW f \in OnAir({"refresh"})' PROVE f.key # NoKey /\ UpTo(f.key, GetPairPsk')
  <2>1. CASE f \in OnAir({"refresh"})
    <3>1. f.key \in Key /\ f.key # NoKey /\ UpTo(f.key, GetPairPsk)
      BY <2>1, Fields DEF TypeOK, OnAir, LineInv
    <3>2. GetPairPsk' = NoKey => UpTo(f.key, GetPairPsk')
      BY DEF UpTo, SameLine
    <3>3. ~SameLine(f.key, GetPairPsk') => UpTo(f.key, GetPairPsk')
      BY DEF UpTo
    <3>4. GetPairPsk' = GetPairPsk => UpTo(f.key, GetPairPsk')
      BY <3>1
    <3> QED
      BY <1>3, <1>5, <1>6, <2>1, <3>1, <3>2, <3>3, <3>4
  <2>2. CASE StartRefresh /\ f.key = vault
    BY <1>2, <2>2 DEF UpTo
  <2> QED
    BY <1>1, <2>1, <2>2
<1>8. SameLine(RobotKey, GetPairPsk') => RobotKey = GetPairPsk' \/ SK!NextOf(GetPairPsk', RobotKey)
  <2>1. GetPairPsk' = NoKey => ~SameLine(RobotKey, GetPairPsk')
    BY DEF SameLine
  <2>2. GetPairPsk' = GetPairPsk =>
          (SameLine(RobotKey, GetPairPsk') => RobotKey = GetPairPsk' \/ SK!NextOf(GetPairPsk', RobotKey))
    BY DEF LineInv
  <2> QED
    BY <1>3, <1>5, <1>6, <2>1, <2>2
<1>9. GetPairPsk' # NoKey /\ refresh'.at \in {"wait", "vault"} =>
        refresh'.key = Append(GetPairPsk', refresh'.era)
  <2> SUFFICES ASSUME GetPairPsk' # NoKey, refresh'.at \in {"wait", "vault"}
               PROVE  refresh'.key = Append(GetPairPsk', refresh'.era)
    OBVIOUS
  <2>1. CASE StartRefresh /\ refresh'.era = row.era + 1 /\ refresh'.key = Append(vault, row.era + 1)
    BY <1>2, <2>1
  <2>2. CASE refresh.at \in {"wait", "vault"} /\ refresh'.key = refresh.key /\ refresh'.era = refresh.era
    <3>1. GetPairPsk' = GetPairPsk
      BY <1>3, <1>4, <2>2
    <3>2. refresh.key = Append(GetPairPsk, refresh.era)
      BY <2>2, <3>1 DEF LineInv
    <3> QED
      BY <2>2, <3>1, <3>2
  <2> QED
    BY <1>0, <2>1, <2>2, Attempts
<1>10. refresh'.at = "vault" => \E f \in OnAir({"ack"})' : f.key = refresh'.key
  BY <1>0, <1>1, <1>2, Attempts DEF LineInv
<1>11. ASSUME enrol'.at # "idle"
       PROVE  /\ \A f \in OnAir({"refresh"})' : Head(f.key) # enrol'.code
              /\ RobotKey # NoKey /\ Head(RobotKey) = enrol'.code => RobotKey = MintKey(enrol'.code)
  <2>1. CASE enrol.at # "idle" /\ enrol'.code = enrol.code
    <3>1. ~StartRefresh
      BY <1>2, <2>1 DEF KeyInv
    <3> QED
      BY <1>1, <2>1, <3>1 DEF LineInv
  <2>2. CASE enrol'.code \in {core.code, 0} /\ core.code # 0 /\ OnAir({"refresh"})' = OnAir({"refresh"})
    <3>1. RobotKey = NoKey
      BY <2>2 DEF FlashInv, Blank, RobotKey
    <3>2. ASSUME NEW f \in OnAir({"refresh"}) PROVE Head(f.key) # enrol'.code
      <4>1. Head(f.key) \in (1 .. shown) \ Open /\ core.code \in Open
        BY DEF LineInv, HeadInv, OnAir, Minted, Open
      <4> QED
        BY <2>2, <4>1
    <3> QED
      BY <2>2, <3>1, <3>2
  <2> QED
    BY <1>0, <1>11, <2>1, <2>2, Attempts
<1>12. ASSUME enrol'.at = "row" PROVE vault' = MintKey(enrol'.code)
  <2>1. CASE enrol' = enrol
    <3>1. /\ purge = NoPurge /\ refresh.at = "idle" /\ ~(\E f : PairingSavesPsk(f))
      BY <1>12, <2>1 DEF KeyInv, EvictInv, PairingSavesPsk
    <3>2. vault' = vault
      BY <1>0, <1>4, <3>1, PhoneKeys DEF PurgeVault, NoPurge
    <3> QED
      BY <1>12, <2>1, <3>2 DEF LineInv
  <2>2. ASSUME NEW f \in OnAir({"pairOk"}), f.code = enrol.code, vault' = f.key, enrol'.code = enrol.code
        PROVE  vault' = MintKey(enrol'.code)
    BY <2>2 DEF LineInv
  <2> QED
    BY <1>0, <1>12, <2>1, <2>2, Attempts
<1>13. LineInv'
  BY <1>0, <1>1, <1>7, <1>8, <1>9, <1>10, <1>11, <1>12 DEF LineInv
<1>14. [SK!Next]_<<RobotKey, GetPairPsk>>
  <2>1. CASE GetPairPsk' = NoKey
    BY <1>0, <2>1 DEF SK!Next, SK!AppForgets, SK!NoKey, NoKey, RobotKey
  <2>2. CASE PairingSavesRow /\ GetPairPsk = NoKey /\ GetPairPsk' = vault
    <3>1. SK!Learn
      BY <1>0, <1>6, <2>2 DEF SK!Learn, SK!Enrolled, SK!SameLine, SameLine, SK!NoKey, NoKey, RobotKey
    <3> QED
      BY <3>1 DEF SK!Next
  <2>3. CASE RefreshSavesPsk /\ GetPairPsk # NoKey /\ GetPairPsk' = refresh.key
    <3>1. SK!Confirm
      BY <1>0, <1>5, <2>3 DEF SK!Confirm, SK!SameLine, SameLine, SK!NoKey, NoKey, RobotKey
    <3> QED
      BY <3>1 DEF SK!Next
  <2> QED
    BY <1>0, <1>3, <2>1, <2>2, <2>3
<1> QED
  BY <1>13, <1>14

(* At the start the two ends hold the same key, or none. *)
LEMMA LineInit == Init => LineInv /\ SK!Init
<1> SUFFICES ASSUME Init PROVE LineInv /\ SK!Init
  OBVIOUS
<1>1. air = {} /\ refresh.at = "idle" /\ enrol.at = "idle"
  BY DEF Init, PhoneInit, NoRefresh, NoEnrol
<1>2. RobotKey = GetPairPsk /\ (GetPairPsk = NoKey \/ GetPairPsk = MintKey(1))
  <2>1. CASE OldPair
    <3> DEFINE f == [PairGoal(OldKey, 0) EXCEPT !.ctr = Start]
               r == [NoRow EXCEPT !.on = TRUE, !.ctr = Start + PersistEvery]
    <3>1. flash = f /\ row = r /\ vault = OldKey
      BY <2>1 DEF Init, RobotInit, PhoneInit
    <3>2. f.psk = OldKey /\ f.paired /\ r.on
      BY DEF PairGoal, NoRow
    <3> HIDE DEF f, r
    <3>3. OldKey # NoKey
      BY DEF OldKey, MintKey, NoKey
    <3> QED
      BY <3>1, <3>2, <3>3 DEF RobotKey, Loads, GetPairPsk, OldKey
  <2>2. CASE ~OldPair
    <3>1. flash = NoFlash /\ row = NoRow
      BY <2>2 DEF Init, RobotInit, PhoneInit
    <3> QED
      BY <3>1 DEF NoFlash, NoRow, RobotKey, Loads, GetPairPsk
  <2> QED
    BY <2>1, <2>2
<1>3. Len(MintKey(1)) = 1
  BY Lines
<1>4. LineInv
  BY <1>1, <1>2 DEF LineInv, OnAir
<1>5. SK!Init
  BY <1>2, <1>3 DEF SK!Init, SK!Enrolled, SK!NoKey, NoKey, RobotKey
<1> QED
  BY <1>4, <1>5

(* While at most one write of flash fails, and the button and the radio do  *)
(* not save at the same time, the pair is a SharedKey: over any network,    *)
(* with power lost between any two writes and the app killed at any step,   *)
(* each side moves one key at a time along its line, the robot first, and   *)
(* the app is never more than one key behind (handlePairReq and             *)
(* handlePairRefresh of PairingTask, PairDeviceWithCodeUseCase,             *)
(* PairRefreshUseCase).                                                     *)
THEOREM OneKeyApart ==
  ASSUME ~Overlap
  PROVE  Spec /\ [](faults <= 1) => KeysShared
<1> DEFINE Inv == FlashInv /\ LineInv
           Known == TypeOK /\ RoleInv /\ HeadInv /\ KeyInv /\ SaveInv /\ EvictInv
<1>1. Init => Inv /\ SK!Init
  BY FlashInit, LineInit
<1>2. Known /\ Inv /\ (faults <= 1)' /\ [Next]_vars =>
        Inv' /\ [SK!Next]_<<RobotKey, GetPairPsk>>
  <2> SUFFICES ASSUME Known, Inv, (faults <= 1)', [Next]_vars
               PROVE  Inv' /\ [SK!Next]_<<RobotKey, GetPairPsk>>
    OBVIOUS
  <2>1. FlashInv'
    BY FlashNext
  <2>2. CASE RobotNext /\ UNCHANGED phoneVars
    BY <2>1, <2>2, LineRobot DEF SaveInv
  <2>3. CASE (PhoneNext \/ UserPairs) /\ UNCHANGED robotVars
    BY <2>1, <2>3, LinePhone
  <2>4. CASE UNCHANGED vars
    <3>1. UNCHANGED <<flash, row, vault, refresh, enrol, air>>
      BY <2>4 DEF vars, robotVars, phoneVars
    <3> QED
      BY <2>1, <3>1 DEF LineInv, UpTo, RobotKey, GetPairPsk, OnAir
  <2> QED
    BY <2>2, <2>3, <2>4 DEF Next
<1>3. Spec => []Known
  BY LinesAlways, KeyAlways, SaveAlways, EvictAlways, SessionTypeCorrect, PTL
<1> HIDE DEF Inv, Known
<1>4. Spec /\ [](faults <= 1) => SK!Init /\ [][SK!Next]_<<RobotKey, GetPairPsk>>
  BY <1>1, <1>2, <1>3, PTL DEF Spec
<1> QED
  BY <1>4 DEF KeysShared, SK!Spec, RobotKey

-----------------------------------------------------------------------------
(* The keys in use, and their eras: the same order of lines, with the key   *)
(* the robot verifies with in place of the one a reboot would load.         *)

Calm == kills = 0 /\ Clean

UsedKey == IF robot.paired THEN robot.psk ELSE NoKey

RowEra == Len(vault) = row.era + (IF refresh.at = "row" THEN 2 ELSE 1)

AttemptOK ==
  /\ refresh.at \in {"wait", "vault", "row"} => refresh.era = row.era + 1
  /\ refresh.at \in {"wait", "vault"} => refresh.key = Append(vault, row.era + 1)

EraBody ==
  /\ \A f \in OnAir({"ack"}) : f.key # NoKey /\ UpTo(f.key, UsedKey)
  /\ \A f \in OnAir({"refresh"}) : f.key # NoKey /\ UpTo(f.key, GetPairPsk)
  /\ \A f \in OnAir({"pairOk"}) : f.key = MintKey(f.code)
  /\ SameLine(UsedKey, GetPairPsk) =>
       UsedKey = GetPairPsk \/ UsedKey = Append(GetPairPsk, Len(GetPairPsk))
  /\ robot.paired => Len(robot.psk) = robot.era + 1
  /\ row.on => RowEra /\ AttemptOK
  /\ refresh.at = "vault" => \E f \in OnAir({"ack"}) : f.key = refresh.key
  /\ enrol.at # "idle" =>
       /\ \A f \in OnAir({"refresh"}) : Head(f.key) # enrol.code
       /\ UsedKey # NoKey /\ Head(UsedKey) = enrol.code => UsedKey = MintKey(enrol.code)
  /\ enrol.at = "row" => vault = MintKey(enrol.code)
  /\ Radio.op = "refresh" /\ robot.paired =>
       /\ Radio.goal.era = robot.era + 1
       /\ \E f \in OnAir({"refresh"}) : f.key = robot.psk

EraInv == Calm => EraBody

(* How the pair in use moves, with its era. *)
LEMMA UsedMoves ==
  ASSUME RobotOK, RoleInv, RobotNext
  PROVE  \/ robot'.psk = robot.psk /\ robot'.paired = robot.paired /\ robot'.era = robot.era
         \/ ~robot'.paired
         \/ /\ Radio.op = "pair" /\ robot'.psk = Radio.goal.psk /\ robot'.paired
            /\ robot'.era = 0
         \/ /\ Radio.op = "refresh" /\ RefreshSaved
            /\ robot'.psk = Radio.goal.psk /\ robot'.paired = robot.paired
            /\ robot'.era = Radio.goal.era
         \/ PowerLoss /\ Loads(flash) /\ robot'.psk = flash.psk /\ robot'.era = flash.era
<1> USE Tasks DEF RobotOK
<1>1. CASE Hear
  <2>1. \A f : PairReq(f) \/ Unpair(f) \/ ReAck(f) \/ PairRefresh(f) => UNCHANGED robot
    BY DEF PairReq, Unpair, ReAck, PairRefresh, robotVars
  <2>2. \A f : Accept(f) => /\ robot'.psk = robot.psk /\ robot'.paired = robot.paired
                            /\ robot'.era = robot.era
    BY DEF Accept, RobotTypeOK, RobotType
  <2> QED
    BY <1>1, <2>1, <2>2 DEF Hear
<1>2. CASE PairSaved
  BY <1>2 DEF PairSaved, Saved, Radio, RobotTypeOK, RobotType
<1>3. CASE RefreshSaved
  BY <1>3 DEF RefreshSaved, Saved, Radio, RobotTypeOK, RobotType
<1>4. CASE UnpairSaved \/ GoodbyeSaved
  BY <1>4 DEF UnpairSaved, GoodbyeSaved, ClearPair, RobotTypeOK, RobotType
<1>5. CASE PairButton
  BY <1>5 DEF PairButton, ClearPair, RobotTypeOK, RobotType
<1>6. CASE PowerLoss
  BY <1>6, Restored
<1>7. CASE CounterSaved \/ WindowOpens \/ WindowCloses \/ LockoutEnds
             \/ \E t \in Task : FlashPut(t) \/ PutFails(t)
  BY <1>7 DEF CounterSaved, WindowOpens, WindowCloses, LockoutEnds, FlashPut, PutFails
<1> QED
  BY <1>1, <1>2, <1>3, <1>4, <1>5, <1>6, <1>7 DEF RobotNext

(* A refresh saves the next key of a request that was heard.                *)
LEMMA RefreshBegins ==
  ASSUME RobotOK, RoleInv, RobotNext, Radio'.op = "refresh", robot'.paired
  PROVE  \/ /\ Radio.op = "refresh" /\ Radio'.goal = Radio.goal
            /\ robot.paired /\ robot'.psk = robot.psk /\ robot'.era = robot.era
         \/ /\ robot' = robot /\ Radio'.goal.era = robot.era + 1
            /\ \E f \in OnAir({"refresh"}) : f.key = robot.psk
<1> USE Tasks
<1>1. CASE Radio.op = "refresh" /\ Radio'.goal = Radio.goal
  <2>1. ~RefreshSaved /\ ~PowerLoss
    <3>1. RefreshSaved => job' = [job EXCEPT !["radio"] = NoJob]
      BY DEF RefreshSaved
    <3>2. PowerLoss => job' = [t \in Task |-> NoJob]
      BY DEF PowerLoss
    <3> QED
      BY <3>1, <3>2, Over DEF RobotOK, Radio, NoJob
  <2> QED
    BY <1>1, <2>1, UsedMoves
<1>2. CASE Hear
  <2>1. ASSUME NEW f \in OnAir({"refresh"}), PairRefresh(f)
        PROVE  robot' = robot /\ Radio'.goal.era = robot.era + 1 /\ f.key = robot.psk
    <3> DEFINE key == DerivePairRefreshPsk(robot.psk, f.era)
               frame == AckFrame(key, f.era)
               goal == PairGoal(key, f.era)
    <3>1. /\ Save("radio", "refresh", SavePairRefreshOrder, goal, frame)
          /\ robot' = robot /\ f.key = robot.psk /\ f.era = robot.era + 1
      BY <2>1 DEF PairRefresh, Verified
    <3>2. goal.era = f.era
      BY DEF PairGoal
    <3> HIDE DEF key, frame, goal
    <3>3. Radio'.goal = goal
      BY <3>1, Begun DEF RobotOK, Radio
    <3> QED
      BY <3>1, <3>2, <3>3
  <2>2. ASSUME NEW f, PairReq(f) PROVE Radio'.op # "refresh" \/ UNCHANGED job
    <3>1. \/ UNCHANGED job
          \/ \E goal, frame : Save("radio", "pair", SavePairOrder, goal, frame)
      BY <2>2 DEF PairReq
    <3> QED
      BY <3>1, Begun DEF RobotOK, Radio
  <2>3. ASSUME NEW f, Accept(f) PROVE Radio'.op # "refresh" \/ UNCHANGED job
    <3>1. \/ UNCHANGED job
          \/ \E goal, frame : Save("radio", "counter", <<"ctr">>, goal, frame)
      BY <2>3 DEF Accept, TryConsume
    <3> QED
      BY <3>1, Begun DEF RobotOK, Radio
  <2>4. ASSUME NEW f, Unpair(f) PROVE Radio'.op # "refresh"
    <3>1. Save("radio", "unpair", ClearPairOrder, NoFlash, NoFrame)
      BY <2>4 DEF Unpair
    <3> QED
      BY <3>1, Begun DEF RobotOK, Radio
  <2>5. \A f : ReAck(f) => UNCHANGED job
    BY DEF ReAck, robotVars
  <2>6. UNCHANGED job => Radio.op = "refresh" /\ Radio'.goal = Radio.goal
    BY DEF Radio
  <2> QED
    BY <1>1, <1>2, <2>1, <2>2, <2>3, <2>4, <2>5, <2>6 DEF Hear
<1>3. CASE PairSaved \/ UnpairSaved \/ RefreshSaved \/ CounterSaved \/ PowerLoss
  <2>1. Radio' = NoJob
    BY <1>3, Over DEF PairSaved, UnpairSaved, RefreshSaved, CounterSaved, PowerLoss, RobotOK, Radio
  <2> QED
    BY <2>1 DEF NoJob
<1>4. CASE PairButton \/ GoodbyeSaved \/ WindowOpens
  <2>1. \/ \E op, order, goal, frame : Save("loop", op, order, goal, frame)
        \/ job' = [job EXCEPT !["loop"] = NoJob]
    BY <1>4 DEF PairButton, GoodbyeSaved, WindowOpens, ClearPair
  <2>2. Radio' = Radio
    BY <2>1, Begun, Over DEF RobotOK, Radio
  <2> QED
    BY <1>1, <2>2
<1>5. CASE WindowCloses \/ LockoutEnds
  BY <1>1, <1>5 DEF WindowCloses, LockoutEnds, Radio
<1>6. ASSUME NEW t \in Task, FlashPut(t) \/ PutFails(t)
      PROVE  Radio'.op = Radio.op /\ Radio'.goal = Radio.goal
  BY <1>6, Wrote DEF RobotOK, Radio
<1> QED
  BY <1>1, <1>2, <1>3, <1>4, <1>5, <1>6 DEF RobotNext

(* Answers of the robot are behind, or at, the key it uses. *)
LEMMA EraAnswers ==
  ASSUME RobotOK, RoleInv, RobotNext, NEW f \in air' \ air
  PROVE  /\ f.kind = "ack" => f.key # NoKey /\ UpTo(f.key, UsedKey')
         /\ f.kind = "pairOk" => f.key = MintKey(f.code)
<1>1. CASE PairSaved /\ Radio.op = "pair" /\ f = Radio.frame
  BY <1>1, Minting DEF RobotOK
<1>2. CASE RefreshSaved /\ Radio.op = "refresh" /\ Radio.ok /\ f = Radio.frame
  <2>1. f.kind = "ack" /\ f.key = Radio.goal.psk /\ f.key # NoKey
    BY <1>2 DEF RoleInv, AckFrame
  <2>2. robot'.psk = Radio.goal.psk
    BY <1>2 DEF RefreshSaved, Radio, RobotOK, RobotTypeOK, RobotType
  <2> QED
    BY <2>1, <2>2 DEF UsedKey, UpTo, SameLine
<1>3. CASE GoodbyeSaved /\ f.kind = "evict"
  BY <1>3
<1>4. CASE robot.paired /\ f = AckFrame(robot.psk, robot.era) /\ UNCHANGED robotVars
  BY <1>4 DEF RoleInv, AckFrame, UsedKey, UpTo, robotVars
<1> QED
  BY <1>1, <1>2, <1>3, <1>4, RobotAir DEF RoleInv

(* The robot's steps keep the eras. *)
LEMMA EraRobot ==
  ASSUME TypeOK, RoleInv, HeadInv, ~Overlap => SaveInv, EraBody, RobotNext, Clean',
         UNCHANGED phoneVars
  PROVE  EraBody'
<1> USE Tasks
<1>0. /\ RobotOK /\ UNCHANGED <<vault, row, refresh, enrol>> /\ GetPairPsk' = GetPairPsk
      /\ UsedKey \in Key /\ GetPairPsk \in Key /\ robot.era + 1 \in Nat
      /\ robot.paired => UsedKey = robot.psk /\ UsedKey # NoKey
  <2>1. RobotOK /\ UNCHANGED <<vault, row, refresh, enrol>> /\ GetPairPsk' = GetPairPsk
    BY DEF TypeOK, RobotOK, phoneVars, GetPairPsk
  <2>2. robot.psk \in Key /\ robot.era + 1 \in Nat /\ NoKey \in Key
    BY <2>1, Keys DEF RobotOK, RobotTypeOK, RobotType
  <2> QED
    BY <2>1, <2>2, TwoKeys DEF UsedKey, RoleInv
<1>1. air \subseteq air' /\ OnAir({"refresh"})' = OnAir({"refresh"})
  BY <1>0, RobotAir, RobotKinds DEF OnAir
<1>2. ASSUME Radio'.op = "refresh", robot'.paired
      PROVE  /\ Radio'.goal.era = robot'.era + 1
             /\ \E f \in OnAir({"refresh"}) : f.key = robot'.psk
  BY <1>0, <1>2, RefreshBegins DEF EraBody
<1>3. ASSUME \A f \in OnAir({"ack"}) : UpTo(f.key, UsedKey'),
             SameLine(UsedKey', GetPairPsk) =>
               UsedKey' = GetPairPsk \/ UsedKey' = Append(GetPairPsk, Len(GetPairPsk)),
             robot'.paired => Len(robot'.psk) = robot'.era + 1,
             enrol.at # "idle" /\ UsedKey' # NoKey /\ Head(UsedKey') = enrol.code =>
               UsedKey' = MintKey(enrol.code)
      PROVE  EraBody'
  <2>1. ASSUME NEW f \in OnAir({"ack"})' PROVE f.key # NoKey /\ UpTo(f.key, UsedKey')
    BY <1>0, <1>3, <2>1, EraAnswers DEF OnAir, EraBody
  <2>2. ASSUME NEW f \in OnAir({"pairOk"})' PROVE f.key = MintKey(f.code)
    BY <1>0, <2>2, EraAnswers DEF OnAir, EraBody
  <2>3. refresh.at = "vault" => \E f \in OnAir({"ack"})' : f.key = refresh.key
    BY <1>1 DEF OnAir, EraBody
  <2>4. /\ \A f \in OnAir({"refresh"})' : f.key # NoKey /\ UpTo(f.key, GetPairPsk')
        /\ row'.on => RowEra' /\ AttemptOK'
    BY <1>0, <1>1 DEF EraBody, RowEra, AttemptOK
  <2> QED
    BY <1>0, <1>1, <1>2, <1>3, <2>1, <2>2, <2>3, <2>4 DEF EraBody
<1>4. CASE robot'.psk = robot.psk /\ robot'.paired = robot.paired /\ robot'.era = robot.era
  <2>1. UsedKey' = UsedKey
    BY <1>4 DEF UsedKey
  <2> QED
    BY <1>3, <1>4, <2>1 DEF EraBody
<1>5. CASE ~robot'.paired
  <2>1. UsedKey' = NoKey
    BY <1>5 DEF UsedKey
  <2> QED
    BY <1>3, <1>5, <2>1 DEF UpTo, SameLine
<1>6. CASE Radio.op = "pair" /\ robot'.psk = Radio.goal.psk /\ robot'.paired /\ robot'.era = 0
  <2> DEFINE c == Radio.frame.code
  <2>1. c \in Nat /\ UsedKey' = MintKey(c) /\ Head(UsedKey') = c /\ robot'.psk = MintKey(c)
    BY <1>0, <1>6, Minting DEF RobotOK, UsedKey
  <2>2. c \in Open
    BY <1>0, <1>6, Minting DEF Open, RobotOK
  <2> HIDE DEF c
  <2>3. \A f \in OnAir({"ack"}) : ~SameLine(f.key, UsedKey')
    BY <2>1, <2>2 DEF HeadInv, OnAir, Minted, SameLine
  <2>4. ~SameLine(UsedKey', GetPairPsk)
    BY <2>1, <2>2 DEF HeadInv, Minted, SameLine, GetPairPsk
  <2>5. Len(robot'.psk) = robot'.era + 1
    <3>1. Len(MintKey(c)) = 1
      BY <2>1, Lines
    <3> QED
      BY <1>6, <2>1, <3>1
  <2> QED
    BY <1>3, <2>1, <2>3, <2>4, <2>5 DEF UpTo
<1>7. CASE /\ Radio.op = "refresh" /\ robot.paired /\ robot'.paired
           /\ robot'.psk = Radio.goal.psk /\ robot'.era = Radio.goal.era
  <2>1. /\ Radio.goal.psk = Append(robot.psk, Radio.goal.era) /\ Radio.goal.era = robot.era + 1
        /\ Len(robot.psk) = robot.era + 1
    BY <1>7 DEF RoleInv, EraBody
  <2>2. UsedKey' = Append(UsedKey, robot.era + 1) /\ Len(UsedKey) = robot.era + 1
    BY <1>0, <1>7, <2>1 DEF UsedKey
  <2>3. PICK f \in OnAir({"refresh"}) : f.key = UsedKey
    BY <1>0, <1>7 DEF EraBody
  <2>4. Len(GetPairPsk) \in Nat /\ Len(Append(GetPairPsk, Len(GetPairPsk))) = Len(GetPairPsk) + 1
    BY <1>0, Lines
  <2>5. SameLine(UsedKey, GetPairPsk) => UsedKey = GetPairPsk
    BY <2>3, <2>4 DEF EraBody, UpTo
  <2>6. /\ Len(UsedKey') = Len(UsedKey) + 1
        /\ \A j : SameLine(j, UsedKey') <=> SameLine(j, UsedKey)
        /\ \A j \in Key : UpTo(j, UsedKey) => UpTo(j, UsedKey')
    BY <1>0, <1>7, <2>2, Follows
  <2>7. \A g \in OnAir({"ack"}) : UpTo(g.key, UsedKey')
    <3>1. \A g \in OnAir({"ack"}) : g.key \in Key
      BY Fields DEF TypeOK, OnAir
    <3> QED
      BY <2>6, <3>1 DEF EraBody
  <2>8. SameLine(UsedKey', GetPairPsk) => UsedKey' = Append(GetPairPsk, Len(GetPairPsk))
    <3>1. SameLine(UsedKey', GetPairPsk) => SameLine(UsedKey, GetPairPsk)
      BY <2>6 DEF SameLine
    <3> QED
      BY <2>2, <2>5, <3>1
  <2>9. enrol.at # "idle" => Head(UsedKey') # enrol.code
    <3>1. Head(Append(UsedKey, robot.era + 1)) = Head(UsedKey)
      BY <1>0, <1>7, Lines
    <3> QED
      BY <2>2, <2>3, <3>1 DEF EraBody
  <2>10. Len(robot'.psk) = robot'.era + 1
    <3>1. UsedKey' = robot'.psk
      BY <1>7 DEF UsedKey
    <3> QED
      BY <1>7, <2>1, <2>2, <2>6, <3>1
  <2> QED
    BY <1>3, <2>7, <2>8, <2>9, <2>10
<1>8. CASE PowerLoss /\ Loads(flash) /\ robot'.psk = flash.psk /\ robot'.era = flash.era
  <2>1. ~Overlap /\ ~Torn /\ faults = 0
    <3>1. boots \in Nat /\ boots' = boots + 1 /\ faults' = faults
      BY <1>0, <1>8 DEF PowerLoss, RobotOK, RobotTypeOK
    <3>2. boots' # 0
      BY <3>1
    <3> QED
      BY <3>1, <3>2 DEF Clean
  <2>2. Matches(flash) /\ robot'.paired
    BY <1>8, <2>1, Restored DEF PowerLoss, SaveInv, Settled
  <2>3. robot.paired /\ robot'.psk = robot.psk /\ robot'.era = robot.era
    BY <1>8, <2>2 DEF Matches
  <2> QED
    BY <1>0, <1>4, <2>2, <2>3 DEF RobotOK, RobotTypeOK, RobotType
<1> QED
  BY <1>0, <1>4, <1>5, <1>6, <1>7, <1>8, UsedMoves

(* How the era of the row and the stage of a refresh go on. *)
LEMMA RowEras ==
  ASSUME PhoneOK, PhoneNext \/ UserPairs, kills = 0, kills' = 0
  PROVE  /\ \/ ~row'.on
            \/ row'.on = row.on /\ row'.era = row.era
            \/ PairingSavesRow /\ row'.era = 0
            \/ RefreshSavesRow /\ row.on /\ row'.era = refresh.era
         /\ \/ refresh'.at # "row" /\ refresh.at # "row"
            \/ refresh.at = "row" /\ refresh' = refresh
            \/ RefreshSavesPsk
            \/ RefreshSavesRow
<1> USE DEF PhoneOK, PhoneTypeOK
<1>0. \A r \in RowType : \A h :
        /\ PersistAhead(r, h).on = r.on /\ PersistAhead(r, h).era = r.era
        /\ Flush(r, h).on = r.on /\ Flush(r, h).era = r.era
  BY DEF SetCounter, PersistAhead, Flush, RowType
<1>1. CASE \/ \E kind \in SentKinds \ {"bye"} : Send(kind)
           \/ Background
  <2>1. Flush(row, holder) \in RowType
    BY CounterTypes
  <2> QED
    BY <1>0, <1>1, <2>1 DEF Send, Background, SendFrom, RefuseFrom
<1>2. CASE StartRefresh
  BY <1>0, <1>2 DEF StartRefresh
<1>3. CASE Answered
  <2>1. \A f : PairingSavesPsk(f) => UNCHANGED <<row, refresh>>
    BY DEF PairingSavesPsk
  <2>2. \A f : RefreshAnswered(f) => UNCHANGED row /\ refresh.at = "wait" /\ refresh'.at # "row"
    BY DEF RefreshAnswered, NoRefresh
  <2>3. \A f : Evicted(f) => row'.on = row.on /\ row'.era = row.era /\ refresh' = refresh
    BY DEF Evicted, RowType
  <2> QED
    BY <1>3, <2>1, <2>2, <2>3 DEF Answered
<1>4. CASE ForgetSends
  <2>1. Flush(row, Ensure(holder, row.ctr)) \in RowType
    BY CounterTypes DEF RowType
  <2> QED
    BY <1>0, <1>4, <2>1 DEF ForgetSends
<1>5. CASE RefreshSavesRow
  BY <1>5 DEF RefreshSavesRow, NoRow
<1>6. CASE PairingSavesRow
  BY <1>6 DEF PairingSavesRow, NoRow
<1>7. CASE UserPairs \/ Observe \/ PairingFails \/ ForgetTapped
  BY <1>7 DEF UserPairs, StartPairing, Observe, PairingFails, ForgetTapped
<1>8. CASE RefreshTimesOut \/ RefreshSavesPsk \/ CompletePairRefresh \/ InvalidateSession
  BY <1>8 DEF RefreshTimesOut, RefreshSavesPsk, CompletePairRefresh, InvalidateSession, NoRefresh
<1>9. CASE \E p \in {"forget", "evict"} : PurgeRow(p) \/ PurgeVault(p) \/ PurgeCounters(p)
  BY <1>9 DEF PurgeRow, PurgeVault, PurgeCounters, NoRow
<1>10. ~Kill
  BY DEF Kill
<1> QED
  BY <1>1, <1>2, <1>3, <1>4, <1>5, <1>6, <1>7, <1>8, <1>9, <1>10 DEF PhoneNext

(* The length of the key at rest and the era of the row. *)
LEMMA AppEra ==
  ASSUME PhoneOK, KeyInv, EvictInv, EraBody, PhoneNext \/ UserPairs, kills = 0, kills' = 0, row'.on
  PROVE  RowEra' /\ AttemptOK'
<1>0. vault \in Key /\ row.era \in Nat /\ row.era + 1 \in Nat
  BY DEF PhoneOK, PhoneTypeOK, RowType
<1>1. CASE PairingSavesRow
  <2>1. /\ enrol.at = "row" /\ refresh' = refresh /\ vault' = vault
        /\ row' = [NoRow EXCEPT !.on = TRUE]
    BY <1>1 DEF PairingSavesRow
  <2>2. row'.era = 0 /\ refresh'.at = "idle"
    BY <2>1 DEF NoRow, EvictInv
  <2>3. vault = MintKey(enrol.code) /\ enrol.code \in Nat
    BY <2>1 DEF EraBody, PhoneOK, PhoneTypeOK
  <2>4. Len(MintKey(enrol.code)) = 1
    BY <2>3, Lines
  <2> QED
    BY <2>1, <2>2, <2>3, <2>4 DEF RowEra, AttemptOK
<1>2. CASE RefreshSavesRow
  <2>1. refresh.at = "row" /\ refresh'.at = "holder" /\ vault' = vault
    BY <1>2 DEF RefreshSavesRow, PhoneOK, PhoneTypeOK
  <2>2. row.on /\ row'.era = refresh.era
    BY <1>2, <2>1 DEF RefreshSavesRow, NoRow
  <2>3. Len(vault) = row.era + 2 /\ refresh.era = row.era + 1
    BY <2>1, <2>2 DEF EraBody, RowEra, AttemptOK
  <2> QED
    BY <1>0, <2>1, <2>2, <2>3 DEF RowEra, AttemptOK, PhoneOK, PhoneTypeOK, RowType
<1>3. CASE RefreshSavesPsk /\ row.on /\ row'.era = row.era
  <2>1. refresh.at = "vault" /\ vault' = refresh.key /\ refresh'.at = "row" /\ refresh'.era = refresh.era
    BY <1>3 DEF RefreshSavesPsk, PhoneOK, PhoneTypeOK
  <2>2. vault' = Append(vault, row.era + 1) /\ Len(vault) = row.era + 1 /\ refresh.era = row.era + 1
    BY <1>3, <2>1 DEF EraBody, RowEra, AttemptOK
  <2>3. Len(Append(vault, row.era + 1)) = row.era + 2
    <3>1. Len(Append(vault, row.era + 1)) = Len(vault) + 1
      BY <1>0, Lines
    <3>2. (row.era + 1) + 1 = row.era + 2
      BY <1>0
    <3> QED
      BY <2>2, <3>1, <3>2
  <2>4. Len(vault') = row'.era + 2
    BY <1>3, <2>2, <2>3
  <2> QED
    BY <1>3, <2>1, <2>2, <2>4 DEF RowEra, AttemptOK
<1>4. CASE /\ row.on /\ row'.era = row.era /\ ~RefreshSavesPsk
           /\ \/ refresh'.at # "row" /\ refresh.at # "row"
              \/ refresh.at = "row" /\ refresh' = refresh
  <2>1. ~(\E f : PairingSavesPsk(f)) /\ ~(\E p \in {"forget", "evict"} : PurgeVault(p))
    BY <1>4 DEF PairingSavesPsk, PurgeVault, KeyInv
  <2>2. vault' = vault
    BY <1>4, <2>1, PhoneKeys
  <2>3. RowEra'
    BY <1>4, <2>2 DEF EraBody, RowEra
  <2>4. AttemptOK'
    BY <1>4, <2>2, Attempts DEF EraBody, AttemptOK
  <2> QED
    BY <2>3, <2>4
<1>5. RefreshSavesPsk => row' = row
  BY DEF RefreshSavesPsk
<1> QED
  BY <1>1, <1>2, <1>3, <1>4, <1>5, RowEras DEF PhoneOK, PhoneTypeOK, RowType

(* The app's steps keep the eras. *)
LEMMA EraPhone ==
  ASSUME TypeOK, KeyInv, HeadInv, RoleInv, EvictInv, EraBody, kills = 0, kills' = 0,
         PhoneNext \/ UserPairs, UNCHANGED robotVars
  PROVE  EraBody'
<1>0. /\ PhoneOK /\ UNCHANGED <<robot, core>> /\ UsedKey' = UsedKey /\ Radio' = Radio
      /\ UsedKey \in Key /\ GetPairPsk \in Key /\ refresh.era \in Nat /\ air \subseteq air'
  <2>1. PhoneOK /\ UNCHANGED <<robot, core, job>> /\ air \subseteq air' /\ refresh.era \in Nat
    BY PhoneAir DEF TypeOK, PhoneOK, PhoneTypeOK, robotVars
  <2>2. robot.psk \in Key /\ NoKey \in Key
    BY Keys DEF TypeOK, RobotTypeOK, RobotType
  <2> QED
    BY <2>1, <2>2, TwoKeys DEF UsedKey, Radio
<1>1. /\ OnAir({"ack"})' = OnAir({"ack"}) /\ OnAir({"pairOk"})' = OnAir({"pairOk"})
      /\ \A f \in OnAir({"refresh"})' : f \in OnAir({"refresh"}) \/ (StartRefresh /\ f.key = vault)
  BY PhoneAir DEF OnAir, Traffic
<1>2. StartRefresh => /\ row.on /\ vault # NoKey /\ vault' = vault /\ row'.on /\ enrol' = enrol
                      /\ refresh'.at = "wait" /\ GetPairPsk = vault /\ GetPairPsk' = vault
  <2>1. StartRefresh => row.on /\ vault # NoKey /\ vault' = vault /\ enrol' = enrol
                        /\ refresh'.at = "wait" /\ row'.on = row.on
    BY <1>0, CountersKeepRow DEF StartRefresh, GetPairPsk, PhoneOK, PhoneTypeOK
  <2> QED
    BY <2>1 DEF GetPairPsk
<1>3. \/ GetPairPsk' = GetPairPsk
      \/ GetPairPsk' = NoKey
      \/ PairingSavesRow /\ GetPairPsk = NoKey /\ GetPairPsk' = vault
      \/ RefreshSavesPsk /\ GetPairPsk # NoKey /\ GetPairPsk' = refresh.key
  BY <1>0, AppMoves
<1>4. /\ PairingSavesRow => enrol.at = "row" /\ ~StartRefresh /\ refresh' = refresh /\ refresh.at = "idle"
      /\ RefreshSavesPsk => refresh.at = "vault" /\ refresh'.at = "row" /\ ~StartRefresh
  BY <1>0 DEF PairingSavesRow, RefreshSavesPsk, EvictInv, PhoneOK, PhoneTypeOK, StartRefresh
<1>5. ASSUME RefreshSavesPsk, GetPairPsk # NoKey, GetPairPsk' = refresh.key
      PROVE  /\ SK!NextOf(GetPairPsk, GetPairPsk')
             /\ SameLine(UsedKey, GetPairPsk) => UsedKey = GetPairPsk'
             /\ SameLine(UsedKey, GetPairPsk') => SameLine(UsedKey, GetPairPsk)
             /\ \A j \in Key : UpTo(j, GetPairPsk) => UpTo(j, GetPairPsk')
  <2>1. GetPairPsk' = Append(GetPairPsk, refresh.era)
    BY <1>4, <1>5 DEF EraBody, AttemptOK, GetPairPsk
  <2>2. PICK f \in OnAir({"ack"}) : f.key = GetPairPsk'
    BY <1>4, <1>5 DEF EraBody
  <2>3. UpTo(GetPairPsk', UsedKey)
    BY <2>2 DEF EraBody
  <2>4. /\ SK!NextOf(GetPairPsk, GetPairPsk') /\ Len(GetPairPsk') = Len(GetPairPsk) + 1
        /\ Len(GetPairPsk) \in Nat
        /\ \A j : SameLine(j, GetPairPsk') <=> SameLine(j, GetPairPsk)
        /\ \A j \in Key : UpTo(j, GetPairPsk) => UpTo(j, GetPairPsk')
    BY <1>0, <1>5, <2>1, Follows
  <2>5. ASSUME SameLine(UsedKey, GetPairPsk) PROVE UsedKey = GetPairPsk'
    <3>1. GetPairPsk' = UsedKey \/ Len(GetPairPsk') < Len(UsedKey)
      <4>1. SameLine(UsedKey, GetPairPsk')
        BY <2>4, <2>5
      <4> QED
        BY <2>3, <4>1 DEF UpTo, SameLine
    <3>2. Len(UsedKey) = Len(GetPairPsk) \/ Len(UsedKey) = Len(GetPairPsk) + 1
      <4>1. Len(Append(GetPairPsk, Len(GetPairPsk))) = Len(GetPairPsk) + 1
        BY <1>0, <2>4, Lines
      <4> QED
        BY <2>5, <4>1 DEF EraBody
    <3> QED
      BY <2>4, <3>1, <3>2
  <2> QED
    BY <2>4, <2>5
<1>6. ASSUME PairingSavesRow, GetPairPsk = NoKey, GetPairPsk' = vault
      PROVE  /\ GetPairPsk' = MintKey(enrol.code) /\ Len(GetPairPsk') = 1
             /\ SameLine(UsedKey, GetPairPsk') => UsedKey = GetPairPsk'
             /\ \A f \in OnAir({"refresh"}) : ~SameLine(f.key, GetPairPsk')
  <2>1. vault = MintKey(enrol.code) /\ enrol.code \in Nat
    BY <1>0, <1>4, <1>6 DEF EraBody, PhoneOK, PhoneTypeOK
  <2>2. Len(MintKey(enrol.code)) = 1 /\ Head(MintKey(enrol.code)) = enrol.code
    BY <2>1, Lines
  <2> QED
    BY <1>4, <1>6, <2>1, <2>2 DEF EraBody, SameLine
<1>7. ASSUME NEW f \in OnAir({"refresh"})' PROVE f.key # NoKey /\ UpTo(f.key, GetPairPsk')
  <2>1. CASE f \in OnAir({"refresh"})
    <3>1. f.key \in Key /\ f.key # NoKey /\ UpTo(f.key, GetPairPsk)
      BY <2>1, Fields DEF TypeOK, OnAir, EraBody
    <3>2. GetPairPsk' = NoKey => UpTo(f.key, GetPairPsk')
      BY DEF UpTo, SameLine
    <3>3. ~SameLine(f.key, GetPairPsk') => UpTo(f.key, GetPairPsk')
      BY DEF UpTo
    <3>4. GetPairPsk' = GetPairPsk => UpTo(f.key, GetPairPsk')
      BY <3>1
    <3> QED
      BY <1>3, <1>5, <1>6, <2>1, <3>1, <3>2, <3>3, <3>4
  <2>2. CASE StartRefresh /\ f.key = vault
    BY <1>2, <2>2 DEF UpTo
  <2> QED
    BY <1>1, <2>1, <2>2
<1>8. SameLine(UsedKey, GetPairPsk') => UsedKey = GetPairPsk' \/ UsedKey = Append(GetPairPsk', Len(GetPairPsk'))
  <2>1. GetPairPsk' = NoKey => ~SameLine(UsedKey, GetPairPsk')
    BY DEF SameLine
  <2>2. GetPairPsk' = GetPairPsk =>
          (SameLine(UsedKey, GetPairPsk') => UsedKey = GetPairPsk' \/ UsedKey = Append(GetPairPsk', Len(GetPairPsk')))
    BY DEF EraBody
  <2> QED
    BY <1>3, <1>5, <1>6, <2>1, <2>2
<1>9. row'.on => RowEra' /\ AttemptOK'
  BY <1>0, AppEra
<1>10. refresh'.at = "vault" => \E f \in OnAir({"ack"})' : f.key = refresh'.key
  BY <1>0, <1>1, <1>2, Attempts DEF EraBody
<1>11. ASSUME enrol'.at # "idle"
       PROVE  /\ \A f \in OnAir({"refresh"})' : Head(f.key) # enrol'.code
              /\ UsedKey # NoKey /\ Head(UsedKey) = enrol'.code => UsedKey = MintKey(enrol'.code)
  <2>1. CASE enrol.at # "idle" /\ enrol'.code = enrol.code
    <3>1. ~StartRefresh
      BY <1>2, <2>1 DEF KeyInv
    <3> QED
      BY <1>1, <2>1, <3>1 DEF EraBody
  <2>2. CASE enrol'.code \in {core.code, 0} /\ core.code # 0 /\ OnAir({"refresh"})' = OnAir({"refresh"})
    <3>1. UsedKey # NoKey => Head(UsedKey) # enrol'.code
      <4>1. UsedKey # NoKey => Head(UsedKey) \in (1 .. shown) \ Open /\ core.code \in Open
        BY DEF UsedKey, HeadInv, Minted, Open
      <4> QED
        BY <2>2, <4>1
    <3>2. ASSUME NEW f \in OnAir({"refresh"}) PROVE Head(f.key) # enrol'.code
      <4>1. Head(f.key) \in (1 .. shown) \ Open /\ core.code \in Open
        BY DEF EraBody, HeadInv, OnAir, Minted, Open
      <4> QED
        BY <2>2, <4>1
    <3> QED
      BY <2>2, <3>1, <3>2
  <2> QED
    BY <1>0, <1>11, <2>1, <2>2, Attempts
<1>12. ASSUME enrol'.at = "row" PROVE vault' = MintKey(enrol'.code)
  <2>1. CASE enrol' = enrol
    <3>1. /\ purge = NoPurge /\ refresh.at = "idle" /\ ~(\E f : PairingSavesPsk(f))
      BY <1>12, <2>1 DEF KeyInv, EvictInv, PairingSavesPsk
    <3>2. vault' = vault
      BY <1>0, <1>4, <3>1, PhoneKeys DEF PurgeVault, NoPurge
    <3> QED
      BY <1>12, <2>1, <3>2 DEF EraBody
  <2>2. ASSUME NEW f \in OnAir({"pairOk"}), f.code = enrol.code, vault' = f.key, enrol'.code = enrol.code
        PROVE  vault' = MintKey(enrol'.code)
    BY <2>2 DEF EraBody
  <2> QED
    BY <1>0, <1>12, <2>1, <2>2, Attempts
<1>13. Radio'.op = "refresh" /\ robot'.paired =>
         /\ Radio'.goal.era = robot'.era + 1
         /\ \E f \in OnAir({"refresh"})' : f.key = robot'.psk
  BY <1>0 DEF EraBody, OnAir
<1> QED
  BY <1>0, <1>1, <1>7, <1>8, <1>9, <1>10, <1>11, <1>12, <1>13 DEF EraBody

(* At the start the ends share an enrolled key of era 0, or nothing.        *)
LEMMA EraInit == Init => EraBody
<1> SUFFICES ASSUME Init PROVE EraBody
  OBVIOUS
<1>1. /\ air = {} /\ refresh.at = "idle" /\ enrol.at = "idle" /\ Radio.op = "none"
  <2>1. air = {} /\ refresh.at = "idle" /\ enrol.at = "idle"
    BY DEF Init, PhoneInit, NoRefresh, NoEnrol
  <2>2. job = [t \in Task |-> NoJob]
    BY DEF Init, RobotInit
  <2> QED
    BY <2>1, <2>2, Tasks DEF Radio, NoJob
<1>2. Len(OldKey) = 1 /\ 0 + 1 = 1
  BY Lines DEF OldKey
<1>3. \/ ~robot.paired /\ ~row.on
      \/ robot.psk = OldKey /\ robot.era = 0 /\ vault = OldKey /\ row.era = 0
  <2>1. CASE OldPair
    <3> DEFINE f == [PairGoal(OldKey, 0) EXCEPT !.ctr = Start]
               r == [NoRow EXCEPT !.on = TRUE, !.ctr = Start + PersistEvery]
    <3>1. robot = RestorePair(f, FALSE) /\ row = r /\ vault = OldKey
      BY <2>1 DEF Init, RobotInit, PhoneInit
    <3>2. f.psk = OldKey /\ f.paired /\ f.era = 0 /\ r.era = 0
      BY DEF PairGoal, NoRow
    <3> HIDE DEF f, r
    <3>3. OldKey # NoKey
      BY DEF OldKey, MintKey, NoKey
    <3> QED
      BY <3>1, <3>2, <3>3 DEF RestorePair, Loads
  <2>2. CASE ~OldPair
    <3>1. robot = RestorePair(NoFlash, FALSE) /\ row = NoRow
      BY <2>2 DEF Init, RobotInit, PhoneInit
    <3> QED
      BY <3>1 DEF NoFlash, NoRow, RestorePair, Loads
  <2> QED
    BY <2>1, <2>2
<1>4. SameLine(UsedKey, GetPairPsk) => UsedKey = GetPairPsk
  BY <1>3 DEF UsedKey, GetPairPsk, SameLine
<1>5. /\ robot.paired => Len(robot.psk) = robot.era + 1
      /\ row.on => Len(vault) = row.era + 1
  <2>1. CASE ~robot.paired /\ ~row.on
    BY <2>1
  <2>2. CASE robot.psk = OldKey /\ robot.era = 0 /\ vault = OldKey /\ row.era = 0
    BY <1>2, <2>2
  <2> QED
    BY <1>3, <2>1, <2>2
<1> QED
  BY <1>1, <1>4, <1>5 DEF EraBody, RowEra, AttemptOK, OnAir

(* The app dies at most once in a step. *)
LEMMA KillsCount ==
  ASSUME PhoneNext \/ UserPairs
  PROVE  kills' = kills \/ kills' = kills + 1
<1>1. CASE \/ \E kind \in SentKinds \ {"bye"} : Send(kind)
           \/ Background \/ Kill \/ Observe \/ Answered \/ StartRefresh
  BY <1>1 DEF Send, Background, SendFrom, RefuseFrom, Kill, Observe, StartRefresh,
              Answered, PairingSavesPsk, RefreshAnswered, Evicted
<1>2. CASE \/ UserPairs \/ PairingFails \/ PairingSavesRow \/ ForgetTapped \/ ForgetSends
           \/ \E p \in {"forget", "evict"} : PurgeRow(p) \/ PurgeVault(p) \/ PurgeCounters(p)
  BY <1>2 DEF UserPairs, StartPairing, PairingFails, PairingSavesRow, ForgetTapped, ForgetSends,
              PurgeRow, PurgeVault, PurgeCounters
<1>3. CASE \/ RefreshTimesOut \/ RefreshSavesPsk \/ RefreshSavesRow \/ CompletePairRefresh
           \/ InvalidateSession
  BY <1>3 DEF RefreshTimesOut, RefreshSavesPsk, RefreshSavesRow, CompletePairRefresh,
              InvalidateSession
<1> QED
  BY <1>1, <1>2, <1>3 DEF PhoneNext

(* A run without kills, and clean, was so before. *)
LEMMA CalmBefore ==
  ASSUME TypeOK, [Next]_vars, Calm'
  PROVE  Calm
<1>1. CASE RobotNext /\ UNCHANGED phoneVars
  BY <1>1, CleanBefore DEF TypeOK, Calm, phoneVars
<1>2. CASE (PhoneNext \/ UserPairs) /\ UNCHANGED robotVars
  <2>1. kills \in Nat
    BY DEF TypeOK, PhoneTypeOK
  <2>2. kills' = kills \/ kills' = kills + 1
    BY <1>2, KillsCount
  <2>3. kills' = 0 => kills = 0
    BY <2>1, <2>2
  <2> QED
    BY <1>2, <2>3 DEF Calm, Clean, robotVars
<1>3. CASE UNCHANGED vars
  BY <1>3 DEF vars, robotVars, phoneVars, Calm, Clean
<1> QED
  BY <1>1, <1>2, <1>3 DEF Next

(* In a run without kills of the app, and in which no save of the robot     *)
(* fails, overlaps or is torn (or until the robot's first reboot): between   *)
(* two refreshes the ends agree on the era of a key they share, or the      *)
(* robot is ahead by the very key that the next attempt derives, so that a  *)
(* lost answer costs a retry and never the pair (PairRefreshUseCase with    *)
(* handlePairRefresh and reackPairRefresh of PairingTask).                  *)
THEOREM AttemptsFit == Spec => [](Calm => NextAttemptFits)
<1> DEFINE Known == TypeOK /\ RoleInv /\ HeadInv /\ KeyInv /\ EvictInv /\ (~Overlap => SaveInv)
<1>1. Init => EraInv
  BY EraInit DEF EraInv
<1>2. Known /\ EraInv /\ [Next]_vars => EraInv'
  <2> SUFFICES ASSUME Known, EraInv, [Next]_vars, Calm' PROVE EraBody'
    BY DEF EraInv
  <2>1. EraBody /\ kills = 0 /\ kills' = 0 /\ Clean'
    BY CalmBefore DEF EraInv, Calm
  <2>2. CASE RobotNext /\ UNCHANGED phoneVars
    BY <2>1, <2>2, EraRobot
  <2>3. CASE (PhoneNext \/ UserPairs) /\ UNCHANGED robotVars
    BY <2>1, <2>3, EraPhone
  <2>4. CASE UNCHANGED vars
    BY <2>1, <2>4 DEF vars, robotVars, phoneVars, EraBody, RowEra, AttemptOK, UsedKey, GetPairPsk,
                      UpTo, OnAir, Radio
  <2> QED
    BY <2>2, <2>3, <2>4 DEF Next
<1>3. Known /\ EraInv => (Calm => NextAttemptFits)
  <2> SUFFICES ASSUME TypeOK, EraBody, refresh.at = "idle", row.on, robot.paired,
                      SK!SameLine(vault, robot.psk)
               PROVE  \/ robot.psk = vault /\ robot.era = row.era
                      \/ /\ robot.psk = DerivePairRefreshPsk(vault, row.era + 1)
                         /\ robot.era = row.era + 1
    BY DEF EraInv, NextAttemptFits
  <2>1. UsedKey = robot.psk /\ GetPairPsk = vault /\ SameLine(UsedKey, GetPairPsk)
    BY DEF UsedKey, GetPairPsk, SK!SameLine, SameLine, SK!NoKey, NoKey
  <2>2. /\ Len(vault) = row.era + 1 /\ Len(robot.psk) = robot.era + 1
        /\ row.era \in Nat /\ robot.era \in Nat /\ vault \in Key
    BY DEF EraBody, RowEra, TypeOK, RobotTypeOK, PhoneTypeOK, RowType, RobotType
  <2>3. CASE robot.psk = vault
    BY <2>2, <2>3
  <2>4. CASE robot.psk = Append(vault, Len(vault))
    <3>1. Len(Append(vault, row.era + 1)) = Len(vault) + 1
      BY <2>2, Lines
    <3> QED
      BY <2>2, <2>4, <3>1 DEF DerivePairRefreshPsk
  <2> QED
    BY <2>1, <2>3, <2>4 DEF EraBody
<1>4. Spec => []Known
  BY LinesAlways, KeyAlways, SavesAlways, EvictAlways, SessionTypeCorrect, PTL
<1> HIDE DEF Known
<1> QED
  BY <1>1, <1>2, <1>3, <1>4, PTL DEF Spec

-----------------------------------------------------------------------------
(* Counters ahead.  A refresh restarts the count of each side at a time of  *)
(* its own, and a power loss within its save may restore the old count      *)
(* under the new key; the count restarts late enough, though, that what is  *)
(* left of the old one lies more than half the range ahead of the new.  To  *)
(* tell the two apart takes a bound q on how many of the app's frames may   *)
(* go unheard, or unsaved, in a row.                                        *)

(* The app has the new key and counts on from the old one.                  *)
Restarting == refresh.at \in {"row", "holder"}

Ahead(k) == SameLine(k, vault) /\ Len(vault) < Len(k)

(* A counter of a count not begun yet: none, or left from the old count.    *)
NewCount(q, c) == c = 0 \/ c >= Gate - Margin - q

(* What a counter heard or sent under the key k may be.                     *)
Fits(q, k, c) ==
  /\ c < Gate
  /\ row.on /\ k = vault =>
       /\ ~holder.on => c <= row.ctr
       /\ holder.on /\ Restarting => NewCount(q, c)
       /\ holder.on /\ ~Restarting => c <= holder.last \/ NewCount(q, c)
  /\ row.on /\ Ahead(k) => NewCount(q, c)
  /\ enrol.at # "idle" /\ k # NoKey /\ Head(k) = enrol.code => c = 0

(* The app's holder: adopted from the row, and near the gate while a        *)
(* refresh is under way, or while a request for one could be answered.      *)
HolderInv ==
  /\ ~sess.seen.on => sess.key = NoKey
  /\ row.on => ~Ahead(sess.key)
  /\ purge.evict = "rx" => ~row.on
  /\ row.on /\ sess.seen.on /\ ~holder.on => sess.seen.ctr = row.ctr
  /\ row.on /\ refresh.at \in {"wait", "vault", "row", "holder"} =>
       holder.on /\ holder.last >= Gate - Margin
  /\ row.on => \A f \in OnAir({"refresh"}) :
       f.key = vault => holder.on /\ holder.last >= Gate - Margin /\ ~Restarting

(* No frame is sent under a key of an open line. *)
SentInv ==
  /\ Minted(sess.key, shown, Open)
  /\ \A f \in OnAir(Traffic) : Minted(f.key, shown, Open)

(* One frame of the app: what it leaves behind. *)
LEMMA SentFrom ==
  ASSUME PhoneOK, NEW r, NEW h \in HolderType, h.on, NEW kind,
         SendFrom(r, h, kind) \/ RefuseFrom(r, h)
  PROVE  /\ UNCHANGED <<vault, enrol, refresh, kills>> /\ purge'.evict = purge.evict
         /\ sess'.seen = sess.seen /\ sess'.key = PskFor
         /\ \/ holder' = holder /\ row' = r
            \/ holder'.on /\ h.last <= holder'.last /\ row'.on = r.on
         /\ \/ air' = air
            \/ /\ air' = air \union {SignedFrame(kind, PskFor, sess.seen.era, holder'.last)}
               /\ holder'.on /\ holder'.last < Gate
<1> USE DEF PhoneOK, PhoneTypeOK
<1>1. sess'.seen = sess.seen /\ sess'.key = PskFor
  BY DEF SendFrom, RefuseFrom, Cached
<1>2. CASE SendFrom(r, h, kind)
  <2>1. holder' = Allocate(h) /\ row' = PersistAhead(r, Allocate(h))
    BY <1>2 DEF SendFrom
  <2>2. Allocate(h).on /\ Allocate(h).last = h.last + 1 /\ h.last \in Nat
    BY DEF Allocate, HolderType
  <2>3. PersistAhead(r, Allocate(h)).on = r.on
    BY DEF PersistAhead, SetCounter
  <2> QED
    BY <1>1, <1>2, <2>1, <2>2, <2>3 DEF SendFrom, CanAllocate
<1>3. CASE RefuseFrom(r, h)
  <2>1. h.last <= h.last
    BY DEF HolderType
  <2>2. purge'.evict = purge.evict
    BY <1>3 DEF RefuseFrom
  <2> QED
    BY <1>1, <1>3, <2>1, <2>2 DEF RefuseFrom
<1> QED
  BY <1>2, <1>3

(* The sends of the app: the holder goes on from where it is, or adopts the *)
(* row.                                                                     *)
LEMMA Sends ==
  ASSUME TypeOK, KeyInv, HolderInv,
         (\E kind \in SentKinds \ {"bye"} : Send(kind)) \/ Background
  PROVE  /\ UNCHANGED <<vault, enrol, refresh, kills>> /\ purge'.evict = purge.evict
         /\ sess.seen.on /\ sess'.seen = sess.seen /\ sess'.key = PskFor /\ row'.on = row.on
         /\ holder.on => holder'.on /\ holder.last <= holder'.last
         /\ row.on /\ ~holder.on =>
              \/ ~holder'.on /\ row'.ctr = row.ctr
              \/ holder'.on /\ row.ctr <= holder'.last
         /\ \A f \in air' : \/ f \in air
                            \/ f.kind \in Traffic /\ f.key = PskFor /\ f.ctr = holder'.last
                               /\ holder'.on /\ holder'.last < Gate
<1> USE DEF TypeOK, PhoneTypeOK, RowType, HolderType
<1>0. PhoneOK
  BY DEF PhoneOK
<1>1. PICK r, h, kind :
        /\ kind \in Traffic /\ h \in HolderType /\ h.on /\ r \in RowType /\ r.on = row.on
        /\ ~holder.on => r = row /\ h.last = sess.seen.ctr
        /\ holder.on => h.last = holder.last
        /\ SendFrom(r, h, kind) \/ RefuseFrom(r, h)
        /\ sess.seen.on
  <2>1. CASE \E kind \in SentKinds \ {"bye"} : Send(kind)
    <3> DEFINE h == Ensure(holder, sess.seen.ctr)
    <3>1. PICK kind \in SentKinds \ {"bye"} : Send(kind)
      BY <2>1
    <3>2. h \in HolderType /\ h.on /\ (~holder.on => h.last = sess.seen.ctr) /\ (holder.on => h.last = holder.last)
      BY DEF Ensure
    <3>3. SendFrom(row, h, kind) \/ RefuseFrom(row, h)
      BY <3>1 DEF Send
    <3>4. kind \in Traffic /\ sess.seen.on
      BY <3>1, PhoneAssumption DEF Send
    <3> QED
      BY <3>2, <3>3, <3>4
  <2>2. CASE Background
    <3> DEFINE clean == [holder EXCEPT !.since = 0]
               h == Ensure(clean, sess.seen.ctr)
               r == Flush(row, holder)
    <3>1. clean \in HolderType /\ clean.on = holder.on /\ clean.last = holder.last
      OBVIOUS
    <3>2. h \in HolderType /\ h.on /\ (~holder.on => h.last = sess.seen.ctr) /\ (holder.on => h.last = holder.last)
      BY <3>1 DEF Ensure
    <3>3. r \in RowType /\ r.on = row.on
      BY <1>0, CountersKeepRow, CounterTypes
    <3>4. ~holder.on => r = row
      BY DEF Flush
    <3>5. (SendFrom(r, h, "bye") \/ RefuseFrom(r, h)) /\ sess.seen.on
      BY <2>2 DEF Background
    <3>6. "bye" \in Traffic
      BY DEF Traffic
    <3> HIDE DEF h, r
    <3> QED
      BY <3>2, <3>3, <3>4, <3>5, <3>6
  <2> QED
    BY <2>1, <2>2
<1>2. /\ UNCHANGED <<vault, enrol, refresh, kills>> /\ purge'.evict = purge.evict
      /\ sess'.seen = sess.seen /\ sess'.key = PskFor
      /\ \/ holder' = holder /\ row' = r
         \/ holder'.on /\ h.last <= holder'.last /\ row'.on = r.on
      /\ \/ air' = air
         \/ /\ air' = air \union {SignedFrame(kind, PskFor, sess.seen.era, holder'.last)}
            /\ holder'.on /\ holder'.last < Gate
  BY <1>0, <1>1, SentFrom
<1>3. row'.on = row.on
  BY <1>1, <1>2
<1>4. holder.on => holder'.on /\ holder.last <= holder'.last
  BY <1>1, <1>2
<1>5. row.on /\ ~holder.on => \/ ~holder'.on /\ row'.ctr = row.ctr
                              \/ holder'.on /\ row.ctr <= holder'.last
  BY <1>1, <1>2 DEF HolderInv
<1>6. SignedFrame(kind, PskFor, sess.seen.era, holder'.last).kind = kind
      /\ SignedFrame(kind, PskFor, sess.seen.era, holder'.last).key = PskFor
      /\ SignedFrame(kind, PskFor, sess.seen.era, holder'.last).ctr = holder'.last
  BY DEF SignedFrame
<1> QED
  BY <1>1, <1>2, <1>3, <1>4, <1>5, <1>6

(* The other two steps that spend a counter. *)
LEMMA Spends ==
  ASSUME TypeOK, KeyInv, HolderInv, StartRefresh \/ ForgetSends
  PROVE  /\ UNCHANGED <<vault, enrol, kills, sess>> /\ row'.on = row.on
         /\ purge'.evict = purge.evict
         /\ holder.on => holder'.on /\ holder.last <= holder'.last
         /\ row.on /\ ~holder.on => holder'.on /\ row.ctr <= holder'.last
         /\ OnAir(Traffic)' = OnAir(Traffic)
         /\ \/ ForgetSends /\ refresh' = refresh /\ OnAir({"refresh"})' = OnAir({"refresh"})
            \/ /\ StartRefresh /\ refresh.at = "idle" /\ refresh'.at = "wait" /\ sess.seen.on
               /\ row.on /\ holder'.on /\ holder'.last >= Gate - Margin
<1>00. \A r \in RowType, g \in HolderType :
         Flush(r, g) \in RowType /\ Flush(r, g).on = r.on /\ PersistAhead(r, g).on = r.on
  BY CounterTypes, CountersKeepRow
<1> USE DEF TypeOK, PhoneTypeOK, RowType, HolderType
<1>0. PhoneOK
  BY DEF PhoneOK
<1>1. CASE StartRefresh
  <2>1. /\ holder.on /\ holder.last >= Gate - Margin /\ holder' = Allocate(holder)
        /\ refresh.at = "idle" /\ row' = PersistAhead(row, Allocate(holder)) /\ row.on
    BY <1>1 DEF StartRefresh, NeedsPairRefresh, GetPairPsk
  <2>2. Allocate(holder).on /\ Allocate(holder).last = holder.last + 1
    BY <2>1 DEF Allocate
  <2>3. row'.on = row.on
    BY <2>1, CountersKeepRow
  <2>4. OnAir(Traffic)' = OnAir(Traffic)
    BY <1>1 DEF StartRefresh, OnAir, SignedFrame, Traffic
  <2>5. Gate - Margin \in Nat
    BY PhoneAssumption, WireAssumption
  <2> QED
    BY <1>1, <2>1, <2>2, <2>3, <2>4, <2>5 DEF StartRefresh
<1>2. CASE ForgetSends
  <2> DEFINE h == Ensure(holder, row.ctr)
             clean == [h EXCEPT !.since = 0]
  <2>1. /\ h.on /\ h.last \in Nat /\ h \in HolderType /\ (holder.on => h.last = holder.last)
        /\ ~holder.on => h.last = row.ctr
    BY DEF Ensure
  <2>2. clean \in HolderType /\ clean.on /\ clean.last = h.last
    <3>1. ASSUME NEW g \in HolderType
          PROVE  LET n == [g EXCEPT !.since = 0]
                 IN n \in HolderType /\ n.on = g.on /\ n.last = g.last
      OBVIOUS
    <3> HIDE DEF h
    <3> QED
      BY <2>1, <3>1
  <2>3. Allocate(clean).on /\ Allocate(clean).last = h.last + 1
    BY <2>2 DEF Allocate
  <2>4. Flush(row, h) \in RowType /\ Flush(row, h).on = row.on
    <3> HIDE DEF h
    <3> QED
      BY <1>00, <2>1
  <2>5. PersistAhead(Flush(row, h), Allocate(clean)).on = row.on
    BY <2>4, CountersKeepRow
  <2>6. \/ ~(row.on /\ vault # NoKey) /\ UNCHANGED <<holder, row, air>>
        \/ /\ holder' = Allocate(clean) /\ row' = PersistAhead(Flush(row, h), Allocate(clean))
           /\ air' = air \union {SignedFrame("unpair", vault, 0, h.last + 1)}
        \/ holder' = clean /\ row' = Flush(row, h) /\ UNCHANGED air
    BY <1>2 DEF ForgetSends
  <2>7. OnAir(Traffic)' = OnAir(Traffic) /\ OnAir({"refresh"})' = OnAir({"refresh"})
    BY <2>6 DEF OnAir, SignedFrame, Traffic
  <2>8. UNCHANGED <<vault, enrol, kills, sess, refresh>> /\ purge'.evict = purge.evict
    BY <1>2 DEF ForgetSends
  <2>9. row.on => vault # NoKey
    BY DEF KeyInv
  <2> HIDE DEF h, clean
  <2>10. /\ row'.on = row.on
         /\ \/ ~row.on /\ holder' = holder
            \/ holder'.on /\ h.last <= holder'.last
    BY <2>1, <2>2, <2>3, <2>4, <2>5, <2>6, <2>9
  <2>11. holder.on => holder'.on /\ holder.last <= holder'.last
    BY <2>1, <2>10
  <2>12. row.on /\ ~holder.on => holder'.on /\ row.ctr <= holder'.last
    BY <2>1, <2>10
  <2> QED
    BY <1>2, <2>7, <2>8, <2>10, <2>11, <2>12
<1> QED
  BY <1>1, <1>2

(* What Fits says of a count that no refresh or pairing touches. *)
LEMMA FitsGrows ==
  ASSUME PhoneTypeOK, PhoneTypeOK', HolderInv, NEW q, NEW k, NEW c \in Nat, Fits(q, k, c),
         UNCHANGED <<vault, enrol>>, row'.on = row.on, Restarting' <=> Restarting,
         holder.on => holder'.on /\ holder.last <= holder'.last,
         row.on /\ ~holder.on => \/ ~holder'.on /\ row.ctr <= row'.ctr
                                 \/ holder'.on /\ row.ctr <= holder'.last
  PROVE  Fits(q, k, c)'
<1>1. /\ row.ctr \in Nat /\ row'.ctr \in Nat /\ holder.last \in Nat /\ holder'.last \in Nat
      /\ holder'.on \in BOOLEAN
  BY DEF PhoneTypeOK, RowType, HolderType
<1>2. Ahead(k)' <=> Ahead(k)
  BY DEF Ahead
<1>3. NewCount(q, c)' <=> NewCount(q, c)
  BY DEF NewCount
<1>4. row.on /\ Restarting => holder.on
  BY DEF HolderInv, Restarting
<1> HIDE DEF Ahead, NewCount, Restarting
<1>5. ASSUME row'.on, k = vault'
      PROVE  /\ ~holder'.on => c <= row'.ctr
             /\ holder'.on /\ Restarting' => NewCount(q, c)'
             /\ holder'.on /\ ~Restarting' => c <= holder'.last \/ NewCount(q, c)'
  <2>1. /\ ~holder.on => c <= row.ctr
        /\ holder.on /\ Restarting => NewCount(q, c)
        /\ holder.on /\ ~Restarting => c <= holder.last \/ NewCount(q, c)
    BY <1>5 DEF Fits
  <2>2. CASE holder.on
    BY <1>1, <1>3, <2>1, <2>2
  <2>3. CASE ~holder.on
    BY <1>1, <1>3, <1>4, <1>5, <2>1, <2>3
  <2> QED
    BY <2>2, <2>3
<1> QED
  BY <1>2, <1>3, <1>5 DEF Fits

(* The app's steps keep what may be said of a counter heard or sent. *)
LEMMA FitsPhone ==
  ASSUME TypeOK, TypeOK', KeyInv, EvictInv, LineInv, HolderInv, PhoneNext \/ UserPairs,
         kills = 0, kills' = 0, NEW q \in Nat, NEW k \in Key, NEW c \in Nat,
         core.code # 0 => Minted(k, shown, Open), Fits(q, k, c)
  PROVE  Fits(q, k, c)'
<1>0. PhoneTypeOK /\ PhoneTypeOK' /\ (NewCount(q, c)' <=> NewCount(q, c)) /\ NewCount(q, 0)
  BY DEF TypeOK, NewCount
<1>00. /\ row.on \in BOOLEAN /\ row.ctr \in Nat /\ holder.last \in Nat /\ holder.on \in BOOLEAN
       /\ vault \in Key /\ row'.ctr \in Nat /\ row'.on \in BOOLEAN
  BY <1>0 DEF PhoneTypeOK, RowType, HolderType
<1>1. CASE (\E kind \in SentKinds \ {"bye"} : Send(kind)) \/ Background
  <2>1. /\ UNCHANGED <<vault, enrol, refresh>> /\ row'.on = row.on
        /\ holder.on => holder'.on /\ holder.last <= holder'.last
        /\ row.on /\ ~holder.on => \/ ~holder'.on /\ row'.ctr = row.ctr
                                   \/ holder'.on /\ row.ctr <= holder'.last
    BY <1>1, Sends
  <2>2. (Restarting' <=> Restarting) /\ (row'.ctr = row.ctr => row.ctr <= row'.ctr)
    BY <1>00, <2>1 DEF Restarting
  <2> QED
    BY <1>0, <2>1, <2>2, FitsGrows
<1>2. CASE StartRefresh \/ ForgetSends
  <2>1. /\ UNCHANGED <<vault, enrol>> /\ row'.on = row.on
        /\ holder.on => holder'.on /\ holder.last <= holder'.last
        /\ row.on /\ ~holder.on => holder'.on /\ row.ctr <= holder'.last
    BY <1>2, Spends
  <2>2. Restarting' <=> Restarting
    BY <1>2, Spends DEF Restarting
  <2> QED
    BY <1>0, <2>1, <2>2, FitsGrows
<1>3. CASE \/ ForgetTapped \/ InvalidateSession \/ RefreshTimesOut
           \/ \E f \in OnAir({"ack"}) : RefreshAnswered(f)
  <2>1. UNCHANGED <<vault, enrol, holder, row>>
    BY <1>3 DEF ForgetTapped, InvalidateSession, RefreshTimesOut, RefreshAnswered
  <2>2. Restarting' <=> Restarting
    BY <1>0, <1>3 DEF ForgetTapped, InvalidateSession, RefreshTimesOut, RefreshAnswered, Restarting,
                      NoRefresh, PhoneTypeOK
  <2>3. holder.last <= holder'.last /\ row.ctr <= row'.ctr
    BY <1>00, <2>1
  <2> QED
    BY <1>0, <2>1, <2>2, <2>3, FitsGrows
<1>4. CASE Observe
  <2>1. UNCHANGED <<vault, enrol, row, refresh>> /\ (row.on => holder' = holder)
    BY <1>4 DEF Observe
  <2> QED
    BY <1>00, <2>1 DEF Fits, Ahead, NewCount, Restarting
<1>5. CASE (\E f \in OnAir({"pairOk"}) : PairingSavesPsk(f)) \/ PairingFails
  <2>1. ~row.on /\ row' = row /\ (enrol' = NoEnrol \/ (enrol'.code = enrol.code /\ enrol.at # "idle"))
    BY <1>0, <1>5 DEF PairingSavesPsk, PairingFails, KeyInv, PhoneTypeOK
  <2> QED
    BY <1>0, <2>1 DEF Fits, NoEnrol
<1>6. CASE PairingSavesRow
  <2>1. /\ enrol.at = "row" /\ row' = [NoRow EXCEPT !.on = TRUE] /\ enrol' = NoEnrol
        /\ UNCHANGED <<vault, refresh, holder>>
    BY <1>6 DEF PairingSavesRow
  <2>2. vault = MintKey(enrol.code) /\ enrol.code \in Nat /\ refresh.at = "idle"
    BY <1>0, <2>1 DEF LineInv, EvictInv, PhoneTypeOK
  <2>3. vault # NoKey /\ Head(vault) = enrol.code
    BY <2>2, Lines
  <2>4. k = vault \/ Ahead(k) => c = 0
    BY <2>1, <2>3 DEF Fits, Ahead, SameLine
  <2>5. Ahead(k)' <=> Ahead(k)
    BY <2>1 DEF Ahead
  <2>6. 0 <= row'.ctr
    BY <1>00
  <2>7. enrol'.at = "idle"
    BY <2>1 DEF NoEnrol
  <2> QED
    BY <1>0, <2>1, <2>4, <2>5, <2>6, <2>7 DEF Fits
<1>7. CASE UserPairs
  <2>1. /\ ~row.on /\ row' = row /\ core.code # 0 /\ enrol'.code \in {core.code, 0}
    BY <1>7 DEF UserPairs, StartPairing
  <2>2. k # NoKey => Head(k) # core.code /\ Head(k) # 0
    BY <2>1 DEF Minted, Open
  <2> QED
    BY <2>1, <2>2 DEF Fits
<1>8. CASE RefreshSavesPsk
  <2>1. /\ refresh.at = "vault" /\ vault' = refresh.key /\ refresh'.at = "row"
        /\ UNCHANGED <<row, holder, enrol>>
    BY <1>0, <1>8 DEF RefreshSavesPsk, PhoneTypeOK
  <2>2. CASE row.on
    <3>1. vault # NoKey /\ vault' = Append(vault, refresh.era) /\ refresh.era \in Nat /\ holder.on
      BY <1>0, <2>1, <2>2 DEF LineInv, GetPairPsk, KeyInv, PhoneTypeOK, HolderInv
    <3>2. SameLine(vault, vault') /\ Len(vault') = Len(vault) + 1 /\ Len(vault) \in Nat
          /\ \A j : SameLine(j, vault') <=> SameLine(j, vault)
      BY <1>00, <3>1, Follows
    <3>3. Len(k) \in Nat /\ (SameLine(vault, vault') => SameLine(vault', vault))
      BY Lines DEF SameLine
    <3>4. k = vault' \/ Ahead(k)' => Ahead(k)
      BY <3>2, <3>3 DEF Ahead
    <3> QED
      BY <1>0, <2>1, <2>2, <3>1, <3>4 DEF Fits
  <2>3. CASE ~row.on
    BY <2>1, <2>3 DEF Fits
  <2> QED
    BY <2>2, <2>3
<1>9. CASE RefreshSavesRow
  <2>1. refresh.at = "row" /\ refresh'.at = "holder" /\ UNCHANGED <<vault, holder, enrol>>
        /\ row'.on = row.on
    BY <1>0, <1>9 DEF RefreshSavesRow, PhoneTypeOK, RowType, NoRow
  <2>2. (row.on => holder.on) /\ Restarting /\ Restarting' /\ (Ahead(k)' <=> Ahead(k))
    BY <2>1 DEF HolderInv, Restarting, Ahead
  <2> QED
    BY <1>0, <2>1, <2>2 DEF Fits
<1>10. CASE CompletePairRefresh
  <2>1. /\ refresh.at = "holder" /\ UNCHANGED <<vault, row, enrol>> /\ (holder.on => holder'.on)
    BY <1>0, <1>10 DEF CompletePairRefresh, PhoneTypeOK, HolderType
  <2>2. refresh'.at = "done"
    BY <1>0, <1>10 DEF CompletePairRefresh, PhoneTypeOK
  <2>3. (row.on => holder.on) /\ Restarting /\ ~Restarting' /\ (Ahead(k)' <=> Ahead(k))
    BY <2>1, <2>2 DEF HolderInv, Restarting, Ahead
  <2> QED
    BY <1>0, <2>1, <2>3 DEF Fits
<1>11. CASE \E f \in OnAir({"evict"}) : Evicted(f)
  <2>1. UNCHANGED <<vault, holder, enrol, refresh>> /\ row'.on = row.on /\ row'.ctr = row.ctr
    BY <1>0, <1>11 DEF Evicted, PhoneTypeOK, RowType
  <2>2. (Restarting' <=> Restarting) /\ holder.last <= holder'.last /\ row.ctr <= row'.ctr
    BY <1>00, <2>1 DEF Restarting
  <2> QED
    BY <1>0, <2>1, <2>2, FitsGrows
<1>12. CASE \E p \in {"forget", "evict"} : PurgeRow(p) \/ PurgeVault(p)
  <2>1. ~row'.on /\ enrol' = enrol
    BY <1>12 DEF PurgeRow, PurgeVault, NoRow, KeyInv
  <2> QED
    BY <2>1 DEF Fits
<1>13. CASE \E p \in {"forget", "evict"} : PurgeCounters(p)
  <2>1. UNCHANGED <<vault, enrol, row, refresh>> /\ (row.on => holder' = holder)
    BY <1>13 DEF PurgeCounters, HolderInv
  <2> QED
    BY <1>00, <2>1 DEF Fits, Ahead, NewCount, Restarting
<1>14. CASE Kill
  BY <1>14 DEF Kill
<1> QED
  BY <1>1, <1>2, <1>3, <1>4, <1>5, <1>6, <1>7, <1>8, <1>9, <1>10, <1>11, <1>12, <1>13, <1>14
     DEF PhoneNext, Answered

(* The holder's invariant when nothing but the counters move. *)
LEMMA HolderGrows ==
  ASSUME PhoneTypeOK, PhoneTypeOK', HolderInv, vault' = vault, row'.on = row.on,
         holder.on => holder'.on /\ holder.last <= holder'.last,
         sess'.seen = sess.seen, sess.seen.on \/ sess'.key = sess.key,
         sess'.key \in {sess.key, NoKey} \/ (row.on => sess'.key = vault),
         purge'.evict = "rx" => purge.evict = "rx",
         row.on /\ ~holder'.on => row'.ctr = row.ctr,
         Restarting' <=> Restarting,
         refresh'.at \in {"wait", "vault"} =>
            \/ refresh.at \in {"wait", "vault"}
            \/ row.on => holder'.on /\ holder'.last >= Gate - Margin,
         \A f \in OnAir({"refresh"})' :
            \/ f \in OnAir({"refresh"})
            \/ row.on => holder'.on /\ holder'.last >= Gate - Margin /\ ~Restarting
  PROVE  HolderInv'
<1>1. /\ holder.last \in Nat /\ holder'.last \in Nat /\ holder.on \in BOOLEAN
      /\ holder'.on \in BOOLEAN /\ Gate - Margin \in Int
  BY PhoneAssumption, WireAssumption DEF PhoneTypeOK, HolderType
<1>2. row'.on => ~Ahead(sess.key)'
  <2>1. ~Ahead(vault) /\ ~Ahead(NoKey)
    BY Lines DEF Ahead, SameLine, PhoneTypeOK
  <2>2. Ahead(sess.key)' <=> Ahead(sess'.key)
    BY DEF Ahead
  <2> QED
    BY <2>1, <2>2 DEF HolderInv
<1>3. row'.on /\ sess'.seen.on /\ ~holder'.on => sess'.seen.ctr = row'.ctr
  BY <1>1 DEF HolderInv
<1>4. row'.on /\ refresh'.at \in {"wait", "vault", "row", "holder"} =>
        holder'.on /\ holder'.last >= Gate - Margin
  BY <1>1 DEF HolderInv, Restarting
<1>5. ASSUME row'.on, NEW f \in OnAir({"refresh"})', f.key = vault'
      PROVE  holder'.on /\ holder'.last >= Gate - Margin /\ ~Restarting'
  <2>1. CASE f \in OnAir({"refresh"})
    <3>1. holder.on /\ holder.last >= Gate - Margin /\ ~Restarting
      BY <1>5, <2>1 DEF HolderInv
    <3> QED
      BY <1>1, <3>1
  <2> QED
    BY <1>5, <2>1
<1> QED
  BY <1>2, <1>3, <1>4, <1>5 DEF HolderInv

(* The app's steps keep it. *)
LEMMA HolderPhone ==
  ASSUME TypeOK, TypeOK', KeyInv, EvictInv, LineInv, HolderInv, PhoneNext \/ UserPairs,
         kills = 0, kills' = 0
  PROVE  HolderInv'
<1>0. PhoneTypeOK /\ PhoneTypeOK' /\ PhoneOK
  BY DEF TypeOK, PhoneOK
<1>00. /\ row.on \in BOOLEAN /\ row.ctr \in Nat /\ holder.last \in Nat /\ holder.on \in BOOLEAN
       /\ vault \in Key /\ row'.ctr \in Nat /\ row'.on \in BOOLEAN /\ sess.key \in Key
  BY <1>0 DEF PhoneTypeOK, RowType, HolderType
<1>1. CASE (\E kind \in SentKinds \ {"bye"} : Send(kind)) \/ Background
  <2>1. /\ UNCHANGED <<vault, refresh>> /\ row'.on = row.on
        /\ purge'.evict = purge.evict
        /\ sess.seen.on /\ sess'.seen = sess.seen /\ sess'.key = PskFor
        /\ holder.on => holder'.on /\ holder.last <= holder'.last
        /\ row.on /\ ~holder'.on => row'.ctr = row.ctr
        /\ \A f \in air' : f \in air \/ f.kind \in Traffic
    BY <1>00, <1>1, Sends
  <2>2. PskFor \in {sess.key, NoKey} \/ (row.on => PskFor = vault)
    BY DEF PskFor, GetPairPsk
  <2>3. Restarting' <=> Restarting
    BY <2>1 DEF Restarting
  <2>4. \A f \in OnAir({"refresh"})' : f \in OnAir({"refresh"})
    BY <2>1 DEF OnAir, Traffic
  <2> QED
    BY <1>0, <2>1, <2>2, <2>3, <2>4, HolderGrows
<1>2. CASE StartRefresh \/ ForgetSends
  <2>1. /\ vault' = vault /\ sess' = sess /\ row'.on = row.on
        /\ purge'.evict = purge.evict
        /\ holder.on => holder'.on /\ holder.last <= holder'.last
        /\ row.on /\ ~holder.on => holder'.on /\ row.ctr <= holder'.last
        /\ \/ refresh' = refresh /\ OnAir({"refresh"})' = OnAir({"refresh"})
           \/ /\ refresh.at = "idle" /\ refresh'.at = "wait"
              /\ holder'.on /\ holder'.last >= Gate - Margin
    BY <1>2, Spends
  <2>2. Restarting' <=> Restarting
    BY <2>1 DEF Restarting
  <2>3. refresh.at = "idle" => ~Restarting
    BY DEF Restarting
  <2>4. sess'.key \in {sess.key, NoKey}
    BY <2>1
  <2> QED
    BY <1>0, <1>00, <2>1, <2>2, <2>3, <2>4, HolderGrows
<1>3. CASE \/ ForgetTapped \/ InvalidateSession \/ RefreshTimesOut
           \/ \E f \in OnAir({"ack"}) : RefreshAnswered(f)
  <2>1. UNCHANGED <<vault, enrol, holder, row, air>>
    BY <1>3 DEF ForgetTapped, InvalidateSession, RefreshTimesOut, RefreshAnswered
  <2>2. (Restarting' <=> Restarting) /\ (refresh'.at \in {"wait", "vault"} => refresh.at \in {"wait", "vault"})
    BY <1>0, <1>3 DEF ForgetTapped, InvalidateSession, RefreshTimesOut, RefreshAnswered, Restarting,
                      NoRefresh, PhoneTypeOK
  <2>3. holder.last <= holder'.last
    BY <1>00, <2>1
  <2>4. /\ sess'.seen = sess.seen /\ sess'.key \in {sess.key, NoKey}
        /\ sess.seen.on \/ sess'.key = sess.key
        /\ purge'.evict = purge.evict
    BY <1>0, <1>3 DEF ForgetTapped, InvalidateSession, RefreshTimesOut, RefreshAnswered, PhoneTypeOK,
                      HolderInv
  <2>5. \A f \in OnAir({"refresh"})' : f \in OnAir({"refresh"})
    BY <2>1 DEF OnAir
  <2> QED
    BY <1>0, <2>1, <2>2, <2>3, <2>4, <2>5, HolderGrows
<1>4. CASE Observe
  <2>1. /\ UNCHANGED <<vault, row, refresh, purge, air>> /\ (row.on => holder' = holder)
        /\ sess'.seen = row /\ (~row.on => sess'.key = NoKey)
        /\ sess'.key \in {sess.key, NoKey}
    BY <1>0, <1>4 DEF Observe, NoSess, PhoneTypeOK
  <2>2. ~Ahead(NoKey)
    BY DEF Ahead, SameLine
  <2> QED
    BY <2>1, <2>2 DEF HolderInv, Ahead, Restarting, OnAir
<1>5. CASE (\E f \in OnAir({"pairOk"}) : PairingSavesPsk(f)) \/ PairingFails \/ UserPairs
  <2>1. ~row.on /\ row' = row /\ UNCHANGED <<sess, purge>>
    BY <1>0, <1>5 DEF PairingSavesPsk, PairingFails, UserPairs, StartPairing, KeyInv, PhoneTypeOK
  <2> QED
    BY <2>1 DEF HolderInv
<1>6. CASE PairingSavesRow
  <2>1. /\ enrol.at = "row" /\ UNCHANGED <<vault, refresh, holder, sess, purge, air>>
    BY <1>6 DEF PairingSavesRow
  <2>2. /\ vault = MintKey(enrol.code) /\ enrol.code \in Nat /\ refresh.at = "idle"
        /\ ~sess.seen.on /\ purge.evict = "idle"
        /\ \A f \in OnAir({"refresh"}) : Head(f.key) # enrol.code
    BY <1>0, <2>1 DEF LineInv, EvictInv, KeyInv, NoPurge, PhoneTypeOK
  <2>3. Head(vault) = enrol.code
    BY <2>2, Lines
  <2>4. ~Ahead(sess.key)'
    BY <2>1, <2>2 DEF HolderInv, Ahead, SameLine
  <2>5. \A f \in OnAir({"refresh"})' : f.key # vault
    BY <2>1, <2>2, <2>3 DEF OnAir
  <2> QED
    BY <2>1, <2>2, <2>4, <2>5 DEF HolderInv
<1>8. CASE RefreshSavesPsk
  <2>1. /\ refresh.at = "vault" /\ vault' = refresh.key /\ refresh'.at = "row"
        /\ UNCHANGED <<row, holder, enrol, sess, purge, air>>
    BY <1>0, <1>8 DEF RefreshSavesPsk, PhoneTypeOK
  <2>2. CASE row.on
    <3>1. vault # NoKey /\ vault' = Append(vault, refresh.era) /\ refresh.era \in Nat
          /\ holder.on /\ holder.last >= Gate - Margin /\ GetPairPsk = vault
      BY <1>0, <2>1, <2>2 DEF LineInv, GetPairPsk, KeyInv, PhoneTypeOK, HolderInv
    <3>2. SameLine(vault, vault') /\ Len(vault') = Len(vault) + 1 /\ Len(vault) \in Nat
          /\ \A j : SameLine(j, vault') <=> SameLine(j, vault)
      BY <1>00, <3>1, Follows
    <3>3. Len(sess.key) \in Nat /\ SameLine(vault', vault)
      BY <1>00, <3>2, Lines DEF SameLine
    <3>4. Ahead(sess.key)' => Ahead(sess.key)
      BY <2>1, <3>2, <3>3 DEF Ahead
    <3>5. ASSUME NEW f \in OnAir({"refresh"})' PROVE f.key # vault'
      <4>1. UpTo(f.key, vault)
        BY <2>1, <3>1 DEF LineInv, OnAir
      <4> QED
        BY <3>2, <3>3, <4>1 DEF UpTo
    <3> QED
      BY <2>1, <2>2, <3>1, <3>4, <3>5 DEF HolderInv
  <2>3. CASE ~row.on
    BY <2>1, <2>3 DEF HolderInv
  <2> QED
    BY <2>2, <2>3
<1>9. CASE RefreshSavesRow
  <2>1. refresh.at = "row" /\ refresh'.at = "holder"
        /\ UNCHANGED <<vault, holder, enrol, sess, purge, air>> /\ row'.on = row.on
    BY <1>0, <1>9 DEF RefreshSavesRow, PhoneTypeOK, RowType, NoRow
  <2>2. Restarting /\ Restarting' /\ (Ahead(sess.key)' <=> Ahead(sess.key))
    BY <2>1 DEF Restarting, Ahead
  <2> QED
    BY <2>1, <2>2 DEF HolderInv, OnAir
<1>10. CASE CompletePairRefresh
  <2>1. /\ refresh.at = "holder" /\ UNCHANGED <<vault, row, enrol, sess, purge, air>>
        /\ (holder.on => holder'.on)
    BY <1>0, <1>10 DEF CompletePairRefresh, PhoneTypeOK, HolderType
  <2>2. refresh'.at = "done"
    BY <1>0, <1>10 DEF CompletePairRefresh, PhoneTypeOK
  <2>3. Restarting /\ (Ahead(sess.key)' <=> Ahead(sess.key))
    BY <2>1, <2>2 DEF Restarting, Ahead
  <2> QED
    BY <2>1, <2>2, <2>3 DEF HolderInv, OnAir
<1>11. CASE \E f \in OnAir({"evict"}) : Evicted(f)
  <2>1. UNCHANGED <<vault, holder, refresh, sess, air>> /\ row'.on = row.on /\ row'.ctr = row.ctr
        /\ purge'.evict = "row"
    BY <1>0, <1>11 DEF Evicted, PhoneTypeOK, RowType
  <2>2. (Restarting' <=> Restarting) /\ (Ahead(sess.key)' <=> Ahead(sess.key))
    BY <2>1 DEF Restarting, Ahead
  <2> QED
    BY <2>1, <2>2 DEF HolderInv, OnAir
<1>12. CASE \E p \in {"forget", "evict"} : PurgeRow(p) \/ PurgeVault(p)
  <2>1. ~row'.on /\ sess' = sess
    BY <1>12 DEF PurgeRow, PurgeVault, NoRow, KeyInv
  <2> QED
    BY <2>1 DEF HolderInv
<1>13. CASE \E p \in {"forget", "evict"} : PurgeCounters(p)
  <2>1. UNCHANGED <<vault, row, refresh, sess, air>> /\ (row.on => holder' = holder)
        /\ (purge'.evict = "rx" => purge.evict = "rx")
    BY <1>0, <1>13 DEF PurgeCounters, HolderInv, PhoneTypeOK
  <2>2. (Restarting' <=> Restarting) /\ (Ahead(sess.key)' <=> Ahead(sess.key))
    BY <2>1 DEF Restarting, Ahead
  <2> QED
    BY <2>1, <2>2 DEF HolderInv, OnAir
<1>14. CASE Kill
  BY <1>14 DEF Kill
<1> QED
  BY <1>1, <1>2, <1>3, <1>4, <1>5, <1>6, <1>8, <1>9, <1>10, <1>11, <1>12, <1>13, <1>14
     DEF PhoneNext, Answered

(* Only the sends put traffic on the air, or load a key. *)
LEMMA Quiet ==
  ASSUME TypeOK, KeyInv, HolderInv, PhoneNext \/ UserPairs
  PROVE  \/ (\E kind \in SentKinds \ {"bye"} : Send(kind)) \/ Background
         \/ OnAir(Traffic)' = OnAir(Traffic) /\ sess'.key \in {sess.key, NoKey}
<1> USE DEF TypeOK, PhoneTypeOK
<1>1. CASE StartRefresh \/ ForgetSends
  BY <1>1, Spends
<1>2. CASE UserPairs
  BY <1>2 DEF UserPairs, StartPairing, PairReqFrame, OnAir, Traffic
<1>3. CASE Observe \/ PairingFails \/ PairingSavesRow \/ Answered
  <2>1. air' = air /\ sess'.key \in {sess.key, NoKey}
    BY <1>3 DEF Observe, PairingFails, PairingSavesRow, Answered, PairingSavesPsk, RefreshAnswered,
                Evicted, NoSess
  <2> QED
    BY <2>1 DEF OnAir
<1>4. CASE \/ RefreshTimesOut \/ RefreshSavesPsk \/ RefreshSavesRow
           \/ CompletePairRefresh \/ InvalidateSession \/ ForgetTapped \/ Kill
  <2>1. air' = air
    BY <1>4 DEF RefreshTimesOut, RefreshSavesPsk, RefreshSavesRow, CompletePairRefresh,
                InvalidateSession, ForgetTapped, Kill
  <2>2. InvalidateSession => sess'.key = NoKey
    BY DEF InvalidateSession
  <2>3. Kill => sess'.key = NoKey
    BY DEF Kill, NoSess
  <2>4. sess'.key \in {sess.key, NoKey}
    BY <1>4, <2>2, <2>3 DEF RefreshTimesOut, RefreshSavesPsk, RefreshSavesRow,
                            CompletePairRefresh, ForgetTapped
  <2> QED
    BY <2>1, <2>4 DEF OnAir
<1>5. CASE \E p \in {"forget", "evict"} : PurgeRow(p) \/ PurgeVault(p) \/ PurgeCounters(p)
  <2>1. air' = air /\ sess' = sess
    BY <1>5 DEF PurgeRow, PurgeVault, PurgeCounters
  <2> QED
    BY <2>1 DEF OnAir
<1> QED
  BY <1>1, <1>2, <1>3, <1>4, <1>5 DEF PhoneNext

(* What the app sends is of a line that is not open, and fits.              *)
LEMMA SentPhone ==
  ASSUME TypeOK, TypeOK', KeyInv, HeadInv, HolderInv, SentInv, PhoneNext \/ UserPairs,
         UNCHANGED robotVars, NEW q \in Nat
  PROVE  /\ SentInv'
         /\ \A f \in OnAir(Traffic)' : f \in OnAir(Traffic) \/ Fits(q, f.key, f.ctr)'
<1>1. shown' = shown /\ Open' = Open /\ shown \in Nat
  BY DEF robotVars, Open, Radio, TypeOK, RobotTypeOK
<1>2. \A k : Minted(k, shown, Open)' <=> Minted(k, shown, Open)
  BY <1>1 DEF Minted
<1>3. Minted(NoKey, shown, Open) /\ Minted(vault, shown, Open) /\ Minted(sess.key, shown, Open)
  BY DEF Minted, HeadInv, SentInv
<1>4. CASE (\E kind \in SentKinds \ {"bye"} : Send(kind)) \/ Background
  <2>1. /\ UNCHANGED <<vault, enrol, refresh>> /\ row'.on = row.on
        /\ sess.seen.on /\ sess'.key = PskFor
        /\ holder.on => holder'.on /\ holder.last <= holder'.last
        /\ \A f \in air' : \/ f \in air
                           \/ f.kind \in Traffic /\ f.key = PskFor /\ f.ctr = holder'.last
                              /\ holder'.on /\ holder'.last < Gate
    BY <1>4, Sends
  <2>2. PskFor \in {sess.key, NoKey, vault}
    BY DEF PskFor, GetPairPsk
  <2>3. Minted(PskFor, shown, Open)
    BY <1>3, <2>2
  <2>4. SentInv'
    BY <1>2, <2>1, <2>3 DEF SentInv, OnAir
  <2>5. row.on => ~Ahead(PskFor)
    <3>1. ~Ahead(vault) /\ ~Ahead(NoKey)
      BY Lines DEF Ahead, SameLine, TypeOK, PhoneTypeOK
    <3> QED
      BY <2>2, <3>1 DEF HolderInv
  <2>6. enrol.at = "idle"
    BY <2>1 DEF KeyInv
  <2>7. /\ holder.last \in Nat /\ holder'.last \in Nat /\ holder.on \in BOOLEAN
        /\ Gate - Margin \in Int
    BY PhoneAssumption, WireAssumption DEF TypeOK, PhoneTypeOK, HolderType
  <2>8. row.on /\ Restarting => holder'.last >= Gate - Margin - q
    BY <2>1, <2>7 DEF HolderInv, Restarting
  <2>9. ASSUME NEW f \in OnAir(Traffic)', f \notin OnAir(Traffic) PROVE Fits(q, f.key, f.ctr)'
    <3>1. f.key = PskFor /\ f.ctr = holder'.last /\ holder'.on /\ f.ctr < Gate
      BY <2>1, <2>9 DEF OnAir
    <3>2. (Restarting' <=> Restarting) /\ \A k : SameLine(k, vault') /\ Len(vault') < Len(k) <=> Ahead(k)
      BY <2>1 DEF Restarting, Ahead
    <3>3. ~(row'.on /\ SameLine(f.key, vault') /\ Len(vault') < Len(f.key))
      BY <2>1, <2>5, <3>1, <3>2
    <3>4. row'.on /\ Restarting' => f.ctr >= Gate - Margin - q
      BY <2>1, <2>8, <3>1, <3>2
    <3>5. f.ctr <= holder'.last
      BY <2>7, <3>1
    <3>6. enrol'.at = "idle"
      BY <2>1, <2>6
    <3> QED
      BY <3>1, <3>3, <3>4, <3>5, <3>6 DEF Fits, NewCount, Ahead
  <2> QED
    BY <2>4, <2>9
<1>5. CASE OnAir(Traffic)' = OnAir(Traffic) /\ sess'.key \in {sess.key, NoKey}
  BY <1>2, <1>3, <1>5 DEF SentInv
<1> QED
  BY <1>4, <1>5, Quiet

-----------------------------------------------------------------------------
(* What is heard, saved and being saved is no further ahead than that.      *)

CountBody(q) ==
  /\ HolderInv /\ SentInv
  /\ \A f \in OnAir(Traffic) : Fits(q, f.key, f.ctr)
  /\ robot.paired => Fits(q, robot.psk, robot.fromApp)
  /\ Loads(flash) => Fits(q, flash.psk, flash.ctr)
  /\ Radio.op = "counter" => Fits(q, flash.psk, Radio.goal.ctr)
  /\ Loop.op = "goodbye" => Loop.goal.ctr = flash.ctr
  /\ core.code # 0 \/ Radio.op = "pair" => flash.ctr = 0

(* The app's steps keep it. *)
LEMMA CountPhone ==
  ASSUME TypeOK, TypeOK', KeyInv, HeadInv, EvictInv, FlashInv, LineInv, NEW q \in Nat, CountBody(q),
         PhoneNext \/ UserPairs, UNCHANGED robotVars, kills = 0, kills' = 0
  PROVE  CountBody(q)'
<1>1. UNCHANGED <<robot, core, flash, job>> /\ Radio' = Radio /\ Loop' = Loop
      /\ (Loads(flash)' <=> Loads(flash))
  BY DEF robotVars, Radio, Loop, Loads
<1>2. /\ robot.psk \in Key /\ robot.fromApp \in Nat /\ flash.psk \in Key /\ flash.ctr \in Nat
      /\ Radio.goal.ctr \in Nat
      /\ \A f \in OnAir(Traffic) : f.key \in Key /\ f.ctr \in Nat
  BY Tasks, Fields DEF TypeOK, RobotTypeOK, RobotType, FlashType, JobType, Radio, OnAir, Traffic
<1>3. HolderInv /\ SentInv
  BY DEF CountBody
<1>4. HolderInv'
  BY <1>3, HolderPhone
<1>5. SentInv' /\ \A f \in OnAir(Traffic)' : f \in OnAir(Traffic) \/ Fits(q, f.key, f.ctr)'
  BY <1>3, SentPhone
<1>6. ASSUME NEW f \in OnAir(Traffic)' PROVE Fits(q, f.key, f.ctr)'
  <2>1. CASE f \in OnAir(Traffic)
    <3>1. Minted(f.key, shown, Open) /\ Fits(q, f.key, f.ctr)
      BY <2>1 DEF CountBody, SentInv
    <3> QED
      BY <1>2, <1>3, <2>1, <3>1, FitsPhone
  <2> QED
    BY <1>5, <2>1
<1>7. ASSUME robot.paired PROVE Fits(q, robot.psk, robot.fromApp)'
  <2>0. PICK k, c : k = robot.psk /\ c = robot.fromApp
    OBVIOUS
  <2>1. Minted(k, shown, Open) /\ Fits(q, k, c) /\ k \in Key /\ c \in Nat
    BY <2>0, <1>2, <1>7 DEF CountBody, HeadInv
  <2>2. robot'.psk = k /\ robot'.fromApp = c
    BY <1>1, <2>0
  <2>3. Fits(q, k, c)'
    BY <1>3, <2>1, FitsPhone
  <2> QED
    BY <2>2, <2>3 DEF Fits, NewCount, Ahead
<1>8. ASSUME Loads(flash) PROVE Fits(q, flash.psk, flash.ctr)'
  <2>0. PICK k, c : k = flash.psk /\ c = flash.ctr
    OBVIOUS
  <2>1. core.code = 0 /\ Fits(q, k, c) /\ k \in Key /\ c \in Nat
    BY <2>0, <1>2, <1>8 DEF CountBody, FlashInv, Blank
  <2>2. flash'.psk = k /\ flash'.ctr = c
    BY <1>1, <2>0
  <2>3. Fits(q, k, c)'
    BY <1>3, <2>1, FitsPhone
  <2> QED
    BY <2>2, <2>3 DEF Fits, NewCount, Ahead
<1>9. ASSUME Radio.op = "counter" PROVE Fits(q, flash.psk, Radio.goal.ctr)'
  <2>0. PICK k, c : k = flash.psk /\ c = Radio.goal.ctr
    OBVIOUS
  <2>1. core.code = 0 /\ Fits(q, k, c) /\ k \in Key /\ c \in Nat
    BY <2>0, <1>2, <1>9, Tasks DEF CountBody, FlashInv, Settled, Busy, Radio
  <2>2. flash'.psk = k /\ Radio'.goal.ctr = c
    BY <1>1, <2>0
  <2>3. Fits(q, k, c)'
    BY <1>3, <2>1, FitsPhone
  <2> QED
    BY <2>2, <2>3 DEF Fits, NewCount, Ahead
<1> QED
  BY <1>1, <1>4, <1>5, <1>6, <1>7, <1>8, <1>9 DEF CountBody

(* The count of a pair just made, or of a key just switched to. *)
LEMMA FitsZero ==
  ASSUME PhoneTypeOK, NEW q, NEW k
  PROVE  Fits(q, k, 0)
<1>1. row.ctr \in Nat /\ 0 < Gate
  BY PhoneAssumption, WireAssumption DEF PhoneTypeOK, RowType
<1> QED
  BY <1>1 DEF Fits, NewCount

(* The robot's steps move neither the app's count nor the app's key. *)
LEMMA FitsRobot ==
  ASSUME UNCHANGED phoneVars, NEW q, NEW k, NEW c
  PROVE  Fits(q, k, c)' <=> Fits(q, k, c)
BY DEF phoneVars, Fits, NewCount, Ahead, Restarting, SameLine

(* A write changes the saved counter only where it names it. *)
LEMMA PutCounter ==
  ASSUME RobotOK, NEW t \in Task, FlashPut(t)
  PROVE  flash'.ctr = flash.ctr \/ (Head(job[t].todo) = "ctr" /\ flash'.ctr = job[t].goal.ctr)
<1> DEFINE p == Head(job[t].todo)
<1>1. flash' = [flash EXCEPT ![p] = job[t].goal[p]] /\ flash \in FlashType
  BY DEF FlashPut, RobotOK, RobotTypeOK
<1> HIDE DEF p
<1>2. CASE p = "ctr"
  BY <1>1, <1>2 DEF FlashType, p
<1>3. CASE p # "ctr"
  BY <1>1, <1>3 DEF FlashType
<1> QED
  BY <1>2, <1>3

(* The saves that carry a counter along, when they begin. *)
LEMMA CounterSaves ==
  ASSUME RobotOK, RoleInv, RobotNext
  PROVE  /\ Radio'.op = "counter" =>
              \/ Radio.op = "counter" /\ Radio'.goal = Radio.goal
              \/ \E f \in OnAir(Traffic) :
                   Accept(f) /\ Radio'.goal.ctr = f.ctr /\ flash' = flash
         /\ Loop'.op = "goodbye" =>
              \/ Loop.op = "goodbye" /\ Loop'.goal = Loop.goal
              \/ Loop'.goal.ctr = flash.ctr /\ flash' = flash
<1> USE Tasks DEF RobotOK, Radio, Loop
<1>1. ASSUME NEW f \in OnAir(Traffic), Accept(f), ~UNCHANGED job
      PROVE  job'["radio"].goal.ctr = f.ctr /\ flash' = flash /\ job'["loop"] = job["loop"]
  <2> DEFINE goal == [flash EXCEPT !.ctr = f.ctr]
  <2>1. Save("radio", "counter", <<"ctr">>, goal, NoFrame) /\ flash' = flash
    BY <1>1 DEF Accept, TryConsume
  <2>2. goal.ctr = f.ctr
    BY DEF RobotTypeOK, FlashType
  <2> HIDE DEF goal
  <2>3. job'["radio"].goal = goal /\ job'["loop"] = job["loop"]
    BY <2>1, Begun
  <2> QED
    BY <2>1, <2>2, <2>3
<1>2. ASSUME NEW op, op \notin {"counter", "goodbye"}, NEW t \in Task, NEW order, NEW goal, NEW frame,
             Save(t, op, order, goal, frame)
      PROVE  job'[t].op = op /\ \A u \in Task \ {t} : job'[u] = job[u]
  BY <1>2, Begun
<1>3. CASE Hear
  <2>1. ASSUME NEW f, PairReq(f) \/ Unpair(f) \/ PairRefresh(f)
        PROVE  UNCHANGED job \/ (job'["radio"].op \notin {"counter", "goodbye"} /\ job'["loop"] = job["loop"])
    <3>1. PICK op \in {"pair", "unpair", "refresh"} :
            UNCHANGED job \/ \E order, goal, frame : Save("radio", op, order, goal, frame)
      BY <2>1 DEF PairReq, Unpair, PairRefresh
    <3> QED
      BY <1>2, <3>1
  <2>2. \A f : ReAck(f) => UNCHANGED job
    BY DEF ReAck, robotVars
  <2> QED
    BY <1>1, <1>3, <2>1, <2>2 DEF Hear
<1>4. CASE PairSaved \/ UnpairSaved \/ RefreshSaved \/ CounterSaved
  <2>1. job' = [job EXCEPT !["radio"] = NoJob]
    BY <1>4 DEF PairSaved, UnpairSaved, RefreshSaved, CounterSaved
  <2>2. job'["radio"] = NoJob /\ job'["loop"] = job["loop"]
    BY <2>1, Over
  <2> QED
    BY <2>2 DEF NoJob
<1>5. CASE PairButton \/ GoodbyeSaved
  <2>1. CASE ClearPair
    <3>1. Save("loop", "clear", ClearPairOrder, NoFlash, NoFrame)
      BY <2>1 DEF ClearPair
    <3>2. job'["loop"].op = "clear" /\ job'["radio"] = job["radio"]
      BY <1>2, <3>1
    <3> QED
      BY <3>2
  <2>2. CASE PairButton /\ ~ClearPair
    <3> DEFINE ctr == NextToAppCounter(robot.toApp)
               goal == [flash EXCEPT !.tapp = ctr]
               frame == SignedFrame("evict", robot.psk, robot.era, ctr)
    <3>1. Save("loop", "goodbye", <<"tapp">>, goal, frame) /\ flash' = flash
      BY <2>2 DEF PairButton
    <3>2. goal.ctr = flash.ctr
      BY DEF RobotTypeOK, FlashType
    <3> HIDE DEF goal, frame
    <3>3. job'["loop"].goal = goal /\ job'["radio"] = job["radio"]
      BY <3>1, Begun
    <3> QED
      BY <3>1, <3>2, <3>3
  <2> QED
    BY <1>5, <2>1, <2>2 DEF GoodbyeSaved
<1>6. CASE WindowOpens
  <2>1. job' = [job EXCEPT !["loop"] = NoJob]
    BY <1>6 DEF WindowOpens
  <2>2. job'["loop"] = NoJob /\ job'["radio"] = job["radio"]
    BY <2>1, Over
  <2> QED
    BY <2>2 DEF NoJob
<1>7. CASE WindowCloses \/ LockoutEnds
  BY <1>7 DEF WindowCloses, LockoutEnds
<1>8. CASE PowerLoss
  BY <1>8 DEF PowerLoss, NoJob
<1>9. CASE \E u \in Task : FlashPut(u) \/ PutFails(u)
  BY <1>9, Wrote
<1> QED
  BY <1>3, <1>4, <1>5, <1>6, <1>7, <1>8, <1>9 DEF RobotNext

-----------------------------------------------------------------------------
(* The app's last counter is never far from the last one heard or saved     *)
(* under its key: a counter still from before the wrap counts as none.      *)

Missed(c) == IF c <= holder.last THEN holder.last - c ELSE holder.last

Heeded(q) ==
  row.on /\ holder.on /\ ~Restarting =>
    /\ robot.paired /\ robot.psk = vault => Missed(robot.fromApp) <= q
    /\ Loads(flash) /\ flash.psk = vault => holder.last - flash.ctr <= q

(* A save of the next key leaves the old count in flash until it is written: *)
(* the app has asked for that key near the gate, and what it had sent then   *)
(* was heeded, so that the old count is one left from before the wrap.       *)
LEMMA RefreshFits ==
  ASSUME TypeOK, RoleInv, KeyInv, FlashInv, LineInv, NEW q \in Nat, CountBody(q), Heeded(q),
         Radio.op = "refresh", Loads(flash), flash.psk = robot.psk,
         NEW k, k = NextKey, NEW c, c = flash.ctr
  PROVE  Fits(q, k, c)
<1>1. /\ robot.psk \in Key /\ robot.era + 1 \in Nat /\ vault \in Key /\ c \in Nat
      /\ holder.last \in Nat /\ Gate - Margin \in Int
  BY PhoneAssumption, WireAssumption
     DEF TypeOK, RobotTypeOK, PhoneTypeOK, RobotType, FlashType, HolderType
<1>2. robot.paired /\ robot.psk # NoKey /\ RobotKey = robot.psk
  BY DEF FlashInv, RoleInv, RobotKey
<1>3. Fits(q, robot.psk, c)
  BY DEF CountBody
<1>4. /\ k # NoKey /\ Len(k) = Len(robot.psk) + 1 /\ Len(robot.psk) \in Nat /\ Len(vault) \in Nat
      /\ Head(k) = Head(robot.psk)
  BY <1>1, <1>2, Lines DEF NextKey
<1>5. PICK g \in OnAir({"refresh"}) : g.key = robot.psk
  BY DEF FlashInv
<1>6. ASSUME row.on, SameLine(robot.psk, vault)
      PROVE  robot.psk = vault
  <2>1. GetPairPsk = vault
    BY <1>6 DEF GetPairPsk
  <2>2. robot.psk = vault \/ SK!NextOf(vault, robot.psk)
    BY <1>2, <1>6, <2>1 DEF LineInv
  <2>3. robot.psk = vault \/ Len(robot.psk) < Len(vault)
    BY <1>5, <1>6, <2>1 DEF LineInv, UpTo
  <2> QED
    BY <1>4, <2>2, <2>3 DEF SK!NextOf
<1>7. SameLine(k, vault) => SameLine(robot.psk, vault)
  BY <1>2, <1>4 DEF SameLine
<1>8. ASSUME row.on, robot.psk = vault
      PROVE  NewCount(q, c)
  <2>1. holder.on /\ holder.last >= Gate - Margin /\ ~Restarting
    BY <1>5, <1>8 DEF CountBody, HolderInv
  <2>2. holder.last - c <= q
    BY <1>8, <2>1 DEF Heeded
  <2>3. c >= Gate - Margin - q
    BY <1>1, <2>1, <2>2
  <2> QED
    BY <2>3 DEF NewCount
<1>9. ~(row.on /\ k = vault)
  <2> SUFFICES ASSUME row.on, k = vault PROVE FALSE
    OBVIOUS
  <2>1. SameLine(robot.psk, vault)
    BY <1>2, <1>4 DEF SameLine
  <2> QED
    BY <1>4, <1>6, <2>1
<1>10. row.on /\ Ahead(k) => NewCount(q, c)
  BY <1>6, <1>7, <1>8 DEF Ahead
<1>11. enrol.at # "idle" /\ k # NoKey /\ Head(k) = enrol.code => c = 0
  BY <1>2, <1>3, <1>4 DEF Fits
<1>12. c < Gate
  BY <1>3 DEF Fits
<1> QED
  BY <1>9, <1>10, <1>11, <1>12 DEF Fits

(* One write of flash. *)
LEMMA CountWrites ==
  ASSUME TypeOK, TypeOK', RoleInv, KeyInv, OneSave, FlashInv, LineInv, NEW q \in Nat,
         CountBody(q), Heeded(q), NEW t \in Task, FlashPut(t), UNCHANGED phoneVars
  PROVE  /\ Loads(flash') => Fits(q, flash.psk, flash.ctr)'
         /\ core'.code # 0 \/ Radio'.op = "pair" => flash'.ctr = 0
         /\ Radio'.op = "counter" => Fits(q, flash.psk, Radio.goal.ctr)'
         /\ Loop'.op = "goodbye" => Loop'.goal.ctr = flash'.ctr
<1> USE Tasks
<1>0. RobotOK /\ PhoneTypeOK
  BY DEF TypeOK, RobotOK
<1> DEFINE j == job[t]
           p == Head(j.todo)
           n == Len(j.todo)
<1>1. /\ job'[t].op = j.op /\ job'[t].goal = j.goal /\ core' = core /\ j.op # "none"
      /\ robot' = robot /\ \A u \in Task \ {t} : job'[u] = job[u]
  BY <1>0, Wrote DEF RobotOK
<1>2. \A u \in Task \ {t} : job[u].op = "none"
  BY <1>1 DEF OneSave, Busy
<1>3. /\ flash'.psk = IF p = "psk" THEN j.goal.psk ELSE flash.psk
      /\ p = "paired" => (flash'.paired <=> j.goal.paired)
      /\ p # "paired" => (flash'.paired <=> flash.paired)
  BY <1>0, Put
<1>4. flash'.ctr = flash.ctr \/ (p = "ctr" /\ flash'.ctr = j.goal.ctr)
  BY <1>0, PutCounter
<1>5. /\ j.op \in {"pair", "unpair", "clear"} =>
           n <= 5 /\ (p = "psk" <=> n = 5) /\ (p = "paired" <=> n = 3)
      /\ j.op = "refresh" => n <= 5 /\ (p = "psk" <=> n = 5) /\ (p = "paired" <=> n = 2)
      /\ j.op \in {"counter", "goodbye"} => p \notin {"psk", "paired"}
  BY <1>0, Writes
<1>6. \/ t = "radio" /\ j = Radio /\ Radio'.op = j.op /\ Radio'.goal = j.goal
           /\ Loop.op = "none" /\ Loop'.op = "none"
      \/ t = "loop" /\ j = Loop /\ Loop'.op = j.op /\ Loop'.goal = j.goal
           /\ Radio.op = "none" /\ Radio'.op = "none"
  BY <1>1, <1>2 DEF Radio, Loop
<1>7. core.code = 0
  BY <1>1 DEF FlashInv, Settled, Busy
<1>8. \A k, c : Fits(q, k, c)' <=> Fits(q, k, c)
  BY FitsRobot
<1>9. \A k : Fits(q, k, 0)
  BY <1>0, FitsZero
<1> HIDE DEF j, p, n
<1>10. /\ core'.code = 0
       /\ j.op \in {"pair", "refresh", "unpair", "counter", "goodbye", "clear"}
       /\ j.op \in {"pair", "refresh", "unpair", "counter"} => j = Radio
       /\ j.op \in {"goodbye", "clear"} => j = Loop
       /\ Radio'.op = "pair" => j.op = "pair" /\ j = Radio
       /\ Radio'.op = "counter" => j.op = "counter" /\ j = Radio /\ Radio'.goal = Radio.goal
       /\ Loop'.op = "goodbye" => j.op = "goodbye" /\ j = Loop /\ Loop'.goal = Loop.goal
  BY <1>1, <1>6, <1>7 DEF RoleInv
<1>11. CASE j.op = "counter"
  <2>1. /\ flash'.psk = flash.psk /\ (Loads(flash') <=> Loads(flash))
        /\ flash'.ctr \in {flash.ctr, Radio.goal.ctr}
        /\ Radio'.goal = Radio.goal /\ Loop'.op # "goodbye" /\ Radio'.op # "pair"
    BY <1>3, <1>4, <1>5, <1>6, <1>10, <1>11 DEF Loads, RoleInv
  <2>2. PICK k, c, d : k = flash'.psk /\ c = flash'.ctr /\ d = Radio'.goal.ctr
    OBVIOUS
  <2>3. Fits(q, k, d) /\ (Loads(flash) => Fits(q, k, c))
    BY <1>10, <1>11, <2>1, <2>2 DEF CountBody
  <2>4. Fits(q, k, d)' /\ (Loads(flash) => Fits(q, k, c)')
    BY <1>8, <2>3
  <2> QED
    BY <1>10, <2>1, <2>2, <2>4 DEF Fits, NewCount, Ahead
<1>12. CASE j.op = "goodbye"
  <2>1. /\ flash'.psk = flash.psk /\ (Loads(flash') <=> Loads(flash)) /\ flash'.ctr = flash.ctr
        /\ Loop'.goal.ctr = flash'.ctr /\ Radio'.op \notin {"counter", "pair"}
    BY <1>3, <1>4, <1>5, <1>6, <1>10, <1>12 DEF Loads, CountBody, RoleInv
  <2>2. PICK k, c : k = flash'.psk /\ c = flash'.ctr
    OBVIOUS
  <2>3. Loads(flash) => Fits(q, k, c)
    BY <2>1, <2>2 DEF CountBody
  <2>4. Loads(flash) => Fits(q, k, c)'
    BY <1>8, <2>3
  <2> QED
    BY <1>10, <2>1, <2>2, <2>4 DEF Fits, NewCount, Ahead
<1>13. CASE j.op \in {"unpair", "clear"}
  <2>1. j.goal = NoFlash /\ Radio'.op \notin {"counter", "pair"} /\ Loop'.op # "goodbye"
    BY <1>6, <1>10, <1>13 DEF FlashInv
  <2>2. j.goal.psk = NoKey /\ ~j.goal.paired /\ j.goal.ctr = 0
    BY <2>1 DEF NoFlash
  <2>3. Loads(flash') => Loads(flash) /\ flash'.psk = flash.psk /\ flash'.ctr \in {flash.ctr, 0}
    BY <1>3, <1>4, <2>2 DEF Loads
  <2>4. PICK k, c : k = flash'.psk /\ c = flash'.ctr
    OBVIOUS
  <2>5. Loads(flash') => Fits(q, k, c)
    BY <1>9, <2>3, <2>4 DEF CountBody
  <2>6. Loads(flash') => Fits(q, k, c)'
    BY <1>8, <2>5
  <2> QED
    BY <1>10, <2>1, <2>4, <2>6 DEF Fits, NewCount, Ahead
<1>14. CASE j.op = "pair"
  <2>1. j.goal.ctr = 0 /\ flash.ctr = 0 /\ Radio'.op = "pair" /\ Loop'.op # "goodbye"
    BY <1>6, <1>10, <1>14 DEF RoleInv, PairGoal, CountBody
  <2>2. flash'.ctr = 0
    BY <1>4, <2>1
  <2>3. PICK k, c : k = flash'.psk /\ c = flash'.ctr
    OBVIOUS
  <2>4. Fits(q, k, c)'
    BY <1>8, <1>9, <2>2, <2>3
  <2> QED
    BY <2>1, <2>2, <2>3, <2>4 DEF Fits, NewCount, Ahead
<1>15. CASE j.op = "refresh"
  <2>1. /\ j.goal = PairGoal(NextKey, robot.era + 1) /\ robot.paired /\ j = Radio
        /\ Radio'.op \notin {"counter", "pair"} /\ Loop'.op # "goodbye"
    BY <1>6, <1>10, <1>15 DEF FlashInv
  <2>2. j.goal.psk = NextKey /\ j.goal.ctr = 0 /\ Loads(flash) /\ flash.psk \in {robot.psk, NextKey}
    BY <1>15, <2>1 DEF PairGoal, FlashInv
  <2>3. PICK k, c : k = flash'.psk /\ c = flash'.ctr
    OBVIOUS
  <2>4. Fits(q, k, c)
    <3>1. CASE p = "ctr"
      <4>1. c = flash.ctr \/ c = 0
        BY <1>4, <2>2, <2>3
      <4>2. k = flash.psk
        BY <1>3, <2>3, <3>1
      <4> QED
        BY <1>9, <2>2, <4>1, <4>2 DEF CountBody
    <3>2. CASE p # "ctr" /\ k = flash.psk
      BY <1>4, <2>2, <2>3, <3>2 DEF CountBody
    <3>3. CASE p # "ctr" /\ k # flash.psk
      <4>1. c = flash.ctr /\ k = NextKey /\ flash.psk = robot.psk
        BY <1>3, <1>4, <2>2, <2>3, <3>3
      <4> QED
        BY <1>15, <2>1, <2>2, <4>1, RefreshFits
    <3> QED
      BY <3>1, <3>2, <3>3
  <2>5. Fits(q, k, c)'
    BY <1>8, <2>4
  <2> QED
    BY <1>10, <2>1, <2>3, <2>5 DEF Fits, NewCount, Ahead
<1> QED
  BY <1>10, <1>11, <1>12, <1>13, <1>14, <1>15

(* What the robot then holds as the last counter heard. *)
LEMMA CountHeard ==
  ASSUME TypeOK, RoleInv, NEW q, CountBody(q), RobotNext, robot'.paired
  PROVE  \/ robot'.fromApp = 0
         \/ Fits(q, robot'.psk, robot'.fromApp)
<1>0. RobotOK
  BY DEF TypeOK, RobotOK
<1> USE DEF RobotOK
<1>1. CASE robot'.psk = robot.psk /\ robot'.paired = robot.paired /\ robot'.fromApp = robot.fromApp
  BY <1>1 DEF CountBody
<1>2. ASSUME NEW f \in OnAir(Traffic), Accept(f) PROVE Fits(q, robot'.psk, robot'.fromApp)
  <2>1. robot'.psk = f.key /\ robot'.fromApp = f.ctr
    BY <1>0, <1>2 DEF Accept, Verified, RobotTypeOK, RobotType
  <2> QED
    BY <2>1 DEF CountBody
<1>3. CASE PairSaved
  BY <1>0, <1>3 DEF PairSaved, RobotTypeOK, RobotType, CountBody
<1>4. CASE RefreshSaved
  <2>1. CASE job["radio"].ok
    BY <1>0, <1>4, <2>1 DEF RefreshSaved, RobotTypeOK, RobotType
  <2>2. CASE ~job["radio"].ok
    BY <1>4, <2>2 DEF RefreshSaved, CountBody
  <2> QED
    BY <2>1, <2>2
<1>5. CASE PowerLoss /\ Loads(flash)
  <2>1. robot'.psk = flash.psk /\ robot'.fromApp = flash.ctr
    BY <1>5 DEF PowerLoss, RestorePair
  <2> QED
    BY <1>5, <2>1 DEF CountBody
<1> QED
  BY <1>0, <1>1, <1>2, <1>3, <1>4, <1>5, RobotKeys

(* A window opens, or a code is taken, over a flash with no counter. *)
LEMMA CountWindow ==
  ASSUME TypeOK, TypeOK', RoleInv, SaveInv, FlashInv, NEW q, CountBody(q), RobotNext,
         UNCHANGED flash, faults = 0, core'.code # 0 \/ Radio'.op = "pair"
  PROVE  flash'.ctr = 0
<1>0. RobotOK
  BY DEF TypeOK, RobotOK
<1>1. CASE core.code # 0 \/ Radio.op = "pair"
  BY <1>1 DEF CountBody
<1>2. CASE core.code = 0 /\ Radio.op # "pair"
  <2>1. Radio'.op # "pair"
    BY <1>0, <1>2, RobotSaves, Tasks DEF Radio
  <2>2. core'.code # core.code /\ core'.code # 0
    BY <1>2, <2>1
  <2>3. WindowOpens
    <3>1. ~Hear
      <4>1. \A f : PairReq(f) => core'.code \in {0, core.code}
        BY DEF PairReq, TryCode, TypeOK, RobotTypeOK, CoreType
      <4>2. \A f : Accept(f) \/ Unpair(f) \/ ReAck(f) \/ PairRefresh(f) => core' = core
        BY DEF Accept, Unpair, ReAck, PairRefresh, robotVars
      <4> QED
        BY <2>2, <4>1, <4>2 DEF Hear
    <3>2. ~(PairSaved \/ UnpairSaved \/ RefreshSaved \/ CounterSaved)
      <4>1. PairSaved => core'.code \in {0, core.code}
        BY DEF PairSaved, TypeOK, RobotTypeOK, CoreType
      <4> QED
        BY <2>2, <4>1 DEF UnpairSaved, RefreshSaved, CounterSaved, ClosedCore
    <3>3. ~(PairButton \/ GoodbyeSaved)
      BY <2>2 DEF PairButton, GoodbyeSaved, ClearPair, ClosedCore
    <3>4. ~(WindowCloses \/ LockoutEnds \/ PowerLoss)
      <4>1. core \in CoreType
        BY DEF TypeOK, RobotTypeOK
      <4>2. WindowCloses => core'.code = 0
        BY <4>1 DEF WindowCloses, CoreType
      <4>3. LockoutEnds => core'.code = core.code
        BY <4>1 DEF LockoutEnds, CoreType
      <4>4. PowerLoss => core'.code = 0
        BY DEF PowerLoss, ClosedCore
      <4> QED
        BY <2>2, <4>2, <4>3, <4>4
    <3>5. ~(\E t \in Task : FlashPut(t) \/ PutFails(t))
      BY <2>2 DEF FlashPut, PutFails
    <3> QED
      BY <3>1, <3>2, <3>3, <3>4, <3>5 DEF RobotNext
  <2>4. Loop.op = "clear" /\ Loop.todo = <<>> /\ Busy("loop")
    BY <2>3 DEF WindowOpens, Saved, Loop, Busy
  <2>5. SaveOK("loop") /\ Loop.goal = NoFlash
    BY <2>4, Tasks DEF SaveInv, FlashInv
  <2>6. ~Pending(job["loop"], "ctr")
    <3>1. Len(<<>>) = 0
      OBVIOUS
    <3> QED
      BY <2>4, <3>1 DEF Pending, Loop
  <2>7. flash["ctr"] = Loop.goal["ctr"]
    BY <2>5, <2>6 DEF SaveOK, Field, Loop
  <2> QED
    BY <2>5, <2>7 DEF NoFlash
<1> QED
  BY <1>1, <1>2

(* The robot's steps keep the counters together. *)
LEMMA CountRobot ==
  ASSUME TypeOK, TypeOK', RoleInv, HeadInv, KeyInv, SaveInv, FlashInv, LineInv, ~Overlap,
         NEW q \in Nat, CountBody(q), Heeded(q), RobotNext, UNCHANGED phoneVars,
         faults = 0, faults' = 0
  PROVE  CountBody(q)'
<1> USE Tasks
<1>0. RobotOK /\ PhoneTypeOK /\ OneSave
  BY DEF TypeOK, RobotOK, SaveInv
<1>1. OnAir(Traffic)' = OnAir(Traffic) /\ OnAir({"refresh"})' = OnAir({"refresh"})
  <2>1. air \subseteq air' /\ \A f \in air' \ air : f.kind \in {"pairOk", "ack", "evict"}
    BY <1>0, RobotAir, RobotKinds
  <2> QED
    BY <2>1 DEF OnAir, Traffic
<1>2. \A k, c : Fits(q, k, c)' <=> Fits(q, k, c)
  BY FitsRobot
<1>3. HolderInv'
  BY <1>1 DEF CountBody, HolderInv, Restarting, Ahead, phoneVars
<1>4. SentInv'
  <2>1. /\ shown \in Nat /\ shown' \in Nat /\ shown <= shown'
        /\ \A c \in 1 .. shown : c \in Open' => c \in Open
    BY <1>0, OpenStays DEF HeadInv
  <2>2. \A k : Minted(k, shown, Open) => Minted(k, shown', Open')
    BY <2>1, MintedStays
  <2>3. sess' = sess
    BY DEF phoneVars
  <2> QED
    BY <1>1, <2>2, <2>3 DEF CountBody, SentInv
<1>5. \A f \in OnAir(Traffic)' : Fits(q, f.key, f.ctr)'
  BY <1>1, <1>2 DEF CountBody
<1>6. ASSUME robot'.paired PROVE Fits(q, robot.psk, robot.fromApp)'
  <2>1. PICK k, c : k = robot'.psk /\ c = robot'.fromApp
    OBVIOUS
  <2>2. Fits(q, k, c)
    BY <1>0, <1>6, <2>1, CountHeard, FitsZero
  <2>3. Fits(q, k, c)'
    BY <1>2, <2>2
  <2> QED
    BY <2>1, <2>3 DEF Fits, NewCount, Ahead
<1>7. CASE \E t \in Task : FlashPut(t)
  <2>1. /\ Loads(flash') => Fits(q, flash.psk, flash.ctr)'
        /\ core'.code # 0 \/ Radio'.op = "pair" => flash'.ctr = 0
        /\ Radio'.op = "counter" => Fits(q, flash.psk, Radio.goal.ctr)'
        /\ Loop'.op = "goodbye" => Loop'.goal.ctr = flash'.ctr
    BY <1>0, <1>7, CountWrites
  <2>2. Loads(flash)' <=> Loads(flash')
    BY DEF Loads
  <2> QED
    BY <1>3, <1>4, <1>5, <1>6, <2>1, <2>2 DEF CountBody
<1>8. CASE UNCHANGED flash
  <2>1. (core'.code # 0 \/ Radio'.op = "pair") => flash'.ctr = 0
    BY <1>8, CountWindow
  <2>2. Loop'.op = "goodbye" => Loop'.goal.ctr = flash'.ctr
    BY <1>0, <1>8, CounterSaves DEF CountBody
  <2>3. ASSUME Loads(flash)' PROVE Fits(q, flash.psk, flash.ctr)'
    <3>1. PICK k, c : k = flash.psk /\ c = flash.ctr
      OBVIOUS
    <3>2. Loads(flash)
      BY <1>8, <2>3 DEF Loads
    <3>3. Fits(q, k, c)'
      BY <1>2, <3>1, <3>2 DEF CountBody
    <3> QED
      BY <1>8, <3>1, <3>3 DEF Fits, NewCount, Ahead
  <2>4. ASSUME Radio'.op = "counter" PROVE Fits(q, flash.psk, Radio.goal.ctr)'
    <3>1. PICK k, c : k = flash.psk /\ c = Radio'.goal.ctr
      OBVIOUS
    <3>2. CASE Radio.op = "counter" /\ Radio'.goal = Radio.goal
      <4>1. Fits(q, k, c)
        BY <3>1, <3>2 DEF CountBody
      <4>2. Fits(q, k, c)'
        BY <1>2, <4>1
      <4> QED
        BY <1>8, <3>1, <4>2 DEF Fits, NewCount, Ahead
    <3>3. ASSUME NEW f \in OnAir(Traffic), Accept(f), Radio'.goal.ctr = f.ctr
          PROVE  Fits(q, flash.psk, Radio.goal.ctr)'
      <4>1. Settled /\ robot.paired /\ f.key = robot.psk
        BY <3>3, FreeIsSettled DEF Accept, Verified
      <4>2. flash.psk = robot.psk
        BY <4>1 DEF SaveInv, Matches
      <4>3. Fits(q, k, c)
        BY <3>1, <3>3, <4>1, <4>2 DEF CountBody
      <4>4. Fits(q, k, c)'
        BY <1>2, <4>3
      <4> QED
        BY <1>8, <3>1, <4>4 DEF Fits, NewCount, Ahead
    <3> QED
      BY <1>0, <2>4, <3>2, <3>3, CounterSaves
  <2> QED
    BY <1>3, <1>4, <1>5, <1>6, <2>1, <2>2, <2>3, <2>4 DEF CountBody
<1> QED
  BY <1>0, <1>7, <1>8, RobotFlash

(* At the start, a pair of long standing has its counter in the robot, and  *)
(* one cadence ahead in the row.                                            *)
LEMMA CountInit == ASSUME NEW q \in Nat PROVE Init => CountBody(q)
<1> SUFFICES ASSUME Init PROVE CountBody(q)
  OBVIOUS
<1>1. /\ air = {} /\ refresh.at = "idle" /\ enrol.at = "idle" /\ ~holder.on /\ core.code = 0
      /\ sess.key = NoKey /\ ~sess.seen.on /\ purge.evict = "idle"
      /\ job = [t \in Task |-> NoJob]
  <2>1. PICK f, n, r, k : air = {} /\ RobotInit(f, n) /\ PhoneInit(r, k)
    BY DEF Init
  <2>2. core.code = 0 /\ job = [t \in Task |-> NoJob]
    BY <2>1 DEF RobotInit, ClosedCore
  <2>3. refresh.at = "idle" /\ enrol.at = "idle" /\ ~holder.on /\ purge.evict = "idle"
    BY <2>1 DEF PhoneInit, NoRefresh, NoEnrol, NoHolder, NoPurge
  <2>4. sess.key = NoKey /\ ~sess.seen.on
    BY <2>1 DEF PhoneInit, NoSess, NoRow
  <2> QED
    BY <2>1, <2>2, <2>3, <2>4
<1>2. Radio.op = "none" /\ Loop.op = "none"
  BY <1>1, Tasks DEF Radio, Loop, NoJob
<1>3. HolderInv
  BY <1>1 DEF HolderInv, Ahead, SameLine, OnAir
<1>4. SentInv
  BY <1>1 DEF SentInv, Minted, OnAir
<1>5. /\ robot.paired => Fits(q, robot.psk, robot.fromApp)
      /\ Loads(flash) => Fits(q, flash.psk, flash.ctr)
  <2>1. CASE OldPair
    <3> DEFINE f == [PairGoal(OldKey, 0) EXCEPT !.ctr = Start]
               r == [NoRow EXCEPT !.on = TRUE, !.ctr = Start + PersistEvery]
    <3>1. robot = RestorePair(f, FALSE) /\ flash = f /\ row = r /\ vault = OldKey
      BY <2>1 DEF Init, RobotInit, PhoneInit
    <3>2. f.psk = OldKey /\ f.paired /\ f.ctr = Start /\ r.ctr = Start + PersistEvery
      BY DEF PairGoal, NoRow
    <3> HIDE DEF f, r
    <3>3. robot.psk = OldKey /\ robot.fromApp = Start
      <4>1. OldKey # NoKey
        BY DEF OldKey, MintKey, NoKey
      <4> QED
        BY <3>1, <3>2, <4>1 DEF RestorePair, Loads
    <3>4. ~(Len(OldKey) < Len(OldKey))
      BY Lines DEF OldKey
    <3>5. Start <= Start + PersistEvery /\ Start < Gate
      BY SessionAssumption, WireAssumption, PhoneAssumption
    <3>6. Fits(q, OldKey, Start)
      BY <1>1, <3>1, <3>2, <3>4, <3>5 DEF Fits, Ahead
    <3> QED
      BY <3>1, <3>2, <3>3, <3>6
  <2>2. CASE ~OldPair
    <3>1. robot = RestorePair(NoFlash, FALSE) /\ flash = NoFlash
      BY <2>2 DEF Init, RobotInit
    <3> QED
      BY <3>1 DEF NoFlash, RestorePair, Loads
  <2> QED
    BY <2>1, <2>2
<1> QED
  BY <1>1, <1>2, <1>3, <1>4, <1>5 DEF CountBody, OnAir

(* No write of flash failed, and the app was not killed. *)
Unhurt == kills = 0 /\ faults = 0

(* A run that is unhurt was unhurt before. *)
LEMMA UnhurtBefore ==
  ASSUME TypeOK, [Next]_vars, Unhurt'
  PROVE  Unhurt
<1> USE DEF TypeOK, RobotTypeOK
<1>1. CASE RobotNext /\ UNCHANGED phoneVars
  <2>1. faults' \in {faults, faults + 1}
    <3>1. CASE Hear
      <4>1. \A f : PairReq(f) \/ Accept(f) \/ Unpair(f) => faults' = faults
        BY DEF PairReq, Accept, Unpair
      <4>2. \A f : ReAck(f) \/ PairRefresh(f) => faults' = faults
        BY DEF ReAck, PairRefresh, robotVars
      <4> QED
        BY <3>1, <4>1, <4>2 DEF Hear
    <3>2. CASE \/ PairSaved \/ UnpairSaved \/ RefreshSaved \/ CounterSaved \/ PairButton
               \/ GoodbyeSaved \/ WindowOpens
      BY <3>2 DEF PairSaved, UnpairSaved, RefreshSaved, CounterSaved, PairButton, GoodbyeSaved,
                  WindowOpens
    <3>3. CASE WindowCloses \/ LockoutEnds \/ PowerLoss \/ \E t \in Task : FlashPut(t) \/ PutFails(t)
      BY <3>3 DEF WindowCloses, LockoutEnds, PowerLoss, FlashPut, PutFails
    <3> QED
      BY <1>1, <3>1, <3>2, <3>3 DEF RobotNext
  <2>2. faults' = 0 => faults = 0
    BY <2>1
  <2> QED
    BY <1>1, <2>2 DEF Unhurt, phoneVars
<1>2. CASE (PhoneNext \/ UserPairs) /\ UNCHANGED robotVars
  <2>1. kills \in Nat /\ (kills' = kills \/ kills' = kills + 1)
    BY <1>2, KillsCount DEF PhoneTypeOK
  <2>2. kills' = 0 => kills = 0
    BY <2>1
  <2> QED
    BY <1>2, <2>2 DEF Unhurt, robotVars
<1>3. CASE UNCHANGED vars
  BY <1>3 DEF vars, robotVars, phoneVars, Unhurt
<1> QED
  BY <1>1, <1>2, <1>3 DEF Next

(* A counter heard that fits leaves the next one fresh. *)
LEMMA NextFresh ==
  ASSUME NEW q \in Nat, NEW c \in Nat, NEW last \in Nat,
         2 * q + 1 + CounterMod < Gate - Margin + CounterMod \div 2,
         c <= last \/ NewCount(q, c), c < Gate,
         (IF c <= last THEN last - c ELSE last) <= q
  PROVE  IsFreshCounter(c, last + 1)
<1> DEFINE m == CounterMod
           b == Gate - Margin
           h == CounterMod \div 2
<1>1. /\ m \in Nat \ {0} /\ Gate \in Int /\ b \in Int /\ Gate <= m - 1 /\ b <= m - 1
      /\ 2 * q + 1 + m < b + h /\ h \in Int /\ h <= m
  BY WireAssumption, PhoneAssumption
<1>2. \A x \in 0 .. m - 1 : x % m = x /\ (x - m) % m = x
  BY <1>1
<1>3. c >= b - q \/ c <= last
  BY DEF NewCount
<1> HIDE DEF m, b, h
<1>4. CASE c <= last
  <2>1. last + 1 - c \in 0 .. m - 1 /\ last + 1 - c < h /\ last + 1 # c
    BY <1>1, <1>4
  <2> QED
    BY <1>2, <2>1 DEF IsFreshCounter, m, h
<1>5. CASE ~(c <= last)
  <2> DEFINE x == last + 1 - c + m
  <2>1. last <= q /\ c >= b - q /\ c <= m - 1
    BY <1>1, <1>3, <1>5 DEF m
  <2>2. x \in 0 .. m - 1 /\ x < h /\ last + 1 # c /\ last + 1 - c = x - m
    BY <1>1, <1>5, <2>1
  <2> QED
    BY <1>2, <2>2 DEF IsFreshCounter, m, h
<1> QED
  BY <1>4, <1>5

(* In a run without kills of the app in which no write of flash fails (and  *)
(* none of the button overlaps one of the radio): as long as at most q      *)
(* frames of the app in a row go unheard by the robot, or unsaved in its    *)
(* flash, the next frame of the app is fresh for the robot whenever both    *)
(* hold the same key.  That is so however frames and refreshes are lost,    *)
(* repeated and reordered, while the two ends restart their counts at       *)
(* times of their own (completePairRefresh of PairedDeviceCounters,         *)
(* handlePairRefresh of PairingTask), and after a power loss within a save, *)
(* which brings the old count back under the new key.                       *)
THEOREM NextStaysFresh ==
  ASSUME ~Overlap, NEW q \in Nat,
         2 * q + 1 + CounterMod < Gate - Margin + CounterMod \div 2
  PROVE  Spec /\ [](Unhurt => Heeded(q)) => []NextIsFresh
<1> DEFINE Known == TypeOK /\ RoleInv /\ HeadInv /\ KeyInv /\ SaveInv /\ EvictInv
           Body == FlashInv /\ LineInv /\ CountBody(q)
           Inv == Unhurt => Body
<1>1. Init => Inv
  BY FlashInit, LineInit, CountInit
<1>2. Known /\ Known' /\ Inv /\ (Unhurt => Heeded(q)) /\ [Next]_vars => Inv'
  <2> SUFFICES ASSUME Known, Known', Body, Unhurt, Unhurt', Heeded(q), [Next]_vars PROVE Body'
    BY UnhurtBefore
  <2>0. kills = 0 /\ kills' = 0 /\ faults = 0 /\ faults' = 0 /\ faults' <= 1
    BY DEF Unhurt
  <2>1. FlashInv'
    BY <2>0, FlashNext
  <2>2. CASE RobotNext /\ UNCHANGED phoneVars
    <3>1. LineInv'
      BY <2>1, <2>2, LineRobot DEF SaveInv
    <3>2. CountBody(q)'
      BY <2>0, <2>2, CountRobot
    <3> QED
      BY <2>1, <3>1, <3>2
  <2>3. CASE (PhoneNext \/ UserPairs) /\ UNCHANGED robotVars
    <3>1. LineInv'
      BY <2>1, <2>3, LinePhone
    <3>2. CountBody(q)'
      BY <2>0, <2>3, CountPhone
    <3> QED
      BY <2>1, <3>1, <3>2
  <2>4. CASE UNCHANGED vars
    <3>1. UNCHANGED <<flash, row, vault, refresh, enrol, air>>
      BY <2>4 DEF vars, robotVars, phoneVars
    <3>2. LineInv'
      BY <3>1 DEF LineInv, UpTo, RobotKey, GetPairPsk, OnAir
    <3>3. CountBody(q)'
      BY <2>4 DEF vars, robotVars, phoneVars, CountBody, HolderInv, SentInv, Minted, Open, Fits,
                  NewCount, Ahead, Restarting, OnAir, Radio, Loop, Loads
    <3> QED
      BY <2>1, <3>2, <3>3
  <2> QED
    BY <2>2, <2>3, <2>4 DEF Next
<1>3. Known /\ Inv /\ (Unhurt => Heeded(q)) => NextIsFresh
  <2> SUFFICES ASSUME TypeOK, CountBody(q), Heeded(q), row.on, robot.paired, vault = robot.psk,
                      holder.on, ~Restarting
               PROVE  IsFreshCounter(robot.fromApp, holder.last + 1)
    BY DEF Unhurt, NextIsFresh, SameKey, Restarting
  <2>1. robot.fromApp \in Nat /\ holder.last \in Nat
    BY DEF TypeOK, RobotTypeOK, PhoneTypeOK, RobotType, HolderType
  <2>2. Fits(q, robot.psk, robot.fromApp)
    BY DEF CountBody
  <2>3. robot.fromApp < Gate /\ (robot.fromApp <= holder.last \/ NewCount(q, robot.fromApp))
    BY <2>2 DEF Fits
  <2>4. Missed(robot.fromApp) <= q
    BY DEF Heeded
  <2> QED
    BY <2>1, <2>3, <2>4, NextFresh DEF Missed
<1>4. Spec => []Known
  BY LinesAlways, KeyAlways, SaveAlways, EvictAlways, SessionTypeCorrect, PTL
<1> HIDE DEF Inv, Known
<1> QED
  BY <1>1, <1>2, <1>3, <1>4, PTL DEF Spec
=============================================================================
