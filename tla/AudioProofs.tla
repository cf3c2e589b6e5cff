------------------------------ MODULE AudioProofs ------------------------------
(***************************************************************************)
(* What the speaker owes the bundles, for every depth of the queue, size of *)
(* a chunk and number of bundles, and any notes that fit the queue.        *)
EXTENDS Audio, TLAPS

(* The notes queued and those of the cue still to queue fit the queue.      *)
Fits == Len(shared.queue) + Len(loop.todo) <= Depth

(* The inductive invariant: Hushed and EpochOpen are inductive as they      *)
(* stand; RoomForCue needs to know that a bundle starts with an empty queue.*)
AudioInv == TypeOK /\ Hushed /\ EpochOpen /\ Fits

QueuedNote == [dur : Nat \ {0}, gap : Nat, bundle : Nat]

-----------------------------------------------------------------------------
(* The head and the tail of what is queued, or still to queue.              *)
LEMMA TakesFirst ==
  ASSUME NEW S, NEW s \in Seq(S), s # <<>>
  PROVE  /\ Head(s) \in S /\ Tail(s) \in Seq(S) /\ Len(Tail(s)) + 1 = Len(s)
         /\ \A i \in DOMAIN Tail(s) : i + 1 \in DOMAIN s /\ Tail(s)[i] = s[i + 1]
         /\ 1 \in DOMAIN s /\ Head(s) = s[1]
OBVIOUS

LEMMA PutsLast ==
  ASSUME NEW S, NEW s \in Seq(S), NEW e \in S
  PROVE  /\ Append(s, e) \in Seq(S) /\ Len(Append(s, e)) = Len(s) + 1
         /\ \A i \in DOMAIN Append(s, e) :
              \/ Append(s, e)[i] = e
              \/ i \in DOMAIN s /\ Append(s, e)[i] = s[i]
<1>1. /\ Append(s, e) \in Seq(S) /\ Len(Append(s, e)) = Len(s) + 1
      /\ \A i \in 1 .. Len(s) : Append(s, e)[i] = s[i]
      /\ Append(s, e)[Len(s) + 1] = e
  OBVIOUS
<1>2. DOMAIN s = 1 .. Len(s) /\ DOMAIN Append(s, e) = 1 .. Len(s) + 1 /\ Len(s) \in Nat
  BY <1>1
<1>3. \A i \in 1 .. Len(s) + 1 : i = Len(s) + 1 \/ i \in 1 .. Len(s)
  BY <1>2
<1> QED
  BY <1>1, <1>2, <1>3

LEMMA Sizes == Depth \in Nat /\ Chunk \in Nat /\ Chunk > 0
BY AudioAssumption

LEMMA Spare == ASSUME NEW a \in Nat, NEW b \in Nat, NEW d \in Nat, b # 0, a + b <= d
               PROVE  a < d
OBVIOUS

LEMMA Started == Init => AudioInv
BY AudioAssumption DEF Init, AudioInv, TypeOK, Hushed, EpochOpen, Fits, Silent, Note

-----------------------------------------------------------------------------
(* The main loop                                                            *)

LEMMA ConductBundleStep ==
  ASSUME AudioInv, NEW cue \in Cues, ConductBundle(cue)
  PROVE  AudioInv'
<1> USE DEF AudioInv, ConductBundle, CancelAll
<1>1. cue \in Seq(Note) /\ Len(cue) <= Depth
  BY AudioAssumption
<1>2. TypeOK'
  BY <1>1 DEF TypeOK
<1>3. Hushed' /\ EpochOpen' /\ Fits'
  BY <1>1, AudioAssumption DEF Hushed, EpochOpen, Fits
<1> QED
  BY <1>2, <1>3

LEMMA EnqueueStep ==
  ASSUME AudioInv, Enqueue
  PROVE  AudioInv'
<1> USE DEF AudioInv
<1> DEFINE n == Head(loop.todo)
           q == [dur |-> n.dur, gap |-> n.gap, bundle |-> loop.bundle]
<1>1. /\ n \in Note /\ Tail(loop.todo) \in Seq(Note)
      /\ Len(Tail(loop.todo)) + 1 = Len(loop.todo)
  BY TakesFirst DEF Enqueue, TypeOK
<1>2. q \in QueuedNote
  BY <1>1 DEF Note, QueuedNote, TypeOK
<1>3. shared.queue \in Seq(QueuedNote)
  BY DEF TypeOK, QueuedNote
<1>4. loop' = [loop EXCEPT !.todo = Tail(@)] /\ UNCHANGED <<voice, task>>
  BY DEF Enqueue
<1>5. CASE Len(shared.queue) < Depth
  <2>1. shared' = [shared EXCEPT !.busy = TRUE, !.queue = Append(@, q)]
    BY <1>5 DEF Enqueue
  <2> HIDE DEF q
  <2>2. /\ Append(shared.queue, q) \in Seq(QueuedNote)
        /\ Len(Append(shared.queue, q)) = Len(shared.queue) + 1
        /\ \A i \in DOMAIN Append(shared.queue, q) :
             \/ Append(shared.queue, q)[i] = q
             \/ i \in DOMAIN shared.queue /\ Append(shared.queue, q)[i] = shared.queue[i]
    BY <1>2, <1>3, PutsLast
  <2>3. TypeOK'
    BY <1>1, <1>4, <2>1, <2>2 DEF TypeOK, QueuedNote
  <2>4. shared'.queue = Append(shared.queue, q) /\ shared'.busy /\ shared'.cancel = shared.cancel
        /\ loop'.bundle = loop.bundle /\ loop'.todo = Tail(loop.todo)
    BY <1>4, <2>1 DEF TypeOK
  <2>5. Hushed'
    BY <1>4, <2>2, <2>4 DEF Hushed, q
  <2>6. EpochOpen' /\ Fits'
    BY <1>1, <1>3, <2>2, <2>4, Sizes DEF EpochOpen, Fits, TypeOK
  <2> QED
    BY <2>3, <2>5, <2>6
<1>6. CASE ~(Len(shared.queue) < Depth)
  <2>1. UNCHANGED shared
    BY <1>6 DEF Enqueue
  <2>2. TypeOK'
    BY <1>1, <1>4, <2>1 DEF TypeOK
  <2>3. loop'.bundle = loop.bundle /\ loop'.todo = Tail(loop.todo)
    BY <1>4 DEF TypeOK
  <2>4. Hushed' /\ EpochOpen' /\ Fits'
    BY <1>1, <1>4, <2>1, <2>3, Sizes DEF Hushed, EpochOpen, Fits, TypeOK
  <2> QED
    BY <2>2, <2>4
<1> QED
  BY <1>5, <1>6

-----------------------------------------------------------------------------
(* The task                                                                 *)

LEMMA TakeCancelStep ==
  ASSUME AudioInv, TakeCancel
  PROVE  AudioInv'
<1>1. TypeOK'
  <2>1. voice' \in [left : Nat, gap : Nat, bundle : Nat]
    BY DEF AudioInv, TakeCancel, TypeOK, Silent
  <2>2. task' \in [at : {"turn", "fill", "check"}, room : 0 .. Chunk]
    BY Sizes DEF TakeCancel
  <2>3. shared' \in [queue : Seq([dur : Nat \ {0}, gap : Nat, bundle : Nat]),
                     busy : BOOLEAN, cancel : BOOLEAN]
    BY DEF AudioInv, TakeCancel, TypeOK
  <2>4. loop' \in [bundle : Nat, todo : Seq(Note)]
    BY DEF AudioInv, TakeCancel, TypeOK
  <2> QED
    BY <2>1, <2>2, <2>3, <2>4 DEF TypeOK
<1>2. Hushed' /\ EpochOpen' /\ Fits'
  BY DEF AudioInv, TakeCancel, TypeOK, Silent, Hushed, EpochOpen, Fits
<1> QED
  BY <1>1, <1>2 DEF AudioInv

(* Filling the chunk leaves the queue alone and only shortens the voice.    *)
LEMMA FillStep ==
  ASSUME AudioInv, FillGap \/ FillNote
  PROVE  AudioInv'
<1> DEFINE n == Least(task.room, IF voice.gap > 0 THEN voice.gap ELSE voice.left)
<1>1. n \in Nat /\ n <= task.room
      /\ (voice.gap > 0 => n <= voice.gap) /\ (voice.gap = 0 => n <= voice.left)
  BY AudioAssumption DEF AudioInv, TypeOK, Least, FillGap, FillNote
<1>2. UNCHANGED <<shared, loop>> /\ Filled(n)
      /\ voice' \in {[voice EXCEPT !.gap = @ - n], [voice EXCEPT !.left = @ - n]}
      /\ (voice.gap > 0 => voice' = [voice EXCEPT !.gap = @ - n])
      /\ (voice.gap = 0 => voice' = [voice EXCEPT !.left = @ - n])
  BY DEF FillGap, FillNote, AudioInv, TypeOK
<1> HIDE DEF n
<1>3. task' \in [at : {"turn", "fill", "check"}, room : 0 .. Chunk]
  <2>1. task \in [at : {"turn", "fill", "check"}, room : 0 .. Chunk]
    BY DEF AudioInv, TypeOK
  <2>2. CASE task.room = n
    BY <1>2, <2>2, Sizes DEF Filled
  <2>3. CASE task.room # n
    <3>1. task' = [task EXCEPT !.room = @ - n]
      BY <1>2, <2>3 DEF Filled
    <3>2. task.room - n \in 0 .. Chunk
      BY <1>1, <2>1, Sizes
    <3> QED
      BY <2>1, <3>1, <3>2
  <2> QED
    BY <2>2, <2>3
<1>4. /\ voice' \in [left : Nat, gap : Nat, bundle : Nat]
      /\ voice'.bundle = voice.bundle
      /\ voice'.gap + voice'.left > 0 => voice.gap + voice.left > 0
  BY <1>1, <1>2 DEF AudioInv, TypeOK
<1> QED
  BY <1>2, <1>3, <1>4 DEF AudioInv, TypeOK, Hushed, EpochOpen, Fits

LEMMA DequeueStep ==
  ASSUME AudioInv, DequeueNext
  PROVE  AudioInv'
<1> DEFINE n == Head(shared.queue)
<1>1. shared.queue \in Seq(QueuedNote)
  BY DEF AudioInv, TypeOK, QueuedNote
<1>2. /\ n \in QueuedNote /\ Tail(shared.queue) \in Seq(QueuedNote)
      /\ Len(Tail(shared.queue)) + 1 = Len(shared.queue)
      /\ \A i \in DOMAIN Tail(shared.queue) :
           i + 1 \in DOMAIN shared.queue /\ Tail(shared.queue)[i] = shared.queue[i + 1]
      /\ 1 \in DOMAIN shared.queue /\ n = shared.queue[1]
  BY <1>1, TakesFirst DEF DequeueNext
<1>3. n.bundle = loop.bundle
  BY <1>2 DEF AudioInv, Hushed
<1>4. /\ shared' = [shared EXCEPT !.queue = Tail(@)]
      /\ voice' = [left |-> n.dur, gap |-> n.gap, bundle |-> n.bundle]
      /\ UNCHANGED <<task, loop>>
  BY DEF DequeueNext
<1> HIDE DEF n
<1>5. TypeOK'
  BY <1>2, <1>4 DEF AudioInv, TypeOK, QueuedNote
<1>6. shared'.queue = Tail(shared.queue) /\ shared'.busy = shared.busy
  BY <1>4 DEF AudioInv, TypeOK
<1>7. Hushed'
  BY <1>2, <1>3, <1>4, <1>6 DEF AudioInv, Hushed
<1>8. EpochOpen'
  BY <1>6 DEF AudioInv, EpochOpen, DequeueNext
<1>9. Fits'
  BY <1>1, <1>2, <1>4, <1>6, Sizes DEF AudioInv, Fits, TypeOK
<1> QED
  BY <1>5, <1>7, <1>8, <1>9 DEF AudioInv

LEMMA RunDryStep ==
  ASSUME AudioInv, RunDry
  PROVE  AudioInv'
BY Sizes DEF AudioInv, RunDry, TypeOK, Hushed, EpochOpen, Fits

LEMMA DrainCheckStep ==
  ASSUME AudioInv, DrainCheck
  PROVE  AudioInv'
<1> DEFINE b == shared.busy /\ shared.queue # <<>>
<1>1. /\ shared' = [shared EXCEPT !.busy = b]
      /\ task' = [at |-> "turn", room |-> 0] /\ UNCHANGED <<voice, loop>>
  BY DEF DrainCheck
<1>2. TypeOK'
  <2>1. b \in BOOLEAN
    OBVIOUS
  <2> HIDE DEF b
  <2>2. shared' \in [queue : Seq([dur : Nat \ {0}, gap : Nat, bundle : Nat]),
                     busy : BOOLEAN, cancel : BOOLEAN]
    BY <1>1, <2>1 DEF AudioInv, TypeOK
  <2> QED
    BY <1>1, <2>2, Sizes DEF AudioInv, TypeOK
<1>3. shared'.queue = shared.queue /\ shared'.cancel = shared.cancel
      /\ shared'.busy = (shared.busy /\ shared.queue # <<>>)
  BY <1>1 DEF AudioInv, TypeOK
<1>4. Hushed' /\ EpochOpen' /\ Fits'
  BY <1>1, <1>3 DEF AudioInv, Hushed, EpochOpen, Fits
<1> QED
  BY <1>2, <1>4 DEF AudioInv

-----------------------------------------------------------------------------
LEMMA AudioStep == AudioInv /\ [Next]_vars => AudioInv'
<1> SUFFICES ASSUME AudioInv, [Next]_vars
             PROVE  AudioInv'
  OBVIOUS
<1>1. ASSUME NEW cue \in Cues, ConductBundle(cue) PROVE AudioInv'
  BY <1>1, ConductBundleStep
<1>2. CASE Enqueue
  BY <1>2, EnqueueStep
<1>3. CASE TakeCancel
  BY <1>3, TakeCancelStep
<1>4. CASE FillGap \/ FillNote
  BY <1>4, FillStep
<1>5. CASE DequeueNext
  BY <1>5, DequeueStep
<1>6. CASE RunDry
  BY <1>6, RunDryStep
<1>7. CASE DrainCheck
  BY <1>7, DrainCheckStep
<1>8. CASE UNCHANGED vars
  BY <1>8 DEF vars, AudioInv, TypeOK, Hushed, EpochOpen, Fits
<1> QED
  BY <1>1, <1>2, <1>3, <1>4, <1>5, <1>6, <1>7, <1>8 DEF Next, MainLoop, AudioTask

(* The inductive invariant holds of every behaviour.                        *)
LEMMA AudioInvariant == Spec => []AudioInv
<1> QED
  BY Started, AudioStep, PTL DEF Spec

(* Queue, registers and counts keep their types, whatever is conducted when *)
(* (AudioManager).                                                          *)
THEOREM AudioTyped == Spec => []TypeOK
<1>1. AudioInv => TypeOK
  BY DEF AudioInv
<1> QED
  BY AudioInvariant, <1>1, PTL

(* A note that was cancelled, in the queue, sounding or on its way between  *)
(* the two, is not heard once the request was taken (cancelAll, loop).      *)
THEOREM CancelledNotesStaySilent == Spec => []Hushed
<1>1. AudioInv => Hushed
  BY DEF AudioInv
<1> QED
  BY AudioInvariant, <1>1, PTL

(* Cues of at most the queue's depth never lose a note, however little of   *)
(* the bundles before them sounded (cancelAll, enqueue).                    *)
THEOREM CuesFit == Spec => []RoomForCue
<1>1. AudioInv => RoomForCue
  <2> SUFFICES ASSUME AudioInv, loop.todo # <<>>
               PROVE  Len(shared.queue) < Depth
    BY DEF RoomForCue
  <2>1. loop.todo \in Seq(Note) /\ shared.queue \in Seq(QueuedNote)
    BY DEF AudioInv, TypeOK, QueuedNote
  <2>2. Len(shared.queue) \in Nat
    BY <2>1
  <2>4. Len(loop.todo) \in Nat /\ Len(loop.todo) # 0
    BY <2>1
  <2>3. Len(shared.queue) + Len(loop.todo) <= Depth
    BY DEF AudioInv, Fits
  <2> QED
    BY <2>2, <2>3, <2>4, Sizes, Spare
<1> QED
  BY AudioInvariant, <1>1, PTL

(* While a note is queued its DONE is still to come: the task's check that  *)
(* the queue is drained never closes an epoch over a note (drainCheck).     *)
THEOREM EpochStaysOpen == Spec => []EpochOpen
<1>1. AudioInv => EpochOpen
  BY DEF AudioInv
<1> QED
  BY AudioInvariant, <1>1, PTL
=============================================================================
