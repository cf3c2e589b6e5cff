--------------------------------- MODULE Audio ---------------------------------
(* The speaker: AudioManager's note queue and its task on Core 0, against the *)
(* main loop, which queues the boot jingle and then conducts bundles: cancel  *)
(* what sounds, queue the notes of the new face's cue.                        *)
(*                                                                            *)
(* Time is counted in pieces of a chunk, the stretch of sound the task fills  *)
(* between two looks at the cancel request; what a note sounds like is left   *)
(* out.  playPcm has no caller and is not modelled.                           *)
EXTENDS Integers, Sequences

CONSTANTS
  Depth,        \* slots of the queue (8 in the code)
  Chunk,        \* pieces in a chunk
  BootJingle,   \* its notes, records of a duration and a gap
  Cues,         \* the notes of each face's cue; none for a silent face
  MaxBundles    \* bound: bundles conducted

Note == [dur : Nat \ {0}, gap : Nat]

ASSUME AudioAssumption ==
  /\ Depth \in Nat /\ Chunk \in Nat \ {0} /\ MaxBundles \in Nat
  /\ \A notes \in Cues \union {BootJingle} :
       notes \in Seq(Note) /\ Len(notes) <= Depth

VARIABLES
  shared,  \* under the mutex: the queue, busy_ and cancelReq_
  voice,   \* the task's registers: gap and note still to sound, and the bundle
           \* the note came with
  task,    \* where the task is, and the room left in its chunk
  loop     \* the bundles conducted so far, and the notes of this one to queue

vars == <<shared, voice, task, loop>>

Silent == [left |-> 0, gap |-> 0, bundle |-> 0]

Init ==
  /\ shared = [queue |-> <<>>, busy |-> FALSE, cancel |-> FALSE]
  /\ voice = Silent
  /\ task = [at |-> "turn", room |-> 0]
  /\ loop = [bundle |-> 0, todo |-> BootJingle]

-----------------------------------------------------------------------------
(* The main loop.  Nothing is conducted while a call is under way.           *)

CancelAll_KeepsNotes == [shared EXCEPT !.busy = FALSE, !.cancel = TRUE]

CancelAll_NoRequest == [shared EXCEPT !.queue = <<>>, !.busy = FALSE]

CancelAll == [queue |-> <<>>, busy |-> FALSE, cancel |-> TRUE]

ConductBundle(cue) ==
  /\ loop.todo = <<>> /\ loop.bundle < MaxBundles
  /\ shared' = CancelAll
  /\ loop' = [bundle |-> loop.bundle + 1, todo |-> cue]
  /\ UNCHANGED <<voice, task>>

(* A note that finds the queue full is dropped.                              *)
Enqueue ==
  /\ loop.todo # <<>>
  /\ IF Len(shared.queue) < Depth
     THEN LET n == Head(loop.todo)
          IN shared' = [shared EXCEPT !.busy = TRUE,
               !.queue = Append(@, [dur |-> n.dur, gap |-> n.gap, bundle |-> loop.bundle])]
     ELSE UNCHANGED shared
  /\ loop' = [loop EXCEPT !.todo = Tail(@)]
  /\ UNCHANGED <<voice, task>>

-----------------------------------------------------------------------------
(* The task: it takes a cancel request at the turn of a chunk only.          *)

TakeCancel ==
  /\ task.at = "turn"
  /\ voice' = IF shared.cancel THEN Silent ELSE voice
  /\ shared' = [shared EXCEPT !.cancel = FALSE]
  /\ task' = [at |-> "fill", room |-> Chunk]
  /\ UNCHANGED loop

Filled(n) ==
  task' = IF task.room = n THEN [at |-> "turn", room |-> 0]
                           ELSE [task EXCEPT !.room = @ - n]

Least(a, b) == IF a < b THEN a ELSE b

FillGap ==
  /\ task.at = "fill" /\ voice.gap > 0
  /\ LET n == Least(task.room, voice.gap)
     IN voice' = [voice EXCEPT !.gap = @ - n] /\ Filled(n)
  /\ UNCHANGED <<shared, loop>>

FillNote ==
  /\ task.at = "fill" /\ voice.gap = 0 /\ voice.left > 0
  /\ LET n == Least(task.room, voice.left)
     IN voice' = [voice EXCEPT !.left = @ - n] /\ Filled(n)
  /\ UNCHANGED <<shared, loop>>

Idle == task.at = "fill" /\ voice.gap = 0 /\ voice.left = 0

DequeueNext ==
  /\ Idle /\ shared.queue # <<>>
  /\ LET n == Head(shared.queue)
     IN voice' = [left |-> n.dur, gap |-> n.gap, bundle |-> n.bundle]
  /\ shared' = [shared EXCEPT !.queue = Tail(@)]
  /\ UNCHANGED <<task, loop>>

RunDry ==
  /\ Idle /\ shared.queue = <<>>
  /\ task' = [at |-> "check", room |-> 0]
  /\ UNCHANGED <<shared, voice, loop>>

(* The queue is looked at again: a note may have come since it ran dry.      *)
DrainCheck_Trusts ==
  /\ task.at = "check"
  /\ shared' = [shared EXCEPT !.busy = FALSE]
  /\ task' = [at |-> "turn", room |-> 0]
  /\ UNCHANGED <<voice, loop>>

DrainCheck ==
  /\ task.at = "check"
  /\ shared' = [shared EXCEPT !.busy = @ /\ shared.queue # <<>>]
  /\ task' = [at |-> "turn", room |-> 0]
  /\ UNCHANGED <<voice, loop>>

-----------------------------------------------------------------------------
MainLoop == Enqueue \/ \E cue \in Cues : ConductBundle(cue)

AudioTask ==
  TakeCancel \/ FillGap \/ FillNote \/ DequeueNext \/ RunDry \/ DrainCheck

Next == MainLoop \/ AudioTask

Spec == Init /\ [][Next]_vars

-----------------------------------------------------------------------------
TypeOK ==
  /\ shared \in [queue : Seq([dur : Nat \ {0}, gap : Nat, bundle : Nat]),
                 busy : BOOLEAN, cancel : BOOLEAN]
  /\ voice \in [left : Nat, gap : Nat, bundle : Nat]
  /\ task \in [at : {"turn", "fill", "check"}, room : 0 .. Chunk]
  /\ loop \in [bundle : Nat, todo : Seq(Note)]

(* Once the task has taken the request of a new bundle, nothing of an older  *)
(* one is heard: no note that was sounding, queued, or on its way from the   *)
(* queue to the speaker when cancelAll ran (AudioManager::cancelAll, loop).  *)
Hushed ==
  /\ ~shared.cancel /\ voice.gap + voice.left > 0 => voice.bundle = loop.bundle
  /\ \A i \in DOMAIN shared.queue : shared.queue[i].bundle = loop.bundle

(* No note of a jingle or a cue finds the queue full, however little of the  *)
(* bundles before it has sounded (AudioManager::enqueue).                    *)
RoomForCue == loop.todo # <<>> => Len(shared.queue) < Depth

(* While a note is queued its epoch is open, so that a DONE is still to come *)
(* (AudioManager::drainCheck, enqueue).                                      *)
EpochOpen == shared.queue # <<>> => shared.busy

(* A bundle's cancellation does not cut a note of that bundle                *)
(* (expression_task.h: "cancel-then-start").                                 *)
OwnNotesSound ==
  [][TakeCancel /\ shared.cancel /\ voice.left > 0 => voice.bundle # loop.bundle]_vars

(* The gap of a note is silence after it (audio_manager.h: "Trailing silence *)
(* before the next note").                                                   *)
GapTrails == voice.gap > 0 => voice.left = 0
=============================================================================
