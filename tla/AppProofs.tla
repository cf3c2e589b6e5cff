------------------------------ MODULE AppProofs ------------------------------
(* That an emergency stop and a goodbye outrank what was under way before   *)
(* them, that a screen shown drives, that a screen that is gone leaves no   *)
(* stick and no claim behind, and that no line outgrows the screens shown:  *)
(* for every number of coroutines waiting, of events and of key refreshes.  *)
EXTENDS App, SequenceTheorems, TLAPS

Row == [on : BOOLEAN, era : Nat]

(* Who waits as the knock waits with a knock, and the two screens alone     *)
(* wait with claims.                                                        *)
Entry ==
  {e \in [by : {"manual", "tick", "halt", "alive", "bye", "expr"}, frame : Frames] :
     /\ e.by = "alive" => e.frame = "alive"
     /\ e.by \in {"manual", "expr"} <=> e.frame \in Claims}

DriveState ==
  [dev : Row, held : BOOLEAN, bound : BOOLEAN, queue : Seq(Ops),
   op : Ops \union {"none"}, latched : BOOLEAN, paused : BOOLEAN, halts : Nat]

ConnState ==
  [dev : Row, aliveness : Aliveness, silence : Nat, since : Nat,
   backgrounded : BOOLEAN, byes : Nat]

UiState ==
  [tab : {"home", "driving", "expressions"}, finger : BOOLEAN, events : Nat,
   life : {"resumed", "paused", "stopping", "stopped", "started"}]

VmState ==
  [entered : BOOLEAN, loaded : BOOLEAN, seen : Row, stopped : BOOLEAN, link : Aliveness]

ExprState == [entered : BOOLEAN, queue : Seq(Ops), op : Ops \union {"none"}]

Typed ==
  /\ row \in Row /\ lane \in Seq(Entry) /\ drv \in DriveState /\ conn \in ConnState
  /\ ui \in UiState /\ vm \in VmState /\ expr \in ExprState

(* Behind every frame of a kind comes one of a sender.                      *)
Covered(s, kind, who) ==
  \A i \in 1 .. Len(s) :
    s[i].frame = kind => \E j \in i + 1 .. Len(s) : s[j].by = who

Without(s, kind) == \A i \in 1 .. Len(s) : s[i].frame # kind

(* Every stick frame under way is ahead of a stop frame still to be         *)
(* counted; a loop that has not seen the pair yet has sent none.            *)
Stopped ==
  /\ row.on /\ drv.latched /\ drv.halts = 0 => Covered(lane, "go", "halt")
  /\ row.on /\ ~drv.dev.on => Without(lane, "go")

(* The same of the knocks and the goodbye.                                  *)
Parted ==
  /\ row.on /\ conn.backgrounded /\ conn.byes = 0 => Covered(lane, "alive", "bye")
  /\ row.on /\ ~conn.dev.on => Without(lane, "alive")

LaneInv == Typed /\ Stopped /\ Parted

(* A screen that is shown asked for its hold last, has its own stick in the *)
(* loop, and holds once it was answered; a pair just made or just gone is   *)
(* nobody's yet.                                                            *)
Serves ==
  /\ vm.entered => ui.tab = "driving"
  /\ vm.entered => \/ drv.op = "none" /\ drv.queue \in {<<>>, <<"enter">>}
                   \/ drv.op = "enter" /\ drv.queue = <<>>
  /\ vm.entered /\ (row.on \/ drv.dev.on) => drv.bound /\ (Settled => drv.held)

(* The inductive invariant. *)
AppInv == LaneInv /\ (Bounces \/ Serves)

-----------------------------------------------------------------------------
(* Sequences. *)

LEMMA Appended ==
  ASSUME NEW s \in Seq(Entry), NEW e \in Entry, NEW kind, NEW who, e.frame # kind
  PROVE  /\ Append(s, e) \in Seq(Entry)
         /\ Without(s, kind) => Without(Append(s, e), kind)
         /\ Covered(s, kind, who) => Covered(Append(s, e), kind, who)
         /\ e.by = who => Covered(Append(s, e), kind, who)
<1> DEFINE t == Append(s, e)
           n == Len(s)
<1>1. /\ t \in Seq(Entry) /\ n \in Nat /\ Len(t) = n + 1 /\ t[n + 1] = e
      /\ \A i \in 1 .. n : t[i] = s[i]
  BY AppendProperties, LenProperties
<1> HIDE DEF t
<1>2. Without(s, kind) => Without(t, kind)
  BY <1>1 DEF Without
<1>3. Covered(s, kind, who) => Covered(t, kind, who)
  <2> SUFFICES ASSUME Covered(s, kind, who), NEW i \in 1 .. n + 1, t[i].frame = kind
               PROVE  \E j \in i + 1 .. n + 1 : t[j].by = who
    BY <1>1 DEF Covered
  <2>1. i \in 1 .. n /\ s[i].frame = kind
    BY <1>1
  <2>2. PICK j \in i + 1 .. n : s[j].by = who
    BY <2>1 DEF Covered
  <2>3. j \in i + 1 .. n + 1 /\ t[j].by = who
    BY <1>1, <2>1, <2>2
  <2> QED
    BY <2>3
<1>4. e.by = who => Covered(t, kind, who)
  <2> SUFFICES ASSUME e.by = who, NEW i \in 1 .. n + 1, t[i].frame = kind
               PROVE  \E j \in i + 1 .. n + 1 : t[j].by = who
    BY <1>1 DEF Covered
  <2>1. n + 1 \in i + 1 .. n + 1 /\ t[n + 1].by = who
    BY <1>1
  <2> QED
    BY <2>1
<1> QED
  BY <1>1, <1>2, <1>3, <1>4 DEF t

LEMMA Counted ==
  ASSUME NEW s \in Seq(Entry), s # <<>>, NEW kind, NEW who
  PROVE  /\ Tail(s) \in Seq(Entry)
         /\ Without(s, kind) => Without(Tail(s), kind)
         /\ Covered(s, kind, who) => Covered(Tail(s), kind, who)
<1> DEFINE t == Tail(s)
           n == Len(s)
<1>1. /\ t \in Seq(Entry) /\ n \in Nat /\ n > 0 /\ Len(t) = n - 1
      /\ \A i \in 1 .. n - 1 : t[i] = s[i + 1]
  BY HeadTailProperties, LenProperties, EmptySeq
<1> HIDE DEF t
<1>2. Without(s, kind) => Without(t, kind)
  <2> SUFFICES ASSUME Without(s, kind), NEW i \in 1 .. n - 1 PROVE t[i].frame # kind
    BY <1>1 DEF Without
  <2>1. i + 1 \in 1 .. n /\ t[i] = s[i + 1]
    BY <1>1
  <2> QED
    BY <2>1 DEF Without
<1>3. Covered(s, kind, who) => Covered(t, kind, who)
  <2> SUFFICES ASSUME Covered(s, kind, who), NEW i \in 1 .. n - 1, t[i].frame = kind
               PROVE  \E j \in i + 1 .. n - 1 : t[j].by = who
    BY <1>1 DEF Covered
  <2>1. i + 1 \in 1 .. n /\ s[i + 1].frame = kind
    BY <1>1
  <2>2. PICK j \in i + 2 .. n : s[j].by = who
    BY <1>1, <2>1 DEF Covered
  <2>3. j - 1 \in i + 1 .. n - 1 /\ t[j - 1] = s[j]
    BY <1>1, <2>1, <2>2
  <2> QED
    BY <2>2, <2>3
<1> QED
  BY <1>1, <1>2, <1>3 DEF t

LEMMA WithoutCovers ==
  ASSUME NEW s, NEW kind, NEW who, Without(s, kind)
  PROVE  Covered(s, kind, who)
BY DEF Without, Covered

-----------------------------------------------------------------------------
(* How the lane can change. *)

SameStop == drv'.latched = drv.latched /\ drv'.halts = drv.halts
SameBye == conn'.backgrounded = conn.backgrounded /\ conn'.byes = conn.byes

(* Nobody joins it: the latch may be released or set with a stop frame to   *)
(* come, and a loop may see the row.                                        *)
LEMMA LaneQuiet ==
  ASSUME LaneInv, lane' = lane, Typed', row'.on => row.on,
         SameStop \/ ~drv'.latched \/ drv'.halts > 0,
         drv'.dev.on = drv.dev.on \/ drv'.dev = row',
         SameBye \/ ~conn'.backgrounded \/ conn'.byes > 0 \/ ~conn.dev.on,
         conn'.dev.on = conn.dev.on \/ conn'.dev = row'
  PROVE  LaneInv'
<1>1. Stopped'
  BY DEF LaneInv, Stopped, SameStop, Typed, DriveState
<1>2. Parted'
  <2>1. row'.on /\ ~conn'.dev.on => Without(lane', "alive")
    BY DEF LaneInv, Parted
  <2>2. row'.on /\ conn'.backgrounded /\ conn'.byes = 0 => Covered(lane', "alive", "bye")
    <3> SUFFICES ASSUME row'.on, conn'.backgrounded, conn'.byes = 0
                 PROVE  Covered(lane', "alive", "bye")
      OBVIOUS
    <3>1. CASE SameBye
      BY <3>1 DEF LaneInv, Parted, SameBye
    <3>2. CASE ~conn.dev.on
      BY <3>2, WithoutCovers DEF LaneInv, Parted
    <3> QED
      BY <3>1, <3>2
  <2> QED
    BY <2>1, <2>2 DEF Parted
<1> QED
  BY <1>1, <1>2 DEF LaneInv

(* Somebody joins it. *)
LEMMA LaneJoined ==
  ASSUME LaneInv, Typed', UNCHANGED row, NEW e \in Entry, lane' = Append(lane, e),
         SameStop \/ e.by = "halt", SameBye \/ e.by = "bye",
         drv'.dev = drv.dev, conn'.dev = conn.dev,
         e.frame = "go" => e.by # "halt" /\ drv.dev.on /\ ~drv.latched,
         e.frame = "alive" => e.by # "bye" /\ conn.dev.on /\ ~conn.backgrounded
  PROVE  LaneInv'
<1>1. lane \in Seq(Entry)
  BY DEF LaneInv, Typed
<1>2. Stopped'
  <2>1. CASE e.frame = "go"
    BY <2>1 DEF Stopped, SameStop
  <2>2. CASE e.frame # "go"
    <3>1. /\ Without(lane, "go") => Without(lane', "go")
          /\ Covered(lane, "go", "halt") => Covered(lane', "go", "halt")
          /\ e.by = "halt" => Covered(lane', "go", "halt")
      BY <1>1, <2>2, Appended
    <3> QED
      BY <3>1 DEF LaneInv, Stopped, SameStop
  <2> QED
    BY <2>1, <2>2
<1>3. Parted'
  <2>1. CASE e.frame = "alive"
    BY <2>1 DEF Parted, SameBye
  <2>2. CASE e.frame # "alive"
    <3>1. /\ Without(lane, "alive") => Without(lane', "alive")
          /\ Covered(lane, "alive", "bye") => Covered(lane', "alive", "bye")
          /\ e.by = "bye" => Covered(lane', "alive", "bye")
      BY <1>1, <2>2, Appended
    <3> QED
      BY <3>1 DEF LaneInv, Parted, SameBye
  <2> QED
    BY <2>1, <2>2
<1> QED
  BY <1>2, <1>3 DEF LaneInv

LEMMA LaneCounted ==
  ASSUME LaneInv, lane # <<>>, lane' = Tail(lane),
         UNCHANGED <<row, drv, conn, ui, vm, expr>>
  PROVE  LaneInv'
<1>1. lane \in Seq(Entry)
  BY DEF LaneInv, Typed
<1>2. /\ lane' \in Seq(Entry)
      /\ Without(lane, "go") => Without(lane', "go")
      /\ Without(lane, "alive") => Without(lane', "alive")
      /\ Covered(lane, "go", "halt") => Covered(lane', "go", "halt")
      /\ Covered(lane, "alive", "bye") => Covered(lane', "alive", "bye")
  BY <1>1, Counted
<1> QED
  BY <1>2 DEF LaneInv, Typed, Stopped, Parted

-----------------------------------------------------------------------------
(* How a screen's hold can change. *)

SameHold ==
  /\ drv'.op = drv.op /\ drv'.queue = drv.queue
  /\ drv'.held = drv.held /\ drv'.bound = drv.bound

LEMMA ServesQuiet ==
  ASSUME Serves, SameHold, drv'.dev = drv.dev, row'.on => row.on,
         vm'.entered => vm.entered, ui'.tab = ui.tab
  PROVE  Serves'
BY DEF Serves, SameHold, Settled

LEMMA ServesNobody == ASSUME ~vm'.entered PROVE Serves'
BY DEF Serves

(* Nothing of what the two invariants speak of changes but the lane.        *)
LEMMA Elsewhere ==
  ASSUME AppInv, UNCHANGED <<row, lane, drv, conn>>, Typed',
         vm'.entered => vm.entered, ui'.tab = ui.tab
  PROVE  AppInv'
<1>1. LaneInv'
  BY LaneQuiet DEF AppInv, SameStop, SameBye
<1>2. Serves => Serves'
  BY ServesQuiet DEF SameHold
<1> QED
  BY <1>1, <1>2 DEF AppInv

-----------------------------------------------------------------------------
(* The calls of the screens. *)

LEMMA Calls ==
  ASSUME NEW d \in DriveState
  PROVE  /\ EnterManual(d) \in DriveState /\ ExitManual(d) \in DriveState
         /\ EmergencyStop(d) \in DriveState /\ ReleaseEmergency(d) \in DriveState
<1>1. Append(d.queue, "enter") \in Seq(Ops) /\ Append(d.queue, "exit") \in Seq(Ops)
  BY AppendProperties DEF DriveState, Ops
<1>2. EnterManual(d) \in DriveState /\ ExitManual(d) \in DriveState
  BY <1>1 DEF EnterManual, ExitManual, DriveState
<1>3. EmergencyStop(d) \in DriveState
  <2>1. d.halts + 1 \in Nat
    BY DEF DriveState
  <2>2. [d EXCEPT !.latched = TRUE, !.halts = d.halts + 1] \in DriveState
    BY <2>1 DEF DriveState
  <2> QED
    BY <2>2 DEF EmergencyStop
<1>4. ReleaseEmergency(d) \in DriveState
  BY DEF ReleaseEmergency, DriveState
<1> QED
  BY <1>2, <1>3, <1>4

LEMMA Happened ==
  ASSUME NEW u \in UiState, Happens(u)
  PROVE  ui' \in UiState /\ ui'.tab = u.tab
<1>1. u.events + 1 \in Nat /\ ui' = [u EXCEPT !.events = u.events + 1]
  BY DEF Happens, UiState
<1> QED
  BY <1>1 DEF UiState

(* What a screen that comes or goes leaves alone.                           *)
Aside == drv'.latched = drv.latched /\ drv'.halts = drv.halts /\ drv'.dev = drv.dev

LEMMA ShownFacts ==
  ASSUME Typed, NEW tab \in {"driving", "expressions"}, Shown(tab)
  PROVE  /\ vm' \in VmState /\ drv' \in DriveState /\ expr' \in ExprState /\ Aside
<1> USE DEF Typed
<1>1. CASE tab = "driving"
  <2>1. /\ vm' = [vm EXCEPT !.entered = TRUE]
        /\ drv' = IF vm.entered THEN drv ELSE EnterManual(drv)
        /\ expr' = expr
    BY <1>1 DEF Shown
  <2>2. vm' \in VmState
    BY <2>1 DEF VmState
  <2>3. drv' \in DriveState
    BY <2>1, Calls
  <2>4. Aside
    BY <2>1 DEF Aside, EnterManual, DriveState
  <2> QED
    BY <2>1, <2>2, <2>3, <2>4
<1>2. CASE tab = "expressions"
  <2>1. /\ expr' = IF expr.entered THEN expr
                   ELSE [expr EXCEPT !.entered = TRUE, !.queue = Append(@, "enter")]
        /\ vm' = vm /\ drv' = drv
    BY <1>2 DEF Shown
  <2>2. Append(expr.queue, "enter") \in Seq(Ops)
    BY AppendProperties DEF ExprState, Ops
  <2>3. expr' \in ExprState
    BY <2>1, <2>2 DEF ExprState
  <2> QED
    BY <2>1, <2>3 DEF Aside
<1> QED
  BY <1>1, <1>2

LEMMA HiddenFacts ==
  ASSUME Typed, NEW tab \in {"home", "driving", "expressions"}, Hidden(tab)
  PROVE  /\ vm' \in VmState /\ drv' \in DriveState /\ expr' \in ExprState /\ Aside
         /\ tab = "driving" => ~vm'.entered
         /\ vm'.entered => vm.entered
<1> USE DEF Typed
<1>1. CASE tab = "driving"
  <2>1. /\ vm' = [vm EXCEPT !.entered = FALSE]
        /\ drv' = IF vm.entered THEN ExitManual(drv) ELSE drv
        /\ expr' = expr
    BY <1>1 DEF Hidden
  <2>2. vm' \in VmState /\ ~vm'.entered
    BY <2>1 DEF VmState
  <2>3. drv' \in DriveState
    BY <2>1, Calls
  <2>4. Aside
    BY <2>1 DEF Aside, ExitManual, DriveState
  <2> QED
    BY <2>1, <2>2, <2>3, <2>4
<1>2. CASE tab = "expressions"
  <2>1. /\ expr' = IF expr.entered
                   THEN [expr EXCEPT !.entered = FALSE, !.queue = Append(@, "exit")]
                   ELSE expr
        /\ vm' = vm /\ drv' = drv
    BY <1>2 DEF Hidden
  <2>2. Append(expr.queue, "exit") \in Seq(Ops)
    BY AppendProperties DEF ExprState, Ops
  <2>3. expr' \in ExprState
    BY <2>1, <2>2 DEF ExprState
  <2> QED
    BY <1>2, <2>1, <2>3 DEF Aside
<1>3. CASE tab = "home"
  BY <1>3 DEF Hidden, Aside
<1> QED
  BY <1>1, <1>2, <1>3

(* A screen comes into view: it asks for its hold once all before it was    *)
(* answered.                                                                *)
LEMMA ShownServes ==
  ASSUME Typed, Serves, ~Bounces, NEW tab \in {"driving", "expressions"}, Shown(tab),
         UNCHANGED row, ui'.tab = tab, vm.entered => ui.tab = tab
  PROVE  Serves'
<1> USE DEF Typed
<1>1. CASE tab = "expressions"
  <2>1. ~vm'.entered
    BY <1>1 DEF Shown, Serves
  <2> QED
    BY <2>1, ServesNobody
<1>2. CASE tab = "driving" /\ vm.entered
  <2>1. drv' = drv
    BY <1>2 DEF Shown
  <2> QED
    BY <1>2, <2>1 DEF Serves, Settled
<1>3. CASE tab = "driving" /\ ~vm.entered
  <2>1. drv' = EnterManual(drv) /\ Settled
    BY <1>3 DEF Shown
  <2>2. drv'.bound /\ drv'.op = "none" /\ drv'.queue = <<"enter">>
    BY <2>1 DEF EnterManual, DriveState, Settled
  <2> QED
    BY <1>3, <2>2 DEF Serves, Settled
<1> QED
  BY <1>1, <1>2, <1>3

LEMMA OpenKeeps ==
  ASSUME AppInv, NEW tab \in {"driving", "expressions"}, OpenScreen(tab)
  PROVE  AppInv'
<1> USE DEF AppInv, LaneInv
<1>1. ui' \in UiState /\ ui'.tab = tab /\ ui.tab = "home"
  <2>1. [ui EXCEPT !.tab = tab] \in UiState /\ [ui EXCEPT !.tab = tab].tab = tab
    BY DEF Typed, UiState
  <2> QED
    BY <2>1, Happened DEF OpenScreen
<1>2. UNCHANGED <<row, lane, stick, conn>> /\ Shown(tab)
  BY DEF OpenScreen
<1>3. Typed' /\ Aside
  BY <1>1, <1>2, ShownFacts DEF Typed
<1>4. LaneInv'
  BY <1>2, <1>3, LaneQuiet DEF Aside, SameStop, SameBye
<1>5. ~Bounces /\ Serves => Serves'
  BY <1>1, <1>2, ShownServes DEF Serves
<1> QED
  BY <1>4, <1>5

LEMMA ResumeKeeps ==
  ASSUME AppInv, Resume
  PROVE  AppInv'
<1> USE DEF AppInv, LaneInv
<1>1. ui' \in UiState /\ ui'.tab = ui.tab /\ ui.tab \in {"home", "driving", "expressions"}
  BY DEF Resume, Typed, UiState
<1>2. UNCHANGED <<row, lane, stick, conn>>
  BY DEF Resume
<1>3. CASE ui.tab = "home"
  <2>1. UNCHANGED <<vm, drv, expr>>
    BY <1>3 DEF Resume
  <2> QED
    BY <1>1, <1>2, <2>1, Elsewhere DEF Typed
<1>4. CASE ui.tab # "home"
  <2>1. Shown(ui.tab) /\ ui.tab \in {"driving", "expressions"}
    BY <1>1, <1>4 DEF Resume
  <2>2. Typed' /\ Aside
    BY <1>1, <1>2, <2>1, ShownFacts DEF Typed
  <2>3. LaneInv'
    BY <1>2, <2>2, LaneQuiet DEF Aside, SameStop, SameBye
  <2>4. ~Bounces /\ Serves => Serves'
    BY <1>1, <1>2, <2>1, ShownServes
  <2> QED
    BY <2>3, <2>4
<1> QED
  BY <1>3, <1>4

LEMMA LeaveKeeps ==
  ASSUME AppInv, LeaveScreen \/ Pause
  PROVE  AppInv'
<1> USE DEF AppInv, LaneInv
<1>1. ui' \in UiState /\ ui.tab \in {"home", "driving", "expressions"}
  <2>1. /\ [ui EXCEPT !.tab = "home"] \in UiState
        /\ [ui EXCEPT !.life = "paused"] \in UiState
        /\ ui.tab \in {"home", "driving", "expressions"}
    BY DEF Typed, UiState
  <2>2. CASE LeaveScreen
    BY <2>1, <2>2 DEF LeaveScreen
  <2>3. CASE Pause
    BY <2>1, <2>3, Happened DEF Pause
  <2> QED
    BY <2>1, <2>2, <2>3
<1>2. UNCHANGED <<row, lane, stick, conn>> /\ Hidden(ui.tab)
  BY DEF LeaveScreen, Pause
<1>3. Typed' /\ Aside
  BY <1>1, <1>2, HiddenFacts DEF Typed
<1>4. LaneInv'
  BY <1>2, <1>3, LaneQuiet DEF Aside, SameStop, SameBye
<1>5. Serves => ~vm'.entered
  BY <1>1, <1>2, HiddenFacts DEF Serves
<1> QED
  BY <1>4, <1>5, ServesNobody

-----------------------------------------------------------------------------
(* The rest of the driving screen and of the app's life. *)

LEMMA PadKeeps ==
  ASSUME AppInv, Touch \/ Drag \/ Lift
  PROVE  AppInv'
<1> USE DEF AppInv, LaneInv
<1>1. ui' \in UiState /\ ui'.tab = ui.tab
  BY DEF Touch, Drag, Lift, Typed, UiState
<1>2. UNCHANGED <<row, lane, drv, conn, vm, expr>>
  BY DEF Touch, Drag, Lift
<1> QED
  BY <1>1, <1>2, Elsewhere DEF Typed

LEMMA StopKeeps ==
  ASSUME AppInv, OnEmergencyStop \/ OnReleaseEmergency
  PROVE  AppInv'
<1> USE DEF AppInv, LaneInv
<1>1. ui' \in UiState /\ ui'.tab = ui.tab
  BY Happened DEF OnEmergencyStop, OnReleaseEmergency, Typed
<1>2. /\ UNCHANGED <<row, lane, conn, expr>>
      /\ vm' \in VmState /\ vm'.entered = vm.entered
      /\ drv' \in {EmergencyStop(drv), ReleaseEmergency(drv)}
  BY DEF OnEmergencyStop, OnReleaseEmergency, Typed, VmState
<1>3. drv' \in DriveState
  BY <1>2, Calls DEF Typed
<1>4. /\ SameHold /\ drv'.dev = drv.dev
      /\ SameStop \/ ~drv'.latched \/ drv'.halts > 0
  <2>1. CASE drv' = EmergencyStop(drv)
    <3>1. drv \in DriveState /\ drv.halts \in Nat
      BY DEF Typed, DriveState
    <3>2. CASE drv.latched
      BY <2>1, <3>2 DEF EmergencyStop, SameHold, SameStop
    <3>3. CASE ~drv.latched
      <4>1. drv' = [drv EXCEPT !.latched = TRUE, !.halts = drv.halts + 1]
        BY <2>1, <3>1, <3>3 DEF EmergencyStop
      <4>2. drv'.halts = drv.halts + 1 /\ SameHold /\ drv'.dev = drv.dev
        BY <3>1, <4>1 DEF DriveState, SameHold
      <4> QED
        BY <3>1, <4>2
    <3> QED
      BY <3>2, <3>3
  <2>2. CASE drv' = ReleaseEmergency(drv)
    BY <2>2 DEF ReleaseEmergency, DriveState, Typed, SameHold
  <2> QED
    BY <1>2, <2>1, <2>2
<1>5. LaneInv'
  BY <1>1, <1>2, <1>3, <1>4, LaneQuiet DEF Typed, SameBye
<1>6. Serves => Serves'
  BY <1>1, <1>2, <1>4, ServesQuiet
<1> QED
  BY <1>5, <1>6

LEMMA LifeKeeps ==
  ASSUME AppInv, LinkToBackground \/ DriveToBackground \/ ToForeground
  PROVE  AppInv'
<1> USE DEF AppInv, LaneInv
<1>1. ui' \in UiState /\ ui'.tab = ui.tab
  BY DEF LinkToBackground, DriveToBackground, ToForeground, Typed, UiState
<1>2. UNCHANGED <<row, lane, vm, expr>>
  BY DEF LinkToBackground, DriveToBackground, ToForeground, driveVars
<1>3. drv' \in DriveState /\ SameHold /\ SameStop /\ drv'.dev = drv.dev
  <2>1. drv' \in {drv, [drv EXCEPT !.paused = TRUE], [drv EXCEPT !.paused = FALSE]}
    BY DEF LinkToBackground, DriveToBackground, ToForeground, driveVars
  <2> QED
    BY <2>1 DEF Typed, DriveState, SameHold, SameStop
<1>4. /\ conn' \in ConnState /\ conn'.dev = conn.dev
      /\ SameBye \/ ~conn'.backgrounded \/ conn'.byes > 0 \/ ~conn.dev.on
  <2>1. CASE LinkToBackground
    <3>1. conn \in ConnState /\ conn.byes \in Nat
      BY DEF Typed, ConnState
    <3> DEFINE byes == IF conn.dev.on THEN conn.byes + 1 ELSE conn.byes
    <3>2. byes \in Nat /\ (byes > 0 \/ ~conn.dev.on)
      BY <3>1
    <3>3. conn' = [conn EXCEPT !.backgrounded = TRUE, !.byes = byes]
      BY <2>1, <3>1 DEF LinkToBackground, OnBackground, ConnState
    <3> HIDE DEF byes
    <3> QED
      BY <3>1, <3>2, <3>3 DEF ConnState
  <2>2. CASE DriveToBackground
    BY <2>2 DEF DriveToBackground, Typed, SameBye
  <2>3. CASE ToForeground
    <3>1. AliveEvery \in Nat
      BY WatchAssumption
    <3> QED
      BY <2>3, <3>1 DEF ToForeground, OnForeground, Typed, ConnState
  <2> QED
    BY <2>1, <2>2, <2>3
<1>5. LaneInv'
  BY <1>1, <1>2, <1>3, <1>4, LaneQuiet DEF Typed
<1>6. Serves => Serves'
  BY <1>1, <1>2, <1>3, ServesQuiet
<1> QED
  BY <1>5, <1>6

LEMMA MainKeeps ==
  ASSUME AppInv, VmSeesLink \/ VmSeesRow \/ ExprOpEnds
  PROVE  AppInv'
<1> USE DEF AppInv, LaneInv
<1>1. UNCHANGED <<row, lane, drv, conn, ui>>
  BY DEF VmSeesLink, VmSeesRow, ExprOpEnds, driveVars
<1>2. expr' \in ExprState
  BY DEF VmSeesLink, VmSeesRow, ExprOpEnds, Typed, ExprState
<1>3. vm' \in VmState /\ (vm'.entered => vm.entered)
  <2>1. CASE VmSeesLink
    BY <2>1 DEF VmSeesLink, Typed, VmState, ConnState
  <2>2. CASE VmSeesRow
    <3> DEFINE entered == vm.entered /\ ~vm.loaded
    <3>1. entered \in BOOLEAN /\ (entered => vm.entered)
      BY DEF Typed, VmState
    <3>2. vm' = [vm EXCEPT !.loaded = TRUE, !.seen = row, !.entered = entered]
      BY <2>2 DEF VmSeesRow, Typed, VmState
    <3> HIDE DEF entered
    <3> QED
      BY <3>1, <3>2 DEF Typed, VmState
  <2>3. CASE ExprOpEnds
    BY <2>3 DEF ExprOpEnds, Typed
  <2> QED
    BY <2>1, <2>2, <2>3
<1> QED
  BY <1>1, <1>2, <1>3, Elsewhere DEF Typed

-----------------------------------------------------------------------------
(* The mutex and the loops. *)

LEMMA Joins ==
  ASSUME NEW who \in {"manual", "tick", "halt", "alive", "bye", "expr"},
         NEW frame \in Frames, Queue(who, frame), who = "alive" => frame = "alive",
         who \in {"manual", "expr"} <=> frame \in Claims
  PROVE  /\ [by |-> who, frame |-> frame] \in Entry
         /\ lane' = Append(lane, [by |-> who, frame |-> frame])
BY DEF Entry, Queue

LEMMA AllocateKeeps ==
  ASSUME AppInv, Allocate, UNCHANGED <<conn, ui, vm, expr>>
  PROVE  AppInv'
<1>1. LaneInv'
  BY LaneCounted DEF AppInv, Allocate
<1>2. Serves => Serves'
  BY ServesQuiet DEF Allocate, SameHold
<1> QED
  BY <1>1, <1>2 DEF AppInv

LEMMA TickKeeps ==
  ASSUME AppInv, DriveTick, UNCHANGED <<conn, ui, vm, expr>>
  PROVE  AppInv'
<1> USE DEF AppInv, LaneInv
<1> DEFINE e == [by |-> "tick", frame |-> Sampled(drv)]
<1>1. Sampled(drv) \in Frames /\ (Sampled(drv) = "go" => ~drv.latched)
      /\ Sampled(drv) # "alive" /\ Sampled(drv) \notin Claims
  BY DEF Sampled, Frames, Motions, Claims
<1>2. e \in Entry /\ lane' = Append(lane, e)
  BY <1>1, Joins DEF DriveTick
<1>3. UNCHANGED <<row, drv>> /\ drv.dev.on
  BY DEF DriveTick
<1>4. Typed'
  BY <1>2, <1>3, AppendProperties DEF Typed
<1>5. LaneInv'
  BY <1>1, <1>2, <1>3, <1>4, LaneJoined DEF SameStop, SameBye
<1>6. Serves => Serves'
  BY <1>3, ServesQuiet DEF SameHold
<1> QED
  BY <1>5, <1>6

LEMMA HaltKeeps ==
  ASSUME AppInv, HaltStarts, UNCHANGED <<conn, ui, vm, expr>>
  PROVE  AppInv'
<1> USE DEF AppInv, LaneInv
<1>1. drv \in DriveState /\ drv.halts > 0 /\ drv.halts \in Nat /\ drv.halts - 1 \in Nat
  BY DEF HaltStarts, Typed, DriveState
<1>2. drv' = [drv EXCEPT !.halts = drv.halts - 1]
  BY <1>1 DEF HaltStarts, DriveState
<1>3. drv' \in DriveState /\ SameHold /\ drv'.dev = drv.dev /\ drv'.latched = drv.latched
  BY <1>1, <1>2 DEF DriveState, SameHold
<1>4. row' = row
  BY DEF HaltStarts
<1>5. LaneInv'
  <2>1. CASE drv.dev.on
    <3> DEFINE e == [by |-> "halt", frame |-> "halt"]
    <3>1. e \in Entry /\ lane' = Append(lane, e)
      BY <2>1, Joins DEF HaltStarts, Frames, Motions, Claims
    <3>2. Typed'
      BY <1>3, <1>4, <3>1, AppendProperties DEF Typed
    <3> QED
      BY <1>3, <1>4, <3>1, <3>2, LaneJoined DEF SameBye
  <2>2. CASE ~drv.dev.on
    <3>1. lane' = lane
      BY <2>2 DEF HaltStarts
    <3>2. Typed'
      BY <1>3, <1>4, <3>1 DEF Typed
    <3>3. Stopped'
      BY <1>3, <1>4, <2>2, <3>1, WithoutCovers DEF Stopped
    <3>4. Parted'
      BY <1>4, <3>1 DEF Parted
    <3> QED
      BY <3>2, <3>3, <3>4
  <2> QED
    BY <2>1, <2>2
<1>6. Serves => Serves'
  BY <1>3, <1>4, ServesQuiet
<1> QED
  BY <1>5, <1>6

LEMMA DriveRowKeeps ==
  ASSUME AppInv, DriveSeesRow, UNCHANGED <<conn, ui, vm, expr>>
  PROVE  AppInv'
<1> USE DEF AppInv, LaneInv
<1>1. /\ drv \in DriveState /\ row \in Row
      /\ drv' = IF row.on THEN [drv EXCEPT !.dev = row]
                ELSE [drv EXCEPT !.dev = row, !.held = FALSE, !.bound = FALSE]
  BY DEF DriveSeesRow, Typed
<1>2. /\ drv' \in DriveState /\ drv'.dev = row /\ SameStop
      /\ drv'.op = drv.op /\ drv'.queue = drv.queue
      /\ row.on => drv'.held = drv.held /\ drv'.bound = drv.bound
  BY <1>1 DEF DriveState, SameStop
<1>3. UNCHANGED <<row, lane>>
  BY DEF DriveSeesRow
<1>4. LaneInv'
  BY <1>2, <1>3, LaneQuiet DEF Typed, SameBye
<1>5. Serves => Serves'
  BY <1>2, <1>3 DEF Serves, Settled
<1> QED
  BY <1>4, <1>5

LEMMA WatchKeeps ==
  ASSUME AppInv, WatchSeesRow \/ WatchTick \/ GoodbyeStarts, UNCHANGED <<ui, vm, expr>>
  PROVE  AppInv'
<1> USE DEF AppInv, LaneInv
<1>1. UNCHANGED <<row, drv>>
  BY DEF WatchSeesRow, WatchTick, GoodbyeStarts, driveVars
<1>2. conn \in ConnState /\ row \in Row /\ {StaleTicks, AliveEvery, DeadTicks} \subseteq Nat
  BY WatchAssumption DEF Typed
<1>3. CASE WatchSeesRow
  <2> DEFINE silence == IF row.on THEN StaleTicks ELSE 0
             alive == IF ~row.on THEN "Unpaired"
                      ELSE IF conn.aliveness = "Unpaired" THEN "Stale" ELSE conn.aliveness
  <2>1. silence \in Nat /\ alive \in Aliveness
    BY <1>2 DEF ConnState, Aliveness
  <2>2. conn' = [conn EXCEPT !.dev = row, !.since = AliveEvery, !.silence = silence,
                             !.aliveness = alive]
    BY <1>2, <1>3 DEF WatchSeesRow, ConnState
  <2> HIDE DEF silence, alive
  <2>3. conn' \in ConnState /\ conn'.dev = row /\ SameBye
    BY <1>2, <2>1, <2>2 DEF ConnState, SameBye
  <2>4. lane' = lane
    BY <1>3 DEF WatchSeesRow, driveVars
  <2> QED
    BY <1>1, <2>3, <2>4, LaneQuiet, ServesQuiet DEF Typed, SameStop, SameHold
<1>4. CASE WatchTick
  <2> DEFINE since == IF conn.since < AliveEvery THEN conn.since + 1 ELSE conn.since
             due == since = AliveEvery
             noted == NoteSilence(conn)
  <2>1. since \in Nat /\ noted \in ConnState /\ noted.dev = conn.dev
        /\ noted.backgrounded = conn.backgrounded /\ noted.byes = conn.byes
    <3> DEFINE silence == IF conn.silence < DeadTicks THEN conn.silence + 1
                          ELSE conn.silence
               alive == IF <<conn.aliveness, Judged(silence)>> \in Worse
                        THEN Judged(silence) ELSE conn.aliveness
    <3>1. since \in Nat /\ silence \in Nat
      BY <1>2 DEF ConnState
    <3>2. alive \in Aliveness
      BY <1>2 DEF Judged, Aliveness, ConnState
    <3>3. noted = [conn EXCEPT !.silence = silence, !.aliveness = alive]
      BY <1>2 DEF NoteSilence, ConnState
    <3> HIDE DEF silence, alive, noted
    <3>4. noted \in ConnState /\ noted.dev = conn.dev
          /\ noted.backgrounded = conn.backgrounded /\ noted.byes = conn.byes
      BY <1>2, <3>1, <3>2, <3>3 DEF ConnState
    <3> QED
      BY <3>1, <3>4
  <2>2. /\ conn.dev.on /\ ~conn.backgrounded
        /\ conn' = [noted EXCEPT !.since = IF due THEN 0 ELSE since]
        /\ IF due THEN Queue("alive", "alive") ELSE UNCHANGED lane
    BY <1>4 DEF WatchTick
  <2> HIDE DEF since, due, noted
  <2>3. conn' \in ConnState /\ conn'.dev = conn.dev /\ SameBye
    <3>1. (IF due THEN 0 ELSE since) \in Nat
      BY <2>1
    <3> QED
      BY <2>1, <2>2, <3>1 DEF ConnState, SameBye
  <2>4. CASE due
    <3> DEFINE e == [by |-> "alive", frame |-> "alive"]
    <3>1. e \in Entry /\ lane' = Append(lane, e)
      BY <2>2, <2>4, Joins DEF Frames, Words, Claims
    <3>2. Typed'
      BY <1>1, <2>3, <3>1, AppendProperties DEF Typed
    <3>3. LaneInv'
      BY <1>1, <2>2, <2>3, <3>1, <3>2, LaneJoined DEF SameStop
    <3> QED
      BY <1>1, <3>3, ServesQuiet DEF SameHold
  <2>5. CASE ~due
    <3>1. lane' = lane
      BY <2>2, <2>5
    <3> QED
      BY <1>1, <2>3, <3>1, LaneQuiet, ServesQuiet DEF Typed, SameStop, SameHold
  <2> QED
    BY <2>4, <2>5
<1>5. CASE GoodbyeStarts
  <2> DEFINE e == [by |-> "bye", frame |-> "bye"]
  <2>1. e \in Entry /\ lane' = Append(lane, e)
    BY <1>5, Joins DEF GoodbyeStarts, Frames, Words, Claims
  <2>2. conn.byes - 1 \in Nat /\ conn' = [conn EXCEPT !.byes = conn.byes - 1]
    BY <1>2, <1>5 DEF GoodbyeStarts, ConnState
  <2>3. conn' \in ConnState /\ conn'.dev = conn.dev
    BY <1>2, <2>2 DEF ConnState
  <2>4. Typed'
    BY <1>1, <2>1, <2>3, AppendProperties DEF Typed
  <2>5. LaneInv'
    BY <1>1, <2>1, <2>3, <2>4, LaneJoined DEF SameStop
  <2> QED
    BY <1>1, <2>5, ServesQuiet DEF SameHold
<1> QED
  BY <1>3, <1>4, <1>5

-----------------------------------------------------------------------------
(* The hold's own operations. *)

LEMMA Queued ==
  ASSUME NEW q \in Seq(Ops), q # <<>>
  PROVE  Head(q) \in Ops /\ Tail(q) \in Seq(Ops) /\ Claim(Head(q)) \in Claims
<1>1. Head(q) \in Ops /\ Tail(q) \in Seq(Ops)
  BY HeadTailProperties
<1> QED
  BY <1>1 DEF Claim, Claims, Ops

LEMMA EndedFacts ==
  ASSUME NEW d \in DriveState, NEW op \in Ops
  PROVE  /\ Ended(d, op) \in DriveState
         /\ Ended(d, op).latched = d.latched /\ Ended(d, op).halts = d.halts
         /\ Ended(d, op).dev = d.dev /\ Ended(d, op).queue = d.queue
         /\ Ended(d, op).op = "none"
         /\ op = "enter" => Ended(d, op).held /\ Ended(d, op).bound = d.bound
BY DEF Ended, DriveState, Ops

LEMMA OpStartKeeps ==
  ASSUME AppInv, ManualOpStarts, UNCHANGED <<conn, ui, vm, expr>>
  PROVE  AppInv'
<1> USE DEF AppInv, LaneInv
<1> DEFINE op == Head(drv.queue)
           rest == Tail(drv.queue)
           d == [drv EXCEPT !.queue = rest]
<1>1. drv \in DriveState /\ drv.op = "none" /\ drv.queue # <<>> /\ drv.queue \in Seq(Ops)
  BY DEF ManualOpStarts, Typed, DriveState
<1>2. op \in Ops /\ rest \in Seq(Ops) /\ Claim(op) \in Claims
  BY <1>1, Queued
<1>3. IF drv.dev.on
      THEN drv' = [d EXCEPT !.op = op] /\ Queue("manual", Claim(op))
      ELSE drv' = Ended(d, op) /\ UNCHANGED lane
  BY <1>1 DEF ManualOpStarts, DriveState
<1>4. row' = row
  BY DEF ManualOpStarts
<1>5. Serves /\ vm.entered => op = "enter" /\ rest = <<>>
  <2>1. Serves /\ vm.entered => drv.queue = <<"enter">>
    BY <1>1, Zenon DEF Serves
  <2>2. Head(<<"enter">>) = "enter" /\ Tail(<<"enter">>) = <<>>
    OBVIOUS
  <2> QED
    BY <2>1, <2>2
<1> HIDE DEF op, rest
<1>6. /\ d \in DriveState /\ d.latched = drv.latched /\ d.halts = drv.halts
      /\ d.dev = drv.dev /\ d.queue = rest /\ d.op = "none"
      /\ d.held = drv.held /\ d.bound = drv.bound
  BY <1>1, <1>2 DEF DriveState
<1> HIDE DEF d
<1>7. CASE drv.dev.on
  <2> DEFINE e == [by |-> "manual", frame |-> Claim(op)]
  <2>1. drv' = [d EXCEPT !.op = op] /\ Queue("manual", Claim(op))
    BY <1>3, <1>7
  <2>2. e \in Entry /\ lane' = Append(lane, e) /\ e.frame \notin {"go", "alive"}
    BY <1>2, <2>1, Joins DEF Frames, Claims
  <2>3. /\ drv' \in DriveState /\ SameStop /\ drv'.dev = drv.dev
        /\ drv'.op = op /\ drv'.queue = rest /\ drv'.bound = drv.bound
    BY <1>2, <1>6, <2>1 DEF DriveState, SameStop
  <2>4. Typed'
    BY <1>4, <2>2, <2>3, AppendProperties DEF Typed
  <2>5. LaneInv'
    BY <1>4, <2>2, <2>3, <2>4, LaneJoined DEF SameBye
  <2>6. Serves => Serves'
    BY <1>2, <1>4, <1>5, <2>3 DEF Serves, Settled
  <2> QED
    BY <2>5, <2>6
<1>8. CASE ~drv.dev.on
  <2>1. drv' = Ended(d, op) /\ lane' = lane
    BY <1>3, <1>8
  <2>2. drv' \in DriveState /\ SameStop /\ drv'.dev = drv.dev
        /\ drv'.queue = rest /\ drv'.op = "none"
        /\ (op = "enter" => drv'.held /\ drv'.bound = drv.bound)
    BY <1>2, <1>6, <2>1, EndedFacts DEF SameStop
  <2>3. LaneInv'
    BY <1>4, <2>1, <2>2, LaneQuiet DEF Typed, SameBye
  <2>4. Serves => Serves'
    BY <1>4, <1>5, <2>2 DEF Serves, Settled
  <2> QED
    BY <2>3, <2>4
<1> QED
  BY <1>7, <1>8

LEMMA OpEndKeeps ==
  ASSUME AppInv, ManualOpEnds, UNCHANGED <<conn, ui, vm, expr>>
  PROVE  AppInv'
<1> USE DEF AppInv, LaneInv
<1>1. drv \in DriveState /\ drv.op \in Ops /\ drv' = Ended(drv, drv.op)
  BY DEF ManualOpEnds, Typed, DriveState
<1>2. UNCHANGED <<row, lane>>
  BY DEF ManualOpEnds
<1>3. drv' \in DriveState /\ SameStop /\ drv'.dev = drv.dev
      /\ drv'.queue = drv.queue /\ drv'.op = "none"
      /\ (drv.op = "enter" => drv'.held /\ drv'.bound = drv.bound)
  BY <1>1, EndedFacts DEF SameStop
<1>4. LaneInv'
  BY <1>2, <1>3, LaneQuiet DEF Typed, SameBye
<1>5. Serves => Serves'
  BY <1>1, <1>2, <1>3 DEF Serves, Settled, Ops
<1> QED
  BY <1>4, <1>5

LEMMA ExprStartKeeps ==
  ASSUME AppInv, ExprOpStarts
  PROVE  AppInv'
<1> USE DEF AppInv, LaneInv
<1> DEFINE op == Head(expr.queue)
           rest == Tail(expr.queue)
<1>1. expr \in ExprState /\ expr.queue # <<>> /\ expr.queue \in Seq(Ops)
  BY DEF ExprOpStarts, Typed, ExprState
<1>2. op \in Ops /\ rest \in Seq(Ops) /\ Claim(op) \in Claims
  BY <1>1, Queued
<1>3. IF row.on
      THEN expr' = [expr EXCEPT !.queue = rest, !.op = op] /\ Queue("expr", Claim(op))
      ELSE expr' = [expr EXCEPT !.queue = rest] /\ UNCHANGED lane
  BY <1>1 DEF ExprOpStarts, ExprState
<1>4. UNCHANGED <<row, drv, conn, ui, vm>>
  BY DEF ExprOpStarts
<1> HIDE DEF op, rest
<1>5. expr' \in ExprState
  BY <1>1, <1>2, <1>3 DEF ExprState
<1>6. Serves => Serves'
  BY <1>4, ServesQuiet DEF SameHold
<1>7. CASE row.on
  <2> DEFINE e == [by |-> "expr", frame |-> Claim(op)]
  <2>1. e \in Entry /\ lane' = Append(lane, e) /\ e.frame \notin {"go", "alive"}
    BY <1>2, <1>3, <1>7, Joins DEF Frames, Claims
  <2>2. Typed'
    BY <1>4, <1>5, <2>1, AppendProperties DEF Typed
  <2> QED
    BY <1>4, <1>6, <2>1, <2>2, LaneJoined DEF SameStop, SameBye
<1>8. CASE ~row.on
  <2>1. lane' = lane
    BY <1>3, <1>8
  <2> QED
    BY <1>4, <1>5, <1>6, <2>1, LaneQuiet DEF Typed, SameStop, SameBye
<1> QED
  BY <1>7, <1>8

-----------------------------------------------------------------------------
(* The rows and the telemetry. *)

LEMMA PairKeeps ==
  ASSUME AppInv, Pair
  PROVE  AppInv'
<1> USE DEF AppInv, LaneInv
<1>1. row' \in Row /\ lane = <<>> /\ UNCHANGED <<lane, drv, conn, ui, vm, expr>>
  BY DEF Pair, RowChanges, Row
<1>2. Typed'
  BY <1>1 DEF Typed
<1>3. \A kind, who : Without(<<>>, kind) /\ Covered(<<>>, kind, who)
  BY DEF Without, Covered
<1>4. Stopped' /\ Parted'
  BY <1>1, <1>3 DEF Stopped, Parted
<1>5. Serves => ~vm'.entered
  BY <1>1 DEF Pair, Serves
<1> QED
  BY <1>2, <1>4, <1>5, ServesNobody

LEMMA RowKeeps ==
  ASSUME AppInv, Unpair \/ Refreshed
  PROVE  AppInv'
<1> USE DEF AppInv, LaneInv
<1>1. row.on /\ UNCHANGED <<lane, drv, conn, vm, expr>>
  BY DEF Unpair, Refreshed, RowChanges
<1>2. row' \in Row
  <2>1. CASE Unpair
    BY <2>1 DEF Unpair, RowChanges, NoRow, Row
  <2>2. CASE Refreshed
    <3>1. row.era + 1 \in Nat /\ row' = [row EXCEPT !.era = row.era + 1]
      BY <2>2 DEF Refreshed, RowChanges, Typed, Row
    <3> QED
      BY <3>1 DEF Typed, Row
  <2> QED
    BY <2>1, <2>2
<1>3. ui' \in UiState /\ ui'.tab = ui.tab
  BY Happened DEF Unpair, Refreshed, Typed
<1>4. LaneInv'
  BY <1>1, <1>2, <1>3, LaneQuiet DEF Typed, SameStop, SameBye
<1>5. Serves => Serves'
  BY <1>1, <1>3, ServesQuiet DEF SameHold
<1> QED
  BY <1>4, <1>5

LEMMA TelemetryKeeps ==
  ASSUME AppInv, Telemetry
  PROVE  AppInv'
<1> USE DEF AppInv, LaneInv
<1>1. UNCHANGED <<row, lane, drv, vm, expr>>
  BY DEF Telemetry, TelemetryHeard, driveVars
<1>2. conn' \in ConnState /\ conn'.dev = conn.dev /\ SameBye
  BY DEF Telemetry, TelemetryHeard, Typed, ConnState, Aliveness, SameBye
<1>3. ui' \in UiState /\ ui'.tab = ui.tab
  BY Happened DEF Telemetry, Typed
<1> QED
  BY <1>1, <1>2, <1>3, LaneQuiet, ServesQuiet DEF Typed, SameStop, SameHold

-----------------------------------------------------------------------------
LEMMA Starts == Init => AppInv
<1> SUFFICES ASSUME Init PROVE AppInv
  OBVIOUS
<1>1. NoRow \in Row /\ [on |-> TRUE, era |-> 0] \in Row /\ AliveEvery \in Nat
  BY WatchAssumption DEF NoRow, Row
<1>2. row \in Row /\ lane = <<>>
  BY <1>1 DEF Init, DriveInit
<1>3. drv \in DriveState
  BY <1>1 DEF Init, DriveInit, DriveState
<1>4. conn \in ConnState
  BY <1>1 DEF Init, WatchInit, ConnState, Aliveness
<1>5. ui \in UiState /\ vm \in VmState /\ expr \in ExprState /\ ~vm.entered
  BY <1>1 DEF Init, UiState, VmState, ExprState, Aliveness
<1>6. Typed
  BY <1>2, <1>3, <1>4, <1>5 DEF Typed
<1>7. Stopped /\ Parted
  BY <1>2 DEF Stopped, Parted, Without, Covered
<1>8. Serves
  BY <1>5 DEF Serves
<1> QED
  BY <1>6, <1>7, <1>8 DEF AppInv, LaneInv

LEMMA Stays == ASSUME AppInv, UNCHANGED vars PROVE AppInv'
<1>1. Typed' /\ ui'.tab = ui.tab /\ vm' = vm
  BY DEF vars, driveVars, AppInv, LaneInv, Typed
<1> QED
  BY <1>1, Elsewhere DEF vars, driveVars

(* The induction: types, what waits in the lane (Stopped, Parted) and what  *)
(* a screen in view is served (Serves) hold in every reachable state.       *)
LEMMA AppInvariant == Spec => []AppInv
<1>1. AppInv /\ [Next]_vars => AppInv'
  <2> SUFFICES ASSUME AppInv, [Next]_vars PROVE AppInv'
    OBVIOUS
  <2>1. CASE User
    BY <2>1, OpenKeeps, LeaveKeeps, PadKeeps, StopKeeps DEF User
  <2>2. CASE Life
    BY <2>2, ResumeKeeps, LifeKeeps DEF Life
  <2>3. CASE Lane
    BY <2>3, AllocateKeeps, OpStartKeeps, OpEndKeeps, TickKeeps, HaltKeeps, DriveRowKeeps,
       WatchKeeps DEF Lane, DriveSteps, WatchSteps
  <2>4. CASE Main
    BY <2>4, MainKeeps, ExprStartKeeps DEF Main
  <2>5. CASE Pair \/ Unpair \/ Refreshed \/ Telemetry
    BY <2>5, PairKeeps, RowKeeps, TelemetryKeeps
  <2>6. CASE UNCHANGED vars
    BY <2>6, Stays
  <2> QED
    BY <2>1, <2>2, <2>3, <2>4, <2>5, <2>6 DEF Next
<1> QED
  BY <1>1, Starts, PTL DEF Spec

(* Once every stop frame launched has its counter, no stick frame is left   *)
(* to take a later one until the stop is released                           *)
(* (DriveController.emergencyStop).                                         *)
THEOREM StopsOutrank == Spec => []StopOutranks
<1>1. AppInv => StopOutranks
  <2> SUFFICES ASSUME AppInv, row.on, drv.latched, drv.halts = 0, ~Waits("halt"),
                      NEW i \in DOMAIN lane, lane[i].frame = "go"
               PROVE  FALSE
    BY DEF StopOutranks
  <2>1. DOMAIN lane = 1 .. Len(lane) /\ Len(lane) \in Nat
    BY LenProperties DEF AppInv, LaneInv, Typed
  <2>2. PICK j \in i + 1 .. Len(lane) : lane[j].by = "halt"
    BY <2>1 DEF AppInv, LaneInv, Stopped, Covered
  <2>3. j \in DOMAIN lane
    BY <2>1, <2>2
  <2> QED
    BY <2>2, <2>3 DEF Waits
<1> QED
  BY AppInvariant, <1>1, PTL

(* Nor, once every goodbye has its own, a knock until the app is in front   *)
(* again (ConnectionManager.onBackground).                                  *)
THEOREM GoodbyesStand == Spec => []GoodbyeStands
<1>1. AppInv => GoodbyeStands
  <2> SUFFICES ASSUME AppInv, row.on, conn.backgrounded, conn.byes = 0, ~Waits("bye"),
                      NEW i \in DOMAIN lane, lane[i].by = "alive"
               PROVE  FALSE
    BY DEF GoodbyeStands, Waits
  <2>1. DOMAIN lane = 1 .. Len(lane) /\ Len(lane) \in Nat /\ lane[i] \in Entry
    BY LenProperties, ElementOfSeq DEF AppInv, LaneInv, Typed
  <2>2. lane[i].frame = "alive"
    BY <2>1 DEF Entry
  <2>3. PICK j \in i + 1 .. Len(lane) : lane[j].by = "bye"
    BY <2>1, <2>2 DEF AppInv, LaneInv, Parted, Covered
  <2>4. j \in DOMAIN lane
    BY <2>1, <2>3
  <2> QED
    BY <2>3, <2>4 DEF Waits
<1> QED
  BY AppInvariant, <1>1, PTL

(* A screen shown to a live pair holds and streams its own stick once its   *)
(* claim was answered, if no screen comes back before its release went out  *)
(* (DrivingViewModel.activate, DriveController.enterManual).                *)
THEOREM ShownScreenDrives ==
  ASSUME ~Bounces
  PROVE  Spec => []ScreenDrives
<1>1. AppInv => ScreenDrives
  BY DEF AppInv, Serves, ScreenDrives
<1> QED
  BY AppInvariant, <1>1, PTL

-----------------------------------------------------------------------------
(* What a screen that is gone leaves: the pairs whose key was never         *)
(* refreshed.                                                               *)

LastAsked(queue) == queue[Len(queue)]

(* The hold's line ends with a release. *)
LastExit == IF drv.queue # <<>> THEN LastAsked(drv.queue) = "exit" ELSE drv.op = "exit"

(* The view model has seen the row, or its first one is still to come.      *)
Known == vm.loaded => vm.seen = row

(* A screen is entered in its tab; a view model behind a row that came or   *)
(* went has nothing bound, or no screen entered; and once its screen is     *)
(* gone, the screen's stick is dropped already or a release is to come.     *)
Quiet ==
  /\ vm.entered => ui.tab = "driving"
  /\ expr.entered => ui.tab = "expressions"
  /\ ~Known /\ ~row.on /\ ~drv.dev.on => ~drv.bound
  /\ ~Known /\ row.on /\ row.era = 0 => ~vm.entered
  /\ ~vm.entered /\ (IF row.on THEN row.era = 0 ELSE ~drv.dev.on) => LastExit \/ ~drv.bound

LEMMA AskedLast ==
  ASSUME NEW q \in Seq(Ops), NEW op \in Ops
  PROVE  Append(q, op) # <<>> /\ LastAsked(Append(q, op)) = op
<1>1. Len(q) \in Nat /\ Len(Append(q, op)) = Len(q) + 1 /\ Append(q, op)[Len(q) + 1] = op
  BY AppendProperties, LenProperties
<1>2. Append(q, op) \in Seq(Ops)
  BY AppendProperties
<1> QED
  BY <1>1, <1>2, EmptySeq DEF LastAsked

LEMMA AskedRest ==
  ASSUME NEW q \in Seq(Ops), q # <<>>
  PROVE  /\ Tail(q) # <<>> => LastAsked(Tail(q)) = LastAsked(q)
         /\ Tail(q) = <<>> => LastAsked(q) = Head(q)
<1> DEFINE t == Tail(q)
           n == Len(q)
<1>1. /\ n \in Nat /\ n > 0 /\ Len(t) = n - 1 /\ Head(q) = q[1]
      /\ t \in Seq(Ops) /\ \A i \in 1 .. n - 1 : t[i] = q[i + 1]
  BY HeadTailProperties, LenProperties, EmptySeq
<1>2. /\ t = <<>> => Len(t) = 0
      /\ t # <<>> => Len(t) # 0
  BY <1>1, EmptySeq
<1> HIDE DEF t, n
<1>3. CASE t = <<>>
  <2>1. n = 1
    BY <1>1, <1>2, <1>3
  <2> QED
    BY <1>1, <1>3, <2>1 DEF LastAsked, t, n
<1>4. CASE t # <<>>
  <2>1. n - 1 \in 1 .. n - 1 /\ (n - 1) + 1 = n
    BY <1>1, <1>2, <1>4
  <2>2. t[n - 1] = q[n]
    BY <1>1, <2>1
  <2> QED
    BY <1>1, <1>4, <2>2 DEF LastAsked, t, n
<1> QED
  BY <1>3, <1>4 DEF t

LEMMA QuietFrame ==
  ASSUME Quiet, UNCHANGED row, ui'.tab = ui.tab, expr'.entered = expr.entered,
         vm'.entered = vm.entered, vm'.loaded = vm.loaded, vm'.seen = vm.seen,
         drv'.dev = drv.dev, drv'.bound => drv.bound, drv'.bound /\ LastExit => LastExit'
  PROVE  Quiet'
BY DEF Quiet, Known

LEMMA QuietStart == Init => Quiet
<1> SUFFICES ASSUME Init PROVE Quiet
  OBVIOUS
<1>1. ~vm.entered /\ ~expr.entered /\ ~drv.bound
  BY DEF Init, DriveInit
<1> QED
  BY <1>1 DEF Quiet

(* The loop takes up an operation, or is done with it. *)
LEMMA QuietOps ==
  ASSUME AppInv, Quiet, ManualOpStarts \/ ManualOpEnds, UNCHANGED <<conn, ui, vm, expr>>
  PROVE  Quiet'
<1> USE DEF AppInv, LaneInv
<1>1. drv \in DriveState /\ drv.queue \in Seq(Ops)
  BY DEF Typed, DriveState
<1>2. CASE ManualOpStarts
  <2> DEFINE op == Head(drv.queue)
             rest == Tail(drv.queue)
             d == [drv EXCEPT !.queue = rest]
  <2>1. drv.op = "none" /\ drv.queue # <<>> /\ row' = row
    BY <1>2 DEF ManualOpStarts
  <2>2. op \in Ops /\ rest \in Seq(Ops)
    BY <1>1, <2>1, Queued
  <2>3. IF drv.dev.on THEN drv' = [d EXCEPT !.op = op] ELSE drv' = Ended(d, op)
    BY <1>1, <1>2 DEF ManualOpStarts, DriveState
  <2>4. (rest # <<>> => LastAsked(rest) = LastAsked(drv.queue))
        /\ (rest = <<>> => LastAsked(drv.queue) = op)
    BY <1>1, <2>1, AskedRest
  <2> HIDE DEF op, rest
  <2>5. d \in DriveState /\ d.dev = drv.dev /\ d.queue = rest /\ d.bound = drv.bound
    BY <1>1, <2>2 DEF DriveState
  <2> HIDE DEF d
  <2>6. CASE drv.dev.on
    <3>1. drv'.dev = drv.dev /\ drv'.bound = drv.bound /\ drv'.queue = rest /\ drv'.op = op
      BY <2>3, <2>5, <2>6 DEF DriveState
    <3> QED
      BY <2>1, <2>4, <3>1, QuietFrame DEF LastExit
  <2>7. CASE ~drv.dev.on
    <3>1. drv' = Ended(d, op)
      BY <2>3, <2>7
    <3>2. /\ drv'.dev = drv.dev /\ drv'.queue = rest
          /\ drv'.bound => drv.bound /\ op = "enter"
      <4>1. CASE op = "enter"
        BY <2>2, <2>5, <3>1, <4>1, EndedFacts
      <4>2. CASE op # "enter"
        BY <2>5, <3>1, <4>2 DEF Ended, DriveState
      <4> QED
        BY <4>1, <4>2
    <3> QED
      BY <2>1, <2>4, <3>2, QuietFrame DEF LastExit
  <2> QED
    BY <2>6, <2>7
<1>3. CASE ManualOpEnds
  <2>1. drv.op \in Ops /\ drv' = Ended(drv, drv.op) /\ row' = row
    BY <1>1, <1>3 DEF ManualOpEnds, DriveState
  <2>2. /\ drv'.dev = drv.dev /\ drv'.queue = drv.queue
        /\ drv'.bound => drv.bound /\ drv.op = "enter"
    <3>1. CASE drv.op = "enter"
      BY <1>1, <2>1, <3>1, EndedFacts
    <3>2. CASE drv.op # "enter"
      BY <1>1, <2>1, <3>2 DEF Ended, DriveState
    <3> QED
      BY <3>1, <3>2
  <2> QED
    BY <2>1, <2>2, QuietFrame DEF LastExit
<1> QED
  BY <1>2, <1>3

(* A screen comes into view. *)
LEMMA QuietShown ==
  ASSUME Typed, Quiet, NEW tab \in {"driving", "expressions"}, Shown(tab),
         UNCHANGED row, ui'.tab = tab, ui.tab = "home" \/ ui.tab = tab
  PROVE  Quiet'
<1> USE DEF Typed
<1>1. CASE tab = "driving"
  <2>1. /\ vm' = [vm EXCEPT !.entered = TRUE] /\ expr' = expr /\ Known
    BY <1>1 DEF Shown, Known
  <2>2. vm'.entered /\ vm'.loaded = vm.loaded /\ vm'.seen = vm.seen
    BY <2>1 DEF VmState
  <2>3. Known' /\ ~expr'.entered
    BY <1>1, <2>1, <2>2 DEF Known, Quiet
  <2> QED
    BY <1>1, <2>2, <2>3 DEF Quiet
<1>2. CASE tab = "expressions"
  <2>1. vm' = vm /\ drv' = drv /\ ~vm.entered
    BY <1>2 DEF Shown, Quiet
  <2> QED
    BY <1>2, <2>1 DEF Quiet, Known, LastExit
<1> QED
  BY <1>1, <1>2

(* A screen goes: one that was entered asks for its release. *)
LEMMA QuietHidden ==
  ASSUME Typed, Quiet, Hidden(ui.tab), UNCHANGED row, ui'.tab = "home" \/ ui'.tab = ui.tab
  PROVE  Quiet'
<1> USE DEF Typed
<1>1. ui.tab \in {"home", "driving", "expressions"} /\ drv.queue \in Seq(Ops)
  BY DEF UiState, DriveState
<1>2. CASE ui.tab = "driving"
  <2>1. /\ vm' = [vm EXCEPT !.entered = FALSE]
        /\ drv' = IF vm.entered THEN ExitManual(drv) ELSE drv
        /\ expr' = expr
    BY <1>2 DEF Hidden
  <2>2. ~vm'.entered /\ vm'.loaded = vm.loaded /\ vm'.seen = vm.seen /\ ~expr'.entered
    BY <1>2, <2>1 DEF VmState, Quiet
  <2>3. drv'.dev = drv.dev /\ drv'.bound = drv.bound
    BY <2>1 DEF ExitManual, DriveState
  <2>4. vm.entered => LastExit'
    <3>1. vm.entered => drv'.queue = Append(drv.queue, "exit")
      BY <2>1 DEF ExitManual, DriveState
    <3> QED
      BY <1>1, <3>1, AskedLast DEF LastExit, Ops
  <2>5. ~vm.entered => (LastExit' <=> LastExit)
    BY <2>1 DEF LastExit
  <2> QED
    BY <2>2, <2>3, <2>4, <2>5 DEF Quiet, Known
<1>3. CASE ui.tab = "expressions"
  <2>1. vm' = vm /\ drv' = drv /\ ~vm.entered
    BY <1>3 DEF Hidden, Quiet
  <2>2. ~expr'.entered
    BY <1>3 DEF Hidden, ExprState
  <2> QED
    BY <2>1, <2>2 DEF Quiet, Known, LastExit
<1>4. CASE ui.tab = "home"
  <2>1. UNCHANGED <<vm, drv, expr>> /\ ~vm.entered /\ ~expr.entered
    BY <1>4 DEF Hidden, Quiet
  <2> QED
    BY <2>1 DEF Quiet, Known, LastExit
<1> QED
  BY <1>1, <1>2, <1>3, <1>4

(* The loop and the view model see the row. *)
LEMMA QuietSees ==
  ASSUME AppInv, Quiet,
         \/ DriveSeesRow /\ UNCHANGED <<conn, ui, vm, expr>>
         \/ VmSeesRow
  PROVE  Quiet'
<1> USE DEF AppInv, LaneInv
<1>1. CASE DriveSeesRow /\ UNCHANGED <<conn, ui, vm, expr>>
  <2>1. /\ drv'.dev = row /\ drv'.op = drv.op /\ drv'.queue = drv.queue
        /\ IF row.on THEN drv'.bound = drv.bound ELSE ~drv'.bound
    <3>1. CASE row.on
      BY <1>1, <3>1 DEF DriveSeesRow, Typed, DriveState
    <3>2. CASE ~row.on
      BY <1>1, <3>2 DEF DriveSeesRow, Typed, DriveState
    <3> QED
      BY <3>1, <3>2
  <2>2. row' = row
    BY <1>1 DEF DriveSeesRow
  <2> QED
    BY <1>1, <2>1, <2>2 DEF Quiet, Known, LastExit
<1>2. CASE VmSeesRow
  <2>1. /\ UNCHANGED <<row, drv, ui, expr>>
        /\ vm'.loaded /\ vm'.seen = row /\ (vm'.entered <=> vm.entered /\ ~vm.loaded)
    BY <1>2 DEF VmSeesRow, driveVars, Typed, VmState
  <2>2. vm.entered /\ vm.loaded => ~Known
    BY <1>2 DEF VmSeesRow, Known
  <2> QED
    BY <2>1, <2>2 DEF Quiet, Known, LastExit
<1> QED
  BY <1>1, <1>2

(* The rows. *)
LEMMA QuietRows ==
  ASSUME AppInv, Quiet, Pair \/ Unpair \/ Refreshed
  PROVE  Quiet'
<1> USE DEF AppInv, LaneInv
<1>1. UNCHANGED <<lane, drv, conn, vm, expr>> /\ drv.dev = row /\ row \in Row
  BY DEF Pair, Unpair, Refreshed, RowChanges, Typed
<1>2. ui'.tab = ui.tab
  BY Happened DEF Pair, Unpair, Refreshed, Typed
<1>3. CASE Pair
  BY <1>1, <1>2, <1>3 DEF Pair, RowChanges, Quiet, LastExit
<1>4. CASE Unpair
  BY <1>1, <1>2, <1>4 DEF Unpair, RowChanges, NoRow, Quiet
<1>5. CASE Refreshed
  <2>1. row' = [row EXCEPT !.era = row.era + 1] /\ row.era \in Nat /\ row.on
    BY <1>1, <1>5 DEF Refreshed, RowChanges, Row
  <2>2. row'.on /\ row'.era # 0
    BY <1>1, <2>1 DEF Row
  <2> QED
    BY <1>1, <1>2, <2>2 DEF Quiet
<1> QED
  BY <1>3, <1>4, <1>5

LEMMA QuietKeep == AppInv /\ Quiet /\ [Next]_vars => Quiet'
<1> SUFFICES ASSUME AppInv, Quiet, [Next]_vars PROVE Quiet'
  OBVIOUS
<1> USE DEF AppInv, LaneInv
<1>1. CASE \E tab \in {"driving", "expressions"} : OpenScreen(tab)
  <2> PICK tab \in {"driving", "expressions"} : OpenScreen(tab)
    BY <1>1
  <2>1. ui'.tab = tab /\ ui.tab = "home" /\ row' = row /\ Shown(tab)
    <3>1. [ui EXCEPT !.tab = tab] \in UiState /\ [ui EXCEPT !.tab = tab].tab = tab
      BY DEF Typed, UiState
    <3> QED
      BY <3>1, Happened DEF OpenScreen
  <2> QED
    BY <2>1, QuietShown
<1>2. CASE Resume
  <2>1. ui'.tab = ui.tab /\ row' = row
    BY <1>2 DEF Resume, Typed, UiState
  <2>2. CASE ui.tab = "home"
    BY <1>2, <2>1, <2>2, QuietFrame DEF Resume, LastExit
  <2>3. CASE ui.tab # "home"
    <3>1. Shown(ui.tab) /\ ui.tab \in {"driving", "expressions"}
      BY <1>2, <2>3 DEF Resume, Typed, UiState
    <3> QED
      BY <2>1, <3>1, QuietShown
  <2> QED
    BY <2>2, <2>3
<1>3. CASE LeaveScreen \/ Pause
  <2>1. Hidden(ui.tab) /\ row' = row
    BY <1>3 DEF LeaveScreen, Pause
  <2>2. ui'.tab = "home" \/ ui'.tab = ui.tab
    <3>1. [ui EXCEPT !.life = "paused"] \in UiState /\ [ui EXCEPT !.life = "paused"].tab = ui.tab
      BY DEF Typed, UiState
    <3>2. CASE LeaveScreen
      BY <3>2 DEF LeaveScreen, Typed, UiState
    <3>3. CASE Pause
      BY <3>1, <3>3, Happened DEF Pause
    <3> QED
      BY <1>3, <3>2, <3>3
  <2> QED
    BY <2>1, <2>2, QuietHidden
<1>4. CASE Touch \/ Drag \/ Lift
  <2>1. ui'.tab = ui.tab /\ UNCHANGED <<row, drv, vm, expr>>
    BY <1>4 DEF Touch, Drag, Lift, Typed, UiState
  <2> QED
    BY <2>1, QuietFrame DEF LastExit
<1>5. CASE OnEmergencyStop \/ OnReleaseEmergency
  <2>1. ui'.tab = ui.tab
    BY <1>5, Happened DEF OnEmergencyStop, OnReleaseEmergency, Typed
  <2>2. UNCHANGED <<row, expr>> /\ drv' \in {EmergencyStop(drv), ReleaseEmergency(drv)}
        /\ vm'.entered = vm.entered /\ vm'.loaded = vm.loaded /\ vm'.seen = vm.seen
    BY <1>5 DEF OnEmergencyStop, OnReleaseEmergency, Typed, VmState
  <2>3. drv'.dev = drv.dev /\ drv'.bound = drv.bound /\ drv'.queue = drv.queue /\ drv'.op = drv.op
    <3>1. CASE drv' = EmergencyStop(drv) /\ drv.latched
      BY <3>1 DEF EmergencyStop
    <3>2. CASE drv' = EmergencyStop(drv) /\ ~drv.latched
      <4>1. drv' = [drv EXCEPT !.latched = TRUE, !.halts = drv.halts + 1]
        BY <3>2 DEF EmergencyStop
      <4>2. drv \in DriveState
        BY DEF Typed
      <4> QED
        BY <4>1, <4>2 DEF DriveState
    <3>3. CASE drv' = ReleaseEmergency(drv)
      BY <3>3 DEF ReleaseEmergency, Typed, DriveState
    <3> QED
      BY <2>2, <3>1, <3>2, <3>3
  <2> QED
    BY <2>1, <2>2, <2>3, QuietFrame DEF LastExit
<1>6. CASE LinkToBackground \/ DriveToBackground \/ ToForeground
  <2>1. ui'.tab = ui.tab /\ UNCHANGED <<row, vm, expr>>
    BY <1>6 DEF LinkToBackground, DriveToBackground, ToForeground, driveVars, Typed, UiState
  <2>2. drv'.dev = drv.dev /\ drv'.bound = drv.bound /\ drv'.queue = drv.queue /\ drv'.op = drv.op
    BY <1>6 DEF LinkToBackground, DriveToBackground, ToForeground, driveVars, Typed, DriveState
  <2> QED
    BY <2>1, <2>2, QuietFrame DEF LastExit
<1>7. CASE /\ \/ Allocate \/ DriveTick \/ HaltStarts \/ WatchSteps
           /\ UNCHANGED <<ui, vm, expr>>
  <2>1. UNCHANGED row
    BY <1>7 DEF Allocate, DriveTick, HaltStarts, WatchSteps, WatchSeesRow, WatchTick,
       GoodbyeStarts, driveVars
  <2>2. drv'.dev = drv.dev /\ drv'.bound = drv.bound /\ drv'.queue = drv.queue /\ drv'.op = drv.op
    BY <1>7 DEF Allocate, DriveTick, HaltStarts, WatchSteps, WatchSeesRow, WatchTick,
       GoodbyeStarts, driveVars, Typed, DriveState
  <2> QED
    BY <1>7, <2>1, <2>2, QuietFrame DEF LastExit
<1>8. CASE (ManualOpStarts \/ ManualOpEnds) /\ UNCHANGED <<conn, ui, vm, expr>>
  BY <1>8, QuietOps
<1>9. CASE (DriveSeesRow /\ UNCHANGED <<conn, ui, vm, expr>>) \/ VmSeesRow
  BY <1>9, QuietSees
<1>10. CASE VmSeesLink \/ ExprOpEnds \/ ExprOpStarts \/ Telemetry
  <2>1. UNCHANGED <<row, drv>>
    BY <1>10 DEF VmSeesLink, ExprOpEnds, ExprOpStarts, Telemetry, TelemetryHeard, driveVars
  <2>2. expr'.entered = expr.entered
    BY <1>10 DEF VmSeesLink, ExprOpEnds, ExprOpStarts, Telemetry, Typed, ExprState
  <2>3. vm'.entered = vm.entered /\ vm'.loaded = vm.loaded /\ vm'.seen = vm.seen
    BY <1>10 DEF VmSeesLink, ExprOpEnds, ExprOpStarts, Telemetry, Typed, VmState
  <2>4. ui'.tab = ui.tab
    BY <1>10, Happened DEF VmSeesLink, ExprOpEnds, ExprOpStarts, Telemetry, Typed
  <2> QED
    BY <2>1, <2>2, <2>3, <2>4, QuietFrame DEF LastExit
<1>11. CASE Pair \/ Unpair \/ Refreshed
  BY <1>11, QuietRows
<1>12. CASE UNCHANGED vars
  BY <1>12, QuietFrame DEF vars, driveVars, LastExit
<1> QED
  BY <1>1, <1>2, <1>3, <1>4, <1>5, <1>6, <1>7, <1>8, <1>9, <1>10, <1>11, <1>12
     DEF Next, User, Life, Lane, Main, DriveSteps

LEMMA QuietAlways == Spec => []Quiet
BY AppInvariant, QuietStart, QuietKeep, PTL DEF Spec

(* In the era the pair began with: no screen entered and nothing left to    *)
(* send, what the last screen left in its stick is not streamed             *)
(* (DriveController.exitManual, collectPaired).                             *)
THEOREM PhantomsStay == Spec => []NoPhantomSticks
<1>1. Quiet => NoPhantomSticks
  BY DEF Quiet, NoPhantomSticks, Settled, LastExit
<1> QED
  BY QuietAlways, <1>1, PTL

-----------------------------------------------------------------------------
(* What the claims under way leave the robot with.                          *)

Absent(s, who) == \A i \in 1 .. Len(s) : s[i].by # who

(* No hold asked by this sender is still on its way.                        *)
Untaken(s, who) == \A i \in 1 .. Len(s) : s[i].by = who => s[i].frame # "take"

Released(who, queue) ==
  IF queue # <<>> THEN LastAsked(queue) = "exit" ELSE Untaken(lane, who)

WireState == [claim : Claims \union {"none"}, session : Words \union {"none"}]

(* One claim at a time of each screen; a screen that is gone ends with a    *)
(* release; and a hold that was taken has somebody left to release it.      *)
Tails ==
  /\ wire \in WireState
  /\ drv.op = "none" => Absent(lane, "manual")
  /\ expr.op = "none" => Absent(lane, "expr")
  /\ row.on /\ ~drv.dev.on => Absent(lane, "manual")
  /\ ~row.on => wire = NothingSaid
  /\ ~expr.entered => Released("expr", expr.queue)
  /\ row.on /\ row.era = 0 /\ ~vm.entered => Released("manual", drv.queue)
  /\ row.on /\ row.era = 0 /\ wire.claim = "take" =>
       \/ expr.entered \/ expr.queue # <<>> \/ ~Absent(lane, "expr")
       \/ drv.dev.on /\ (vm.entered \/ drv.queue # <<>> \/ ~Absent(lane, "manual"))

LEMMA JoinedBy ==
  ASSUME NEW s \in Seq(Entry), NEW e \in Entry, NEW who
  PROVE  /\ e.by # who => (Absent(Append(s, e), who) <=> Absent(s, who))
         /\ e.by = who => ~Absent(Append(s, e), who)
         /\ e.by # who \/ e.frame # "take" => (Untaken(s, who) => Untaken(Append(s, e), who))
<1> DEFINE t == Append(s, e)
           n == Len(s)
<1>1. /\ n \in Nat /\ Len(t) = n + 1 /\ t[n + 1] = e
      /\ \A i \in 1 .. n : t[i] = s[i]
  BY AppendProperties, LenProperties
<1> HIDE DEF t
<1>2. e.by # who => (Absent(t, who) <=> Absent(s, who))
  <2>1. e.by # who /\ Absent(s, who) => Absent(t, who)
    <3> SUFFICES ASSUME e.by # who, Absent(s, who), NEW i \in 1 .. n + 1 PROVE t[i].by # who
      BY <1>1 DEF Absent
    <3>1. i = n + 1 \/ i \in 1 .. n
      BY <1>1
    <3> QED
      BY <1>1, <3>1 DEF Absent
  <2>2. Absent(t, who) => Absent(s, who)
    <3> SUFFICES ASSUME Absent(t, who), NEW i \in 1 .. n PROVE s[i].by # who
      BY DEF Absent
    <3>1. i \in 1 .. n + 1
      BY <1>1
    <3> QED
      BY <1>1, <3>1 DEF Absent
  <2> QED
    BY <2>1, <2>2
<1>3. e.by = who => ~Absent(t, who)
  <2>1. n + 1 \in 1 .. Len(t)
    BY <1>1
  <2> QED
    BY <1>1, <2>1 DEF Absent
<1>4. e.by # who \/ e.frame # "take" => (Untaken(s, who) => Untaken(t, who))
  <2> SUFFICES ASSUME e.by # who \/ e.frame # "take", Untaken(s, who),
                      NEW i \in 1 .. n + 1, t[i].by = who
               PROVE  t[i].frame # "take"
    BY <1>1 DEF Untaken
  <2>1. i = n + 1 \/ i \in 1 .. n
    BY <1>1
  <2> QED
    BY <1>1, <2>1 DEF Untaken
<1> QED
  BY <1>2, <1>3, <1>4 DEF t

LEMMA CountedBy ==
  ASSUME NEW s \in Seq(Entry), s # <<>>, NEW who
  PROVE  /\ Head(s) \in Entry
         /\ Absent(s, who) => Absent(Tail(s), who) /\ Head(s).by # who
         /\ Head(s).by # who => (Absent(Tail(s), who) => Absent(s, who))
         /\ Untaken(s, who) => Untaken(Tail(s), who)
         /\ Untaken(s, who) /\ Head(s).by = who => Head(s).frame # "take"
<1> DEFINE t == Tail(s)
           n == Len(s)
           h == Head(s)
<1>1. /\ n \in Nat /\ n > 0 /\ Len(t) = n - 1 /\ h = s[1] /\ h \in Entry
      /\ \A i \in 1 .. n - 1 : t[i] = s[i + 1]
  BY HeadTailProperties, LenProperties, EmptySeq
<1> HIDE DEF t, h
<1>2. 1 \in 1 .. n
  BY <1>1
<1>3. \A i \in 1 .. n - 1 : i + 1 \in 1 .. n /\ t[i] = s[i + 1]
  BY <1>1
<1>4. \A i \in 1 .. n : i = 1 \/ (i - 1 \in 1 .. n - 1 /\ s[i] = t[i - 1])
  <2> TAKE i \in 1 .. n
  <2>1. i = 1 \/ (i - 1 \in 1 .. n - 1 /\ (i - 1) + 1 = i)
    BY <1>1
  <2> QED
    BY <1>3, <2>1
<1>5. Absent(s, who) => Absent(t, who) /\ h.by # who
  BY <1>1, <1>2, <1>3 DEF Absent
<1>6. h.by # who => (Absent(t, who) => Absent(s, who))
  BY <1>1, <1>4 DEF Absent
<1>7. Untaken(s, who) => Untaken(t, who)
  BY <1>1, <1>3 DEF Untaken
<1>8. Untaken(s, who) /\ h.by = who => h.frame # "take"
  BY <1>1, <1>2 DEF Untaken
<1> QED
  BY <1>1, <1>5, <1>6, <1>7, <1>8 DEF t, h

LEMMA AbsentUntaken == ASSUME NEW s, NEW who, Absent(s, who) PROVE Untaken(s, who)
BY DEF Absent, Untaken

(* Nothing of a claim changes, and the loop may see a row.                  *)
SameClaims(who) ==
  /\ Absent(lane', who) <=> Absent(lane, who)
  /\ Untaken(lane, who) => Untaken(lane', who)

LEMMA TailsFrame ==
  ASSUME Tails, UNCHANGED <<row, wire>>, SameClaims("manual"), SameClaims("expr"),
         drv'.queue = drv.queue, drv'.op = drv.op, drv'.dev.on = drv.dev.on \/ drv'.dev = row,
         expr'.queue = expr.queue, expr'.op = expr.op, expr'.entered = expr.entered,
         vm'.entered = vm.entered \/ ~(row.on /\ row.era = 0)
  PROVE  Tails'
BY DEF Tails, Released, SameClaims

(* Somebody who claims nothing joins the lane.                              *)
LEMMA OthersJoin ==
  ASSUME Typed, NEW e \in Entry, lane' = Append(lane, e), e.by \notin {"manual", "expr"}
  PROVE  SameClaims("manual") /\ SameClaims("expr")
<1>1. lane \in Seq(Entry)
  BY DEF Typed
<1>2. e.by # "manual" /\ e.by # "expr"
  OBVIOUS
<1> QED
  BY <1>1, <1>2, JoinedBy DEF SameClaims

LEMMA TailsStart == Init => Tails
<1> SUFFICES ASSUME Init PROVE Tails
  OBVIOUS
<1>1. /\ lane = <<>> /\ wire = NothingSaid
      /\ ~expr.entered /\ expr.queue = <<>> /\ drv.queue = <<>>
  BY DEF Init, DriveInit
<1>2. \A who : Absent(lane, who) /\ Untaken(lane, who)
  <2>1. Len(<<>>) = 0
    OBVIOUS
  <2>2. Len(lane) = 0
    BY <1>1, <2>1
  <2> QED
    BY <2>2 DEF Absent, Untaken
<1> QED
  BY <1>1, <1>2 DEF Tails, Released, NothingSaid, WireState

(* The first in line gets its counter.                                      *)
LEMMA TailsAllocate ==
  ASSUME AppInv, Tails, Allocate, UNCHANGED <<conn, ui, vm, expr>>
  PROVE  Tails'
<1> DEFINE h == Head(lane)
<1> USE DEF AppInv, LaneInv
<1>1. lane \in Seq(Entry) /\ lane # <<>> /\ lane' = Tail(lane)
      /\ UNCHANGED <<row, drv, vm, expr>>
  BY DEF Allocate, Typed
<1>2. /\ h \in Entry
      /\ \A who : /\ Absent(lane, who) => Absent(lane', who) /\ h.by # who
                  /\ h.by # who => (Absent(lane', who) => Absent(lane, who))
                  /\ Untaken(lane, who) => Untaken(lane', who)
                  /\ Untaken(lane, who) /\ h.by = who => h.frame # "take"
  BY <1>1, CountedBy
<1>3. wire' = IF row.on THEN Said(h.frame) ELSE wire
  BY DEF Allocate
<1> HIDE DEF h
<1>4. wire' \in WireState /\ (~row.on => wire' = NothingSaid)
  <2>1. h.frame \in Claims \/ h.frame \in Words \/ h.frame \in Motions
    BY <1>2 DEF Entry, Frames
  <2>2. Said(h.frame) \in WireState
    BY <2>1 DEF Said, Tails, WireState, Claims, Words, Motions
  <2> QED
    BY <1>3, <2>2 DEF Tails
<1>5. ~expr.entered => Released("expr", expr.queue)'
  BY <1>1, <1>2 DEF Tails, Released
<1>6. row.on /\ row.era = 0 /\ ~vm.entered => Released("manual", drv.queue)'
  BY <1>1, <1>2 DEF Tails, Released
<1>7. ASSUME row.on, row.era = 0, wire'.claim = "take"
      PROVE  \/ expr.entered \/ expr.queue # <<>> \/ ~Absent(lane', "expr")
             \/ drv.dev.on /\ (vm.entered \/ drv.queue # <<>> \/ ~Absent(lane', "manual"))
  <2>1. CASE h.frame = "take"
    <3>1. h.by \in {"manual", "expr"}
      BY <1>2, <2>1 DEF Entry, Claims
    <3>2. CASE h.by = "expr"
      <4>1. ~Untaken(lane, "expr")
        BY <1>2, <2>1, <3>2
      <4> QED
        BY <4>1 DEF Tails, Released
    <3>3. CASE h.by = "manual"
      <4>1. ~Untaken(lane, "manual") /\ ~Absent(lane, "manual")
        BY <1>2, <2>1, <3>3
      <4> QED
        BY <1>7, <4>1 DEF Tails, Released
    <3> QED
      BY <3>1, <3>2, <3>3
  <2>2. CASE h.frame = "release"
    <3>1. wire' = [wire EXCEPT !.claim = "release"]
      BY <1>3, <1>7, <2>2 DEF Said, Claims, Words, Motions
    <3> QED
      BY <1>7, <3>1 DEF Tails, WireState
  <2>3. CASE h.frame \notin Claims
    <3>1. h.by # "manual" /\ h.by # "expr"
      BY <1>2, <2>3 DEF Entry
    <3>2. h.frame \in Words \/ h.frame \in Motions
      BY <1>2, <2>3 DEF Entry, Frames
    <3>3. wire'.claim = wire.claim
      BY <1>3, <1>7, <2>3, <3>2 DEF Said, Claims, Words, Motions, Tails, WireState
    <3> QED
      BY <1>2, <1>7, <3>1, <3>3 DEF Tails
  <2> QED
    BY <2>1, <2>2, <2>3 DEF Claims
<1> QED
  BY <1>1, <1>2, <1>4, <1>5, <1>6, <1>7 DEF Tails

(* A screen comes into view, or goes.                                       *)
LEMMA TailsShown ==
  ASSUME Typed, Tails, NEW tab \in {"driving", "expressions"}, Shown(tab),
         UNCHANGED <<row, lane, wire>>
  PROVE  Tails'
<1> USE DEF Typed
<1>1. drv.queue \in Seq(Ops) /\ expr.queue \in Seq(Ops)
  BY DEF DriveState, ExprState
<1>2. CASE tab = "driving"
  <2>1. vm' = [vm EXCEPT !.entered = TRUE] /\ expr' = expr
        /\ drv' = IF vm.entered THEN drv ELSE EnterManual(drv)
    BY <1>2 DEF Shown
  <2>2. vm'.entered
    BY <2>1 DEF VmState
  <2>3. drv'.dev = drv.dev /\ drv'.op = drv.op
    BY <2>1 DEF EnterManual, DriveState
  <2> QED
    BY <2>1, <2>2, <2>3 DEF Tails, Released
<1>3. CASE tab = "expressions"
  <2>1. /\ vm' = vm /\ drv' = drv
        /\ expr' = IF expr.entered THEN expr
                   ELSE [expr EXCEPT !.entered = TRUE, !.queue = Append(@, "enter")]
    BY <1>3 DEF Shown
  <2>2. expr'.entered /\ expr'.op = expr.op
    BY <2>1 DEF ExprState
  <2> QED
    BY <2>1, <2>2 DEF Tails, Released
<1> QED
  BY <1>2, <1>3

LEMMA TailsHidden ==
  ASSUME Typed, Tails, Hidden(ui.tab), UNCHANGED <<row, lane, wire>>
  PROVE  Tails'
<1> USE DEF Typed
<1>1. /\ ui.tab \in {"home", "driving", "expressions"}
      /\ drv.queue \in Seq(Ops) /\ expr.queue \in Seq(Ops)
  BY DEF UiState, DriveState, ExprState
<1>2. CASE ui.tab = "driving"
  <2>1. /\ vm' = [vm EXCEPT !.entered = FALSE] /\ expr' = expr
        /\ drv' = IF vm.entered THEN ExitManual(drv) ELSE drv
    BY <1>2 DEF Hidden
  <2>2. ~vm'.entered /\ drv'.dev = drv.dev /\ drv'.op = drv.op
    BY <2>1 DEF ExitManual, VmState, DriveState
  <2>3. vm.entered => drv'.queue # <<>> /\ LastAsked(drv'.queue) = "exit"
    <3>1. vm.entered => drv'.queue = Append(drv.queue, "exit")
      BY <2>1 DEF ExitManual, DriveState
    <3> QED
      BY <1>1, <3>1, AskedLast DEF Ops
  <2>4. ~vm.entered => drv' = drv
    BY <2>1
  <2> QED
    BY <2>1, <2>2, <2>3, <2>4 DEF Tails, Released
<1>3. CASE ui.tab = "expressions"
  <2>1. /\ vm' = vm /\ drv' = drv
        /\ expr' = IF expr.entered
                   THEN [expr EXCEPT !.entered = FALSE, !.queue = Append(@, "exit")]
                   ELSE expr
    BY <1>3 DEF Hidden
  <2>2. ~expr'.entered /\ expr'.op = expr.op
    BY <2>1 DEF ExprState
  <2>3. expr.entered => expr'.queue # <<>> /\ LastAsked(expr'.queue) = "exit"
    <3>1. expr.entered => expr'.queue = Append(expr.queue, "exit")
      BY <2>1 DEF ExprState
    <3> QED
      BY <1>1, <3>1, AskedLast DEF Ops
  <2>4. ~expr.entered => expr' = expr
    BY <2>1
  <2> QED
    BY <2>1, <2>2, <2>3, <2>4 DEF Tails, Released
<1>4. CASE ui.tab = "home"
  BY <1>4 DEF Hidden, Tails, Released
<1> QED
  BY <1>1, <1>2, <1>3, <1>4

(* The loop takes up a claim of the driving screen, or is done with it.     *)
LEMMA TailsOps ==
  ASSUME AppInv, Tails, ManualOpStarts \/ ManualOpEnds, UNCHANGED <<conn, ui, vm, expr>>
  PROVE  Tails'
<1> USE DEF AppInv, LaneInv
<1>1. drv \in DriveState /\ drv.queue \in Seq(Ops) /\ lane \in Seq(Entry)
  BY DEF Typed, DriveState
<1>2. CASE ManualOpStarts
  <2> DEFINE op == Head(drv.queue)
             rest == Tail(drv.queue)
             d == [drv EXCEPT !.queue = rest]
             e == [by |-> "manual", frame |-> Claim(op)]
  <2>1. drv.op = "none" /\ drv.queue # <<>> /\ UNCHANGED <<row, wire>>
    BY <1>2 DEF ManualOpStarts
  <2>2. op \in Ops /\ rest \in Seq(Ops)
    BY <1>1, <2>1, Queued
  <2>3. IF drv.dev.on THEN drv' = [d EXCEPT !.op = op] /\ Queue("manual", Claim(op))
        ELSE drv' = Ended(d, op) /\ UNCHANGED lane
    BY <1>1, <1>2 DEF ManualOpStarts, DriveState
  <2>4. (rest # <<>> => LastAsked(rest) = LastAsked(drv.queue))
        /\ (rest = <<>> => LastAsked(drv.queue) = op)
    BY <1>1, <2>1, AskedRest
  <2> HIDE DEF op, rest
  <2>5. d \in DriveState /\ d.dev = drv.dev /\ d.queue = rest /\ d.op = "none"
    BY <1>1, <2>1, <2>2 DEF DriveState
  <2> HIDE DEF d
  <2>6. Absent(lane, "manual") /\ Untaken(lane, "manual")
    BY <2>1, AbsentUntaken DEF Tails
  <2>7. CASE drv.dev.on
    <3>1. drv'.dev = drv.dev /\ drv'.queue = rest /\ drv'.op = op /\ op # "none"
      BY <2>2, <2>3, <2>5, <2>7 DEF DriveState, Ops
    <3>2. e \in Entry /\ lane' = Append(lane, e)
      BY <2>2, <2>3, <2>7, Joins DEF Claim, Ops, Frames, Claims
    <3>3. /\ ~Absent(lane', "manual")
          /\ op = "exit" => Untaken(lane', "manual")
          /\ SameClaims("expr")
      BY <1>1, <2>6, <3>2, JoinedBy DEF SameClaims, Claim
    <3>4. row.on /\ row.era = 0 /\ ~vm.entered => Released("manual", drv.queue)'
      BY <2>1, <2>4, <3>1, <3>3 DEF Tails, Released
    <3>5. ~expr.entered => Released("expr", expr.queue)'
      BY <3>3 DEF Tails, Released, SameClaims
    <3> QED
      BY <2>1, <2>7, <3>1, <3>3, <3>4, <3>5 DEF Tails, SameClaims
  <2>8. CASE ~drv.dev.on
    <3>1. drv' = Ended(d, op) /\ lane' = lane
      BY <2>3, <2>8
    <3>2. drv'.dev = drv.dev /\ drv'.queue = rest /\ drv'.op = "none"
      BY <2>5, <3>1 DEF Ended, DriveState
    <3>3. row.on /\ row.era = 0 /\ ~vm.entered => Released("manual", drv.queue)'
      BY <2>1, <2>4, <2>6, <3>1, <3>2 DEF Tails, Released
    <3> QED
      BY <2>1, <2>6, <2>8, <3>1, <3>2, <3>3 DEF Tails, Released
  <2> QED
    BY <2>7, <2>8
<1>3. CASE ManualOpEnds
  <2>1. drv' = Ended(drv, drv.op) /\ UNCHANGED <<row, lane, wire>> /\ ~Waits("manual")
    BY <1>3 DEF ManualOpEnds
  <2>2. drv'.dev = drv.dev /\ drv'.queue = drv.queue /\ drv'.op = "none"
    BY <1>1, <2>1 DEF Ended, DriveState
  <2>3. Absent(lane, "manual")
    BY <1>1, <2>1, LenProperties DEF Waits, Absent
  <2> QED
    BY <2>1, <2>2, <2>3 DEF Tails, Released
<1> QED
  BY <1>2, <1>3

(* The same of the expressions screen.                                      *)
LEMMA TailsExpr ==
  ASSUME AppInv, Tails, ExprOpStarts \/ ExprOpEnds
  PROVE  Tails'
<1> USE DEF AppInv, LaneInv
<1>1. expr \in ExprState /\ expr.queue \in Seq(Ops) /\ lane \in Seq(Entry)
  BY DEF Typed, ExprState
<1>2. CASE ExprOpStarts
  <2> DEFINE op == Head(expr.queue)
             rest == Tail(expr.queue)
             e == [by |-> "expr", frame |-> Claim(op)]
  <2>1. expr.op = "none" /\ expr.queue # <<>> /\ UNCHANGED <<row, wire, drv, vm>>
    BY <1>2 DEF ExprOpStarts
  <2>2. op \in Ops /\ rest \in Seq(Ops)
    BY <1>1, <2>1, Queued
  <2>3. IF row.on THEN expr' = [expr EXCEPT !.queue = rest, !.op = op] /\ Queue("expr", Claim(op))
        ELSE expr' = [expr EXCEPT !.queue = rest] /\ UNCHANGED lane
    BY <1>1, <1>2 DEF ExprOpStarts, ExprState
  <2>4. (rest # <<>> => LastAsked(rest) = LastAsked(expr.queue))
        /\ (rest = <<>> => LastAsked(expr.queue) = op)
    BY <1>1, <2>1, AskedRest
  <2> HIDE DEF op, rest
  <2>5. expr'.entered = expr.entered /\ expr'.queue = rest
    BY <1>1, <2>3 DEF ExprState
  <2>6. Absent(lane, "expr") /\ Untaken(lane, "expr")
    BY <2>1, AbsentUntaken DEF Tails
  <2>7. CASE row.on
    <3>1. expr'.op = op /\ op # "none"
      BY <1>1, <2>2, <2>3, <2>7 DEF ExprState, Ops
    <3>2. e \in Entry /\ lane' = Append(lane, e)
      BY <2>2, <2>3, <2>7, Joins DEF Claim, Ops, Frames, Claims
    <3>3. /\ ~Absent(lane', "expr")
          /\ op = "exit" => Untaken(lane', "expr")
          /\ SameClaims("manual")
      BY <1>1, <2>6, <3>2, JoinedBy DEF SameClaims, Claim
    <3>4. ~expr.entered => Released("expr", expr.queue)'
      BY <2>1, <2>4, <2>5, <3>3 DEF Tails, Released
    <3>5. row.on /\ row.era = 0 /\ ~vm.entered => Released("manual", drv.queue)'
      BY <2>1, <3>3 DEF Tails, Released, SameClaims
    <3> QED
      BY <2>1, <2>5, <2>7, <3>1, <3>3, <3>4, <3>5 DEF Tails, SameClaims
  <2>8. CASE ~row.on
    <3>1. lane' = lane /\ expr'.op = expr.op
      BY <1>1, <2>3, <2>8 DEF ExprState
    <3>2. ~expr.entered => Released("expr", expr.queue)'
      BY <2>1, <2>4, <2>5, <2>6, <3>1 DEF Tails, Released
    <3> QED
      BY <2>1, <2>5, <2>6, <2>8, <3>1, <3>2 DEF Tails, Released
  <2> QED
    BY <2>7, <2>8
<1>3. CASE ExprOpEnds
  <2>1. /\ UNCHANGED <<row, lane, wire, drv, vm>> /\ ~Waits("expr")
        /\ expr' = [expr EXCEPT !.op = "none"]
    BY <1>3 DEF ExprOpEnds, driveVars
  <2>2. expr'.entered = expr.entered /\ expr'.queue = expr.queue
    BY <1>1, <2>1 DEF ExprState
  <2>3. Absent(lane, "expr")
    BY <1>1, <2>1, LenProperties DEF Waits, Absent
  <2> QED
    BY <2>1, <2>2, <2>3 DEF Tails, Released
<1> QED
  BY <1>2, <1>3

(* The rows: a pair is made of an empty lane, and its robot holds nothing.  *)
LEMMA TailsRows ==
  ASSUME AppInv, Tails, Pair \/ Unpair \/ Refreshed
  PROVE  Tails'
<1> USE DEF AppInv, LaneInv
<1>1. UNCHANGED <<lane, drv, vm, expr>> /\ drv.dev = row /\ row \in Row
  BY DEF Pair, Unpair, Refreshed, RowChanges, Typed
<1>2. NothingSaid \in WireState /\ NothingSaid.claim = "none"
  BY DEF NothingSaid, WireState
<1>3. CASE Pair
  <2>1. lane = <<>> /\ drv.queue = <<>> /\ ~row.on /\ wire' = NothingSaid
    BY <1>3 DEF Pair, Settled, RowChanges
  <2>2. Len(<<>>) = 0
    OBVIOUS
  <2>3. \A who : Absent(lane, who) /\ Untaken(lane, who)
    BY <2>1, <2>2 DEF Absent, Untaken
  <2> QED
    BY <1>1, <1>2, <2>1, <2>3 DEF Tails, Released
<1>4. CASE Unpair
  <2>1. wire' = NothingSaid /\ row' = NoRow /\ ~row'.on
    BY <1>4 DEF Unpair, RowChanges, NoRow
  <2> QED
    BY <1>1, <1>2, <2>1 DEF Tails, Released
<1>5. CASE Refreshed
  <2>1. row' = [row EXCEPT !.era = row.era + 1] /\ row.era \in Nat /\ row.on
    BY <1>1, <1>5 DEF Refreshed, RowChanges, Row
  <2>2. row'.on /\ row'.era # 0
    BY <1>1, <2>1 DEF Row
  <2>3. wire' = wire
    BY <1>5, <2>1, <2>2 DEF Refreshed, RowChanges
  <2> QED
    BY <1>1, <2>1, <2>2, <2>3 DEF Tails, Released
<1> QED
  BY <1>3, <1>4, <1>5

(* The loops that claim nothing.                                            *)
LEMMA TailsOthers ==
  ASSUME AppInv, Tails, UNCHANGED <<ui, vm, expr>>,
         \/ DriveTick /\ UNCHANGED conn
         \/ HaltStarts /\ UNCHANGED conn
         \/ DriveSeesRow /\ UNCHANGED conn
         \/ WatchSteps
  PROVE  Tails'
<1> USE DEF AppInv, LaneInv
<1>1. drv \in DriveState
  BY DEF Typed
<1>2. UNCHANGED <<row, wire>>
  BY DEF DriveTick, HaltStarts, DriveSeesRow, WatchSteps, WatchSeesRow, WatchTick,
     GoodbyeStarts, driveVars
<1>3. /\ drv'.queue = drv.queue /\ drv'.op = drv.op
      /\ drv'.dev.on = drv.dev.on \/ drv'.dev = row
  <2>1. CASE DriveTick \/ WatchSteps
    BY <2>1 DEF DriveTick, WatchSteps, WatchSeesRow, WatchTick, GoodbyeStarts, driveVars
  <2>2. CASE HaltStarts
    BY <1>1, <2>2 DEF HaltStarts, DriveState
  <2>3. CASE DriveSeesRow
    <3>1. CASE row.on
      BY <1>1, <2>3, <3>1 DEF DriveSeesRow, DriveState
    <3>2. CASE ~row.on
      BY <1>1, <2>3, <3>2 DEF DriveSeesRow, DriveState
    <3> QED
      BY <3>1, <3>2
  <2> QED
    BY <2>1, <2>2, <2>3
<1>4. SameClaims("manual") /\ SameClaims("expr")
  <2>1. CASE lane' = lane
    BY <2>1 DEF SameClaims
  <2>2. CASE DriveTick
    <3> DEFINE frame == Sampled(drv)
    <3>1. Queue("tick", frame) /\ frame \in Frames /\ frame \notin Claims
      BY <2>2 DEF DriveTick, Sampled, Frames, Motions, Claims
    <3> HIDE DEF frame
    <3> QED
      BY <3>1, Joins, OthersJoin
  <2>3. CASE Queue("halt", "halt")
    BY <2>3, Joins, OthersJoin DEF Frames, Motions, Claims
  <2>4. CASE Queue("alive", "alive")
    BY <2>4, Joins, OthersJoin DEF Frames, Words, Claims
  <2>5. CASE Queue("bye", "bye")
    BY <2>5, Joins, OthersJoin DEF Frames, Words, Claims
  <2>6. \/ lane' = lane \/ DriveTick \/ Queue("halt", "halt")
        \/ Queue("alive", "alive") \/ Queue("bye", "bye")
    <3>1. WatchTick => lane' = lane \/ Queue("alive", "alive")
      BY DEF WatchTick
    <3>2. HaltStarts => lane' = lane \/ Queue("halt", "halt")
      BY DEF HaltStarts
    <3> QED
      BY <3>1, <3>2 DEF DriveSeesRow, WatchSteps, WatchSeesRow, GoodbyeStarts, driveVars
  <2> QED
    BY <2>1, <2>2, <2>3, <2>4, <2>5, <2>6
<1> QED
  BY <1>2, <1>3, <1>4, TailsFrame

LEMMA TailsKeep == AppInv /\ Quiet /\ Tails /\ [Next]_vars => Tails'
<1> SUFFICES ASSUME AppInv, Quiet, Tails, [Next]_vars PROVE Tails'
  OBVIOUS
<1> USE DEF AppInv, LaneInv
<1>1. CASE \E tab \in {"driving", "expressions"} : OpenScreen(tab)
  BY <1>1, TailsShown DEF OpenScreen
<1>2. CASE Resume
  <2>1. ui.tab \in {"home", "driving", "expressions"} /\ UNCHANGED <<row, lane, wire>>
    BY <1>2 DEF Resume, Typed, UiState
  <2>2. CASE ui.tab = "home"
    BY <1>2, <2>1, <2>2 DEF Resume, Tails, Released
  <2>3. CASE ui.tab # "home"
    BY <1>2, <2>1, <2>3, TailsShown DEF Resume
  <2> QED
    BY <2>2, <2>3
<1>3. CASE LeaveScreen \/ Pause
  BY <1>3, TailsHidden DEF LeaveScreen, Pause
<1>4. CASE Touch \/ Drag \/ Lift \/ OnEmergencyStop \/ OnReleaseEmergency
           \/ LinkToBackground \/ DriveToBackground \/ ToForeground
  <2>1. UNCHANGED <<row, lane, wire, expr>>
    BY <1>4 DEF Touch, Drag, Lift, OnEmergencyStop, OnReleaseEmergency, LinkToBackground,
       DriveToBackground, ToForeground, driveVars
  <2>2. vm'.entered = vm.entered
    BY <1>4 DEF Touch, Drag, Lift, OnEmergencyStop, OnReleaseEmergency, LinkToBackground,
       DriveToBackground, ToForeground, Typed, VmState
  <2>3. drv'.dev = drv.dev /\ drv'.queue = drv.queue /\ drv'.op = drv.op
    <3>1. drv \in DriveState
      BY DEF Typed
    <3>2. CASE OnEmergencyStop /\ ~drv.latched
      <4>1. drv' = [drv EXCEPT !.latched = TRUE, !.halts = drv.halts + 1]
        BY <3>2 DEF OnEmergencyStop, EmergencyStop
      <4> QED
        BY <3>1, <4>1 DEF DriveState
    <3>3. CASE OnEmergencyStop /\ drv.latched
      BY <3>3 DEF OnEmergencyStop, EmergencyStop
    <3>4. CASE OnReleaseEmergency
      BY <3>1, <3>4 DEF OnReleaseEmergency, ReleaseEmergency, DriveState
    <3>5. CASE DriveToBackground \/ ToForeground
      BY <3>1, <3>5 DEF DriveToBackground, ToForeground, DriveState
    <3>6. CASE Touch \/ Drag \/ Lift \/ LinkToBackground
      BY <3>6 DEF Touch, Drag, Lift, LinkToBackground, driveVars
    <3> QED
      BY <1>4, <3>2, <3>3, <3>4, <3>5, <3>6
  <2> QED
    BY <2>1, <2>2, <2>3, TailsFrame DEF SameClaims
<1>5. CASE Allocate /\ UNCHANGED <<conn, ui, vm, expr>>
  BY <1>5, TailsAllocate
<1>6. CASE (ManualOpStarts \/ ManualOpEnds) /\ UNCHANGED <<conn, ui, vm, expr>>
  BY <1>6, TailsOps
<1>7. CASE \/ (DriveTick \/ HaltStarts \/ DriveSeesRow) /\ UNCHANGED <<conn, ui, vm, expr>>
           \/ WatchSteps /\ UNCHANGED <<ui, vm, expr>>
  BY <1>7, TailsOthers
<1>8. CASE VmSeesRow
  <2>1. /\ UNCHANGED <<row, lane, wire, drv, expr>>
        /\ vm'.entered = (vm.entered /\ ~vm.loaded) /\ vm.entered \in BOOLEAN
    BY <1>8 DEF VmSeesRow, driveVars, Typed, VmState
  <2>2. vm.loaded => ~Known
    BY <1>8 DEF VmSeesRow, Known
  <2>3. vm'.entered = vm.entered \/ ~(row.on /\ row.era = 0)
    BY <2>1, <2>2 DEF Quiet
  <2> QED
    BY <2>1, <2>3, TailsFrame DEF SameClaims
<1>9. CASE VmSeesLink \/ Telemetry
  <2>1. UNCHANGED <<row, lane, wire, drv, expr>>
    BY <1>9 DEF VmSeesLink, Telemetry, TelemetryHeard, driveVars
  <2>2. vm'.entered = vm.entered
    BY <1>9 DEF VmSeesLink, Telemetry, Typed, VmState
  <2> QED
    BY <2>1, <2>2, TailsFrame DEF SameClaims
<1>10. CASE ExprOpStarts \/ ExprOpEnds
  BY <1>10, TailsExpr
<1>11. CASE Pair \/ Unpair \/ Refreshed
  BY <1>11, TailsRows
<1>12. CASE UNCHANGED vars
  BY <1>12, TailsFrame DEF vars, driveVars, SameClaims
<1> QED
  BY <1>1, <1>2, <1>3, <1>4, <1>5, <1>6, <1>7, <1>8, <1>9, <1>10, <1>11, <1>12
     DEF Next, User, Life, Lane, Main, DriveSteps

LEMMA TailsAlways == Spec => []Tails
BY AppInvariant, QuietAlways, TailsStart, TailsKeep, PTL DEF Spec

(* Away from the control screens, with nothing left to send, the last claim *)
(* the robot of a pair whose key was never refreshed was sent is a release, *)
(* whether or not a screen came back before its release went out            *)
(* (DrivingScreen: "The robot will be released and stop.").                 *)
THEOREM ReleasedWhenAway == Spec => []UnrefreshedReleased
<1>1. AppInv /\ Quiet /\ Tails => UnrefreshedReleased
  <2> SUFFICES ASSUME AppInv, Quiet, Tails, row.era = 0, ui.tab = "home", Settled,
                      expr.queue = <<>>, lane = <<>>, wire.claim = "take"
               PROVE  FALSE
    BY DEF UnrefreshedReleased, AwayMeansReleased
  <2>1. \A who : Absent(lane, who)
    <3>1. Len(<<>>) = 0
      OBVIOUS
    <3> QED
      BY <3>1 DEF Absent
  <2>2. row.on
    BY DEF Tails, NothingSaid
  <2>3. ~vm.entered /\ ~expr.entered
    BY DEF Quiet
  <2> QED
    BY <2>1, <2>2, <2>3 DEF Tails, Settled
<1> QED
  BY AppInvariant, QuietAlways, TailsAlways, <1>1, PTL

-----------------------------------------------------------------------------
(* The types TLC checks: within the bounds, whatever the bounds.            *)

Sizes ==
  /\ row \in Rows /\ drv.dev \in Rows /\ conn.dev \in Rows /\ vm.seen \in Rows
  /\ stick \in {0, 1} /\ Len(lane) <= MaxWaiting
  /\ conn.silence <= DeadTicks /\ conn.since <= AliveEvery

(* A screen that is entered owes a release, and a screen that is covered a  *)
(* claim and a release.                                                     *)
Owed == (IF vm.entered THEN 1 ELSE 0) + (IF ui.life = "resumed" THEN 0 ELSE 2)

(* An event makes at most one stop frame or one goodbye, or one claim and   *)
(* one release.                                                             *)
Counts ==
  /\ ui.events <= MaxEvents
  /\ drv.halts <= ui.events
  /\ conn.byes + (IF ui.life = "paused" THEN 1 ELSE 0) <= ui.events
  /\ Len(drv.queue) + Owed <= 2 * ui.events

LEMMA SizesFrame ==
  ASSUME Sizes, row' \in Rows, drv'.dev \in {drv.dev, row}, conn'.dev \in {conn.dev, row},
         vm'.seen \in {vm.seen, row}, stick' \in {0, 1}, Len(lane') <= MaxWaiting,
         conn'.silence <= DeadTicks, conn'.since <= AliveEvery
  PROVE  Sizes'
BY DEF Sizes

LEMMA Joined ==
  ASSUME Typed, NEW who, NEW frame, Queue(who, frame)
  PROVE  Len(lane') <= MaxWaiting
<1>1. lane \in Seq(Entry) /\ Len(lane) \in Nat
  BY LenProperties DEF Typed
<1>2. Len(lane') = Len(lane) + 1
  BY <1>1 DEF Queue
<1> QED
  BY <1>1, <1>2, DriveAssumption DEF Queue

LEMMA SizesScreens ==
  ASSUME Typed, Sizes, UNCHANGED <<row, lane, stick, conn>>,
         \/ \E tab \in {"driving", "expressions"} : Shown(tab)
         \/ Hidden(ui.tab)
         \/ UNCHANGED <<vm, drv, expr>>
  PROVE  Sizes'
<1> USE DEF Typed
<1>1. ui.tab \in {"home", "driving", "expressions"}
  BY DEF UiState
<1>2. Aside
  BY <1>1, ShownFacts, HiddenFacts DEF Aside
<1>3. vm'.seen = vm.seen
  <2>1. /\ [vm EXCEPT !.entered = TRUE].seen = vm.seen
        /\ [vm EXCEPT !.entered = FALSE].seen = vm.seen
    BY DEF VmState
  <2>2. ASSUME NEW tab \in {"driving", "expressions"}, Shown(tab) PROVE vm'.seen = vm.seen
    BY <2>1, <2>2 DEF Shown
  <2>3. Hidden(ui.tab) => vm'.seen = vm.seen
    BY <1>1, <2>1 DEF Hidden
  <2> QED
    BY <2>2, <2>3
<1> QED
  BY <1>2, <1>3, SizesFrame DEF Aside, Sizes

LEMMA SizesWatch ==
  ASSUME Typed, Sizes, WatchSteps \/ TelemetryHeard, UNCHANGED vm
  PROVE  Sizes'
<1> USE DEF Typed
<1>1. conn \in ConnState /\ conn.silence \in Nat /\ conn.since \in Nat
  BY DEF ConnState
<1>2. CASE WatchSeesRow
  <2>1. conn'.dev = row /\ conn'.since = AliveEvery
        /\ conn'.silence = (IF row.on THEN StaleTicks ELSE 0)
    BY <1>1, <1>2 DEF WatchSeesRow, ConnState
  <2>2. conn'.silence <= DeadTicks /\ conn'.since <= AliveEvery
    BY <2>1, WatchAssumption
  <2> QED
    BY <1>2, <2>1, <2>2, SizesFrame DEF WatchSeesRow, driveVars, Sizes
<1>3. CASE TelemetryHeard
  <2>1. conn'.dev = conn.dev /\ conn'.since = conn.since /\ conn'.silence = 0
    BY <1>1, <1>3 DEF TelemetryHeard, ConnState
  <2>2. conn'.silence <= DeadTicks
    BY <2>1, WatchAssumption
  <2> QED
    BY <1>3, <2>1, <2>2, SizesFrame DEF TelemetryHeard, driveVars, Sizes
<1>4. CASE WatchTick
  <2> DEFINE since == IF conn.since < AliveEvery THEN conn.since + 1 ELSE conn.since
             due == since = AliveEvery
             noted == NoteSilence(conn)
  <2>1. since \in Nat /\ since <= AliveEvery
    BY <1>1, WatchAssumption DEF Sizes
  <2>2. noted \in ConnState /\ noted.dev = conn.dev /\ noted.silence <= DeadTicks
    <3> DEFINE silence == IF conn.silence < DeadTicks THEN conn.silence + 1
                          ELSE conn.silence
               alive == IF <<conn.aliveness, Judged(silence)>> \in Worse
                        THEN Judged(silence) ELSE conn.aliveness
    <3>1. silence \in Nat /\ silence <= DeadTicks
      BY <1>1, WatchAssumption DEF Sizes
    <3>2. alive \in Aliveness
      BY <1>1 DEF Judged, Aliveness, ConnState
    <3>3. noted = [conn EXCEPT !.silence = silence, !.aliveness = alive]
      BY <1>1 DEF NoteSilence, ConnState
    <3> HIDE DEF silence, alive, noted
    <3> QED
      BY <1>1, <3>1, <3>2, <3>3 DEF ConnState
  <2>3. /\ UNCHANGED <<row, stick, drv>>
        /\ conn' = [noted EXCEPT !.since = IF due THEN 0 ELSE since]
        /\ IF due THEN Queue("alive", "alive") ELSE UNCHANGED lane
    BY <1>4 DEF WatchTick
  <2> HIDE DEF since, due, noted
  <2>4. /\ conn'.dev = conn.dev /\ conn'.silence <= DeadTicks
        /\ conn'.since = IF due THEN 0 ELSE since
    BY <2>2, <2>3 DEF ConnState
  <2>5. conn'.since <= AliveEvery
    BY <2>1, <2>4, WatchAssumption
  <2>6. Len(lane') <= MaxWaiting
    BY <2>3, Joined DEF Sizes
  <2> QED
    BY <2>3, <2>4, <2>5, <2>6, SizesFrame DEF Sizes
<1>5. CASE GoodbyeStarts
  <2>1. conn'.dev = conn.dev /\ conn'.since = conn.since /\ conn'.silence = conn.silence
    BY <1>1, <1>5 DEF GoodbyeStarts, ConnState
  <2> QED
    BY <1>5, <2>1, Joined, SizesFrame DEF GoodbyeStarts, Sizes
<1> QED
  BY <1>2, <1>3, <1>4, <1>5 DEF WatchSteps

LEMMA SizesLoops ==
  ASSUME Typed, Sizes, DriveSteps, UNCHANGED <<conn, vm>>
  PROVE  Sizes'
<1> USE DEF Typed
<1>1. drv \in DriveState /\ UNCHANGED <<row, stick>>
  BY DEF DriveSteps, ManualOpStarts, ManualOpEnds, DriveTick, HaltStarts, DriveSeesRow
<1>2. drv'.dev \in {drv.dev, row}
  <2>1. CASE ManualOpStarts
    <3> DEFINE op == Head(drv.queue)
               d == [drv EXCEPT !.queue = Tail(@)]
    <3>1. d.dev = drv.dev /\ [d EXCEPT !.op = op].dev = drv.dev /\ Ended(d, op).dev = drv.dev
      BY <1>1 DEF DriveState, Ended
    <3> QED
      BY <2>1, <3>1 DEF ManualOpStarts
  <2>2. CASE ManualOpEnds
    BY <1>1, <2>2 DEF ManualOpEnds, Ended, DriveState
  <2>3. CASE DriveTick
    BY <2>3 DEF DriveTick
  <2>4. CASE HaltStarts
    BY <1>1, <2>4 DEF HaltStarts, DriveState
  <2>5. CASE DriveSeesRow
    <3>1. CASE row.on
      BY <1>1, <2>5, <3>1 DEF DriveSeesRow, DriveState
    <3>2. CASE ~row.on
      BY <1>1, <2>5, <3>2 DEF DriveSeesRow, DriveState
    <3> QED
      BY <3>1, <3>2
  <2> QED
    BY <2>1, <2>2, <2>3, <2>4, <2>5 DEF DriveSteps
<1>3. Len(lane') <= MaxWaiting
  <2>1. lane' = lane \/ \E who, frame : Queue(who, frame)
    <3>1. ManualOpStarts => lane' = lane \/ Queue("manual", Claim(Head(drv.queue)))
      BY DEF ManualOpStarts
    <3>2. HaltStarts => lane' = lane \/ Queue("halt", "halt")
      BY DEF HaltStarts
    <3>3. DriveTick => Queue("tick", Sampled(drv))
      BY DEF DriveTick
    <3> QED
      BY <3>1, <3>2, <3>3 DEF DriveSteps, ManualOpEnds, DriveSeesRow
  <2> QED
    BY <2>1, Joined DEF Sizes
<1> QED
  BY <1>1, <1>2, <1>3, SizesFrame DEF Sizes

LEMMA SizesRows ==
  ASSUME Typed, Sizes, Pair \/ Unpair \/ Refreshed
  PROVE  Sizes'
<1>1. UNCHANGED <<lane, stick, drv, conn, vm>> /\ row \in Row
  BY DEF Pair, Unpair, Refreshed, RowChanges, Typed
<1>2. row' \in Rows
  <2>1. CASE Pair \/ Unpair
    <3>1. 0 \in 0 .. MaxEras
      BY AppAssumption
    <3>2. [on |-> TRUE, era |-> 0] \in Rows /\ NoRow \in Rows
      BY <3>1 DEF NoRow, Rows
    <3> QED
      BY <2>1, <3>2 DEF Pair, Unpair, RowChanges
  <2>2. CASE Refreshed
    <3>1. row' = [row EXCEPT !.era = row.era + 1] /\ row.era \in Nat /\ row.era < MaxEras
      BY <1>1, <2>2 DEF Refreshed, RowChanges, Row
    <3>2. row.era + 1 \in 0 .. MaxEras
      BY <3>1, AppAssumption
    <3> QED
      BY <1>1, <3>1, <3>2 DEF Row, Rows
  <2> QED
    BY <2>1, <2>2
<1> QED
  BY <1>1, <1>2, SizesFrame DEF Sizes

LEMMA SizesKeep == AppInv /\ Sizes /\ [Next]_vars => Sizes'
<1> SUFFICES ASSUME AppInv, Sizes, [Next]_vars PROVE Sizes'
  OBVIOUS
<1> USE DEF AppInv, LaneInv
<1>1. CASE (\E tab \in {"driving", "expressions"} : OpenScreen(tab)) \/ LeaveScreen \/ Pause
           \/ Resume
  <2>1. UNCHANGED <<row, lane, stick, conn>>
    BY <1>1 DEF OpenScreen, LeaveScreen, Pause, Resume
  <2>2. ui.tab \in {"home", "driving", "expressions"}
    BY DEF Typed, UiState
  <2>3. \/ \E tab \in {"driving", "expressions"} : Shown(tab)
        \/ Hidden(ui.tab)
        \/ UNCHANGED <<vm, drv, expr>>
    BY <1>1, <2>2 DEF OpenScreen, LeaveScreen, Pause, Resume
  <2> QED
    BY <2>1, <2>3, SizesScreens
<1>2. CASE Touch \/ Drag \/ Lift \/ OnEmergencyStop \/ OnReleaseEmergency
  <2>1. UNCHANGED <<row, lane, conn>> /\ stick' \in {stick, 0, 1}
    BY <1>2 DEF Touch, Drag, Lift, OnEmergencyStop, OnReleaseEmergency
  <2>2. vm'.seen = vm.seen
    BY <1>2 DEF Touch, Drag, Lift, OnEmergencyStop, OnReleaseEmergency, Typed, VmState
  <2>3. drv'.dev = drv.dev
    <3>1. CASE OnEmergencyStop
      BY <3>1 DEF OnEmergencyStop, EmergencyStop, Typed, DriveState
    <3>2. CASE ~OnEmergencyStop
      BY <1>2, <3>2 DEF Touch, Drag, Lift, OnReleaseEmergency, ReleaseEmergency, Typed, DriveState
    <3> QED
      BY <3>1, <3>2
  <2> QED
    BY <2>1, <2>2, <2>3, SizesFrame DEF Sizes
<1>3. CASE LinkToBackground \/ DriveToBackground \/ ToForeground
  <2>1. UNCHANGED <<row, lane, stick, vm>>
    BY <1>3 DEF LinkToBackground, DriveToBackground, ToForeground, driveVars
  <2>2. drv'.dev = drv.dev
    BY <1>3 DEF LinkToBackground, DriveToBackground, ToForeground, driveVars, Typed, DriveState
  <2>3. /\ conn'.dev = conn.dev /\ conn'.silence = conn.silence
        /\ conn'.since \in {conn.since, AliveEvery}
    <3>1. conn \in ConnState
      BY DEF Typed
    <3>2. CASE LinkToBackground
      BY <3>1, <3>2 DEF LinkToBackground, OnBackground, ConnState
    <3>3. CASE DriveToBackground
      BY <3>3 DEF DriveToBackground
    <3>4. CASE ToForeground
      BY <3>1, <3>4 DEF ToForeground, OnForeground, ConnState
    <3> QED
      BY <1>3, <3>2, <3>3, <3>4
  <2> QED
    BY <2>1, <2>2, <2>3, WatchAssumption, SizesFrame DEF Sizes
<1>4. CASE Allocate /\ UNCHANGED <<conn, ui, vm, expr>>
  <2>1. lane \in Seq(Entry) /\ lane # <<>> /\ lane' = Tail(lane)
        /\ UNCHANGED <<row, stick, drv, conn, vm>>
    BY <1>4 DEF Allocate, Typed
  <2>2. Len(lane) \in Nat /\ Len(lane') = Len(lane) - 1
    BY <2>1, HeadTailProperties, LenProperties
  <2>3. Len(lane') <= MaxWaiting
    BY <2>2, DriveAssumption DEF Sizes
  <2> QED
    BY <2>1, <2>3, SizesFrame DEF Sizes
<1>5. CASE DriveSteps /\ UNCHANGED <<conn, ui, vm, expr>>
  BY <1>5, SizesLoops
<1>6. CASE (WatchSteps /\ UNCHANGED <<ui, vm, expr>>) \/ Telemetry
  BY <1>6, SizesWatch DEF Telemetry
<1>7. CASE VmSeesLink \/ VmSeesRow
  <2>1. UNCHANGED <<row, lane, stick, drv, conn>>
    BY <1>7 DEF VmSeesLink, VmSeesRow, driveVars
  <2>2. vm'.seen \in {vm.seen, row}
    BY <1>7 DEF VmSeesLink, VmSeesRow, Typed, VmState
  <2> QED
    BY <2>1, <2>2, SizesFrame DEF Sizes
<1>8. CASE ExprOpStarts \/ ExprOpEnds
  <2>1. UNCHANGED <<row, stick, drv, conn, vm>>
    BY <1>8 DEF ExprOpStarts, ExprOpEnds, driveVars
  <2>2. lane' = lane \/ Queue("expr", Claim(Head(expr.queue)))
    BY <1>8 DEF ExprOpStarts, ExprOpEnds, driveVars
  <2>3. Len(lane') <= MaxWaiting
    BY <2>2, Joined DEF Sizes
  <2> QED
    BY <2>1, <2>3, SizesFrame DEF Sizes
<1>9. CASE Pair \/ Unpair \/ Refreshed
  BY <1>9, SizesRows
<1>10. CASE UNCHANGED vars
  BY <1>10, SizesFrame DEF vars, driveVars, Sizes
<1> QED
  BY <1>1, <1>2, <1>3, <1>4, <1>5, <1>6, <1>7, <1>8, <1>9, <1>10
     DEF Next, User, Life, Lane, Main

Covering == conn.byes + (IF ui.life = "paused" THEN 1 ELSE 0)

LEMMA CountsTyped ==
  ASSUME Typed
  PROVE  /\ ui.events \in Nat /\ drv.halts \in Nat /\ conn.byes \in Nat /\ Len(drv.queue) \in Nat
         /\ Covering \in Nat /\ Owed \in Nat
<1>1. ui.events \in Nat /\ drv.halts \in Nat /\ conn.byes \in Nat /\ Len(drv.queue) \in Nat
  BY LenProperties DEF Typed, UiState, DriveState, ConnState
<1> QED
  BY <1>1 DEF Covering, Owed

(* A step is worth k events. *)
LEMMA CountsFrame ==
  ASSUME Typed, Typed', Counts, NEW k \in {0, 1},
         ui'.events = ui.events + k, ui.events + k <= MaxEvents,
         drv'.halts <= drv.halts + k, Covering' <= Covering + k,
         Len(drv'.queue) + Owed' <= Len(drv.queue) + Owed + 2 * k
  PROVE  Counts'
<1>1. /\ ui.events \in Nat /\ drv.halts \in Nat /\ conn.byes \in Nat /\ Len(drv.queue) \in Nat
      /\ Covering \in Nat /\ Owed \in Nat
  BY CountsTyped
<1>2. /\ drv'.halts \in Nat /\ Len(drv'.queue) \in Nat /\ Covering' \in Nat /\ Owed' \in Nat
  <2>1. drv'.halts \in Nat /\ conn'.byes \in Nat /\ drv'.queue \in Seq(Ops)
    BY DEF Typed, DriveState, ConnState
  <2>2. Len(drv'.queue) \in Nat
    BY <2>1, LenProperties
  <2> QED
    BY <2>1, <2>2 DEF Covering, Owed
<1>3. ui.events <= MaxEvents /\ drv.halts <= ui.events /\ Covering <= ui.events
      /\ Len(drv.queue) + Owed <= 2 * ui.events
  BY DEF Counts, Covering
<1>4. ASSUME NEW e \in Nat, NEW h \in Nat, NEW c \in Nat, NEW q \in Nat, NEW o \in Nat,
             NEW h1 \in Nat, NEW c1 \in Nat, NEW q1 \in Nat, NEW o1 \in Nat,
             h <= e, c <= e, q + o <= 2 * e,
             h1 <= h + k, c1 <= c + k, q1 + o1 <= q + o + 2 * k
      PROVE  h1 <= e + k /\ c1 <= e + k /\ q1 + o1 <= 2 * (e + k)
  <2>1. CASE k = 0
    BY <1>4, <2>1
  <2>2. CASE k = 1
    BY <1>4, <2>2
  <2> QED
    BY <2>1, <2>2
<1>5. /\ drv'.halts <= ui.events + k /\ Covering' <= ui.events + k
      /\ Len(drv'.queue) + Owed' <= 2 * (ui.events + k)
  <2> DEFINE q == Len(drv.queue)
             q1 == Len(drv'.queue)
             c1 == Covering'
             o1 == Owed'
             h1 == drv'.halts
  <2>1. /\ ui.events \in Nat /\ drv.halts \in Nat /\ Covering \in Nat /\ q \in Nat /\ Owed \in Nat
        /\ h1 \in Nat /\ c1 \in Nat /\ q1 \in Nat /\ o1 \in Nat
        /\ drv.halts <= ui.events /\ Covering <= ui.events /\ q + Owed <= 2 * ui.events
        /\ h1 <= drv.halts + k /\ c1 <= Covering + k /\ q1 + o1 <= q + Owed + 2 * k
    BY <1>1, <1>2, <1>3
  <2> HIDE DEF q, q1, c1, o1, h1
  <2>2. h1 <= ui.events + k /\ c1 <= ui.events + k /\ q1 + o1 <= 2 * (ui.events + k)
    BY <1>4, <2>1
  <2> QED
    BY <2>2 DEF q1, c1, o1, h1
<1> QED
  BY <1>5 DEF Counts, Covering

(* Nothing counted goes up. *)
LEMMA CountsQuiet ==
  ASSUME Typed, Typed', Counts, ui'.events = ui.events, drv'.halts <= drv.halts,
         Covering' <= Covering, Len(drv'.queue) + Owed' <= Len(drv.queue) + Owed + 0
  PROVE  Counts'
<1>1. /\ ui.events \in Nat /\ drv.halts \in Nat /\ Len(drv.queue) \in Nat
      /\ Covering \in Nat /\ Owed \in Nat
  BY CountsTyped
<1>2. ui.events + 0 <= MaxEvents /\ ui'.events = ui.events + 0
  BY <1>1 DEF Counts
<1>3. drv.halts + 0 = drv.halts /\ Covering + 0 = Covering /\ 2 * 0 = 0
  BY <1>1
<1> QED
  BY <1>2, <1>3, CountsFrame

LEMMA Eventful ==
  ASSUME NEW u \in UiState, Happens(u), u.events = ui.events
  PROVE  /\ ui'.events = ui.events + 1 /\ ui.events + 1 <= MaxEvents
         /\ ui'.life = u.life /\ ui'.tab = u.tab
<1>1. u.events \in Nat /\ u.events < MaxEvents /\ ui' = [u EXCEPT !.events = u.events + 1]
  BY DEF Happens, UiState
<1>2. u.events + 1 <= MaxEvents
  BY <1>1, AppAssumption
<1> QED
  BY <1>1, <1>2 DEF UiState

(* What a screen that comes or goes asks for. *)
Holds == IF vm.entered THEN 1 ELSE 0

LEMMA ShownAsks ==
  ASSUME Typed, NEW tab \in {"driving", "expressions"}, Shown(tab)
  PROVE  Len(drv'.queue) + Holds' <= Len(drv.queue) + Holds + 2
<1> USE DEF Typed
<1>1. drv.queue \in Seq(Ops) /\ Len(drv.queue) \in Nat /\ Holds \in {0, 1}
  BY LenProperties DEF DriveState, Holds
<1>2. Holds' \in {0, 1}
  BY DEF Holds
<1>3. drv'.queue = drv.queue \/ drv'.queue = Append(drv.queue, "enter")
  BY DEF Shown, EnterManual, DriveState
<1>4. Len(drv'.queue) <= Len(drv.queue) + 1 /\ Len(drv'.queue) \in Nat
  <2>1. Len(Append(drv.queue, "enter")) = Len(drv.queue) + 1
    BY <1>1, AppendProperties DEF Ops
  <2> QED
    BY <1>1, <1>3, <2>1
<1> QED
  BY <1>1, <1>2, <1>4

LEMMA HiddenAsks ==
  ASSUME Typed, Hidden(ui.tab)
  PROVE  Len(drv'.queue) + Holds' <= Len(drv.queue) + Holds
<1> USE DEF Typed
<1>1. drv.queue \in Seq(Ops) /\ Len(drv.queue) \in Nat /\ vm.entered \in BOOLEAN
      /\ ui.tab \in {"home", "driving", "expressions"}
  BY LenProperties DEF DriveState, VmState, UiState
<1>2. CASE ui.tab = "driving" /\ vm.entered
  <2>1. drv'.queue = Append(drv.queue, "exit") /\ ~vm'.entered
    BY <1>2 DEF Hidden, ExitManual, DriveState, VmState
  <2>2. Len(drv'.queue) = Len(drv.queue) + 1
    BY <1>1, <2>1, AppendProperties DEF Ops
  <2>3. Holds' = 0 /\ Holds = 1
    BY <1>2, <2>1 DEF Holds
  <2> QED
    BY <1>1, <2>2, <2>3
<1>3. CASE ui.tab = "driving" /\ ~vm.entered
  <2>1. drv' = drv /\ ~vm'.entered
    BY <1>3 DEF Hidden, VmState
  <2> QED
    BY <1>1, <1>3, <2>1 DEF Holds
<1>4. CASE ui.tab # "driving"
  <2>1. drv' = drv /\ vm' = vm
    BY <1>1, <1>4 DEF Hidden
  <2> QED
    BY <1>1, <2>1 DEF Holds
<1> QED
  BY <1>2, <1>3, <1>4

Uncovered == IF ui.life = "resumed" THEN 0 ELSE 2

LEMMA Sums ==
  ASSUME NEW q \in Nat, NEW h \in Nat, NEW l \in Nat,
         NEW q1 \in Nat, NEW h1 \in Nat, NEW l1 \in Nat, NEW k \in Nat, NEW m \in Nat,
         q1 + h1 <= q + h + k, l1 + k <= l + m
  PROVE  q1 + (h1 + l1) <= q + (h + l) + m
OBVIOUS

LEMMA CountsScreens ==
  ASSUME AppInv, Typed', Counts,
         \/ \E tab \in {"driving", "expressions"} : OpenScreen(tab)
         \/ LeaveScreen \/ Pause \/ Resume
  PROVE  Counts'
<1> USE DEF AppInv, LaneInv
<1>1. /\ ui \in UiState /\ ui.tab \in {"home", "driving", "expressions"}
      /\ ui.events \in Nat /\ ui.life \in {"resumed", "paused", "stopping", "stopped", "started"}
      /\ drv.halts \in Nat /\ Len(drv.queue) \in Nat /\ Covering \in Nat /\ conn.byes \in Nat
  BY CountsTyped DEF Typed, UiState
<1>2. conn' = conn
  BY DEF OpenScreen, LeaveScreen, Pause, Resume
<1>3. drv'.halts = drv.halts
  <2>1. Aside \/ UNCHANGED drv
    BY <1>1, ShownFacts, HiddenFacts DEF OpenScreen, LeaveScreen, Pause, Resume
  <2> QED
    BY <2>1 DEF Aside
<1>4. /\ Owed = Holds + Uncovered /\ Holds \in Nat /\ Uncovered \in Nat
      /\ Owed' = Holds' + Uncovered' /\ Holds' \in Nat /\ Uncovered' \in Nat
  BY DEF Owed, Holds, Uncovered
<1>5. Len(drv'.queue) \in Nat
  <2>1. drv'.queue \in Seq(Ops)
    BY DEF Typed, DriveState
  <2> QED
    BY <2>1, LenProperties
<1>6. CASE \E tab \in {"driving", "expressions"} : OpenScreen(tab)
  <2> PICK tab \in {"driving", "expressions"} : OpenScreen(tab)
    BY <1>6
  <2>1. /\ [ui EXCEPT !.tab = tab] \in UiState
        /\ [ui EXCEPT !.tab = tab].events = ui.events /\ [ui EXCEPT !.tab = tab].life = ui.life
    BY <1>1 DEF UiState
  <2>2. ui'.events = ui.events + 1 /\ ui.events + 1 <= MaxEvents /\ ui'.life = "resumed"
    BY <2>1, Eventful DEF OpenScreen
  <2>3. Covering' = Covering
    BY <1>2, <2>2 DEF OpenScreen, Covering
  <2>4. Len(drv'.queue) + Holds' <= Len(drv.queue) + Holds + 2
    BY ShownAsks DEF OpenScreen
  <2>5. Len(drv'.queue) + Owed' <= Len(drv.queue) + Owed + 2
    <3>1. Uncovered' + 2 <= Uncovered + 2
      BY <1>6, <2>2 DEF OpenScreen, Uncovered
    <3> QED
      BY <1>1, <1>4, <1>5, <2>4, <3>1, Sums
  <2>6. drv'.halts <= drv.halts + 1 /\ Covering' <= Covering + 1
    BY <1>1, <1>3, <2>3
  <2>7. 2 * 1 = 2
    OBVIOUS
  <2> QED
    BY <2>2, <2>5, <2>6, <2>7, CountsFrame
<1>7. CASE LeaveScreen
  <2>1. ui'.events = ui.events /\ ui'.life = ui.life
    BY <1>1, <1>7 DEF LeaveScreen, UiState
  <2>2. Len(drv'.queue) + Holds' <= Len(drv.queue) + Holds
    BY <1>7, HiddenAsks DEF LeaveScreen
  <2>3. Len(drv'.queue) + Owed' <= Len(drv.queue) + Owed + 0
    <3>1. Uncovered' + 0 <= Uncovered + 0
      BY <1>7, <2>1 DEF LeaveScreen, Uncovered
    <3>2. Len(drv'.queue) + Holds' <= Len(drv.queue) + Holds + 0
      BY <1>1, <1>4, <2>2
    <3> QED
      BY <1>1, <1>4, <1>5, <3>1, <3>2, Sums
  <2>4. Covering' = Covering
    BY <1>2, <2>1 DEF Covering
  <2>5. Covering' <= Covering /\ drv'.halts <= drv.halts
    BY <1>1, <1>3, <2>4
  <2> QED
    BY <2>1, <2>3, <2>5, CountsQuiet
<1>8. CASE Pause
  <2>1. /\ [ui EXCEPT !.life = "paused"] \in UiState
        /\ [ui EXCEPT !.life = "paused"].events = ui.events
        /\ [ui EXCEPT !.life = "paused"].life = "paused"
    BY <1>1 DEF UiState
  <2>2. ui'.events = ui.events + 1 /\ ui.events + 1 <= MaxEvents /\ ui'.life = "paused"
    BY <1>8, <2>1, Eventful DEF Pause
  <2>3. Covering' = Covering + 1
    BY <1>1, <1>2, <1>8, <2>2 DEF Pause, Covering
  <2>4. Len(drv'.queue) + Holds' <= Len(drv.queue) + Holds
    BY <1>8, HiddenAsks DEF Pause
  <2>5. Len(drv'.queue) + Owed' <= Len(drv.queue) + Owed + 2
    <3>1. Uncovered' + 0 <= Uncovered + 2
      BY <1>8, <2>2 DEF Pause, Uncovered
    <3>2. Len(drv'.queue) + Holds' <= Len(drv.queue) + Holds + 0
      BY <1>1, <1>4, <2>4
    <3> QED
      BY <1>1, <1>4, <1>5, <3>1, <3>2, Sums
  <2>6. drv'.halts <= drv.halts + 1 /\ Covering' <= Covering + 1
    BY <1>1, <1>3, <2>3
  <2>7. 2 * 1 = 2
    OBVIOUS
  <2> QED
    BY <2>2, <2>5, <2>6, <2>7, CountsFrame
<1>9. CASE Resume
  <2>1. ui'.events = ui.events /\ ui'.life = "resumed" /\ ui.life # "resumed"
    BY <1>1, <1>9 DEF Resume, UiState
  <2>2. Len(drv'.queue) + Holds' <= Len(drv.queue) + Holds + 2
    <3>1. CASE ui.tab = "home"
      <4>1. UNCHANGED <<vm, drv>>
        BY <1>9, <3>1 DEF Resume
      <4> QED
        <5>1. Holds' = Holds /\ drv' = drv
          BY <4>1 DEF Holds
        <5> QED
          BY <1>1, <1>4, <5>1
    <3>2. CASE ui.tab # "home"
      BY <1>1, <1>9, <3>2, ShownAsks DEF Resume
    <3> QED
      BY <3>1, <3>2
  <2>3. Len(drv'.queue) + Owed' <= Len(drv.queue) + Owed + 0
    <3>1. Uncovered' + 2 <= Uncovered + 0
      BY <2>1 DEF Uncovered
    <3> QED
      BY <1>1, <1>4, <1>5, <2>2, <3>1, Sums
  <2>4. Covering' <= Covering /\ drv'.halts <= drv.halts
    BY <1>1, <1>2, <1>3, <2>1 DEF Covering
  <2> QED
    BY <2>1, <2>3, <2>4, CountsQuiet
<1> QED
  BY <1>6, <1>7, <1>8, <1>9

(* The stop frames, and the app going to the background.                    *)
LEMMA CountsLife ==
  ASSUME AppInv, Typed', Counts,
         \/ OnEmergencyStop \/ OnReleaseEmergency \/ Touch \/ Drag \/ Lift
         \/ LinkToBackground \/ DriveToBackground \/ ToForeground
  PROVE  Counts'
<1> USE DEF AppInv, LaneInv
<1>1. /\ ui \in UiState /\ drv \in DriveState /\ conn \in ConnState
      /\ ui.events \in Nat /\ drv.halts \in Nat /\ Len(drv.queue) \in Nat /\ Covering \in Nat
      /\ conn.byes \in Nat /\ Owed \in Nat
  BY CountsTyped DEF Typed
<1>2. vm'.entered = vm.entered
  BY DEF OnEmergencyStop, OnReleaseEmergency, Touch, Drag, Lift, LinkToBackground,
     DriveToBackground, ToForeground, Typed, VmState
<1>3. CASE OnEmergencyStop
  <2>1. ui'.events = ui.events + 1 /\ ui.events + 1 <= MaxEvents /\ ui'.life = ui.life
    BY <1>1, <1>3, Eventful DEF OnEmergencyStop
  <2>2. drv'.halts <= drv.halts + 1 /\ drv'.queue = drv.queue
    <3>1. CASE drv.latched
      BY <1>1, <1>3, <3>1 DEF OnEmergencyStop, EmergencyStop
    <3>2. CASE ~drv.latched
      <4>1. drv' = [drv EXCEPT !.latched = TRUE, !.halts = drv.halts + 1]
        BY <1>3, <3>2 DEF OnEmergencyStop, EmergencyStop
      <4>2. drv'.halts = drv.halts + 1 /\ drv'.queue = drv.queue
        BY <1>1, <4>1 DEF DriveState
      <4> QED
        BY <1>1, <4>2
    <3> QED
      BY <3>1, <3>2
  <2>3. Covering' = Covering /\ Owed' = Owed
    BY <1>2, <1>3, <2>1 DEF OnEmergencyStop, Covering, Owed
  <2>4. Covering' <= Covering + 1 /\ Len(drv'.queue) + Owed' <= Len(drv.queue) + Owed + 2 * 1
    BY <1>1, <2>2, <2>3
  <2> QED
    BY <2>1, <2>2, <2>4, CountsFrame
<1>4. CASE ~OnEmergencyStop
  <2>1. drv'.halts = drv.halts /\ drv'.queue = drv.queue
    BY <1>1, <1>4 DEF OnReleaseEmergency, ReleaseEmergency, Touch, Drag, Lift,
       LinkToBackground, DriveToBackground, ToForeground, driveVars, DriveState
  <2>2. /\ ui'.events = ui.events
        /\ ui'.life = ui.life \/ (ui.life # "resumed" /\ ui'.life # "paused")
    BY <1>1, <1>4 DEF OnReleaseEmergency, Touch, Drag, Lift, LinkToBackground,
       DriveToBackground, ToForeground, UiState
  <2>3. Owed' <= Owed
    <3>1. ui.life = "resumed" => ui'.life = "resumed"
      BY <2>2
    <3> QED
      BY <1>2, <3>1 DEF Owed
  <2>4. Covering' <= Covering
    <3>1. CASE LinkToBackground
      <4>1. conn'.byes = (IF conn.dev.on THEN conn.byes + 1 ELSE conn.byes)
        BY <1>1, <3>1 DEF LinkToBackground, OnBackground, ConnState
      <4>2. ui.life = "paused" /\ ui'.life = "stopping"
        BY <1>1, <3>1 DEF LinkToBackground, UiState
      <4> QED
        BY <1>1, <4>1, <4>2 DEF Covering
    <3>2. CASE ~LinkToBackground
      <4>1. conn'.byes = conn.byes
        BY <1>1, <1>4, <3>2 DEF OnReleaseEmergency, Touch, Drag, Lift, DriveToBackground,
           ToForeground, OnForeground, ConnState
      <4> QED
        BY <1>1, <2>2, <4>1 DEF Covering
    <3> QED
      BY <3>1, <3>2
  <2>5. drv'.halts <= drv.halts /\ Len(drv'.queue) + Owed' <= Len(drv.queue) + Owed + 0
    <3>1. \A q, o, o1 \in Nat : o1 <= o => q + o1 <= q + o + 0
      OBVIOUS
    <3>2. Owed' \in Nat
      BY DEF Owed
    <3> QED
      BY <1>1, <2>1, <2>3, <3>1, <3>2
  <2> QED
    BY <2>2, <2>4, <2>5, CountsQuiet
<1> QED
  BY <1>3, <1>4

(* What the loops take up shrinks their lines.                              *)
LEMMA CountsLoops ==
  ASSUME AppInv, Typed', Counts, UNCHANGED <<ui, vm>>,
         \/ Allocate /\ UNCHANGED conn
         \/ DriveSteps /\ UNCHANGED conn
         \/ WatchSteps
         \/ ExprOpStarts \/ ExprOpEnds
  PROVE  Counts'
<1> USE DEF AppInv, LaneInv
<1>1. /\ drv \in DriveState /\ conn \in ConnState /\ drv.queue \in Seq(Ops)
      /\ ui.events \in Nat /\ drv.halts \in Nat /\ Len(drv.queue) \in Nat /\ Covering \in Nat
      /\ conn.byes \in Nat /\ Owed \in Nat
  BY CountsTyped DEF Typed, DriveState
<1>2. Owed' = Owed
  BY DEF Owed
<1>3. drv'.halts <= drv.halts /\ Len(drv'.queue) <= Len(drv.queue) /\ Len(drv'.queue) \in Nat
  <2>1. CASE drv'.halts = drv.halts /\ drv'.queue = drv.queue
    BY <1>1, <2>1
  <2>2. CASE ManualOpStarts
    <3> DEFINE op == Head(drv.queue)
               rest == Tail(drv.queue)
               d == [drv EXCEPT !.queue = rest]
    <3>1. drv.queue # <<>> /\ drv' \in {[d EXCEPT !.op = op], Ended(d, op)}
      BY <1>1, <2>2 DEF ManualOpStarts, DriveState
    <3>2. Len(rest) = Len(drv.queue) - 1 /\ rest \in Seq(Ops) /\ Len(rest) \in Nat
      BY <1>1, <3>1, HeadTailProperties, LenProperties
    <3> HIDE DEF op, rest
    <3>3. d.halts = drv.halts /\ d.queue = rest /\ d \in DriveState
      BY <1>1, <3>2 DEF DriveState
    <3> HIDE DEF d
    <3>4. drv'.halts = drv.halts /\ drv'.queue = rest
      BY <3>1, <3>3 DEF Ended, DriveState
    <3> QED
      BY <1>1, <3>2, <3>4
  <2>3. CASE HaltStarts
    <3>1. drv.halts > 0 /\ drv' = [drv EXCEPT !.halts = drv.halts - 1]
      BY <1>1, <2>3 DEF HaltStarts, DriveState
    <3>2. drv'.halts = drv.halts - 1 /\ drv'.queue = drv.queue
      BY <1>1, <3>1 DEF DriveState
    <3> QED
      BY <1>1, <3>1, <3>2
  <2>4. ManualOpEnds => drv'.halts = drv.halts /\ drv'.queue = drv.queue
    BY <1>1 DEF ManualOpEnds, Ended, DriveState
  <2>5. DriveSeesRow => drv'.halts = drv.halts /\ drv'.queue = drv.queue
    <3>1. CASE row.on
      BY <1>1, <3>1 DEF DriveSeesRow, DriveState
    <3>2. CASE ~row.on
      BY <1>1, <3>2 DEF DriveSeesRow, DriveState
    <3> QED
      BY <3>1, <3>2
  <2>6. Allocate \/ DriveTick \/ WatchSteps \/ ExprOpStarts \/ ExprOpEnds => drv' = drv
    BY DEF Allocate, DriveTick, WatchSteps, WatchSeesRow, WatchTick, GoodbyeStarts,
       ExprOpStarts, ExprOpEnds, driveVars
  <2> QED
    BY <2>1, <2>2, <2>3, <2>4, <2>5, <2>6 DEF DriveSteps
<1>4. Covering' <= Covering
  <2>1. conn'.byes = conn.byes \/ (conn.byes > 0 /\ conn'.byes = conn.byes - 1)
    <3>1. CASE WatchSeesRow
      BY <1>1, <3>1 DEF WatchSeesRow, ConnState
    <3>2. CASE WatchTick
      <4> DEFINE since == IF conn.since < AliveEvery THEN conn.since + 1 ELSE conn.since
                 due == since = AliveEvery
                 noted == NoteSilence(conn)
      <4>1. noted.byes = conn.byes /\ "since" \in DOMAIN noted /\ "byes" \in DOMAIN noted
        BY <1>1 DEF NoteSilence, ConnState
      <4>2. conn' = [noted EXCEPT !.since = IF due THEN 0 ELSE since]
        BY <3>2 DEF WatchTick
      <4> HIDE DEF noted, since, due
      <4> QED
        BY <4>1, <4>2
    <3>3. CASE GoodbyeStarts
      BY <1>1, <3>3 DEF GoodbyeStarts, ConnState
    <3>4. ExprOpStarts \/ ExprOpEnds => conn' = conn
      BY DEF ExprOpStarts, ExprOpEnds
    <3> QED
      BY <3>1, <3>2, <3>3, <3>4 DEF WatchSteps
  <2> QED
    BY <1>1, <2>1 DEF Covering
<1>5. Len(drv'.queue) + Owed' <= Len(drv.queue) + Owed + 0
  <2>1. \A q, q1, o \in Nat : q1 <= q => q1 + o <= q + o + 0
    OBVIOUS
  <2> QED
    BY <1>1, <1>2, <1>3, <2>1
<1> QED
  BY <1>3, <1>4, <1>5, CountsQuiet

(* The view model, the rows and the telemetry.                              *)
LEMMA CountsOthers ==
  ASSUME AppInv, Typed', Counts,
         VmSeesLink \/ VmSeesRow \/ Pair \/ Unpair \/ Refreshed \/ Telemetry
  PROVE  Counts'
<1> USE DEF AppInv, LaneInv
<1>1. /\ ui \in UiState /\ ui.events \in Nat /\ drv.halts \in Nat /\ Len(drv.queue) \in Nat
      /\ Covering \in Nat /\ Owed \in Nat
  BY CountsTyped DEF Typed
<1>2. drv' = drv
  BY DEF VmSeesLink, VmSeesRow, Pair, Unpair, Refreshed, RowChanges, Telemetry, TelemetryHeard,
     driveVars
<1>3. conn'.byes = conn.byes
  BY DEF VmSeesLink, VmSeesRow, Pair, Unpair, Refreshed, RowChanges, Telemetry, TelemetryHeard,
     Typed, ConnState
<1>4. vm'.entered => vm.entered
  BY DEF VmSeesLink, VmSeesRow, Pair, Unpair, Refreshed, RowChanges, Telemetry, Typed, VmState
<1>5. /\ ui'.life = ui.life
      /\ \/ ui' = ui
         \/ ui'.events = ui.events + 1 /\ ui.events + 1 <= MaxEvents
  BY <1>1, Eventful DEF VmSeesLink, VmSeesRow, Pair, Unpair, Refreshed, Telemetry
<1>6. Owed' <= Owed /\ Owed' \in Nat
  BY <1>4, <1>5 DEF Owed
<1>7. Covering' = Covering
  BY <1>3, <1>5 DEF Covering
<1>8. \A q, o, o1 \in Nat : o1 <= o => q + o1 <= q + o + 0 /\ q + o1 <= q + o + 2
  OBVIOUS
<1>9. /\ Len(drv'.queue) + Owed' <= Len(drv.queue) + Owed + 0
      /\ Len(drv'.queue) + Owed' <= Len(drv.queue) + Owed + 2
  BY <1>1, <1>2, <1>6, <1>8
<1>10. CASE ui' = ui
  BY <1>1, <1>2, <1>7, <1>9, <1>10, CountsQuiet
<1>11. CASE ui'.events = ui.events + 1 /\ ui.events + 1 <= MaxEvents
  <2>1. drv'.halts <= drv.halts + 1 /\ Covering' <= Covering + 1 /\ 2 * 1 = 2
    BY <1>1, <1>2, <1>7
  <2> QED
    BY <1>9, <1>11, <2>1, CountsFrame
<1> QED
  BY <1>5, <1>10, <1>11

LEMMA CountsKeep == AppInv /\ Typed' /\ Counts /\ [Next]_vars => Counts'
<1> SUFFICES ASSUME AppInv, Typed', Counts, [Next]_vars PROVE Counts'
  OBVIOUS
<1>1. CASE User
  BY <1>1, CountsScreens, CountsLife DEF User
<1>2. CASE Life
  BY <1>2, CountsScreens, CountsLife DEF Life
<1>3. CASE Lane \/ ExprOpStarts \/ ExprOpEnds
  BY <1>3, CountsLoops DEF Lane, ExprOpStarts, ExprOpEnds
<1>4. CASE VmSeesLink \/ VmSeesRow \/ Pair \/ Unpair \/ Refreshed \/ Telemetry
  BY <1>4, CountsOthers
<1>5. CASE UNCHANGED vars
  BY <1>5 DEF vars, driveVars, Counts, Owed
<1> QED
  BY <1>1, <1>2, <1>3, <1>4, <1>5 DEF Next, Main

(* Every variable stays in its domain, nobody waits beyond the bound, and   *)
(* no line outgrows the screens shown.                                      *)
THEOREM TypeCorrect == Spec => []TypeOK
<1>1. Init => Sizes /\ Counts
  <2> SUFFICES ASSUME Init PROVE Sizes /\ Counts
    OBVIOUS
  <2>1. 0 \in 0 .. MaxEras /\ 0 <= MaxWaiting /\ 0 <= DeadTicks /\ 0 <= MaxEvents
    BY AppAssumption, DriveAssumption, WatchAssumption
  <2>2. NoRow \in Rows /\ [on |-> TRUE, era |-> 0] \in Rows
    BY <2>1 DEF NoRow, Rows
  <2>3. Sizes
    <3>1. AliveEvery <= AliveEvery /\ Len(<<>>) = 0
      BY WatchAssumption
    <3> QED
      BY <2>1, <2>2, <3>1 DEF Init, DriveInit, WatchInit, Sizes
  <2>4. Counts
    <3>1. /\ drv.queue = <<>> /\ ~vm.entered /\ ui.life = "resumed" /\ ui.events = 0
          /\ drv.halts = 0 /\ conn.byes = 0 /\ Len(<<>>) = 0
      BY DEF Init, DriveInit, WatchInit
    <3> QED
      BY <2>1, <3>1 DEF Counts, Owed
  <2> QED
    BY <2>3, <2>4
<1>2. AppInv => Typed
  BY DEF AppInv, LaneInv
<1>3. AppInv /\ Tails /\ Sizes /\ Counts => TypeOK
  <2> SUFFICES ASSUME AppInv, Tails, Sizes, Counts PROVE TypeOK
    OBVIOUS
  <2> USE DEF AppInv, LaneInv
  <2>1. /\ ui.events \in Nat /\ drv.halts \in Nat /\ conn.byes \in Nat /\ Len(drv.queue) \in Nat
        /\ Covering \in Nat /\ Owed \in Nat
    BY CountsTyped
  <2>2. drv.halts \in 0 .. MaxEvents /\ conn.byes \in 0 .. MaxEvents
        /\ Len(drv.queue) <= 2 * ui.events
    <3>1. conn.byes <= ui.events
      BY <2>1 DEF Counts
    <3>2. Len(drv.queue) <= 2 * ui.events
      BY <2>1 DEF Counts
    <3> QED
      BY <2>1, <3>1, <3>2, AppAssumption DEF Counts
  <2>3. lane \in Seq([by : {"manual", "tick", "halt", "alive", "bye", "expr"}, frame : Frames])
    <3>1. Entry \subseteq [by : {"manual", "tick", "halt", "alive", "bye", "expr"}, frame : Frames]
      BY DEF Entry
    <3> QED
      BY <3>1, SeqMonotonic DEF Typed
  <2>4. drv \in [dev : Rows, held : BOOLEAN, bound : BOOLEAN, queue : Seq(Ops),
                 op : Ops \union {"none"}, latched : BOOLEAN, paused : BOOLEAN,
                 halts : 0 .. MaxEvents]
    BY <2>2 DEF Typed, DriveState, Sizes
  <2>5. conn \in [dev : Rows, aliveness : Aliveness, silence : 0 .. DeadTicks,
                  since : 0 .. AliveEvery, backgrounded : BOOLEAN, byes : 0 .. MaxEvents]
    <3>1. conn.silence \in 0 .. DeadTicks /\ conn.since \in 0 .. AliveEvery
      BY WatchAssumption DEF Typed, ConnState, Sizes
    <3> QED
      BY <2>2, <3>1 DEF Typed, ConnState, Sizes
  <2>6. vm \in [entered : BOOLEAN, loaded : BOOLEAN, seen : Rows, stopped : BOOLEAN,
                link : Aliveness]
    BY DEF Typed, VmState, Sizes
  <2> QED
    BY <2>2, <2>3, <2>4, <2>5, <2>6 DEF TypeOK, Typed, ExprState, Tails, WireState, Sizes
<1> QED
  BY AppInvariant, TailsAlways, SizesKeep, CountsKeep, <1>1, <1>2, <1>3, PTL DEF Spec
=============================================================================
