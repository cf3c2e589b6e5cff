--------------------------------- MODULE App ---------------------------------
(* The app's control screens over Drive and Watch: the tabs, the two view    *)
(* models that follow their visibility, the stick and the emergency stop of  *)
(* the driving screen, and the app going to the background and back.         *)
EXTENDS Watch

CONSTANTS
  MaxEvents,  \* bound: screens opened, coverings, emergency stops, unpairings,
              \* refreshes and returns of the telemetry, together
  MaxEras,    \* bound: key refreshes that go through
  Bounces     \* whether a screen may come back before its release went out

ASSUME AppAssumption ==
  /\ MaxEvents \in Nat /\ MaxEras \in Nat /\ Bounces \in BOOLEAN

VARIABLES
  ui,      \* the tab in front (tab), the app's life, whether a finger is on the
           \* pad, and the events so far
  vm,      \* DrivingViewModel: manualEntered (entered), pairingLoaded (loaded), the
           \* row last seen (seen), eStopped (stopped), the aliveness shown (link)
  expr     \* ExpressionsViewModel: entered, its own manualOps (queue) and op

vars == <<driveVars, conn, ui, vm, expr>>

Init ==
  /\ DriveInit /\ WatchInit
  /\ ui = [tab |-> "home", life |-> "resumed", finger |-> FALSE, events |-> 0]
  /\ vm = [entered |-> FALSE, loaded |-> FALSE, seen |-> NoRow, stopped |-> FALSE,
           link |-> "Unpaired"]
  /\ expr = [entered |-> FALSE, queue |-> <<>>, op |-> "none"]

Happens(u) == u.events < MaxEvents /\ ui' = [u EXCEPT !.events = @ + 1]

-----------------------------------------------------------------------------
(* activate and deactivate, as functions of the two sides they change.       *)

Settled == drv.op = "none" /\ drv.queue = <<>>

(* A screen comes into view later than a row reached the view model, save    *)
(* for the first row, which a cold start may race.                           *)
Shown(tab) ==
  CASE tab = "driving" ->
         /\ vm.loaded => vm.seen = row
         /\ Bounces \/ Settled
         /\ vm' = [vm EXCEPT !.entered = TRUE]
         /\ drv' = IF vm.entered THEN drv ELSE EnterManual(drv)
         /\ UNCHANGED expr
    [] tab = "expressions" ->
         /\ expr' = IF expr.entered THEN expr
                    ELSE [expr EXCEPT !.entered = TRUE, !.queue = Append(@, "enter")]
         /\ UNCHANGED <<vm, drv>>

Hidden(tab) ==
  CASE tab = "driving" ->
         /\ vm' = [vm EXCEPT !.entered = FALSE]
         /\ drv' = IF vm.entered THEN ExitManual(drv) ELSE drv
         /\ UNCHANGED expr
    [] tab = "expressions" ->
         /\ expr' = IF expr.entered
                    THEN [expr EXCEPT !.entered = FALSE, !.queue = Append(@, "exit")]
                    ELSE expr
         /\ UNCHANGED <<vm, drv>>
    [] tab = "home" -> UNCHANGED <<vm, drv, expr>>

-----------------------------------------------------------------------------
(* Tabs. *)

OpenScreen(tab) ==
  /\ ui.life = "resumed" /\ ui.tab = "home" /\ row.on
  /\ Happens([ui EXCEPT !.tab = tab])
  /\ Shown(tab)
  /\ UNCHANGED <<row, lane, wire, stick, conn>>

(* The user leaves, or the gate forces the pairing screen.                   *)
LeaveScreen ==
  /\ ui.life = "resumed" /\ ui.tab # "home" /\ ~ui.finger
  /\ ui' = [ui EXCEPT !.tab = "home"]
  /\ Hidden(ui.tab)
  /\ UNCHANGED <<row, lane, wire, stick, conn>>

(* The app is covered, then either uncovered or put to the background.       *)
Pause ==
  /\ ui.life = "resumed" /\ ~ui.finger
  /\ Happens([ui EXCEPT !.life = "paused"])
  /\ Hidden(ui.tab)
  /\ UNCHANGED <<row, lane, wire, stick, conn>>

Resume ==
  /\ ui.life \in {"paused", "started"}
  /\ ui' = [ui EXCEPT !.life = "resumed"]
  /\ IF ui.tab = "home" THEN UNCHANGED <<vm, drv, expr>> ELSE Shown(ui.tab)
  /\ UNCHANGED <<row, lane, wire, stick, conn>>

(* The observer tells the two loops one after the other.                     *)
LinkToBackground ==
  /\ ui.life = "paused"
  /\ ui' = [ui EXCEPT !.life = "stopping"]
  /\ conn' = OnBackground(conn)
  /\ UNCHANGED <<driveVars, vm, expr>>

DriveToBackground ==
  /\ ui.life = "stopping"
  /\ ui' = [ui EXCEPT !.life = "stopped"]
  /\ drv' = [drv EXCEPT !.paused = TRUE]
  /\ UNCHANGED <<row, lane, wire, stick, conn, vm, expr>>

ToForeground ==
  /\ ui.life = "stopped"
  /\ ui' = [ui EXCEPT !.life = "started"]
  /\ conn' = OnForeground(conn)
  /\ drv' = [drv EXCEPT !.paused = FALSE]
  /\ UNCHANGED <<row, lane, wire, stick, vm, expr>>

-----------------------------------------------------------------------------
(* The driving screen. *)

Driving == ui.life = "resumed" /\ ui.tab = "driving"

PadEnabled == vm.link = "Connected" /\ ~vm.stopped

Touch ==
  /\ Driving /\ ~ui.finger
  /\ ui' = [ui EXCEPT !.finger = TRUE]
  /\ stick' = IF PadEnabled THEN 1 ELSE stick
  /\ UNCHANGED <<row, lane, wire, drv, conn, vm, expr>>

(* The pad is left: it recenters only while it is enabled.                   *)
Lift ==
  /\ Driving /\ ui.finger
  /\ ui' = [ui EXCEPT !.finger = FALSE]
  /\ stick' = IF PadEnabled THEN 0 ELSE stick
  /\ UNCHANGED <<row, lane, wire, drv, conn, vm, expr>>

Drag ==
  /\ Driving /\ ui.finger /\ PadEnabled /\ stick = 0
  /\ stick' = 1
  /\ UNCHANGED <<row, lane, wire, drv, conn, ui, vm, expr>>

OnEmergencyStop ==
  /\ Driving /\ vm.link = "Connected" /\ ~vm.stopped
  /\ Happens(ui)
  /\ vm' = [vm EXCEPT !.stopped = TRUE]
  /\ stick' = 0
  /\ drv' = EmergencyStop(drv)
  /\ UNCHANGED <<row, lane, wire, conn, expr>>

OnReleaseEmergency ==
  /\ Driving /\ vm.link = "Connected" /\ vm.stopped
  /\ vm' = [vm EXCEPT !.stopped = FALSE]
  /\ drv' = ReleaseEmergency(drv)
  /\ UNCHANGED <<row, lane, wire, stick, conn, ui, expr>>

(* The view model's collectors, on the main thread.                          *)
VmSeesLink ==
  /\ vm.link # conn.aliveness
  /\ vm' = [vm EXCEPT !.link = conn.aliveness]
  /\ UNCHANGED <<driveVars, conn, ui, expr>>

(* The first row only records; a pair lost, gained or of a new era drops the *)
(* entered flag.                                                             *)
VmSeesRow ==
  /\ ~vm.loaded \/ vm.seen # row
  /\ vm' = [vm EXCEPT !.loaded = TRUE, !.seen = row, !.entered = @ /\ ~vm.loaded]
  /\ UNCHANGED <<driveVars, conn, ui, expr>>

-----------------------------------------------------------------------------
(* The expressions screen's own claims: best effort, nothing remembered.     *)

ExprOpStarts ==
  /\ expr.op = "none" /\ expr.queue # <<>>
  /\ LET op == Head(expr.queue)
     IN IF row.on
        THEN /\ expr' = [expr EXCEPT !.queue = Tail(@), !.op = op]
             /\ Queue("expr", Claim(op))
        ELSE expr' = [expr EXCEPT !.queue = Tail(@)] /\ UNCHANGED lane
  /\ UNCHANGED <<row, wire, stick, drv, conn, ui, vm>>

ExprOpEnds ==
  /\ expr.op # "none" /\ ~Waits("expr")
  /\ expr' = [expr EXCEPT !.op = "none"]
  /\ UNCHANGED <<driveVars, conn, ui, vm>>

-----------------------------------------------------------------------------
(* What other parts of the app and the robot do. *)

(* Rows change far apart: by then every collector has seen the last one.     *)
RowChanges(r) ==
  /\ drv.dev = row /\ conn.dev = row /\ vm.loaded /\ vm.seen = row
  /\ row' = r
  /\ wire' = IF row.on /\ r.on THEN wire ELSE NothingSaid
  /\ UNCHANGED <<lane, stick, drv, conn, vm, expr>>

Pair ==
  /\ ~row.on /\ ui.tab = "home" /\ ui.life = "resumed"
  /\ lane = <<>> /\ Settled
  /\ RowChanges([on |-> TRUE, era |-> 0])
  /\ UNCHANGED ui

Unpair ==
  /\ row.on
  /\ Happens(ui)
  /\ RowChanges(NoRow)

Refreshed ==
  /\ row.on /\ row.era < MaxEras
  /\ Happens(ui)
  /\ RowChanges([row EXCEPT !.era = @ + 1])

Telemetry ==
  /\ TelemetryHeard
  /\ IF conn.aliveness = "Connected" THEN UNCHANGED ui ELSE Happens(ui)
  /\ UNCHANGED <<vm, expr>>

-----------------------------------------------------------------------------
User ==
  \/ \E tab \in {"driving", "expressions"} : OpenScreen(tab)
  \/ LeaveScreen \/ Pause \/ Touch \/ Drag \/ Lift \/ OnEmergencyStop \/ OnReleaseEmergency

Life == Resume \/ LinkToBackground \/ DriveToBackground \/ ToForeground

Lane ==
  \/ Allocate /\ UNCHANGED <<conn, ui, vm, expr>>
  \/ DriveSteps /\ UNCHANGED <<conn, ui, vm, expr>>
  \/ WatchSteps /\ UNCHANGED <<ui, vm, expr>>

Main == VmSeesLink \/ VmSeesRow \/ ExprOpStarts \/ ExprOpEnds

Next == User \/ Life \/ Lane \/ Main \/ Pair \/ Unpair \/ Refreshed \/ Telemetry

Spec == Init /\ [][Next]_vars

-----------------------------------------------------------------------------
Frames == Claims \union Motions \union Words
Rows == [on : BOOLEAN, era : 0 .. MaxEras]
Ops == {"enter", "exit"}

(* The domains of every variable; what is queued never outgrows the screens  *)
(* shown, a claim and a release for each.                                    *)
TypeOK ==
  /\ row \in Rows /\ stick \in {0, 1}
  /\ lane \in Seq([by : {"manual", "tick", "halt", "alive", "bye", "expr"}, frame : Frames])
  /\ Len(lane) <= MaxWaiting
  /\ wire \in [claim : Claims \union {"none"}, session : Words \union {"none"}]
  /\ drv \in [dev : Rows, held : BOOLEAN, bound : BOOLEAN, queue : Seq(Ops),
              op : Ops \union {"none"}, latched : BOOLEAN, paused : BOOLEAN, halts : 0 .. MaxEvents]
  /\ Len(drv.queue) <= 2 * ui.events
  /\ conn \in [dev : Rows, aliveness : Aliveness, silence : 0 .. DeadTicks,
               since : 0 .. AliveEvery, backgrounded : BOOLEAN, byes : 0 .. MaxEvents]
  /\ vm \in [entered : BOOLEAN, loaded : BOOLEAN, seen : Rows, stopped : BOOLEAN,
             link : Aliveness]
  /\ expr \in [entered : BOOLEAN, queue : Seq(Ops), op : Ops \union {"none"}]

(* Once its claim went out, a screen that is shown to a live pair holds MANUAL *)
(* and its own stick is what the loop streams (DrivingViewModel.activate).   *)
ScreenDrives ==
  Settled /\ vm.entered /\ drv.dev.on => drv.held /\ drv.bound

(* In the era the pair began with: no screen entered and nothing left to     *)
(* send, what the last screen left in its stick is not streamed.             *)
NoPhantomSticks ==
  Settled /\ ~vm.entered /\ row = [on |-> TRUE, era |-> 0] /\ drv.dev = row
    => ~(drv.held /\ drv.bound)

(* Once every stop frame launched has its counter, no frame of the sticks is *)
(* left to take a later one until the stop is released                       *)
(* (DriveController.emergencyStop).                                          *)
StopOutranks ==
  row.on /\ drv.latched /\ drv.halts = 0 /\ ~Waits("halt")
    => \A i \in DOMAIN lane : lane[i].frame # "go"

(* Nor, once every goodbye has its own, an ALIVE until the app is in front   *)
(* again (ConnectionManager.onBackground).                                   *)
GoodbyeStands ==
  row.on /\ conn.backgrounded /\ wire.session = "bye" /\ conn.byes = 0 /\ ~Waits("bye")
    => ~Waits("alive")

(* Away from the control screens, with nothing left to send, the last claim  *)
(* this pair's robot was sent is a release (DrivingScreen: "The robot will   *)
(* be released and stop.").                                                  *)
AwayMeansReleased ==
  ui.tab = "home" /\ Settled /\ expr.queue = <<>> /\ lane = <<>> => wire.claim # "take"

(* The same of a pair whose key was never refreshed: the order of the claims *)
(* of two screens, and an unpairing, do not matter to it.                    *)
UnrefreshedReleased == row.era = 0 => AwayMeansReleased

(* Nobody touches the pad: the stick is centered.                            *)
Recentered == ~ui.finger => stick = 0
=============================================================================
