-------------------------------- MODULE Screen --------------------------------
(* The head's display: the faces, the pairing code and the update's bar or  *)
(* alert over them, set by the main loop and expired by the render task.    *)
EXTENDS Naturals

CONSTANT Faces

ASSUME ScreenAssumption == Faces # {}

VARIABLES
  screen,  \* DisplayManager: code (none, live, due), ota (off, bar, alert) and
           \* whether its time is over (otaDue), eyes; the panel is on
  power,   \* PowerManager: the face it reports
  render   \* what the render task has decided to clear and not cleared yet

screenVars == <<screen, power, render>>

Boot == CHOOSE f \in Faces : TRUE

ScreenOff == [code |-> "none", ota |-> "off", otaDue |-> FALSE, eyes |-> Boot, on |-> TRUE]

ScreenInit == screen = ScreenOff /\ power = Boot /\ render = "idle"

(* The update: its bar clears the code, its alert only covers it. *)
ShowOta(s) == [s EXCEPT !.code = "none", !.ota = "bar", !.otaDue = FALSE]
HideOta(s) == [s EXCEPT !.ota = "off", !.otaDue = FALSE]
FailOta(s) == [s EXCEPT !.ota = "alert", !.otaDue = FALSE]

(* The pairing code. *)
ShowCode(s) == [s EXCEPT !.code = "live", !.ota = "off", !.otaDue = FALSE]
HideCode(s) == [s EXCEPT !.code = "none"]

Overlaid(s) == s.code # "none" \/ s.ota # "off"

-----------------------------------------------------------------------------
(* Commands on the main loop. *)

PairShow == screen' = ShowCode(screen) /\ UNCHANGED <<power, render>>

PairDone ==
  /\ screen.code # "none"
  /\ screen' = HideCode(screen)
  /\ UNCHANGED <<power, render>>

(* An overlay rejects the face; what is reported is the stored one.         *)
Face(f) ==
  /\ screen' = IF Overlaid(screen) THEN screen ELSE [screen EXCEPT !.eyes = f]
  /\ power' = screen'.eyes
  /\ UNCHANGED render

(* OFF or not: DIM is a kind of on. *)
Oled(on) == screen' = [screen EXCEPT !.on = on] /\ UNCHANGED <<power, render>>

-----------------------------------------------------------------------------
(* The render task looks at the overlays, the update's first, and then      *)
(* clears the one it found due; the main loop may come in between.          *)

Clears(what) ==
  /\ render = "idle" /\ screen.on
  /\ render' = what
  /\ UNCHANGED <<screen, power>>

RenderLooks_CodeLast ==
  \/ screen.otaDue /\ screen.code = "none" /\ Clears("ota")
  \/ screen.ota = "off" /\ screen.code = "due" /\ Clears("code")

RenderLooks ==
  \/ screen.otaDue /\ Clears("ota")
  \/ screen.ota = "off" /\ screen.code = "due" /\ Clears("code")

RenderClears ==
  /\ render # "idle"
  /\ screen' = IF render = "ota" THEN HideOta(screen) ELSE HideCode(screen)
  /\ render' = "idle"
  /\ UNCHANGED power

Render == RenderLooks \/ RenderClears

(* The deadlines pass. *)
CodeFallsDue ==
  /\ screen.code = "live"
  /\ screen' = [screen EXCEPT !.code = "due"]
  /\ UNCHANGED <<power, render>>

OtaFallsDue ==
  /\ screen.ota # "off" /\ ~screen.otaDue
  /\ screen' = [screen EXCEPT !.otaDue = TRUE]
  /\ UNCHANGED <<power, render>>

(* The face the head reports is the one it stores, whatever overlay held    *)
(* the last command off (HeadCoordinator::dispatch).                        *)
EyesMirrored == power = screen.eyes

(* At most one overlay is live at a time (display_manager.h).               *)
OneOverlay == screen.code = "none" \/ screen.ota = "off"
=============================================================================
