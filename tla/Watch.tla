-------------------------------- MODULE Watch --------------------------------
(* The app's ConnectionManager: it knocks with ALIVE while paired and in     *)
(* front, judges the link by the telemetry it hears, and says goodbye when   *)
(* the app goes to the background.                                           *)
EXTENDS Drive

CONSTANTS
  AliveEvery,  \* aliveTickEvery
  StaleTicks,  \* staleTimeoutTicks
  DeadTicks    \* deadTimeoutTicks

ASSUME WatchAssumption ==
  /\ AliveEvery \in Nat \ {0} /\ StaleTicks \in Nat \ {0}
  /\ DeadTicks \in Nat /\ DeadTicks >= StaleTicks

VARIABLE
  conn  \* currentDevice (dev), aliveness, ticksSinceTelemetry (silence),
        \* ticksSinceAlive (since), backgrounded, goodbyes launched (byes)

Aliveness == {"Unpaired", "Connected", "Stale", "Dead"}
Worse == {<<"Connected", "Stale">>, <<"Connected", "Dead">>, <<"Stale", "Dead">>}

WatchInit ==
  conn = [dev |-> NoRow, aliveness |-> "Unpaired", silence |-> 0, since |-> AliveEvery,
          backgrounded |-> FALSE, byes |-> 0]

(* A new pair or era knocks at once, with the link unproven. *)
WatchSeesRow ==
  /\ conn.dev # row
  /\ conn' = [conn EXCEPT !.dev = row, !.since = AliveEvery,
                          !.silence = IF row.on THEN StaleTicks ELSE 0,
                          !.aliveness = IF ~row.on THEN "Unpaired"
                                        ELSE IF @ = "Unpaired" THEN "Stale" ELSE @]
  /\ UNCHANGED driveVars

TelemetryHeard ==
  /\ conn.dev.on
  /\ conn' = [conn EXCEPT !.silence = 0, !.aliveness = "Connected"]
  /\ UNCHANGED driveVars

(* Past the marks the link is worse; it never gets better by silence. *)
Judged(silence) ==
  IF silence >= DeadTicks THEN "Dead" ELSE IF silence >= StaleTicks THEN "Stale" ELSE "Connected"

NoteSilence_OneMore(c) ==
  LET silence == IF c.silence <= DeadTicks THEN c.silence + 1 ELSE c.silence
  IN [c EXCEPT !.silence = silence,
               !.aliveness = IF <<@, Judged(silence)>> \in Worse THEN Judged(silence) ELSE @]

NoteSilence(c) ==
  LET silence == IF c.silence < DeadTicks THEN c.silence + 1 ELSE c.silence
  IN [c EXCEPT !.silence = silence,
               !.aliveness = IF <<@, Judged(silence)>> \in Worse THEN Judged(silence) ELSE @]

WatchTick_Backgrounded ==
  /\ conn.dev.on /\ ~Waits("alive")
  /\ LET since == IF conn.since < AliveEvery THEN conn.since + 1 ELSE conn.since
         due == since = AliveEvery
     IN /\ conn' = [NoteSilence(conn) EXCEPT !.since = IF due THEN 0 ELSE since]
        /\ IF due THEN Queue("alive", "alive") ELSE UNCHANGED lane
  /\ UNCHANGED <<row, wire, stick, drv>>

WatchTick ==
  /\ conn.dev.on /\ ~conn.backgrounded /\ ~Waits("alive")
  /\ LET since == IF conn.since < AliveEvery THEN conn.since + 1 ELSE conn.since
         due == since = AliveEvery
     IN /\ conn' = [NoteSilence(conn) EXCEPT !.since = IF due THEN 0 ELSE since]
        /\ IF due THEN Queue("alive", "alive") ELSE UNCHANGED lane
  /\ UNCHANGED <<row, wire, stick, drv>>

(* The goodbye, after the flush and the eviction of the addresses. *)
GoodbyeStarts ==
  /\ conn.byes > 0
  /\ conn' = [conn EXCEPT !.byes = @ - 1]
  /\ Queue("bye", "bye")
  /\ UNCHANGED <<row, wire, stick, drv>>

WatchSteps == WatchSeesRow \/ WatchTick \/ GoodbyeStarts

OnBackground(c) == [c EXCEPT !.backgrounded = TRUE, !.byes = IF c.dev.on THEN @ + 1 ELSE @]
OnForeground(c) == [c EXCEPT !.backgrounded = FALSE, !.since = AliveEvery]
=============================================================================
