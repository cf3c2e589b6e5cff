--------------------------------- MODULE Ota ---------------------------------
(* Updating the head: the core stages an image and its console triggers the *)
(* head over the link; the head asks for the label, pulls the image while   *)
(* the core streams it from the live buffer, verifies and boots it, and     *)
(* shows its progress over whatever its display shows.                      *)
EXTENDS Staging, Screen

CONSTANTS
  Slot,      \* CFG_OTA_SLOT_BYTES
  Dev,       \* whether the head is built for the dev channel
  MaxTells,  \* bound: otahead verbs
  MaxShows   \* bound: pairing codes shown, faces and switches commanded

ASSUME OtaAssumption == Slot \in Nat /\ Dev \in BOOLEAN /\ MaxTells \in Nat /\ MaxShows \in Nat

VARIABLES
  verb,   \* the URL staged for the link, and whether the head was told (told)
  head,   \* OtaUpdater: st (idle, asks, opens, fetch), the digest expected
          \* (man), the bytes to come (total) and received (got); the image it
          \* runs (fw), its version, and whether it was verified (checked)
  tells, shows

vars == <<stagingVars, screenVars, verb, head, tells, shows>>

Idle(fw, version, checked) ==
  [st |-> "idle", man |-> NoSha, total |-> 0, got |-> <<>>,
   fw |-> fw, version |-> version, checked |-> checked]

Init ==
  /\ StagingInit /\ ScreenInit
  /\ verb = [staged |-> FALSE, told |-> FALSE]
  /\ head = Idle(<<>>, 0, FALSE)
  /\ tells = 0 /\ shows = 0

-----------------------------------------------------------------------------
(* The trigger.  The frame goes out once, whether or not it arrives.        *)

OtaHeadVerb ==
  /\ tells < MaxTells
  /\ verb' = [verb EXCEPT !.staged = TRUE]
  /\ tells' = tells + 1
  /\ UNCHANGED <<stagingVars, screenVars, head, shows>>

PumpOtaLink ==
  /\ verb.staged
  /\ \E arrives \in BOOLEAN :
       verb' = [staged |-> FALSE, told |-> verb.told \/ arrives]
  /\ UNCHANGED <<stagingVars, screenVars, head, tells, shows>>

(* onWifiOtaUrl: ignored while a pull runs.                                 *)
HeadIsTold ==
  /\ verb.told /\ head.st \in {"idle", "fetch"}
  /\ verb' = [verb EXCEPT !.told = FALSE]
  /\ head' = IF head.st = "idle" THEN [head EXCEPT !.st = "asks"] ELSE head
  /\ UNCHANGED <<stagingVars, screenVars, tells, shows>>

-----------------------------------------------------------------------------
(* OtaUpdater.  The main loop is in startIfNewer through "asks" and "opens".*)

Fails(h) == [h EXCEPT !.st = "idle"]

ShouldPull(man) == Dev \/ man.version > head.version

(* The manifest, or none: the label alone decides, and the dev channel      *)
(* takes any.                                                               *)
HeadAsks ==
  /\ head.st = "asks"
  /\ \E answered \in BOOLEAN :
       head' = IF answered /\ ShouldPull(Manifest)
               THEN [head EXCEPT !.st = "opens"] ELSE Fails(head)
  /\ UNCHANGED <<stagingVars, screenVars, verb, tells, shows>>

HeadCannotConnect ==
  /\ head.st = "opens"
  /\ head' = Fails(head)
  /\ UNCHANGED <<stagingVars, screenVars, verb, tells, shows>>

(* Refused with an alert: busy, nothing staged, no or too long a length,    *)
(* no answer, or no room to write.                                          *)
HeadIsRefused ==
  /\ head.st = "opens"
  /\ head' = Fails(head)
  /\ screen' = FailOta(screen)
  /\ UNCHANGED <<stagingVars, power, render, verb, tells, shows>>

HeadOpens ==
  /\ head.st = "opens" /\ HasImage /\ stage.len <= Slot
  /\ head' = [head EXCEPT !.st = "fetch", !.man = stage.sha, !.total = stage.len,
                          !.got = <<>>]
  /\ screen' = ShowOta(screen)
  /\ UNCHANGED <<stagingVars, power, render, verb, tells, shows>>

(* The stream is read from the buffer as it goes.                           *)
HeadReads_OneMore ==
  /\ head.st = "fetch" /\ Len(head.got) <= head.total
  /\ head' = [head EXCEPT !.got = Append(@, stage.buf[(Len(@) % Cap) + 1])]
  /\ screen' \in {screen, ShowOta(screen)}
  /\ UNCHANGED <<stagingVars, power, render, verb, tells, shows>>

HeadReads ==
  /\ head.st = "fetch" /\ Len(head.got) < head.total
  /\ head' = [head EXCEPT !.got = Append(@, stage.buf[Len(@) + 1])]
  /\ screen' \in {screen, ShowOta(screen)}
  /\ UNCHANGED <<stagingVars, power, render, verb, tells, shows>>

(* Torn, stalled, not an image, or not written.                             *)
HeadBreaksOff ==
  /\ head.st = "fetch"
  /\ head' = Fails(head)
  /\ screen' = FailOta(screen)
  /\ UNCHANGED <<stagingVars, power, render, verb, tells, shows>>

Whole == head.st = "fetch" /\ Len(head.got) = head.total

Verified_NoDigest == TRUE

Verified == head.man \in {NoSha, head.got}

HeadDiscards ==
  /\ Whole
  /\ head' = Fails(head)
  /\ screen' = FailOta(ShowOta(screen))
  /\ UNCHANGED <<stagingVars, power, render, verb, tells, shows>>

(* ESP.restart into the new image; what it holds decides its version.       *)
HeadBoots ==
  /\ Whole /\ Verified
  /\ head' = Idle(head.got, head.got[1][1], head.man # NoSha)
  /\ screen' = ScreenOff /\ power' = Boot /\ render' = "idle"
  /\ verb' = [verb EXCEPT !.told = FALSE]
  /\ UNCHANGED <<stagingVars, tells, shows>>

HeadLosesPower ==
  /\ head.st # "idle"
  /\ head' = Idle(head.fw, head.version, head.checked)
  /\ screen' = ScreenOff /\ power' = Boot /\ render' = "idle"
  /\ verb' = [verb EXCEPT !.told = FALSE]
  /\ UNCHANGED <<stagingVars, tells, shows>>

Updater ==
  \/ HeadAsks \/ HeadCannotConnect \/ HeadIsRefused \/ HeadOpens
  \/ HeadReads \/ HeadBreaksOff \/ HeadDiscards \/ HeadBoots

-----------------------------------------------------------------------------
(* The rest of the head's main loop, when it is not inside startIfNewer.    *)

Command ==
  /\ shows < MaxShows /\ head.st \in {"idle", "fetch"}
  /\ PairShow \/ (\E f \in Faces : Face(f)) \/ (\E on \in BOOLEAN : Oled(on))
  /\ shows' = shows + 1
  /\ UNCHANGED <<stagingVars, verb, head, tells>>

CodeDone ==
  /\ head.st \in {"idle", "fetch"} /\ PairDone
  /\ UNCHANGED <<stagingVars, verb, head, tells, shows>>

RenderStep == Render /\ UNCHANGED <<stagingVars, verb, head, tells, shows>>

Deadline ==
  /\ CodeFallsDue \/ OtaFallsDue
  /\ UNCHANGED <<stagingVars, verb, head, tells, shows>>

StagingStep == StagingNext /\ UNCHANGED <<screenVars, verb, head, tells, shows>>

Next ==
  \/ StagingStep \/ OtaHeadVerb \/ PumpOtaLink \/ HeadIsTold \/ Updater
  \/ HeadLosesPower \/ Command \/ CodeDone \/ RenderStep \/ Deadline

Spec == Init /\ [][Next]_vars

(* The render task runs forever, and the overlays fall due.                 *)
FairSpec == Spec /\ WF_vars(RenderStep) /\ WF_vars(Deadline)

-----------------------------------------------------------------------------
(* The domains of every variable; what is uploaded and committed never      *)
(* passes the buffer, nor what is received the announced length             *)
(* (StagingManager::writeChunk, OtaUpdater::poll).                          *)
TypeOK ==
  /\ stage.up \in 0 .. Cap /\ stage.len \in 0 .. Cap
  /\ stage.buf \in [1 .. Cap -> Nat \X Nat]
  /\ {stage.has, stage.uploading, stage.ok} \subseteq BOOLEAN
  /\ stage.ver \in Versions \union {0} /\ stage.pend \in Versions \union {Keep}
  /\ upload \in [Uploaders -> [post : Nat, size : Sizes \union {0}, at : Nat,
                              label : Versions \union {Keep}, bad : BOOLEAN]]
  /\ screen \in [code : {"none", "live", "due"}, ota : {"off", "bar", "alert"},
                 otaDue : BOOLEAN, eyes : Faces, on : BOOLEAN]
  /\ power \in Faces
  /\ render \in {"idle", "ota", "code"}
  /\ verb \in [staged : BOOLEAN, told : BOOLEAN]
  /\ head.st \in {"idle", "asks", "opens", "fetch"} /\ head.total \in 0 .. Cap
  /\ Len(head.got) <= head.total

(* An image the head boots after checking its digest is one that was        *)
(* committed, although the core streams a buffer that the next upload       *)
(* writes over and that an oversized one leaves damaged under the label and *)
(* the digest of the image before (OtaStaging::handleGetBin,                *)
(* OtaUpdater::finish).                                                     *)
BootsCommitted == head.checked => \E c \in commits : c.bytes = head.fw

(* The bar is on the display's mind only while a pull runs: every way a     *)
(* pull ends takes it down (OtaUpdater::fail, finish).                      *)
BarMeansPull == screen.ota = "bar" => head.st = "fetch"

(* No overlay owns the display for good: the code and the alert both go     *)
(* when they are due, in whatever order they came over one another          *)
(* (DisplayRenderer::renderTask).                                           *)
OverlayEnds == screen.on /\ Overlaid(screen) ~> ~screen.on \/ ~Overlaid(screen)
=============================================================================
