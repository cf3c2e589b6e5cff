------------------------------ MODULE Provision ------------------------------
(* Giving the home network to the robot: the captive portal saves it in the *)
(* core's flash and relays it to the head, which acknowledges it and saves  *)
(* it in its own.  Three tasks of the core take part: the portal's handler  *)
(* (the web server's task), the retry pump and the receptions (the link     *)
(* task), and the relay latch (the main loop).                              *)
EXTENDS Link

CONSTANTS
  Networks,   \* the networks the user may type
  MaxTries,   \* CFG_LINK_CRED_MAX_ATTEMPTS
  CoreBoots,  \* bound: boots of the core
  MaxPosts,   \* bound: forms the user posts
  MaxFaults,  \* bound: flash writes that fail or are cut by a power loss
  Refusals,   \* bound: whether the radio may refuse a datagram
  Overlap     \* bound: whether the tasks of the core interleave in a handler

ASSUME ProvisionAssumption ==
  /\ MaxTries \in Nat \ {0} /\ CoreBoots \in Nat
  /\ MaxPosts \in Nat /\ MaxFaults \in Nat
  /\ Refusals \in BOOLEAN /\ Overlap \in BOOLEAN
  /\ "none" \notin Networks /\ "creds" \notin Commands

VARIABLES
  flash,   \* the three keys in the core's flash: ssid, pass, ok
  stored,  \* and in the head's
  home,    \* LinkServer's copy of the bundle, or NoNet
  cred,    \* the push: armed, confirmed, clear, seq, tries; body is the bundle
           \* of frame seq (no code reads it)
  pump,    \* the retry pump, between reading the bundle and sending it
  portal,  \* the latch: relay, op
  form,    \* the handler: op, where it is (at), the number of its frame (seq)
  posts, faults, boots  \* faults by end: the core's flash, the head's

provisionVars ==
  <<flash, stored, home, cred, pump, portal, form, posts, faults, boots>>

vars == <<linkVars, provisionVars>>

(* A network stands for its name and its passphrase. *)
NoNet == [ssid |-> "none", pass |-> "none"]
Bundle(net) == [ssid |-> net, pass |-> net]
NoKeys == [ssid |-> "none", pass |-> "none", ok |-> FALSE]

NoPush == [armed |-> FALSE, confirmed |-> FALSE, clear |-> FALSE, seq |-> 0,
           tries |-> 0, body |-> NoNet]
NoPump == [on |-> FALSE, valid |-> FALSE, body |-> NoNet]
NoForm == [op |-> "none", at |-> "idle", seq |-> 0]
Marking(op) == [op |-> op, at |-> "mark", seq |-> 0]
Latch(relay, op) == [relay |-> relay, op |-> op]

Init ==
  /\ LinkInit
  /\ flash = NoKeys /\ stored = NoKeys /\ home = NoNet
  /\ cred = NoPush /\ pump = NoPump /\ form = NoForm
  /\ portal = Latch("idle", "none")
  /\ faults = [core |-> 0, head |-> 0]
  /\ posts = 0 /\ boots = 1

-----------------------------------------------------------------------------
(* Flash.  A save writes the three keys one by one and reports whether all  *)
(* were written; the marker is set over the old one.                        *)

Field == {"ssid", "pass", "ok"}

Written(keys, bundle, fields) ==
  [keys EXCEPT !.ssid = IF "ssid" \in fields THEN bundle.ssid ELSE @,
               !.pass = IF "pass" \in fields THEN bundle.pass ELSE @,
               !.ok = @ \/ "ok" \in fields]

Usable(keys) == keys.ok /\ keys.ssid # "none"

Load(keys) ==
  IF Usable(keys) THEN [ssid |-> keys.ssid, pass |-> keys.pass] ELSE NoNet

Fault(end, happens) ==
  /\ happens => faults.core + faults.head < MaxFaults
  /\ faults' = IF happens THEN [faults EXCEPT ![end] = @ + 1] ELSE faults

(* The tasks of the core take turns unless Overlap. *)
PortalFree == Overlap \/ form.at = "idle"
LinkFree == Overlap \/ ~pump.on

-----------------------------------------------------------------------------
(* The portal's handlers, on the web server's task. *)

Goes(at) == form' = [form EXCEPT !.at = at]

PostStoreUnlinked ==
  /\ form.at = "idle" /\ LinkFree /\ posts < MaxPosts
  /\ ~core.peer
  /\ portal' = [portal EXCEPT !.relay = "noLink"]
  /\ posts' = posts + 1
  /\ UNCHANGED <<linkVars, flash, stored, home, cred, pump, form, faults, boots>>

(* A save that is not whole answers 500 and leaves what it wrote. *)
PostStore_RelaysAnyway ==
  /\ form.at = "idle" /\ LinkFree /\ posts < MaxPosts
  /\ core.peer
  /\ \E net \in Networks, fields \in SUBSET Field :
       /\ flash' = Written(flash, Bundle(net), fields)
       /\ Fault("core", fields # Field)
  /\ form' = Marking("store")
  /\ posts' = posts + 1
  /\ UNCHANGED <<linkVars, stored, home, cred, pump, portal, boots>>

PostStore ==
  /\ form.at = "idle" /\ LinkFree /\ posts < MaxPosts
  /\ core.peer
  /\ \E net \in Networks, fields \in SUBSET Field :
       /\ flash' = Written(flash, Bundle(net), fields)
       /\ Fault("core", fields # Field)
       /\ form' = IF fields = Field THEN Marking("store") ELSE form
  /\ posts' = posts + 1
  /\ UNCHANGED <<linkVars, stored, home, cred, pump, portal, boots>>

PostForget ==
  /\ form.at = "idle" /\ LinkFree /\ posts < MaxPosts
  /\ \E cleared \in BOOLEAN :
       /\ flash' = IF cleared THEN NoKeys ELSE flash
       /\ Fault("core", ~cleared)
  /\ form' = IF core.peer THEN Marking("clear") ELSE form
  /\ posts' = posts + 1
  /\ UNCHANGED <<linkVars, stored, home, cred, pump, portal, boots>>

HandlerMarks ==
  /\ form.at = "mark"
  /\ portal' = Latch("relaying", form.op)
  /\ Goes("attach")
  /\ UNCHANGED <<linkVars, flash, stored, home, cred, pump, posts, faults, boots>>

Attached == IF form.op = "store" THEN Load(flash) ELSE NoNet

HandlerAttaches ==
  /\ form.at = "attach"
  /\ home' = Attached
  /\ Goes("push")
  /\ UNCHANGED <<linkVars, flash, stored, cred, pump, portal, posts, faults, boots>>

Pushed == IF form.op = "clear" THEN NoNet ELSE home

(* A refused first datagram arms nothing. *)
HandlerPushes ==
  /\ form.at = "push"
  /\ \E sent \in BOOLEAN :
       /\ sent \/ Refusals
       /\ CoreSends(Creds(core.tx, Pushed), sent)
       /\ form' = IF sent THEN [form EXCEPT !.at = "arm", !.seq = core.tx] ELSE NoForm
  /\ UNCHANGED <<head, flash, stored, home, cred, pump, portal, posts, faults, boots>>

HandlerArms ==
  /\ form.at = "arm"
  /\ cred' = [armed |-> TRUE, confirmed |-> FALSE, clear |-> form.op = "clear",
              seq |-> form.seq, tries |-> 1, body |-> Pushed]
  /\ form' = NoForm
  /\ UNCHANGED <<linkVars, flash, stored, home, pump, portal, posts, faults, boots>>

(* The status page turns an idle latch into "link required". *)
PageStatus ==
  /\ PortalFree /\ LinkFree
  /\ portal.relay = "idle" /\ ~core.peer
  /\ portal' = [portal EXCEPT !.relay = "noLink"]
  /\ UNCHANGED <<linkVars, flash, stored, home, cred, pump, form, posts, faults, boots>>

-----------------------------------------------------------------------------
(* CaptivePortal::poll on the main loop: the acknowledgement, or the end of *)
(* the wait, resolves the latch.                                            *)

LatchConfirms ==
  /\ PortalFree /\ LinkFree
  /\ portal.relay = "relaying" /\ cred.confirmed
  /\ portal' = Latch(IF portal.op = "store" THEN "stored" ELSE "idle", "none")
  /\ UNCHANGED <<linkVars, flash, stored, home, cred, pump, form, posts, faults, boots>>

LatchTimesOut ==
  /\ PortalFree /\ LinkFree
  /\ portal.relay = "relaying" /\ ~cred.confirmed
  /\ portal' = Latch("failed", "none")
  /\ UNCHANGED <<linkVars, flash, stored, home, cred, pump, form, posts, faults, boots>>

-----------------------------------------------------------------------------
(* LinkServer::pollCredPush on the link task: a retry, due once a second,   *)
(* reads the bundle and then sends it under a new number.                   *)

PumpPending == cred.armed /\ ~cred.confirmed /\ ~pump.on /\ PortalFree

PumpGivesUp ==
  /\ PumpPending /\ cred.tries >= MaxTries
  /\ cred' = [cred EXCEPT !.armed = FALSE]
  /\ UNCHANGED <<linkVars, flash, stored, home, pump, portal, form, posts, faults, boots>>

PumpReads_OneMore ==
  /\ PumpPending /\ cred.tries <= MaxTries
  /\ pump' = [on |-> TRUE, valid |-> cred.clear \/ home # NoNet,
              body |-> IF cred.clear THEN NoNet ELSE home]
  /\ UNCHANGED <<linkVars, flash, stored, home, cred, portal, form, posts, faults, boots>>

PumpReads ==
  /\ PumpPending /\ cred.tries < MaxTries
  /\ pump' = [on |-> TRUE, valid |-> cred.clear \/ home # NoNet,
              body |-> IF cred.clear THEN NoNet ELSE home]
  /\ UNCHANGED <<linkVars, flash, stored, home, cred, portal, form, posts, faults, boots>>

PumpSendsBundle ==
  /\ pump.on /\ pump.valid
  /\ \E sent \in BOOLEAN :
       /\ sent \/ Refusals
       /\ CoreSends(Creds(core.tx, pump.body), sent)
       /\ cred' = [cred EXCEPT !.tries = @ + 1,
                               !.seq = IF sent THEN core.tx ELSE @,
                               !.body = IF sent THEN pump.body ELSE @]
  /\ pump' = NoPump
  /\ UNCHANGED <<head, flash, stored, home, portal, form, posts, faults, boots>>

PumpHasNothing ==
  /\ pump.on /\ ~pump.valid
  /\ cred' = [cred EXCEPT !.tries = @ + 1]
  /\ pump' = NoPump
  /\ UNCHANGED <<linkVars, flash, stored, home, portal, form, posts, faults, boots>>

-----------------------------------------------------------------------------
(* Receptions.  The core's are on the link task, and so not inside the pump. *)

LinkTaskFree == ~pump.on /\ PortalFree

(* Only the acknowledgement of the last frame of an armed push confirms it. *)
Confirms_AnyAck(f) == cred.armed /\ ~cred.confirmed

Confirms(f) ==
  cred.armed /\ ~cred.confirmed /\ (f.of - cred.seq) % SeqMod = 0

CoreGetsAck ==
  /\ LinkTaskFree
  /\ \E f \in air : f.kind = "ack" /\ Confirms(f)
  /\ cred' = [cred EXCEPT !.confirmed = TRUE, !.armed = FALSE]
  /\ UNCHANGED <<linkVars, flash, stored, home, pump, portal, form, posts, faults, boots>>

CoreReceives ==
  /\ LinkTaskFree
  /\ \E f \in air : CoreGetsBeat(f)
  /\ UNCHANGED provisionVars

HeadKeeps(bundle, fields) ==
  IF bundle # NoNet THEN Written(stored, bundle, fields)
  ELSE IF fields = Field THEN NoKeys ELSE stored

(* The head acknowledges a bundle, and then saves it: an empty one clears   *)
(* the store, and the acknowledgement is out whether the save is whole.     *)
HeadStores ==
  /\ \E f \in air :
       /\ f.kind = "creds"
       /\ HeadRuns(f)
       /\ \E fields \in SUBSET Field :
            /\ fields \in {{}, Field} \/ f.bundle # NoNet
            /\ stored' = HeadKeeps(f.bundle, fields)
            /\ Fault("head", fields # Field)
  /\ UNCHANGED <<core, flash, home, cred, pump, portal, form, posts, boots>>

HeadExecutes ==
  /\ \E f \in air : f.kind \in Commands /\ HeadRuns(f)
  /\ UNCHANGED <<core, provisionVars>>

HeadAnswersAgain ==
  /\ \E f \in air : HeadAgain(f)
  /\ UNCHANGED provisionVars

LinkSteps ==
  /\ \/ HeadAssociates \/ HeadBeats \/ HeadMarksDown \/ HeadReboots
     \/ PortalFree /\ LinkFree /\ PumpSends
  /\ UNCHANGED provisionVars

(* A power cycle of the core; setup() reads the bundle again, unless the    *)
(* button is held and forces the access point.                              *)
CoreReboots ==
  /\ boots < CoreBoots
  /\ CoreRestarts
  /\ home' \in {Load(flash), NoNet}
  /\ cred' = NoPush /\ pump' = NoPump /\ form' = NoForm
  /\ portal' = Latch("idle", "none")
  /\ boots' = boots + 1
  /\ UNCHANGED <<flash, stored, posts, faults>>

Handler == PostStoreUnlinked \/ PostStore \/ PostForget \/ HandlerMarks
           \/ HandlerAttaches \/ HandlerPushes \/ HandlerArms \/ PageStatus

Pump == PumpGivesUp \/ PumpReads \/ PumpSendsBundle \/ PumpHasNothing

Next ==
  \/ Handler \/ LatchConfirms \/ LatchTimesOut \/ Pump
  \/ CoreGetsAck \/ CoreReceives
  \/ HeadStores \/ HeadExecutes \/ HeadAnswersAgain
  \/ LinkSteps \/ CoreReboots

Spec == Init /\ [][Next]_vars

-----------------------------------------------------------------------------
BundleType == [ssid : Networks \union {"none"}, pass : Networks \union {"none"}]

KeysType ==
  [ssid : Networks \union {"none"}, pass : Networks \union {"none"}, ok : BOOLEAN]

Frame ==
  [to : {"head"}, kind : {"creds"}, n : Nat, bundle : BundleType]
  \union [to : {"head"}, kind : Commands, n : Nat]
  \union [to : {"core"}, kind : {"hb"}, n : Nat, boot : Nat]
  \union [to : {"core"}, kind : {"ack"}, n : Nat, of : Nat]

(* The domains of every variable; a push is tried at most MaxTries times    *)
(* (LinkServer::pollCredPush).                                              *)
TypeOK ==
  /\ core \in [peer : BOOLEAN, heard : BOOLEAN, seq : Nat, boot : Nat, tx : Nat]
  /\ head \in [boot : Nat, up : BOOLEAN, cmd : BOOLEAN, last : Nat, tx : Nat]
  /\ air \subseteq Frame
  /\ flash \in KeysType /\ stored \in KeysType /\ home \in BundleType
  /\ cred \in [armed : BOOLEAN, confirmed : BOOLEAN, clear : BOOLEAN,
               seq : Nat, tries : 0 .. MaxTries, body : BundleType]
  /\ pump \in [on : BOOLEAN, valid : BOOLEAN, body : BundleType]
  /\ portal \in [relay : {"idle", "noLink", "relaying", "stored", "failed"},
                 op : {"none", "store", "clear"}]
  /\ form \in [op : {"none", "store", "clear"}, seq : Nat,
               at : {"idle", "mark", "attach", "push", "arm"}]
  /\ posts \in Nat /\ boots \in Nat /\ faults \in [{"core", "head"} -> Nat]

(* Inside one association the head never runs a command after a later one,  *)
(* although datagrams are reordered and repeated (LinkClient::handleCmd).   *)
RunsInOrder ==
  [][head.cmd /\ head'.cmd => head'.last >= head.last]_vars

(* The newest heartbeat of the head's current boot is never stale for the   *)
(* core, whatever older ones and ones of earlier boots it heard before:     *)
(* a head that rebooted is heard again (the epoch of LinkServer::handleHb). *)
NewestBeatHeard ==
  \A f \in air :
    f.kind = "hb" /\ f.boot = head.boot
      => Hears(f) \/ \E g \in air : g.kind = "hb" /\ g.boot = f.boot /\ g.n > f.n

(* A push the core counts as confirmed is what the head has in flash, if    *)
(* the head's writes succeeded: through losses, repeats, retries under new  *)
(* numbers, re-associations and reboots of the head, no earlier bundle      *)
(* comes after it and no acknowledgement of another frame stands for it.    *)
ConfirmedIsHeld ==
  cred.confirmed /\ form.at # "arm" /\ faults.head = 0
    => Load(stored) = cred.body

(* The head is offered what the user typed, never the name of one network   *)
(* with the passphrase of another, although a failed save leaves such a     *)
(* mixture in the core's flash (portalRelayStore, the 500 of handleStore).  *)
OfferedWhole ==
  \A f \in air : f.kind = "creds" => f.bundle.ssid = f.bundle.pass

(* Once the handler has dropped the core's copy of the bundle, no network   *)
(* goes out to the head (main.cpp, portalRelayClear).                       *)
ForgottenNotOffered ==
  [][\A f \in air' \ air :
       home = NoNet /\ f.kind = "creds" => f.bundle = NoNet]_vars

(* STORED means that the head acknowledged this store (captive_portal.h).   *)
StoredIsHeld ==
  portal.relay = "stored" /\ faults.head = 0 /\ form.at = "idle"
    => Load(stored) = home
=============================================================================
