------------------------------- MODULE Follow -------------------------------
(* How the head finds the core.  The core joins the home network or raises  *)
(* its own access point (UdpServer); the head follows through the networks  *)
(* it knows until its heartbeats are answered (LinkClient).                 *)
EXTENDS Naturals

CONSTANTS
  MaxMissed,  \* CFG_LINK_MAX_MISSED: unanswered heartbeats that end a link
  MaxFlips,   \* bound: times the router goes off or on
  MaxBoots,   \* bound: reboots, the core's and the head's together
  MaxPosts,   \* bound: times the user stores or forgets the home network
  MaxLosses   \* bound: heartbeats, joins and queries that fail for no reason

ASSUME FollowAssumption ==
  /\ MaxMissed \in Nat \ {0}
  /\ MaxFlips \in Nat /\ MaxBoots \in Nat /\ MaxPosts \in Nat /\ MaxLosses \in Nat

VARIABLES
  core,    \* net: joining, up or ap; drv: the station driver; pending: an
           \* attempt is thought outstanding; creds: the home network is stored
  head,    \* target: the candidate; phase: down, trying, on (associated) or
           \* backoff; net: the network it is on; found: it knows the core's
           \* address there; miss: heartbeats since an answer; home: the home
           \* network is stored; good: the network last good; fresh: no answer
           \* in this association yet
  router,  \* the home network is there
  heard,   \* the networks on which the head was answered since it booted
  flips, boots, posts, losses

vars == <<core, head, router, heard, flips, boots, posts, losses>>
bounds == <<flips, boots, posts, losses>>

CoreOff(creds) == [net |-> "joining", drv |-> "trying", pending |-> TRUE, creds |-> creds]

First(good, home) ==
  IF good # "none" THEN "lastGood" ELSE IF home THEN "home" ELSE "coreAp"

HeadOn(home) ==
  [target |-> First("none", home), phase |-> "down", net |-> "none", found |-> FALSE,
   miss |-> 0, home |-> home, good |-> "none", fresh |-> FALSE]

(* setup(): a forced access point or no stored network, or an attempt.      *)
CoreStarts(creds) ==
  {[CoreOff(creds) EXCEPT !.net = "ap", !.drv = "idle", !.pending = FALSE]}
  \union (IF creds THEN {CoreOff(creds), [CoreOff(creds) EXCEPT !.pending = FALSE]} ELSE {})

Init ==
  /\ \E creds, home \in BOOLEAN :
       /\ creds => home
       /\ core \in CoreStarts(creds)
       /\ head = HeadOn(home)
  /\ router \in BOOLEAN
  /\ heard = {}
  /\ flips = 0 /\ boots = 0 /\ posts = 0 /\ losses = 0

Loses == losses < MaxLosses /\ losses' = losses + 1

-----------------------------------------------------------------------------
(* The core's server task, once its access point is not up.  The driver     *)
(* connects, or its attempt ends in a status the code takes as settled, or  *)
(* in one it does not (WL_DISCONNECTED).                                    *)

DriverConnects ==
  /\ core.drv = "trying" /\ router
  /\ core' = [core EXCEPT !.drv = "connected"]
  /\ UNCHANGED <<head, router, heard, bounds>>

DriverFails ==
  /\ \/ core.drv \in {"trying", "connected"} /\ ~router /\ UNCHANGED losses
     \/ core.drv \in {"trying", "connected"} /\ router /\ Loses
  /\ \E st \in {"settled", "silent"} : core' = [core EXCEPT !.drv = st]
  /\ UNCHANGED <<head, router, heard, flips, boots, posts>>

CoreJoins ==
  /\ core.net = "joining" /\ core.drv = "connected"
  /\ core' = [core EXCEPT !.net = "up", !.pending = FALSE]
  /\ UNCHANGED <<head, router, heard, bounds>>

(* The link is seen again: the grace starts over, nothing is outstanding.   *)
CoreSeesLink ==
  /\ core.net = "up" /\ core.drv = "connected" /\ core.pending
  /\ core' = [core EXCEPT !.pending = FALSE]
  /\ UNCHANGED <<head, router, heard, bounds>>

(* Every kStaRetryMs; an outstanding attempt is not restarted.              *)
CoreRetries ==
  /\ core.net # "ap" /\ core.drv \notin {"connected", "trying"}
  /\ core.drv = "settled" \/ ~core.pending
  /\ \E pending \in BOOLEAN :
       core' = [core EXCEPT !.drv = "trying", !.pending = pending]
  /\ UNCHANGED <<head, router, heard, bounds>>

(* The join window or the failover grace is over: the access point, until   *)
(* the next boot.  A softAP that fails is tried again at the next tick.     *)
CoreRaisesAp ==
  /\ core.net \in {"joining", "up"} /\ core.drv # "connected"
  /\ core' = [core EXCEPT !.net = "ap", !.drv = "idle", !.pending = FALSE]
  /\ UNCHANGED <<head, router, heard, bounds>>

-----------------------------------------------------------------------------
(* The head's loop. *)

NetworkOf(target) ==
  CASE target = "lastGood" -> head.good
    [] target = "home" -> IF head.home THEN "home" ELSE "none"
    [] target = "coreAp" -> "ap"

InRange(net) == (net = "ap" /\ core.net = "ap") \/ (net = "home" /\ router)

CoreIsOn(net) ==
  (net = "ap" /\ core.net = "ap") \/ (net = "home" /\ core.net = "up" /\ core.drv = "connected")

(* The candidate after one that went unheard; past the last one, a backoff. *)
Advance_Sticks(h) ==
  IF h.target = "coreAp"
  THEN [h EXCEPT !.phase = "backoff", !.target = First(h.good, h.home)]
  ELSE h

Advance(h) ==
  IF h.target = "coreAp"
  THEN [h EXCEPT !.phase = "backoff", !.target = First(h.good, h.home)]
  ELSE [h EXCEPT !.target =
          IF h.target = "lastGood" /\ h.home THEN "home" ELSE "coreAp"]

MarkDown(h) ==
  [h EXCEPT !.phase = "down", !.net = "none", !.fresh = FALSE]

(* A scan may see the core's beacon; seen, it jumps the queue.              *)
HeadBegins ==
  /\ head.phase = "down"
  /\ \E seen \in BOOLEAN :
       /\ seen => core.net = "ap"
       /\ head' = [head EXCEPT !.phase = "trying",
                               !.target = IF seen THEN "coreAp" ELSE @]
  /\ UNCHANGED <<core, router, heard, bounds>>

HeadBackoffEnds ==
  /\ head.phase = "backoff"
  /\ head' = [head EXCEPT !.phase = "down", !.target = First(head.good, head.home)]
  /\ UNCHANGED <<core, router, heard, bounds>>

(* On the access point the core's address is compiled in; elsewhere it is   *)
(* asked for once, and a query unanswered leaves the compiled address.      *)
HeadAssociates_PinsAtOnce ==
  /\ head.phase = "trying" /\ InRange(NetworkOf(head.target))
  /\ LET net == NetworkOf(head.target) IN
       \E found \in BOOLEAN :
         /\ found => CoreIsOn(net)
         /\ IF ~found /\ CoreIsOn(net) THEN net # "ap" /\ Loses ELSE UNCHANGED losses
         /\ head' = [head EXCEPT !.phase = "on", !.net = net, !.found = found,
                                 !.miss = 1, !.fresh = FALSE, !.good = net]
  /\ UNCHANGED <<core, router, heard, flips, boots, posts>>

HeadAssociates ==
  /\ head.phase = "trying" /\ InRange(NetworkOf(head.target))
  /\ LET net == NetworkOf(head.target) IN
       \E found \in BOOLEAN :
         /\ found => CoreIsOn(net)
         /\ IF ~found /\ CoreIsOn(net) THEN net # "ap" /\ Loses ELSE UNCHANGED losses
         /\ head' = [head EXCEPT !.phase = "on", !.net = net, !.found = found,
                                 !.miss = 1, !.fresh = TRUE]
  /\ UNCHANGED <<core, router, heard, flips, boots, posts>>

HeadTimesOut ==
  /\ head.phase = "trying"
  /\ IF InRange(NetworkOf(head.target)) THEN Loses ELSE UNCHANGED losses
  /\ head' = Advance([head EXCEPT !.phase = "down"])
  /\ UNCHANGED <<core, router, heard, flips, boots, posts>>

HeadLosesWifi ==
  /\ head.phase = "on"
  /\ IF InRange(head.net) THEN Loses ELSE UNCHANGED losses
  /\ head' = MarkDown(head)
  /\ UNCHANGED <<core, router, heard, flips, boots, posts>>

Linked == head.phase = "on" /\ head.found /\ CoreIsOn(head.net)

(* A heartbeat is answered before the next one is due, or never.  The first *)
(* answer of an association makes its network the last good one.            *)
Snapshot(h) == IF h.fresh /\ h.target # "lastGood" THEN NetworkOf(h.target) ELSE h.good

HeadIsAnswered ==
  /\ Linked
  /\ head' = [head EXCEPT !.miss = 0, !.good = Snapshot(head), !.fresh = FALSE]
  /\ heard' = heard \union {head.net}
  /\ UNCHANGED <<core, router, bounds>>

HeadIsNotAnswered_OneMore ==
  /\ head.phase = "on" /\ head.miss <= MaxMissed
  /\ IF Linked THEN Loses ELSE UNCHANGED losses
  /\ head' = [head EXCEPT !.miss = @ + 1]
  /\ UNCHANGED <<core, router, heard, flips, boots, posts>>

HeadIsNotAnswered ==
  /\ head.phase = "on" /\ head.miss < MaxMissed
  /\ IF Linked THEN Loses ELSE UNCHANGED losses
  /\ head' = [head EXCEPT !.miss = @ + 1]
  /\ UNCHANGED <<core, router, heard, flips, boots, posts>>

HeadGivesUp ==
  /\ head.phase = "on" /\ head.miss >= MaxMissed
  /\ head' = Advance(MarkDown(head))
  /\ UNCHANGED <<core, router, heard, bounds>>

-----------------------------------------------------------------------------
(* What happens to them. *)

RouterFlips ==
  /\ flips < MaxFlips
  /\ router' = ~router
  /\ flips' = flips + 1
  /\ UNCHANGED <<core, head, heard, boots, posts, losses>>

CoreReboots ==
  /\ boots < MaxBoots
  /\ core' \in CoreStarts(core.creds)
  /\ boots' = boots + 1
  /\ UNCHANGED <<head, router, heard, flips, posts, losses>>

HeadReboots ==
  /\ boots < MaxBoots
  /\ head' = HeadOn(head.home)
  /\ heard' = {}
  /\ boots' = boots + 1
  /\ UNCHANGED <<core, router, flips, posts, losses>>

(* The portal stores or forgets at both ends (module Provision); it is only *)
(* there with the access point.                                             *)
UserPosts ==
  /\ posts < MaxPosts /\ core.net = "ap" /\ Linked
  /\ \E keep \in BOOLEAN :
       /\ core' = [core EXCEPT !.creds = keep]
       /\ head' = [head EXCEPT !.home = keep]
  /\ posts' = posts + 1
  /\ UNCHANGED <<router, heard, flips, boots, losses>>

CoreStep == CoreJoins \/ CoreSeesLink \/ CoreRetries \/ DriverConnects \/ DriverFails

HeadStep ==
  \/ HeadBegins \/ HeadBackoffEnds \/ HeadAssociates \/ HeadTimesOut
  \/ HeadLosesWifi \/ HeadIsAnswered \/ HeadIsNotAnswered \/ HeadGivesUp

Next ==
  \/ CoreStep \/ CoreRaisesAp \/ HeadStep
  \/ RouterFlips \/ CoreReboots \/ HeadReboots \/ UserPosts

Spec == Init /\ [][Next]_vars

(* The two loops run forever, the driver settles, and a window that stays   *)
(* open elapses.                                                            *)
FairSpec == Spec /\ WF_vars(HeadStep) /\ WF_vars(CoreStep) /\ WF_vars(CoreRaisesAp)

-----------------------------------------------------------------------------
(* The domains of every variable; a link ends at MaxMissed unanswered       *)
(* heartbeats (LinkClient::heartbeatTick).                                  *)
TypeOK ==
  /\ core \in [net : {"joining", "up", "ap"}, creds : BOOLEAN, pending : BOOLEAN,
               drv : {"idle", "trying", "connected", "settled", "silent"}]
  /\ head \in [target : {"lastGood", "home", "coreAp"},
               phase : {"down", "trying", "on", "backoff"},
               net : {"none", "ap", "home"}, found : BOOLEAN, miss : 0 .. MaxMissed,
               home : BOOLEAN, good : {"none", "ap", "home"}, fresh : BOOLEAN]
  /\ router \in BOOLEAN
  /\ heard \subseteq {"ap", "home"}
  /\ flips \in Nat /\ boots \in Nat /\ posts \in Nat /\ losses \in Nat

(* The last good network is one where the core was really heard since the   *)
(* head booted, and a search never starts at a last good one that is not    *)
(* there (LinkClient::snapshotLastGood, firstFollowTarget).                 *)
LastGoodHeard ==
  /\ head.good # "none" => head.good \in heard
  /\ head.target = "lastGood" => head.good # "none"

(* The two meet in the end, on the home network or on the core's access     *)
(* point: when the disturbances are over, no order of candidates, backoff,  *)
(* stale address, failover or half-finished attempt keeps them apart.       *)
Reunion == <>[]Linked
=============================================================================
