---------------------------- MODULE FollowProofs ----------------------------
(* That the last good network is one where the core was heard, for every    *)
(* number of reboots, router changes, lost heartbeats and portal visits.    *)
EXTENDS Follow, TLAPS

(* An association keeps to the network of its candidate until the first     *)
(* answer: without it the snapshot could name a network nobody answered on. *)
OnTarget == head.phase = "on" /\ head.fresh => head.net = NetworkOf(head.target)

Nets == {"none", "ap", "home"}
CoreState == [net : {"joining", "up", "ap"}, creds : BOOLEAN, pending : BOOLEAN,
              drv : {"idle", "trying", "connected", "settled", "silent"}]
HeadState == [target : {"lastGood", "home", "coreAp"},
              phase : {"down", "trying", "on", "backoff"},
              net : Nets, found : BOOLEAN, miss : 0 .. MaxMissed,
              home : BOOLEAN, good : Nets, fresh : BOOLEAN]
BoundsOK == flips \in Nat /\ boots \in Nat /\ posts \in Nat /\ losses \in Nat

(* What the head alone owes: its type and the two facts about it.           *)
HeadOK == head \in HeadState /\ LastGoodHeard /\ OnTarget

(* The inductive invariant. *)
FollowInv ==
  /\ core \in CoreState /\ HeadOK /\ BoundsOK
  /\ router \in BOOLEAN /\ heard \subseteq {"ap", "home"}

-----------------------------------------------------------------------------
(* The operators. *)

LEMMA CoreStarted ==
  ASSUME NEW creds \in BOOLEAN, NEW c \in CoreStarts(creds)
  PROVE  c \in CoreState
<1> DEFINE off == CoreOff(creds)
<1>1. off \in CoreState
  BY DEF CoreOff, CoreState
<1>2. c \in {[off EXCEPT !.net = "ap", !.drv = "idle", !.pending = FALSE],
            off, [off EXCEPT !.pending = FALSE]}
  BY DEF CoreStarts
<1> HIDE DEF off
<1> QED
  BY <1>1, <1>2 DEF CoreState

LEMMA Misses == {0, 1} \subseteq 0 .. MaxMissed
BY FollowAssumption

LEMMA HeadStarted ==
  ASSUME NEW home \in BOOLEAN
  PROVE  /\ HeadOn(home) \in HeadState
         /\ HeadOn(home).good = "none" /\ HeadOn(home).target # "lastGood"
         /\ HeadOn(home).phase = "down"
BY FollowAssumption DEF HeadOn, First, HeadState, Nets

LEMMA NetworkOfIsNet ==
  ASSUME head \in HeadState
  PROVE  /\ NetworkOf("lastGood") = head.good
         /\ NetworkOf("home") = IF head.home THEN "home" ELSE "none"
         /\ NetworkOf("coreAp") = "ap"
         /\ NetworkOf(head.target) \in Nets
BY DEF NetworkOf, HeadState, Nets

(* Advancing keeps the last good network and never invents one.             *)
LEMMA Advanced ==
  ASSUME NEW h \in HeadState, h.target = "lastGood" => h.good # "none"
  PROVE  /\ Advance(h) \in HeadState
         /\ Advance(h).good = h.good
         /\ Advance(h).target = "lastGood" => h.good # "none"
         /\ Advance(h).phase \in {h.phase, "backoff"}
BY DEF Advance, First, HeadState, Nets

LEMMA MarkedDown ==
  ASSUME NEW h \in HeadState
  PROVE  /\ MarkDown(h) \in HeadState
         /\ MarkDown(h).good = h.good /\ MarkDown(h).target = h.target
         /\ MarkDown(h).phase = "down"
BY DEF MarkDown, HeadState, Nets

(* A head that is not associated owes only the two facts about its target.  *)
LEMMA OffIsOK ==
  ASSUME head' \in HeadState, head'.phase # "on",
         head'.good # "none" => head'.good \in heard',
         head'.target = "lastGood" => head'.good # "none"
  PROVE  HeadOK'
BY DEF HeadOK, LastGoodHeard, OnTarget

-----------------------------------------------------------------------------
LEMMA Starts == Init => FollowInv
<1> SUFFICES ASSUME Init PROVE FollowInv
  OBVIOUS
<1>1. PICK creds \in BOOLEAN, home \in BOOLEAN :
        core \in CoreStarts(creds) /\ head = HeadOn(home)
  BY DEF Init
<1>2. core \in CoreState
  BY <1>1, CoreStarted
<1>3. HeadOK
  BY <1>1, HeadStarted DEF HeadOK, LastGoodHeard, OnTarget
<1> QED
  BY <1>2, <1>3 DEF Init, FollowInv, BoundsOK

(* The core, the router and the bounds: the head stays as it is.            *)
LEMMA HeadKept ==
  ASSUME FollowInv, UNCHANGED <<head, heard>>
  PROVE  HeadOK'
BY DEF FollowInv, HeadOK, LastGoodHeard, OnTarget, NetworkOf

LEMMA Lost == ASSUME BoundsOK, Loses PROVE losses' \in Nat
BY DEF BoundsOK, Loses

LEMMA CoreMoves ==
  ASSUME FollowInv, CoreStep \/ CoreRaisesAp
  PROVE  FollowInv'
<1> USE DEF FollowInv
<1>1. CASE DriverConnects
  <2>1. core' \in CoreState
    BY <1>1 DEF DriverConnects, CoreState
  <2> QED
    BY <1>1, <2>1, HeadKept DEF DriverConnects, bounds, BoundsOK
<1>2. CASE DriverFails
  <2>1. core' \in CoreState
    BY <1>2 DEF DriverFails, CoreState
  <2>2. losses' \in Nat
    BY <1>2, Lost DEF DriverFails, BoundsOK
  <2> QED
    BY <1>2, <2>1, <2>2, HeadKept DEF DriverFails, BoundsOK
<1>3. CASE CoreJoins
  <2>1. core' \in CoreState
    BY <1>3 DEF CoreJoins, CoreState
  <2> QED
    BY <1>3, <2>1, HeadKept DEF CoreJoins, bounds, BoundsOK
<1>4. CASE CoreSeesLink
  <2>1. core' \in CoreState
    BY <1>4 DEF CoreSeesLink, CoreState
  <2> QED
    BY <1>4, <2>1, HeadKept DEF CoreSeesLink, bounds, BoundsOK
<1>5. CASE CoreRetries
  <2>1. core' \in CoreState
    BY <1>5 DEF CoreRetries, CoreState
  <2> QED
    BY <1>5, <2>1, HeadKept DEF CoreRetries, bounds, BoundsOK
<1>6. CASE CoreRaisesAp
  <2>1. core' \in CoreState
    BY <1>6 DEF CoreRaisesAp, CoreState
  <2> QED
    BY <1>6, <2>1, HeadKept DEF CoreRaisesAp, bounds, BoundsOK
<1> QED
  BY <1>1, <1>2, <1>3, <1>4, <1>5, <1>6 DEF CoreStep

-----------------------------------------------------------------------------
(* The head's loop. *)

LEMMA HeadLooks ==
  ASSUME FollowInv, HeadBegins \/ HeadBackoffEnds
  PROVE  FollowInv'
<1> USE DEF FollowInv
<1>1. /\ head' \in HeadState /\ head'.phase # "on" /\ head'.good = head.good
      /\ head'.target = "lastGood" => head.good # "none"
  <2>1. CASE HeadBegins
    BY <2>1 DEF HeadBegins, HeadOK, LastGoodHeard, HeadState
  <2>2. CASE HeadBackoffEnds
    BY <2>2 DEF HeadBackoffEnds, First, HeadOK, HeadState
  <2> QED
    BY <2>1, <2>2
<1>2. UNCHANGED <<core, router, heard, bounds>>
  BY DEF HeadBegins, HeadBackoffEnds
<1>3. HeadOK'
  BY <1>1, <1>2, OffIsOK DEF HeadOK, LastGoodHeard
<1> QED
  BY <1>2, <1>3 DEF bounds, BoundsOK

LEMMA HeadGetsOn ==
  ASSUME FollowInv, HeadAssociates
  PROVE  FollowInv'
<1> USE DEF FollowInv
<1> DEFINE net == NetworkOf(head.target)
<1>1. net \in Nets
  BY NetworkOfIsNet DEF HeadOK
<1>2. PICK found \in BOOLEAN :
        head' = [head EXCEPT !.phase = "on", !.net = net, !.found = found,
                             !.miss = 1, !.fresh = TRUE]
  BY DEF HeadAssociates
<1> HIDE DEF net
<1>3. /\ head' \in HeadState
      /\ head'.net = net /\ head'.target = head.target
      /\ head'.good = head.good /\ head'.home = head.home
  BY <1>1, <1>2, Misses DEF HeadOK, HeadState, Nets
<1>4. /\ UNCHANGED <<core, router, heard, flips, boots, posts>> /\ losses' \in Nat
  BY Lost DEF HeadAssociates, BoundsOK
<1>5. HeadOK'
  BY <1>3, <1>4 DEF net, HeadOK, LastGoodHeard, OnTarget, NetworkOf
<1> QED
  BY <1>4, <1>5 DEF BoundsOK

(* Every way down: a candidate that times out, a network lost, a link that  *)
(* is given up.                                                             *)
LEMMA HeadGetsOff ==
  ASSUME FollowInv, HeadTimesOut \/ HeadLosesWifi \/ HeadGivesUp
  PROVE  FollowInv'
<1> USE DEF FollowInv
<1> DEFINE down == [head EXCEPT !.phase = "down"]
<1>1. head \in HeadState /\ (head.target = "lastGood" => head.good # "none")
  BY DEF HeadOK, LastGoodHeard
<1>2. /\ down \in HeadState /\ down.good = head.good
      /\ down.target = head.target /\ down.phase = "down"
  BY <1>1 DEF HeadState
<1>3. head' \in {Advance(down), MarkDown(head), Advance(MarkDown(head))}
  BY DEF HeadTimesOut, HeadLosesWifi, HeadGivesUp
<1>4. /\ head' \in HeadState /\ head'.phase # "on" /\ head'.good = head.good
      /\ head'.target = "lastGood" => head.good # "none"
  <2>1. CASE head' = Advance(down)
    BY <1>1, <1>2, <2>1, Advanced
  <2>2. CASE head' = MarkDown(head)
    BY <1>1, <2>2, MarkedDown
  <2>3. CASE head' = Advance(MarkDown(head))
    BY <1>1, <2>3, MarkedDown, Advanced
  <2> QED
    BY <1>3, <2>1, <2>2, <2>3
<1>5. /\ UNCHANGED <<core, router, heard, flips, boots, posts>> /\ losses' \in Nat
  BY Lost DEF HeadTimesOut, HeadLosesWifi, HeadGivesUp, bounds, BoundsOK
<1>6. HeadOK'
  BY <1>4, <1>5, OffIsOK DEF HeadOK, LastGoodHeard
<1> QED
  BY <1>5, <1>6 DEF BoundsOK

(* The first answer: the network it names is the one the answer came over.  *)
LEMMA HeadHears ==
  ASSUME FollowInv, HeadIsAnswered
  PROVE  FollowInv'
<1> USE DEF FollowInv
<1> DEFINE good == Snapshot(head)
<1>1. head.phase = "on" /\ head.net \in {"ap", "home"}
  BY DEF HeadIsAnswered, Linked, CoreIsOn
<1>2. good \in Nets
  BY NetworkOfIsNet DEF HeadOK, HeadState, Snapshot
<1>3. head' = [head EXCEPT !.miss = 0, !.good = good, !.fresh = FALSE]
  BY DEF HeadIsAnswered
<1> HIDE DEF good
<1>4. /\ head' \in HeadState /\ ~head'.fresh
      /\ head'.good = good /\ head'.target = head.target
  BY <1>2, <1>3, Misses DEF HeadOK, HeadState, Nets
<1>5. heard' = heard \union {head.net}
  BY DEF HeadIsAnswered
<1>6. head'.good # "none" => head'.good \in heard'
  BY <1>1, <1>4, <1>5 DEF good, HeadOK, LastGoodHeard, OnTarget, Snapshot
<1>7. head'.target = "lastGood" => head'.good # "none"
  BY <1>4 DEF good, HeadOK, LastGoodHeard, Snapshot
<1>8. HeadOK'
  BY <1>4, <1>6, <1>7 DEF HeadOK, LastGoodHeard, OnTarget
<1> QED
  BY <1>1, <1>5, <1>8 DEF HeadIsAnswered, bounds, BoundsOK

LEMMA HeadWaits ==
  ASSUME FollowInv, HeadIsNotAnswered
  PROVE  FollowInv'
<1> USE DEF FollowInv
<1>1. /\ head' \in HeadState
      /\ \A f \in {"phase", "fresh", "net", "target", "good", "home"} : head'[f] = head[f]
  BY FollowAssumption DEF HeadIsNotAnswered, HeadOK, HeadState
<1>2. /\ head'.phase = head.phase /\ head'.fresh = head.fresh /\ head'.net = head.net
      /\ head'.target = head.target /\ head'.good = head.good /\ head'.home = head.home
  BY FollowAssumption DEF HeadIsNotAnswered, HeadOK, HeadState
<1>3. /\ UNCHANGED <<core, router, heard, flips, boots, posts>> /\ losses' \in Nat
  BY Lost DEF HeadIsNotAnswered, BoundsOK
<1>4. HeadOK'
  BY <1>1, <1>2, <1>3 DEF HeadOK, LastGoodHeard, OnTarget, NetworkOf
<1> QED
  BY <1>3, <1>4 DEF BoundsOK

-----------------------------------------------------------------------------
(* What happens to them. *)

LEMMA Disturbed ==
  ASSUME FollowInv, RouterFlips \/ CoreReboots
  PROVE  FollowInv'
<1> USE DEF FollowInv
<1>1. CASE RouterFlips
  BY <1>1, HeadKept DEF RouterFlips, BoundsOK
<1>2. CASE CoreReboots
  <2>1. core' \in CoreState
    BY <1>2, CoreStarted DEF CoreReboots, CoreState
  <2> QED
    BY <1>2, <2>1, HeadKept DEF CoreReboots, BoundsOK
<1> QED
  BY <1>1, <1>2

LEMMA HeadForgets ==
  ASSUME FollowInv, HeadReboots
  PROVE  FollowInv'
<1> USE DEF FollowInv
<1>1. head.home \in BOOLEAN
  BY DEF HeadOK, HeadState
<1>2. HeadOK'
  BY <1>1, HeadStarted, OffIsOK DEF HeadReboots
<1> QED
  BY <1>2 DEF HeadReboots, BoundsOK

(* The portal is met on the access point only, so the home network's coming *)
(* or going does not touch the candidate the head is on.                    *)
LEMMA Posted ==
  ASSUME FollowInv, UserPosts
  PROVE  FollowInv'
<1> USE DEF FollowInv
<1>1. PICK keep \in BOOLEAN :
        core' = [core EXCEPT !.creds = keep] /\ head' = [head EXCEPT !.home = keep]
  BY DEF UserPosts
<1>2. head.net = "ap"
  BY DEF UserPosts, Linked, CoreIsOn
<1>3. core' \in CoreState
  BY <1>1 DEF CoreState
<1>4. /\ head' \in HeadState
      /\ head'.phase = head.phase /\ head'.fresh = head.fresh /\ head'.net = head.net
      /\ head'.target = head.target /\ head'.good = head.good
  BY <1>1 DEF HeadOK, HeadState
<1>5. heard' = heard
  BY DEF UserPosts
<1>6. OnTarget'
  BY <1>2, <1>4 DEF OnTarget, NetworkOf, HeadOK, HeadState
<1>7. HeadOK'
  BY <1>4, <1>5, <1>6 DEF HeadOK, LastGoodHeard
<1> QED
  BY <1>3, <1>5, <1>7 DEF UserPosts, BoundsOK

(* The induction: types, and that what the head snapshots is where it is    *)
(* (OnTarget), hold in every reachable state.                               *)
LEMMA FollowInvariant == Spec => []FollowInv
<1>1. FollowInv /\ [Next]_vars => FollowInv'
  <2> SUFFICES ASSUME FollowInv, [Next]_vars PROVE FollowInv'
    OBVIOUS
  <2>1. CASE CoreStep \/ CoreRaisesAp
    BY <2>1, CoreMoves
  <2>2. CASE HeadStep
    BY <2>2, HeadLooks, HeadGetsOn, HeadGetsOff, HeadHears, HeadWaits DEF HeadStep
  <2>3. CASE RouterFlips \/ CoreReboots \/ HeadReboots \/ UserPosts
    BY <2>3, Disturbed, HeadForgets, Posted
  <2>4. CASE UNCHANGED vars
    BY <2>4, HeadKept DEF vars, bounds, FollowInv, BoundsOK
  <2> QED
    BY <2>1, <2>2, <2>3, <2>4 DEF Next
<1> QED
  BY <1>1, Starts, PTL DEF Spec

(* Type correctness: a link ends at MaxMissed unanswered heartbeats         *)
(* (LinkClient::heartbeatTick).                                             *)
THEOREM FollowTyped == Spec => []TypeOK
<1>1. FollowInv => TypeOK
  BY DEF FollowInv, TypeOK, HeadOK, CoreState, HeadState, Nets, BoundsOK
<1> QED
  BY FollowInvariant, <1>1, PTL

(* A search never starts at a network nobody answered on, and the last good *)
(* one is one where the core was heard since the head booted                *)
(* (LinkClient::snapshotLastGood, firstFollowTarget).                       *)
THEOREM SnapshotsAreHeard == Spec => []LastGoodHeard
<1>1. FollowInv => LastGoodHeard
  BY DEF FollowInv, HeadOK
<1> QED
  BY FollowInvariant, <1>1, PTL
=============================================================================
