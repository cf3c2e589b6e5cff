--------------------------- MODULE ProvisionProofs ---------------------------
(* That the head runs commands in order and is offered only what the user   *)
(* typed, for every range of sequence numbers, every number of boots,       *)
(* forms, faults and retries, and every interleaving of the core's tasks.   *)
EXTENDS Provision, TLAPS

CoreState == [peer : BOOLEAN, heard : BOOLEAN, seq : Nat, boot : Nat, tx : Nat]
HeadState == [boot : Nat, up : BOOLEAN, cmd : BOOLEAN, last : Nat, tx : Nat]

ToHead(f) == f.to = "head"

(* The frames for the head were minted in this boot of the core, no two of  *)
(* them half a range apart, nor any of them that far behind the last that   *)
(* ran: this is what lets 16 bits tell a later frame from an earlier one.   *)
Near ==
  /\ \A f \in air : ToHead(f) => f.n < core.tx
  /\ \A f, g \in air : ToHead(f) /\ ToHead(g) => f.n - g.n < Half
  /\ head.up /\ head.cmd =>
       /\ head.last < core.tx
       /\ \A f \in air : ToHead(f) => head.last - f.n < Half

LinkTyped == core \in CoreState /\ head \in HeadState /\ air \subseteq Frame

LinkInv == LinkTyped /\ Near /\ OfferedWhole

IsWhole(bundle) == bundle.ssid = bundle.pass

(* What may still be offered is whole: the bundle the pump holds, the       *)
(* core's copy while a push is armed or under way, and what the flash holds *)
(* after a save that was.                                                   *)
Sources ==
  /\ pump.on => IsWhole(pump.body)
  /\ cred.armed \/ form.at \in {"push", "arm"} => IsWhole(home)
  /\ form.op = "store" /\ form.at \in {"mark", "attach"} => IsWhole(Load(flash))

Push == [armed : BOOLEAN, confirmed : BOOLEAN, clear : BOOLEAN,
         seq : Nat, tries : 0 .. MaxTries, body : BundleType]
PumpType == [on : BOOLEAN, valid : BOOLEAN, body : BundleType]
PortalType == [relay : {"idle", "noLink", "relaying", "stored", "failed"},
               op : {"none", "store", "clear"}]
FormType == [op : {"none", "store", "clear"}, seq : Nat,
             at : {"idle", "mark", "attach", "push", "arm"}]

ProvisionTyped ==
  /\ flash \in KeysType /\ stored \in KeysType /\ home \in BundleType
  /\ cred \in Push /\ pump \in PumpType /\ portal \in PortalType /\ form \in FormType
  /\ posts \in Nat /\ boots \in Nat /\ faults \in [{"core", "head"} -> Nat]

(* Between its reading and its sending the pump has a try left.             *)
TriesLeft ==
  /\ cred.armed => cred.tries >= 1
  /\ pump.on => cred.tries < MaxTries /\ 1 < MaxTries

HandlerKept == ProvisionTyped /\ Sources /\ TriesLeft

(* The inductive invariant. *)
ProvisionInv == LinkInv /\ HandlerKept

-----------------------------------------------------------------------------
(* The link. *)

LEMMA Halves == SeqMod \in Nat /\ Half \in Nat /\ Half > 1 /\ SeqMod = 2 * Half
BY LinkAssumption DEF Half

LEMMA Wraps ==
  ASSUME NEW m \in Nat, NEW d \in Nat, d > 0, d < m
  PROVE  (0 - d) % m = m - d
OBVIOUS

(* A frame that is behind by less than half a range is not fresh.           *)
LEMMA Behind ==
  ASSUME NEW n \in Nat, NEW last \in Nat, n < last, last - n < Half
  PROVE  (n - last) % SeqMod \notin 1 .. Half - 1
<1> DEFINE d == last - n
<1>1. d \in Nat /\ d > 0 /\ d < SeqMod /\ n - last = 0 - d
  BY Halves
<1>2. (n - last) % SeqMod = SeqMod - d
  BY <1>1, Halves, Wraps
<1> QED
  BY <1>1, <1>2, Halves

LEMMA FrameFacts ==
  ASSUME NEW f \in Frame
  PROVE  /\ f.n \in Nat
         /\ f.kind = "creds" => f.bundle \in BundleType
         /\ f.kind = "hb" => f.boot \in Nat
BY LinkAssumption DEF Frame

LEMMA Minted ==
  ASSUME NEW n \in Nat
  PROVE  /\ \A b \in BundleType : Creds(n, b) \in Frame /\ ToHead(Creds(n, b))
         /\ \A k \in Commands : Command(k, n) \in Frame /\ ToHead(Command(k, n))
         /\ \A boot \in Nat : Heartbeat(n, boot) \in Frame /\ ~ToHead(Heartbeat(n, boot))
         /\ \A of \in Nat : Ack(n, of) \in Frame /\ ~ToHead(Ack(n, of))
BY DEF Creds, Command, Heartbeat, Ack, Frame, ToHead

(* Fewer frames for the head, later numbers of the core, and a head that    *)
(* ran nothing or is down keep everything near.                             *)
LEMMA NearKept ==
  ASSUME LinkInv, core' \in CoreState, head' \in HeadState,
         core'.tx >= core.tx, air' \subseteq Frame,
         \A f \in air' : ToHead(f) => f \in air,
         \/ head'.up = head.up /\ head'.cmd = head.cmd /\ head'.last = head.last
         \/ ~head'.up \/ ~head'.cmd
  PROVE  Near'
<1> USE DEF LinkInv, LinkTyped, Near
<1>1. core.tx \in Nat /\ core'.tx \in Nat /\ head.last \in Nat
  BY DEF CoreState, HeadState
<1>2. \A f \in air' : f.n \in Nat
  BY FrameFacts
<1>3. \A f \in air' : ToHead(f) => f.n < core'.tx
  BY <1>1, <1>2
<1>4. head'.up /\ head'.cmd =>
        /\ head'.last < core'.tx
        /\ \A f \in air' : ToHead(f) => head'.last - f.n < Half
  <2> SUFFICES ASSUME head'.up, head'.cmd
               PROVE  /\ head'.last < core'.tx
                      /\ \A f \in air' : ToHead(f) => head'.last - f.n < Half
    OBVIOUS
  <2>1. head.up /\ head.cmd /\ head'.last = head.last
    OBVIOUS
  <2>2. head.last < core.tx /\ \A f \in air : ToHead(f) => head.last - f.n < Half
    BY <2>1
  <2> QED
    BY <1>1, <2>1, <2>2
<1>5. \A f, g \in air' : ToHead(f) /\ ToHead(g) => f.n - g.n < Half
  OBVIOUS
<1> QED
  BY <1>3, <1>4, <1>5

LEMMA WholeKept ==
  ASSUME OfferedWhole, \A f \in air' : f.kind = "creds" => f \in air \/ IsWhole(f.bundle)
  PROVE  OfferedWhole'
BY DEF OfferedWhole, IsWhole

LEMMA PutFacts ==
  ASSUME NEW f
  PROVE  \A g \in Put(air, f) : g = f \/ (g \in air /\ (g.to = f.to => f.n - g.n < Half))
BY DEF Put

(* A frame to the head. *)
LEMMA SendKeeps ==
  ASSUME LinkInv, NEW f \in Frame, ToHead(f), f.n = core.tx,
         f.kind = "creds" => IsWhole(f.bundle),
         NEW sent \in BOOLEAN, CoreSends(f, sent), UNCHANGED head
  PROVE  LinkInv'
<1> USE DEF LinkInv, LinkTyped
<1>1. core' \in CoreState /\ core'.tx = core.tx + 1 /\ core.tx \in Nat
  BY DEF CoreSends, CoreState
<1>2. \A g \in air' : g = f \/ g \in air
  BY PutFacts DEF CoreSends, ToHead
<1>3. air' \subseteq Frame
  BY <1>2
<1>4. Near'
  <2>1. CASE ~sent
    BY <1>1, <2>1, NearKept DEF CoreSends
  <2>2. CASE sent
    <3>1. \A g \in air' : g = f \/ (g \in air /\ (ToHead(g) => f.n - g.n < Half))
      BY <2>2, PutFacts DEF CoreSends, ToHead
    <3>2. \A g \in air' : g.n \in Nat
      BY <1>3, FrameFacts
    <3>3. \A g \in air' : ToHead(g) => g.n < core.tx + 1
      BY <1>1, <3>1, <3>2 DEF Near
    <3>4. \A g, h \in air' : ToHead(g) /\ ToHead(h) => g.n - h.n < Half
      <4> SUFFICES ASSUME NEW g \in air', NEW h \in air', ToHead(g), ToHead(h)
                   PROVE  g.n - h.n < Half
        OBVIOUS
      <4>1. CASE g = f /\ h = f
        BY <4>1, <3>2, Halves
      <4>2. CASE g = f /\ h # f
        BY <4>2, <3>1
      <4>3. CASE g # f /\ h = f
        <5>1. g.n < core.tx
          BY <4>3, <3>1 DEF Near
        <5> QED
          BY <5>1, <4>3, <1>1, <3>2, Halves
      <4>4. CASE g # f /\ h # f
        BY <4>4, <3>1 DEF Near
      <4> QED
        BY <4>1, <4>2, <4>3, <4>4
    <3>5. head.up /\ head.cmd =>
            /\ head.last < core.tx + 1
            /\ \A g \in air' : ToHead(g) => head.last - g.n < Half
      <4> SUFFICES ASSUME head.up, head.cmd
                   PROVE  /\ head.last < core.tx + 1
                          /\ \A g \in air' : ToHead(g) => head.last - g.n < Half
        OBVIOUS
      <4>1. head.last \in Nat /\ head.last < core.tx
        BY DEF Near, HeadState
      <4>2. head.last - f.n < Half
        BY <4>1, <1>1, Halves
      <4> QED
        BY <4>1, <4>2, <1>1, <3>1 DEF Near
    <3> QED
      BY <1>1, <3>3, <3>4, <3>5 DEF Near
  <2> QED
    BY <2>1, <2>2
<1>5. OfferedWhole'
  BY <1>2, WholeKept
<1> QED
  BY <1>1, <1>3, <1>4, <1>5

(* The head's own frames. *)
LEMMA BeatKeeps ==
  ASSUME LinkInv, NEW h \in HeadState, HeadSendsBeat(h), UNCHANGED core,
         \/ h.up = head.up /\ h.cmd = head.cmd /\ h.last = head.last
         \/ ~h.up \/ ~h.cmd
  PROVE  LinkInv'
<1> DEFINE f == Heartbeat(head.tx, head.boot)
<1>1. head.tx \in Nat /\ head.boot \in Nat
  BY DEF LinkInv, LinkTyped, HeadState
<1>2. f \in Frame /\ ~ToHead(f) /\ f.kind # "creds"
  BY <1>1, Minted DEF Heartbeat
<1>3. head' \in HeadState /\ head'.up = h.up /\ head'.cmd = h.cmd /\ head'.last = h.last
  BY DEF HeadSendsBeat, HeadState
<1>4. \A g \in air' : g = f \/ g \in air
  BY PutFacts DEF HeadSendsBeat
<1> HIDE DEF f
<1>5. air' \subseteq Frame /\ OfferedWhole'
  BY <1>2, <1>4, WholeKept DEF LinkInv, LinkTyped
<1>6. core' \in CoreState /\ core'.tx >= core.tx
  BY DEF LinkInv, LinkTyped, CoreState
<1>7. Near'
  BY <1>2, <1>3, <1>4, <1>5, <1>6, NearKept
<1> QED
  BY <1>3, <1>5, <1>6, <1>7 DEF LinkInv, LinkTyped

(* A command runs, or is answered again. *)
LEMMA AckKeeps ==
  ASSUME LinkInv, NEW f \in air, UNCHANGED core,
         NEW verdict, HeadGets(f, verdict), NEW h \in HeadState, HeadAcks(f, h),
         h = head \/ h.last = f.n
  PROVE  LinkInv'
<1> DEFINE a == Ack(head.tx, f.n)
<1> USE DEF LinkInv, LinkTyped
<1>1. head.tx \in Nat /\ f.n \in Nat /\ ToHead(f)
  BY FrameFacts DEF HeadState, HeadGets, ToHead
<1>2. a \in Frame /\ ~ToHead(a) /\ a.kind # "creds"
  BY <1>1, Minted DEF Ack
<1>3. head' \in HeadState /\ head'.up = h.up /\ head'.cmd = h.cmd /\ head'.last = h.last
  BY DEF HeadAcks, HeadState
<1>4. \A g \in air' : g = a \/ g \in air
  BY PutFacts DEF HeadAcks
<1> HIDE DEF a
<1>5. air' \subseteq Frame /\ OfferedWhole'
  BY <1>2, <1>4, WholeKept
<1>6. core' \in CoreState /\ core'.tx >= core.tx
  BY DEF CoreState
<1>7. CASE h = head
  BY <1>2, <1>3, <1>4, <1>5, <1>6, <1>7, NearKept
<1>8. CASE h.last = f.n
  <2>1. \A g \in air' : ToHead(g) => g \in air
    BY <1>2, <1>4
  <2>2. f.n < core.tx /\ \A g \in air : ToHead(g) => f.n - g.n < Half
    BY <1>1 DEF Near
  <2>3. /\ \A g \in air' : ToHead(g) => g.n < core'.tx
        /\ \A g, k \in air' : ToHead(g) /\ ToHead(k) => g.n - k.n < Half
    BY <2>1 DEF Near
  <2>4. head'.last = f.n /\ core'.tx = core.tx
    BY <1>3, <1>8
  <2>5. head'.last < core'.tx /\ \A g \in air' : ToHead(g) => head'.last - g.n < Half
    BY <2>1, <2>2, <2>4
  <2>6. Near'
    BY <2>3, <2>5 DEF Near
  <2> QED
    BY <1>3, <1>5, <1>6, <2>6
<1> QED
  BY <1>3, <1>5, <1>6, <1>7, <1>8

LEMMA OffKeeps ==
  ASSUME LinkInv, air' \in {{}, ForCore(air)}, core' \in CoreState, head' \in HeadState,
         ~head'.up \/ ~head'.cmd
  PROVE  LinkInv'
<1> USE DEF LinkInv, LinkTyped
<1>1. \A f \in air' : f \in air /\ ~ToHead(f)
  BY DEF ForCore, ToHead, Frame
<1>2. Near'
  BY <1>1 DEF Near
<1>3. OfferedWhole'
  BY <1>1, WholeKept
<1> QED
  BY <1>1, <1>2, <1>3

(* Every step of the link that no handler of the provisioning takes.        *)
LEMMA LinkStepsKeep ==
  ASSUME LinkInv, LinkSteps
  PROVE  LinkInv'
<1> USE DEF LinkInv, LinkTyped
<1>1. CASE HeadAssociates
  <2> DEFINE h == [head EXCEPT !.up = TRUE, !.cmd = FALSE]
  <2>1. h \in HeadState /\ ~h.cmd
    BY DEF HeadState
  <2>2. HeadSendsBeat(h) /\ UNCHANGED core
    BY <1>1 DEF HeadAssociates
  <2> HIDE DEF h
  <2> QED
    BY <2>1, <2>2, BeatKeeps
<1>2. CASE HeadBeats
  BY <1>2, BeatKeeps DEF HeadBeats
<1>3. CASE HeadMarksDown
  <2>1. head' \in HeadState /\ ~head'.up
    BY <1>3 DEF HeadMarksDown, HeadState
  <2> QED
    BY <1>3, <2>1, OffKeeps DEF HeadMarksDown
<1>4. CASE HeadReboots
  <2>1. head' \in HeadState /\ ~head'.up
    BY <1>4 DEF HeadReboots, HeadOn, HeadState
  <2> QED
    BY <1>4, <2>1, OffKeeps DEF HeadReboots
<1>5. CASE PumpSends
  <2>1. PICK kind \in Commands :
          CoreSends(Command(kind, core.tx), TRUE) /\ UNCHANGED head
    BY <1>5 DEF PumpSends
  <2> DEFINE f == Command(kind, core.tx)
  <2>2. f \in Frame /\ ToHead(f) /\ f.n = core.tx /\ f.kind # "creds"
    BY Minted, LinkAssumption DEF CoreState, Command
  <2> HIDE DEF f
  <2>3. CoreSends(f, TRUE)
    BY <2>1 DEF f
  <2> QED
    BY <2>1, <2>2, <2>3, SendKeeps
<1> QED
  BY <1>1, <1>2, <1>3, <1>4, <1>5 DEF LinkSteps

(* The core hears a heartbeat. *)
LEMMA HearKeeps ==
  ASSUME LinkInv, NEW f \in air, CoreGetsBeat(f)
  PROVE  LinkInv'
<1> USE DEF LinkInv, LinkTyped
<1>1. f.n \in Nat /\ f.boot \in Nat
  BY FrameFacts DEF CoreGetsBeat
<1> DEFINE n == f.n
           boot == f.boot
           tx == core.tx + 1
<1>2. core' = [core EXCEPT !.peer = TRUE, !.heard = TRUE, !.seq = n, !.boot = boot, !.tx = tx]
  BY DEF CoreGetsBeat
<1>3. core \in CoreState /\ core.tx \in Nat /\ tx \in Nat
  BY DEF CoreState
<1> HIDE DEF n, boot, tx
<1>4. n \in Nat /\ boot \in Nat
  BY <1>1 DEF n, boot
<1>5. core' \in CoreState /\ core'.tx = tx
  BY <1>2, <1>3, <1>4 DEF CoreState
<1>6. core' \in CoreState /\ core'.tx = core.tx + 1 /\ core.tx \in Nat
  BY <1>3, <1>5 DEF tx
<1>7. core'.tx >= core.tx /\ head' = head /\ air' = air
  BY <1>6 DEF CoreGetsBeat
<1>8. Near'
  BY <1>6, <1>7, NearKept
<1> QED
  BY <1>6, <1>7, <1>8, WholeKept

LEMMA RunKeeps ==
  ASSUME LinkInv, NEW f \in air, HeadRuns(f), UNCHANGED core
  PROVE  LinkInv'
<1> DEFINE h == [head EXCEPT !.cmd = TRUE, !.last = f.n]
<1>1. h \in HeadState /\ h.last = f.n
  BY FrameFacts DEF LinkInv, LinkTyped, HeadState
<1>2. HeadGets(f, "fresh") /\ HeadAcks(f, h)
  BY DEF HeadRuns
<1> HIDE DEF h
<1> QED
  BY <1>1, <1>2, AckKeeps

LEMMA AgainKeeps ==
  ASSUME LinkInv, NEW f \in air, HeadAgain(f)
  PROVE  LinkInv'
BY AckKeeps DEF HeadAgain, LinkInv, LinkTyped

LEMMA CoreOffKeeps == ASSUME LinkInv, CoreRestarts PROVE LinkInv'
<1>1. core' \in CoreState /\ head' \in HeadState /\ ~head'.up
  BY DEF CoreRestarts, CoreOff, CoreState, HeadState, LinkInv, LinkTyped
<1> QED
  BY <1>1, OffKeeps DEF CoreRestarts

LEMMA LinkStays == ASSUME LinkInv, UNCHANGED linkVars PROVE LinkInv'
BY DEF LinkInv, LinkTyped, Near, OfferedWhole, linkVars

(* What runs is later than what ran.                                        *)
LEMMA RunsLater ==
  ASSUME LinkInv, NEW f \in air, HeadGets(f, "fresh"), head.cmd
  PROVE  f.n >= head.last
<1>1. f.n \in Nat /\ head.last \in Nat /\ ToHead(f) /\ head.up
  BY FrameFacts DEF LinkInv, LinkTyped, HeadState, HeadGets, ToHead
<1>2. head.last - f.n < Half
  BY <1>1 DEF LinkInv, Near
<1>3. (f.n - head.last) % SeqMod \in 1 .. Half - 1
  BY DEF HeadGets, Classify
<1> QED
  BY <1>1, <1>2, <1>3, Behind

-----------------------------------------------------------------------------
(* The bundles. *)

LEMMA Bundles ==
  /\ NoNet \in BundleType /\ IsWhole(NoNet)
  /\ NoKeys \in KeysType
  /\ \A net \in Networks : Bundle(net) \in BundleType
BY DEF NoNet, NoKeys, Bundle, BundleType, KeysType, IsWhole

LEMMA LoadTyped ==
  ASSUME NEW keys \in KeysType
  PROVE  Load(keys) \in BundleType
BY Bundles DEF Load, KeysType, BundleType

LEMMA WrittenTyped ==
  ASSUME NEW keys \in KeysType, NEW bundle \in BundleType, NEW fields \in SUBSET Field
  PROVE  Written(keys, bundle, fields) \in KeysType
<1> DEFINE ssid == IF "ssid" \in fields THEN bundle.ssid ELSE keys.ssid
           pass == IF "pass" \in fields THEN bundle.pass ELSE keys.pass
           ok == keys.ok \/ "ok" \in fields
<1>1. ssid \in Networks \union {"none"} /\ pass \in Networks \union {"none"}
  BY DEF BundleType, KeysType
<1>2. ok \in BOOLEAN
  OBVIOUS
<1>3. Written(keys, bundle, fields) = [keys EXCEPT !.ssid = ssid, !.pass = pass, !.ok = ok]
  BY DEF Written, KeysType
<1> HIDE DEF ssid, pass, ok
<1> QED
  BY <1>1, <1>2, <1>3 DEF KeysType

(* A save that went through leaves one network, not a mixture.              *)
LEMMA SavedIsWhole ==
  ASSUME NEW keys \in KeysType, NEW net \in Networks
  PROVE  IsWhole(Load(Written(keys, Bundle(net), Field)))
<1> DEFINE w == Written(keys, Bundle(net), Field)
<1>1. w.ssid = net /\ w.pass = net
  BY DEF Written, Bundle, Field, KeysType
<1> HIDE DEF w
<1>2. Load(w) \in {[ssid |-> w.ssid, pass |-> w.pass], NoNet}
  BY DEF Load
<1>3. IsWhole(Load(w))
  BY <1>1, <1>2, Bundles DEF IsWhole
<1> QED
  BY <1>3 DEF w

-----------------------------------------------------------------------------
(* The handler. *)

LEMMA Faulted ==
  ASSUME faults \in [{"core", "head"} -> Nat], NEW end \in {"core", "head"},
         NEW b \in BOOLEAN, Fault(end, b)
  PROVE  faults' \in [{"core", "head"} -> Nat]
BY DEF Fault

(* An armed or unarmed latch, a form at rest and the page. *)
LEMMA PageKeeps ==
  ASSUME HandlerKept, PostStoreUnlinked \/ PageStatus \/ LatchConfirms \/ LatchTimesOut
  PROVE  HandlerKept'
<1>1. portal' \in PortalType
  BY DEF HandlerKept, ProvisionTyped, PortalType, Latch,
         PostStoreUnlinked, PageStatus, LatchConfirms, LatchTimesOut
<1>2. posts' \in Nat /\ UNCHANGED <<flash, stored, home, cred, pump, form, faults, boots>>
  BY DEF HandlerKept, ProvisionTyped,
         PostStoreUnlinked, PageStatus, LatchConfirms, LatchTimesOut
<1> QED
  BY <1>1, <1>2 DEF HandlerKept, ProvisionTyped, Sources, TriesLeft

LEMMA StoreKeeps ==
  ASSUME HandlerKept, PostStore
  PROVE  HandlerKept'
<1> USE DEF HandlerKept
<1>1. PICK net \in Networks, fields \in SUBSET Field :
        /\ flash' = Written(flash, Bundle(net), fields)
        /\ Fault("core", fields # Field)
        /\ form' = IF fields = Field THEN Marking("store") ELSE form
  BY DEF PostStore
<1>2. flash' \in KeysType
  BY <1>1, Bundles, WrittenTyped DEF ProvisionTyped
<1>3. faults' \in [{"core", "head"} -> Nat]
  <2>1. (fields # Field) \in BOOLEAN
    OBVIOUS
  <2> QED
    BY <1>1, <2>1, Faulted DEF ProvisionTyped
<1>4. form.at = "idle" /\ form' \in FormType
  BY <1>1 DEF PostStore, Marking, FormType, ProvisionTyped
<1>5. UNCHANGED <<stored, home, cred, pump, portal, boots>> /\ posts' \in Nat
  BY DEF PostStore, ProvisionTyped
<1>6. form' = form \/ (form'.at = "mark" /\ IsWhole(Load(flash')))
  BY <1>1, SavedIsWhole DEF Marking, ProvisionTyped
<1>7. Sources'
  BY <1>4, <1>5, <1>6 DEF Sources
<1> QED
  BY <1>2, <1>3, <1>4, <1>5, <1>7 DEF ProvisionTyped, TriesLeft

LEMMA ForgetKeeps ==
  ASSUME HandlerKept, PostForget
  PROVE  HandlerKept'
<1> USE DEF HandlerKept
<1>1. PICK cleared \in BOOLEAN :
        flash' = (IF cleared THEN NoKeys ELSE flash) /\ Fault("core", ~cleared)
  BY DEF PostForget
<1>2. flash' \in KeysType
  BY <1>1, Bundles DEF ProvisionTyped
<1>3. faults' \in [{"core", "head"} -> Nat]
  <2>1. (~cleared) \in BOOLEAN
    OBVIOUS
  <2> QED
    BY <1>1, <2>1, Faulted DEF ProvisionTyped
<1>4. /\ form.at = "idle" /\ form' \in FormType
      /\ form'.at \in {"idle", "mark"} /\ (form'.at = "mark" => form'.op = "clear")
  BY DEF PostForget, Marking, FormType, ProvisionTyped
<1>5. UNCHANGED <<stored, home, cred, pump, portal, boots>> /\ posts' \in Nat
  BY DEF PostForget, ProvisionTyped
<1>6. Sources'
  BY <1>4, <1>5 DEF Sources
<1> QED
  BY <1>2, <1>3, <1>4, <1>5, <1>6 DEF ProvisionTyped, TriesLeft

LEMMA MarksKeeps ==
  ASSUME HandlerKept, HandlerMarks
  PROVE  HandlerKept'
<1> USE DEF HandlerKept
<1>1. portal' \in PortalType
  BY DEF HandlerMarks, Latch, PortalType, FormType, ProvisionTyped
<1>2. form' \in FormType /\ form.at = "mark" /\ form'.at = "attach" /\ form'.op = form.op
  BY DEF HandlerMarks, Goes, FormType, ProvisionTyped
<1>3. UNCHANGED <<flash, stored, home, cred, pump, posts, faults, boots>>
  BY DEF HandlerMarks
<1>4. Sources'
  BY <1>2, <1>3 DEF Sources
<1> QED
  BY <1>1, <1>2, <1>3, <1>4 DEF ProvisionTyped, TriesLeft

(* Here the core's copy is read from the flash, and here it becomes whole.  *)
LEMMA AttachesKeeps ==
  ASSUME HandlerKept, HandlerAttaches
  PROVE  HandlerKept'
<1> USE DEF HandlerKept
<1>1. home' \in BundleType /\ IsWhole(home')
  BY Bundles, LoadTyped DEF HandlerAttaches, Attached, Sources, ProvisionTyped
<1>2. form' \in FormType /\ form'.at = "push"
  BY DEF HandlerAttaches, Goes, FormType, ProvisionTyped
<1>3. UNCHANGED <<flash, stored, cred, pump, portal, posts, faults, boots>>
  BY DEF HandlerAttaches
<1>4. Sources'
  BY <1>1, <1>2, <1>3 DEF Sources
<1> QED
  BY <1>1, <1>2, <1>3, <1>4 DEF ProvisionTyped, TriesLeft

LEMMA PushesKeeps ==
  ASSUME HandlerKept, LinkInv, HandlerPushes
  PROVE  HandlerKept' /\ LinkInv'
<1> USE DEF HandlerKept
<1>1. PICK sent \in BOOLEAN :
        /\ CoreSends(Creds(core.tx, Pushed), sent)
        /\ form' = IF sent THEN [form EXCEPT !.at = "arm", !.seq = core.tx] ELSE NoForm
  BY DEF HandlerPushes
<1>2. Pushed \in BundleType /\ IsWhole(Pushed) /\ core.tx \in Nat
  BY Bundles DEF Pushed, HandlerPushes, Sources, ProvisionTyped, LinkInv, LinkTyped, CoreState
<1>3. LinkInv'
  <2> DEFINE f == Creds(core.tx, Pushed)
  <2>1. f \in Frame /\ ToHead(f) /\ f.n = core.tx /\ f.bundle = Pushed
    BY <1>2, Minted DEF Creds
  <2> HIDE DEF f
  <2>2. CoreSends(f, sent) /\ UNCHANGED head
    BY <1>1 DEF f, HandlerPushes
  <2> QED
    BY <1>2, <2>1, <2>2, SendKeeps
<1>4. form' \in FormType /\ form.at = "push" /\ form'.at \in {"arm", "idle"}
  BY <1>1, <1>2 DEF HandlerPushes, NoForm, FormType, ProvisionTyped
<1>5. UNCHANGED <<flash, stored, home, cred, pump, portal, posts, faults, boots>>
  BY DEF HandlerPushes
<1>6. Sources'
  BY <1>4, <1>5 DEF Sources
<1> QED
  BY <1>3, <1>4, <1>5, <1>6 DEF ProvisionTyped, TriesLeft

LEMMA ArmsKeeps ==
  ASSUME HandlerKept, HandlerArms
  PROVE  HandlerKept'
<1> USE DEF HandlerKept
<1>1. Pushed \in BundleType /\ (form.op = "clear") \in BOOLEAN /\ form.seq \in Nat
  BY Bundles DEF Pushed, ProvisionTyped, FormType
<1>2. cred' \in Push /\ cred'.tries = 1
  BY <1>1, ProvisionAssumption DEF HandlerArms, Push
<1>3. form' \in FormType /\ form.at = "arm" /\ form'.at = "idle"
  BY DEF HandlerArms, NoForm, FormType
<1>4. UNCHANGED <<flash, stored, home, pump, portal, posts, faults, boots>>
  BY DEF HandlerArms
<1>5. Sources'
  BY <1>3, <1>4 DEF Sources
<1> QED
  BY <1>2, <1>3, <1>4, <1>5 DEF ProvisionTyped, TriesLeft

-----------------------------------------------------------------------------
(* The pump. *)

LEMMA PumpKeeps ==
  ASSUME HandlerKept, PumpGivesUp \/ PumpReads \/ PumpHasNothing
  PROVE  HandlerKept'
<1> USE DEF HandlerKept
<1>1. UNCHANGED <<flash, stored, home, portal, form, posts, faults, boots>>
  BY DEF PumpGivesUp, PumpReads, PumpHasNothing
<1>2. CASE PumpGivesUp
  <2>1. cred' \in Push /\ ~cred'.armed /\ cred'.tries = cred.tries /\ pump' = pump
    BY <1>2 DEF PumpGivesUp, ProvisionTyped, Push
  <2> QED
    BY <1>1, <2>1 DEF ProvisionTyped, Sources, TriesLeft
<1>3. CASE PumpReads
  <2>1. /\ cred' = cred /\ cred.armed /\ cred.tries < MaxTries /\ cred.tries \in Nat
    BY <1>3 DEF PumpReads, PumpPending, ProvisionTyped, Push
  <2> DEFINE body == IF cred.clear THEN NoNet ELSE home
             valid == cred.clear \/ home # NoNet
  <2>2. body \in BundleType /\ IsWhole(body) /\ valid \in BOOLEAN
    BY <2>1, Bundles DEF ProvisionTyped, Sources
  <2>3. pump' = [on |-> TRUE, valid |-> valid, body |-> body]
    BY <1>3 DEF PumpReads
  <2> HIDE DEF body, valid
  <2>4. pump' \in PumpType /\ pump'.body = body
    BY <2>2, <2>3 DEF PumpType
  <2>5. cred.tries >= 1 /\ 1 < MaxTries
    BY <2>1, ProvisionAssumption DEF TriesLeft
  <2>6. Sources'
    BY <1>1, <2>1, <2>2, <2>4 DEF Sources
  <2> QED
    BY <1>1, <2>1, <2>4, <2>5, <2>6 DEF ProvisionTyped, TriesLeft
<1>4. CASE PumpHasNothing
  <2>1. cred.tries < MaxTries /\ 1 < MaxTries
    BY <1>4 DEF PumpHasNothing, TriesLeft
  <2>2. cred' \in Push /\ cred'.armed = cred.armed /\ cred'.tries = cred.tries + 1
    BY <1>4, <2>1, ProvisionAssumption DEF PumpHasNothing, ProvisionTyped, Push
  <2>3. pump' \in PumpType /\ ~pump'.on
    BY <1>4, Bundles DEF PumpHasNothing, NoPump, PumpType
  <2>4. cred.tries \in Nat
    BY DEF ProvisionTyped, Push
  <2> QED
    BY <1>1, <2>2, <2>3, <2>4 DEF ProvisionTyped, Sources, TriesLeft
<1> QED
  BY <1>2, <1>3, <1>4

LEMMA PumpSendKeeps ==
  ASSUME HandlerKept, LinkInv, PumpSendsBundle
  PROVE  HandlerKept' /\ LinkInv'
<1> USE DEF HandlerKept
<1>1. PICK sent \in BOOLEAN :
        /\ CoreSends(Creds(core.tx, pump.body), sent)
        /\ cred' = [cred EXCEPT !.tries = @ + 1,
                                !.seq = IF sent THEN core.tx ELSE @,
                                !.body = IF sent THEN pump.body ELSE @]
  BY DEF PumpSendsBundle
<1>2. pump.body \in BundleType /\ IsWhole(pump.body) /\ core.tx \in Nat
  BY DEF PumpSendsBundle, Sources, ProvisionTyped, PumpType, LinkInv, LinkTyped, CoreState
<1>3. LinkInv'
  <2> DEFINE f == Creds(core.tx, pump.body)
  <2>1. f \in Frame /\ ToHead(f) /\ f.n = core.tx /\ f.bundle = pump.body
    BY <1>2, Minted DEF Creds
  <2> HIDE DEF f
  <2>2. CoreSends(f, sent) /\ UNCHANGED head
    BY <1>1 DEF f, PumpSendsBundle
  <2> QED
    BY <1>2, <2>1, <2>2, SendKeeps
<1>4. cred.tries < MaxTries /\ 1 < MaxTries /\ cred \in Push
  BY DEF PumpSendsBundle, TriesLeft, ProvisionTyped
<1> DEFINE seq == IF sent THEN core.tx ELSE cred.seq
           body == IF sent THEN pump.body ELSE cred.body
           tries == cred.tries + 1
<1>5. seq \in Nat /\ body \in BundleType /\ tries \in 0 .. MaxTries /\ tries >= 1
  BY <1>2, <1>4, ProvisionAssumption DEF Push
<1>6. cred' = [cred EXCEPT !.tries = tries, !.seq = seq, !.body = body]
  BY <1>1, <1>4 DEF Push
<1> HIDE DEF seq, body, tries
<1>7. cred' \in Push /\ cred'.tries = tries /\ cred'.armed = cred.armed
  BY <1>4, <1>5, <1>6 DEF Push
<1>8. pump' \in PumpType /\ ~pump'.on
  BY Bundles DEF PumpSendsBundle, NoPump, PumpType
<1>9. UNCHANGED <<flash, stored, home, portal, form, posts, faults, boots>>
  BY DEF PumpSendsBundle
<1> QED
  BY <1>3, <1>5, <1>7, <1>8, <1>9 DEF ProvisionTyped, Sources, TriesLeft

-----------------------------------------------------------------------------
(* Receptions and reboots. *)

LEMMA AckedKeeps ==
  ASSUME HandlerKept, CoreGetsAck
  PROVE  HandlerKept'
<1>1. cred' \in Push /\ ~cred'.armed /\ cred'.tries = cred.tries
  BY DEF CoreGetsAck, HandlerKept, ProvisionTyped, Push
<1> QED
  BY <1>1 DEF CoreGetsAck, HandlerKept, ProvisionTyped, Sources, TriesLeft

LEMMA StoresKeeps ==
  ASSUME HandlerKept, LinkInv, HeadStores
  PROVE  HandlerKept' /\ LinkInv'
<1> USE DEF HandlerKept
<1>1. PICK f \in air, fields \in SUBSET Field :
        /\ f.kind = "creds" /\ HeadRuns(f)
        /\ stored' = HeadKeeps(f.bundle, fields)
        /\ Fault("head", fields # Field)
  BY DEF HeadStores
<1>2. f.bundle \in BundleType
  BY <1>1, FrameFacts DEF LinkInv, LinkTyped
<1>3. stored' \in KeysType
  BY <1>1, <1>2, Bundles, WrittenTyped DEF HeadKeeps, ProvisionTyped
<1>4. faults' \in [{"core", "head"} -> Nat]
  <2>1. (fields # Field) \in BOOLEAN
    OBVIOUS
  <2> QED
    BY <1>1, <2>1, Faulted DEF ProvisionTyped
<1>5. UNCHANGED <<core, flash, home, cred, pump, portal, form, posts, boots>>
  BY DEF HeadStores
<1>6. LinkInv'
  BY <1>1, <1>5, RunKeeps
<1> QED
  BY <1>3, <1>4, <1>5, <1>6 DEF ProvisionTyped, Sources, TriesLeft

LEMMA HandlerStays == ASSUME HandlerKept, UNCHANGED provisionVars PROVE HandlerKept'
BY DEF HandlerKept, ProvisionTyped, Sources, TriesLeft, provisionVars

LEMMA RebootKeeps ==
  ASSUME HandlerKept, CoreReboots
  PROVE  HandlerKept'
<1>1. home' \in BundleType
  BY Bundles, LoadTyped DEF CoreReboots, HandlerKept, ProvisionTyped
<1>2. /\ cred' \in Push /\ ~cred'.armed
      /\ pump' \in PumpType /\ ~pump'.on
      /\ form' \in FormType /\ form'.at = "idle"
      /\ portal' \in PortalType
  BY Bundles, ProvisionAssumption
     DEF CoreReboots, NoPush, NoPump, NoForm, Latch, Push, PumpType, FormType, PortalType
<1> QED
  BY <1>1, <1>2 DEF CoreReboots, HandlerKept, ProvisionTyped, Sources, TriesLeft

-----------------------------------------------------------------------------
LEMMA Starts == Init => ProvisionInv
<1> SUFFICES ASSUME Init PROVE ProvisionInv
  OBVIOUS
<1>1. LinkInv
  BY DEF Init, LinkInit, CoreOff, HeadOn, LinkInv, LinkTyped, CoreState, HeadState,
         Near, OfferedWhole
<1>2. /\ cred \in Push /\ ~cred.armed
      /\ pump \in PumpType /\ ~pump.on
      /\ form \in FormType /\ form.at = "idle"
      /\ portal \in PortalType
  BY Bundles, ProvisionAssumption
     DEF Init, NoPush, NoPump, NoForm, Latch, Push, PumpType, FormType, PortalType
<1> QED
  BY <1>1, <1>2, Bundles
     DEF Init, ProvisionInv, HandlerKept, ProvisionTyped, Sources, TriesLeft

LEMMA Keeps == ProvisionInv /\ [Next]_vars => ProvisionInv'
<1> SUFFICES ASSUME ProvisionInv, [Next]_vars PROVE ProvisionInv'
  OBVIOUS
<1> USE DEF ProvisionInv
<1>1. CASE PostStoreUnlinked \/ PageStatus \/ LatchConfirms \/ LatchTimesOut
  BY <1>1, PageKeeps, LinkStays
     DEF PostStoreUnlinked, PageStatus, LatchConfirms, LatchTimesOut
<1>2. CASE PostStore \/ PostForget \/ HandlerMarks \/ HandlerAttaches \/ HandlerArms
  BY <1>2, StoreKeeps, ForgetKeeps, MarksKeeps, AttachesKeeps, ArmsKeeps, LinkStays
     DEF PostStore, PostForget, HandlerMarks, HandlerAttaches, HandlerArms
<1>3. CASE HandlerPushes \/ PumpSendsBundle
  BY <1>3, PushesKeeps, PumpSendKeeps
<1>4. CASE PumpGivesUp \/ PumpReads \/ PumpHasNothing
  BY <1>4, PumpKeeps, LinkStays DEF PumpGivesUp, PumpReads, PumpHasNothing
<1>5. CASE CoreGetsAck
  BY <1>5, AckedKeeps, LinkStays DEF CoreGetsAck
<1>6. CASE CoreReceives
  BY <1>6, HearKeeps, HandlerStays DEF CoreReceives
<1>7. CASE HeadStores
  BY <1>7, StoresKeeps
<1>8. CASE HeadExecutes
  BY <1>8, RunKeeps, HandlerStays DEF HeadExecutes
<1>9. CASE HeadAnswersAgain
  BY <1>9, AgainKeeps, HandlerStays DEF HeadAnswersAgain
<1>10. CASE LinkSteps
  BY <1>10, LinkStepsKeep, HandlerStays DEF LinkSteps
<1>11. CASE CoreReboots
  BY <1>11, RebootKeeps, CoreOffKeeps DEF CoreReboots
<1>12. CASE UNCHANGED vars
  BY <1>12, LinkStays, HandlerStays DEF vars
<1> QED
  BY <1>1, <1>2, <1>3, <1>4, <1>5, <1>6, <1>7, <1>8, <1>9, <1>10, <1>11, <1>12
     DEF Next, Handler, Pump

(* The induction: types, offers, windows of sequence numbers (Near) and     *)
(* tries left hold in every reachable state.                                *)
LEMMA ProvisionInvariant == Spec => []ProvisionInv
BY Starts, Keeps, PTL DEF Spec

(* Type correctness, and a push is tried at most MaxTries times             *)
(* (LinkServer::pollCredPush).                                              *)
THEOREM ProvisionTypes == Spec => []TypeOK
<1>1. ProvisionInv => TypeOK
  BY DEF ProvisionInv, LinkInv, LinkTyped, HandlerKept, ProvisionTyped, CoreState, HeadState,
         Push, PumpType, PortalType, FormType, TypeOK
<1> QED
  BY ProvisionInvariant, <1>1, PTL

(* No torn save of the core's flash ever reaches the head: the bundles on   *)
(* the link are the networks the user typed (portalRelayStore,              *)
(* LinkServer::pollCredPush).                                               *)
THEOREM OffersAreWhole == Spec => []OfferedWhole
<1>1. ProvisionInv => OfferedWhole
  BY DEF ProvisionInv, LinkInv
<1> QED
  BY ProvisionInvariant, <1>1, PTL

(* In an association the head never runs a command after a later one        *)
(* (LinkClient::handleCmd).                                                 *)
THEOREM CommandsRunInOrder == Spec => RunsInOrder
<1> DEFINE Ordered == head.cmd /\ head'.cmd => head'.last >= head.last
<1>1. ProvisionInv /\ [Next]_vars => [Ordered]_vars
  <2> SUFFICES ASSUME ProvisionInv, Next, head.cmd, head'.cmd
               PROVE  head'.last >= head.last
    OBVIOUS
  <2>1. head \in HeadState /\ head.last \in Nat
    BY DEF ProvisionInv, LinkInv, LinkTyped, HeadState
  <2>2. CASE \E f \in air : HeadRuns(f)
    <3> PICK f \in air : HeadRuns(f)
      BY <2>2
    <3>1. f.n >= head.last
      BY RunsLater DEF ProvisionInv, HeadRuns
    <3>2. head'.last = f.n
      BY <2>1 DEF HeadRuns, HeadAcks, HeadState
    <3> QED
      BY <3>1, <3>2
  <2>3. CASE head'.last = head.last
    BY <2>1, <2>3
  <2>4. \/ \E f \in air : HeadRuns(f)
        \/ head'.last = head.last
    <3>1. CASE Handler \/ Pump
      BY <3>1 DEF Handler, Pump, linkVars, PostStoreUnlinked, PostStore, PostForget,
         HandlerMarks, HandlerAttaches, HandlerPushes, HandlerArms, PageStatus,
         PumpGivesUp, PumpReads, PumpSendsBundle, PumpHasNothing
    <3>2. CASE LatchConfirms \/ LatchTimesOut \/ CoreGetsAck \/ CoreReceives
      BY <3>2 DEF LatchConfirms, LatchTimesOut, CoreGetsAck, CoreReceives, CoreGetsBeat, linkVars
    <3>3. CASE HeadStores \/ HeadExecutes
      BY <3>3 DEF HeadStores, HeadExecutes
    <3>4. CASE HeadAnswersAgain
      BY <2>1, <3>4 DEF HeadAnswersAgain, HeadAgain, HeadAcks, HeadState
    <3>5. CASE LinkSteps
      <4>1. CASE HeadAssociates \/ HeadReboots
        <5>1. CASE HeadAssociates
          <6>1. head' = [[head EXCEPT !.up = TRUE, !.cmd = FALSE] EXCEPT !.tx = @ + 1]
            BY <5>1 DEF HeadAssociates, HeadSendsBeat
          <6>2. ~head'.cmd
            BY <2>1, <6>1 DEF HeadState
          <6> QED
            BY <6>2
        <5>2. CASE HeadReboots
          BY <5>2 DEF HeadReboots, HeadOn
        <5> QED
          BY <4>1, <5>1, <5>2
      <4>2. CASE HeadBeats
        BY <2>1, <4>2 DEF HeadBeats, HeadSendsBeat, HeadState
      <4>3. CASE HeadMarksDown
        BY <2>1, <4>3 DEF HeadMarksDown, HeadState
      <4>4. CASE PumpSends
        BY <4>4 DEF PumpSends
      <4> QED
        BY <3>5, <4>1, <4>2, <4>3, <4>4 DEF LinkSteps
    <3>6. CASE CoreReboots
      BY <2>1, <3>6 DEF CoreReboots, CoreRestarts, HeadState
    <3> QED
      BY <3>1, <3>2, <3>3, <3>4, <3>5, <3>6 DEF Next
  <2> QED
    BY <2>2, <2>3, <2>4
<1> QED
  BY ProvisionInvariant, <1>1, PTL DEF Spec, RunsInOrder

-----------------------------------------------------------------------------
(* Heartbeats.  What the core heard last of the head's boot is either still *)
(* on the link or older than all the heartbeats there that it would call    *)
(* stale: a datagram leaves the link in the order it was minted.            *)

Beats ==
  /\ \A f \in air : f.kind = "hb" => f.boot <= head.boot /\ (f.boot = head.boot => f.n < head.tx)
  /\ core.boot <= head.boot
  /\ core.heard /\ core.boot = head.boot =>
       /\ core.seq < head.tx
       /\ \A f \in air : f.kind = "hb" /\ f.boot = head.boot /\ f.n < core.seq
            => \E g \in air : g.kind = "hb" /\ g.boot = head.boot /\ g.n = core.seq

LEMMA BeatFrame ==
  ASSUME NEW f \in Frame, f.kind = "hb"
  PROVE  f.to = "core" /\ f.n \in Nat /\ f.boot \in Nat
BY LinkAssumption DEF Frame

(* The same heartbeats, and the same ends as far as they are concerned.     *)
LEMMA BeatsSame ==
  ASSUME Beats,
         \A f : f.kind = "hb" => (f \in air' <=> f \in air),
         core'.heard = core.heard, core'.boot = core.boot, core'.seq = core.seq,
         head'.boot = head.boot, head'.tx = head.tx
  PROVE  Beats'
BY DEF Beats

(* A frame of the head. *)
LEMMA BeatsMinted ==
  ASSUME LinkInv, Beats, UNCHANGED core, head'.boot = head.boot, head'.tx = head.tx + 1,
         NEW f \in Frame, f.to = "core", f.n = head.tx, f.kind = "hb" => f.boot = head.boot,
         air' = Put(air, f)
  PROVE  Beats'
<1> USE DEF LinkInv, LinkTyped
<1>1. head.tx \in Nat /\ head.boot \in Nat /\ core.seq \in Nat
  BY DEF HeadState, CoreState
<1>2. \A g \in air' : g = f \/ (g \in air /\ (g.to = f.to => f.n - g.n < Half))
  BY PutFacts
<1>3. ASSUME NEW g \in air', g.kind = "hb"
      PROVE  g.n \in Nat /\ g.boot <= head'.boot /\ (g.boot = head'.boot => g.n < head'.tx)
  <2>1. CASE g = f
    BY <1>1, <1>3, <2>1
  <2>2. CASE g \in air
    <3>1. g.n \in Nat
      BY <1>3, <2>2, BeatFrame
    <3> QED
      BY <1>1, <1>3, <2>2, <3>1 DEF Beats
  <2> QED
    BY <1>2, <2>1, <2>2
<1>4. ASSUME core.heard, core.boot = head.boot
      PROVE  /\ core.seq < head.tx + 1
             /\ \A g \in air' : g.kind = "hb" /\ g.boot = head.boot /\ g.n < core.seq
                  => \E k \in air' : k.kind = "hb" /\ k.boot = head.boot /\ k.n = core.seq
  <2>1. core.seq < head.tx
    BY <1>4 DEF Beats
  <2> SUFFICES ASSUME NEW g \in air', g.kind = "hb", g.boot = head.boot, g.n < core.seq
               PROVE  \E k \in air' : k.kind = "hb" /\ k.boot = head.boot /\ k.n = core.seq
    BY <1>1, <2>1
  <2>2. g.n \in Nat /\ g # f
    BY <1>1, <1>3, <2>1
  <2>3. g \in air /\ g.to = "core" /\ f.n - g.n < Half
    BY <1>2, <2>2, BeatFrame
  <2>4. PICK k \in air : k.kind = "hb" /\ k.boot = head.boot /\ k.n = core.seq
    BY <1>4, <2>3 DEF Beats
  <2>5. f.n - k.n < Half
    BY <1>1, <2>1, <2>2, <2>3, <2>4, Halves
  <2>6. k \in air'
    BY <2>4, <2>5 DEF Put
  <2> QED
    BY <2>4, <2>6
<1> QED
  BY <1>3, <1>4 DEF Beats

(* The core hears a heartbeat: it is on the link still. *)
LEMMA BeatsHeard ==
  ASSUME LinkInv, Beats, NEW f \in air, CoreGetsBeat(f)
  PROVE  Beats'
<1> USE DEF LinkInv, LinkTyped
<1>1. /\ f.kind = "hb" /\ UNCHANGED <<head, air>>
      /\ core'.heard = TRUE /\ core'.boot = f.boot /\ core'.seq = f.n
  BY DEF CoreGetsBeat, CoreState
<1>2. f.boot <= head.boot /\ (f.boot = head.boot => f.n < head.tx)
  BY <1>1 DEF Beats
<1> QED
  BY <1>1, <1>2 DEF Beats

LEMMA BeatsStart == Init => Beats
BY DEF Init, LinkInit, CoreOff, HeadOn, Beats

(* A frame that the core sends is no heartbeat. *)
LEMMA BeatsSent ==
  ASSUME LinkInv, Beats, NEW f \in Frame, f.to = "head", NEW sent, CoreSends(f, sent),
         UNCHANGED head
  PROVE  Beats'
<1> USE DEF LinkInv, LinkTyped
<1>1. core'.heard = core.heard /\ core'.boot = core.boot /\ core'.seq = core.seq
  BY DEF CoreSends, CoreState
<1>2. f.kind # "hb"
  BY BeatFrame
<1>3. ASSUME NEW g, g.kind = "hb"
      PROVE  g \in air' <=> g \in air
  <2>1. g \in air => g.to = "core"
    BY <1>3, BeatFrame
  <2>2. air' = Put(air, f) \/ air' = air
    BY DEF CoreSends
  <2> QED
    BY <1>2, <1>3, <2>1, <2>2 DEF Put
<1> QED
  BY <1>1, <1>3, BeatsSame

LEMMA BeatsLink ==
  ASSUME LinkInv, Beats, LinkSteps
  PROVE  Beats'
<1> USE DEF LinkInv, LinkTyped
<1>1. CASE HeadAssociates \/ HeadBeats
  <2> DEFINE f == Heartbeat(head.tx, head.boot)
  <2>1. head.tx \in Nat /\ head.boot \in Nat
    BY DEF HeadState
  <2>2. f \in Frame /\ f.to = "core" /\ f.n = head.tx /\ f.boot = head.boot
    BY <2>1, Minted DEF Heartbeat
  <2>3. head'.boot = head.boot /\ head'.tx = head.tx + 1 /\ UNCHANGED core
    BY <1>1 DEF HeadAssociates, HeadBeats, HeadSendsBeat, HeadState
  <2>4. air' = Put(air, f)
    BY <1>1 DEF HeadAssociates, HeadBeats, HeadSendsBeat
  <2> HIDE DEF f
  <2> QED
    BY <2>2, <2>3, <2>4, BeatsMinted
<1>2. CASE HeadMarksDown
  <2>1. \A f : f.kind = "hb" => (f \in air' <=> f \in air)
    BY <1>2, BeatFrame DEF HeadMarksDown, ForCore
  <2>2. head'.boot = head.boot /\ head'.tx = head.tx /\ core' = core
    BY <1>2 DEF HeadMarksDown, HeadState
  <2> QED
    BY <2>1, <2>2, BeatsSame
<1>3. CASE HeadReboots
  <2>1. head'.boot = head.boot + 1 /\ core' = core /\ air' \subseteq air
    BY <1>3 DEF HeadReboots, HeadOn, ForCore
  <2>2. head.boot \in Nat /\ core.boot \in Nat /\ core.boot < head'.boot
    BY <2>1 DEF Beats, HeadState, CoreState
  <2>3. \A f \in air' : f.kind = "hb" => f.boot < head'.boot
    BY <2>1, <2>2, BeatFrame DEF Beats
  <2>4. \A f \in air' : f.kind = "hb" => f.boot \in Nat
    BY <2>1, BeatFrame
  <2> QED
    BY <2>1, <2>2, <2>3, <2>4 DEF Beats
<1>4. CASE PumpSends
  <2>1. PICK kind \in Commands :
          CoreSends(Command(kind, core.tx), TRUE) /\ UNCHANGED head
    BY <1>4 DEF PumpSends
  <2>2. Command(kind, core.tx) \in Frame /\ Command(kind, core.tx).to = "head"
    BY Minted DEF CoreState, Command
  <2> QED
    BY <2>1, <2>2, BeatsSent
<1> QED
  BY <1>1, <1>2, <1>3, <1>4 DEF LinkSteps

LEMMA BeatsAnswered ==
  ASSUME LinkInv, Beats, UNCHANGED core, NEW f \in air, HeadRuns(f) \/ HeadAgain(f)
  PROVE  Beats'
<1> USE DEF LinkInv, LinkTyped
<1> DEFINE a == Ack(head.tx, f.n)
<1>1. head.tx \in Nat /\ f.n \in Nat
  BY FrameFacts DEF HeadState
<1>2. a \in Frame /\ a.to = "core" /\ a.n = head.tx /\ a.kind # "hb"
  BY <1>1, Minted DEF Ack
<1>3. head'.boot = head.boot /\ head'.tx = head.tx + 1 /\ air' = Put(air, a)
  BY DEF HeadRuns, HeadAgain, HeadAcks, HeadState
<1> HIDE DEF a
<1> QED
  BY <1>2, <1>3, BeatsMinted

LEMMA BeatsKeep == ProvisionInv /\ Beats /\ [Next]_vars => Beats'
<1> SUFFICES ASSUME ProvisionInv, Beats, [Next]_vars PROVE Beats'
  OBVIOUS
<1> USE DEF ProvisionInv
<1>1. CASE UNCHANGED <<core, head, air>>
  BY <1>1, BeatsSame
<1>2. CASE HandlerPushes \/ PumpSendsBundle
  <2>1. PICK bundle, sent : /\ bundle \in BundleType /\ UNCHANGED head
                            /\ CoreSends(Creds(core.tx, bundle), sent)
    <3>1. Pushed \in BundleType /\ pump.body \in BundleType
      BY Bundles DEF HandlerKept, ProvisionTyped, Pushed, PumpType
    <3>2. CASE HandlerPushes
      <4>1. \E sent : CoreSends(Creds(core.tx, Pushed), sent)
        BY <3>2 DEF HandlerPushes
      <4> QED
        BY <3>1, <3>2, <4>1 DEF HandlerPushes
    <3>3. CASE PumpSendsBundle
      <4>1. \E sent : CoreSends(Creds(core.tx, pump.body), sent)
        BY <3>3 DEF PumpSendsBundle
      <4>2. UNCHANGED head
        BY <3>3 DEF PumpSendsBundle
      <4> QED
        BY <3>1, <4>1, <4>2
    <3> QED
      BY <1>2, <3>2, <3>3
  <2>2. Creds(core.tx, bundle) \in Frame /\ Creds(core.tx, bundle).to = "head"
    BY <2>1, Minted DEF LinkInv, LinkTyped, CoreState, Creds
  <2> QED
    BY <2>1, <2>2, BeatsSent
<1>3. CASE CoreReceives
  BY <1>3, BeatsHeard DEF CoreReceives
<1>4. CASE HeadStores \/ HeadExecutes \/ HeadAnswersAgain
  BY <1>4, BeatsAnswered DEF HeadStores, HeadExecutes, HeadAnswersAgain, HeadAgain
<1>5. CASE LinkSteps
  BY <1>5, BeatsLink
<1>6. CASE CoreReboots
  <2>1. core'.boot = 0 /\ ~core'.heard /\ air' = {} /\ head'.boot = head.boot
    BY <1>6 DEF CoreReboots, CoreRestarts, CoreOff, LinkInv, LinkTyped, HeadState
  <2> QED
    BY <2>1 DEF Beats, LinkInv, LinkTyped, HeadState
<1>7. \/ UNCHANGED <<core, head, air>>
      \/ HandlerPushes \/ PumpSendsBundle \/ CoreReceives
      \/ HeadStores \/ HeadExecutes \/ HeadAnswersAgain \/ LinkSteps \/ CoreReboots
  BY DEF Next, Handler, Pump, vars, linkVars, PostStoreUnlinked, PostStore, PostForget,
     HandlerMarks, HandlerAttaches, HandlerArms, PageStatus, LatchConfirms, LatchTimesOut,
     PumpGivesUp, PumpReads, PumpHasNothing, CoreGetsAck
<1> QED
  BY <1>1, <1>2, <1>3, <1>4, <1>5, <1>6, <1>7

LEMMA BeatsAlways == Spec => []Beats
BY BeatsStart, BeatsKeep, ProvisionInvariant, PTL DEF Spec

(* What the core heard of the head's boot is within half a range of what    *)
(* the head has sent since.                                                 *)
HeardLately == core.heard /\ core.boot = head.boot => head.tx - core.seq <= Half

(* A frame that is ahead by less than half a range is not stale.            *)
LEMMA Ahead ==
  ASSUME NEW n \in Nat, NEW last \in Nat, n >= last, n - last < Half, NEW have
  PROVE  Classify(have, last, n) # "stale"
<1>1. n - last \in 0 .. SeqMod - 1
  BY Halves
<1>2. (n - last) % SeqMod = n - last
  BY <1>1, Halves
<1> QED
  BY <1>1, <1>2, Halves DEF Classify

(* While no more than half a range of frames goes unheard, the newest       *)
(* heartbeat of the head's boot is never taken for a stale one, whatever    *)
(* older ones and ones of earlier boots arrived before it                   *)
(* (LinkServer::handleHb).                                                  *)
THEOREM NewestIsHeard == Spec => [](HeardLately => NewestBeatHeard)
<1>1. ProvisionInv /\ Beats => (HeardLately => NewestBeatHeard)
  <2> SUFFICES ASSUME LinkInv, Beats, HeardLately,
                      NEW f \in air, f.kind = "hb", f.boot = head.boot, ~Hears(f)
               PROVE  \E g \in air : g.kind = "hb" /\ g.boot = f.boot /\ g.n > f.n
    BY DEF ProvisionInv, NewestBeatHeard
  <2> USE DEF LinkInv, LinkTyped
  <2>1. core.boot = head.boot /\ core.heard /\ Classify(core.heard, core.seq, f.n) = "stale"
    BY DEF Hears, Classify
  <2>2. f.n \in Nat /\ core.seq \in Nat /\ head.tx \in Nat /\ f.n < head.tx
    BY BeatFrame DEF Beats, CoreState, HeadState
  <2>3. ~(f.n >= core.seq)
    <3> SUFFICES ASSUME f.n >= core.seq PROVE FALSE
      OBVIOUS
    <3>1. head.tx - core.seq <= Half
      BY <2>1 DEF HeardLately
    <3>2. f.n - core.seq < Half
      BY <2>2, <3>1, Halves
    <3> QED
      BY <2>1, <2>2, <3>2, Ahead
  <2>4. PICK g \in air : g.kind = "hb" /\ g.boot = head.boot /\ g.n = core.seq
    BY <2>1, <2>2, <2>3 DEF Beats
  <2> QED
    BY <2>2, <2>3, <2>4
<1> QED
  BY ProvisionInvariant, BeatsAlways, <1>1, PTL

-----------------------------------------------------------------------------
(* The numbers stay within the bounds. *)

Bounded == core.tx <= MaxSends /\ head.tx <= MaxReplies

LEMMA BoundedKeep == ProvisionInv /\ Bounded /\ [Next]_vars => Bounded'
<1> SUFFICES ASSUME ProvisionInv, Bounded, [Next]_vars PROVE Bounded'
  OBVIOUS
<1> USE DEF ProvisionInv, LinkInv, LinkTyped, Bounded
<1>1. core.tx \in Nat /\ head.tx \in Nat /\ MaxSends \in Nat /\ MaxReplies \in Nat
  BY LinkAssumption DEF CoreState, HeadState
<1>2. core'.tx = core.tx \/ (core.tx < MaxSends /\ core'.tx = core.tx + 1) \/ core'.tx = 0
  <2>1. CASE UNCHANGED core
    BY <2>1
  <2>2. CASE \E f, sent : CoreSends(f, sent)
    BY <2>2 DEF CoreSends, CoreCanMint, CoreState
  <2>3. CASE CoreReceives
    BY <2>3 DEF CoreReceives, CoreGetsBeat, CoreCanMint, CoreState
  <2>4. CASE CoreReboots
    BY <2>4 DEF CoreReboots, CoreRestarts, CoreOff
  <2>5. \/ UNCHANGED core \/ HandlerPushes \/ PumpSendsBundle \/ PumpSends
        \/ CoreReceives \/ CoreReboots
    BY DEF Next, Handler, Pump, LinkSteps, vars, linkVars, PostStoreUnlinked, PostStore,
       PostForget, HandlerMarks, HandlerAttaches, HandlerArms, PageStatus, LatchConfirms,
       LatchTimesOut, PumpGivesUp, PumpReads, PumpHasNothing, CoreGetsAck, HeadStores,
       HeadExecutes, HeadAnswersAgain, HeadAgain, HeadAssociates, HeadBeats, HeadMarksDown,
       HeadReboots
  <2>6. HandlerPushes \/ PumpSendsBundle \/ PumpSends => \E f, sent : CoreSends(f, sent)
    <3>1. HandlerPushes => \E f, sent : CoreSends(f, sent)
      BY DEF HandlerPushes
    <3>2. PumpSendsBundle => \E f, sent : CoreSends(f, sent)
      BY DEF PumpSendsBundle
    <3>3. PumpSends => \E f, sent : CoreSends(f, sent)
      BY DEF PumpSends
    <3> QED
      BY <3>1, <3>2, <3>3
  <2> QED
    BY <2>1, <2>2, <2>3, <2>4, <2>5, <2>6
<1>3. head'.tx = head.tx \/ (head.tx < MaxReplies /\ head'.tx = head.tx + 1) \/ head'.tx = 0
  <2>1. CASE UNCHANGED head
    BY <2>1
  <2>2. CASE \E f \in air : HeadRuns(f) \/ HeadAgain(f)
    BY <2>2 DEF HeadRuns, HeadAgain, HeadGets, HeadAcks, HeadCanMint, HeadState
  <2>3. CASE HeadAssociates \/ HeadBeats
    BY <2>3 DEF HeadAssociates, HeadBeats, HeadSendsBeat, HeadCanMint, HeadState
  <2>4. CASE HeadMarksDown \/ HeadReboots
    BY <2>4 DEF HeadMarksDown, HeadReboots, HeadOn, HeadState
  <2>5. CASE CoreReboots
    BY <2>5 DEF CoreReboots, CoreRestarts, HeadState
  <2>6. CASE PumpSends
    BY <2>1, <2>6 DEF PumpSends
  <2>7. \/ UNCHANGED head \/ (\E f \in air : HeadRuns(f) \/ HeadAgain(f))
        \/ LinkSteps \/ CoreReboots
    <3>1. CASE HeadStores \/ HeadExecutes \/ HeadAnswersAgain
      <4>1. CASE HeadStores
        BY <4>1 DEF HeadStores
      <4>2. CASE HeadExecutes
        BY <4>2 DEF HeadExecutes
      <4>3. CASE HeadAnswersAgain
        BY <4>3 DEF HeadAnswersAgain
      <4> QED
        BY <3>1, <4>1, <4>2, <4>3
    <3>2. CASE Handler \/ Pump
      <4>1. Handler => UNCHANGED head
        <5>1. PostStore \/ PostForget => UNCHANGED head
          BY DEF PostStore, PostForget, linkVars
        <5>2. HandlerPushes => UNCHANGED head
          BY DEF HandlerPushes
        <5> QED
          <6>1. PostStoreUnlinked \/ PageStatus => UNCHANGED head
            BY DEF linkVars, PostStoreUnlinked, PageStatus
          <6>2. HandlerMarks \/ HandlerAttaches \/ HandlerArms => UNCHANGED head
            BY DEF linkVars, HandlerMarks, HandlerAttaches, HandlerArms
          <6> QED
            BY <5>1, <5>2, <6>1, <6>2 DEF Handler
      <4>2. Pump => UNCHANGED head
        <5>1. PumpSendsBundle => UNCHANGED head
          BY DEF PumpSendsBundle
        <5>2. PumpGivesUp \/ PumpReads \/ PumpHasNothing => UNCHANGED head
          BY DEF linkVars, PumpGivesUp, PumpReads, PumpHasNothing
        <5> QED
          BY <5>1, <5>2 DEF Pump
      <4> QED
        BY <3>2, <4>1, <4>2
    <3>3. CASE CoreReceives
      BY <3>3 DEF CoreReceives, CoreGetsBeat
    <3> QED
      BY <3>1, <3>2, <3>3 DEF Next, vars, linkVars, LatchConfirms, LatchTimesOut, CoreGetsAck
  <2> QED
    BY <2>1, <2>2, <2>3, <2>4, <2>5, <2>6, <2>7 DEF LinkSteps
<1> QED
  BY <1>1, <1>2, <1>3

LEMMA BoundedAlways == Spec => []Bounded
<1>1. Init => Bounded
  BY LinkAssumption DEF Init, LinkInit, CoreOff, HeadOn, Bounded
<1> QED
  BY <1>1, BoundedKeep, ProvisionInvariant, PTL DEF Spec

(* The same for a head that does not send more than half a range in a boot. *)
THEOREM NewestIsHeardInRange ==
  ASSUME MaxReplies <= Half
  PROVE  Spec => []NewestBeatHeard
<1>1. ProvisionInv /\ Bounded => HeardLately
  BY LinkAssumption, Halves
     DEF ProvisionInv, LinkInv, LinkTyped, CoreState, HeadState, Bounded, HeardLately
<1> QED
  BY NewestIsHeard, ProvisionInvariant, BoundedAlways, <1>1, PTL

-----------------------------------------------------------------------------
(* Confirmations.  While the handler has sent a bundle and not yet armed    *)
(* its push, the push that counts is the one it is about to arm.            *)

LastSeq == IF form.at = "arm" THEN form.seq ELSE cred.seq
LastBody == IF form.at = "arm" THEN Pushed ELSE cred.body
Offered == form.at = "arm" \/ cred.tries >= 1

(* The pump and the handler take turns, and neither sends for a push that   *)
(* is confirmed.                                                            *)
Turns ==
  /\ pump.on => form.at = "idle" /\ ~cred.confirmed /\ cred.tries >= 1
  /\ cred.confirmed => cred.tries >= 1

(* No bundle on the link is later than the last push, and the frame with    *)
(* its number is that push.                                                 *)
LastPush ==
  /\ \A f \in air : f.kind = "ack" => f.of < core.tx
  /\ Offered => LastSeq < core.tx
  /\ \A f \in air : f.kind = "creds" => Offered /\ f.n <= LastSeq
  /\ Offered => \A f \in air :
       ToHead(f) /\ f.n = LastSeq => f.kind = "creds" /\ f.bundle = LastBody

(* The head ran the last push, as far as either end or the link can tell.   *)
Ran ==
  Offered /\ \/ cred.confirmed /\ form.at # "arm"
             \/ \E f \in air : f.kind = "ack" /\ f.of = LastSeq
             \/ head.up /\ head.cmd /\ head.last = LastSeq

(* Then the head has it in flash, and runs no earlier bundle any more.      *)
Held ==
  Ran => /\ faults.head = 0 => Load(stored) = LastBody
         /\ (\E f \in air : f.kind = "creds" /\ f.n < LastSeq)
              => head.up /\ head.cmd /\ head.last >= LastSeq

HeldInv == Turns /\ LastPush /\ Held

(* Numbers that are told apart by their 16 bits: no acknowledgement, nor    *)
(* the last command the head ran, nor an armed push is further back than    *)
(* one range.                                                               *)
InRange ==
  /\ \A f \in air : f.kind = "ack" => core.tx - f.of <= SeqMod
  /\ head.up /\ head.cmd => core.tx - head.last <= SeqMod
  /\ cred.armed => core.tx - cred.seq <= SeqMod

LEMMA SameNumber ==
  ASSUME NEW a \in Nat, NEW b \in Nat, a - b < SeqMod, b - a < SeqMod, (a - b) % SeqMod = 0
  PROVE  a = b
<1>1. CASE a >= b
  <2>1. (a - b) % SeqMod = a - b
    BY <1>1, Halves
  <2> QED
    BY <2>1, <1>1
<1>2. CASE a < b
  <2>1. b - a \in Nat /\ b - a > 0 /\ a - b = 0 - (b - a)
    BY <1>2
  <2>2. (a - b) % SeqMod = SeqMod - (b - a)
    BY <2>1, Halves, Wraps
  <2> QED
    BY <2>2, <1>2, Halves
<1> QED
  BY <1>1, <1>2

LEMMA CredsFrame ==
  ASSUME NEW f \in Frame
  PROVE  /\ f.kind = "creds" => ToHead(f) /\ f.bundle \in BundleType
         /\ f.kind = "ack" => ~ToHead(f) /\ f.of \in Nat
         /\ f.kind \in Commands => f.kind # "creds" /\ ToHead(f)
         /\ ToHead(f) /\ f.kind \notin Commands => f.kind = "creds"
         /\ f.n \in Nat
BY LinkAssumption, ProvisionAssumption DEF Frame, ToHead

LEMMA LastTyped ==
  ASSUME HandlerKept
  PROVE  LastSeq \in Nat /\ LastBody \in BundleType
BY Bundles DEF HandlerKept, ProvisionTyped, LastSeq, LastBody, Pushed, Push, FormType

(* Nothing new of the last push: the link may lose bundles, gain other      *)
(* commands and acknowledgements of others.                                 *)
LEMMA HeldFrame ==
  ASSUME LinkInv, HandlerKept, LastPush, Held, core'.tx \in Nat, core'.tx >= core.tx,
         head' \in HeadState,
         Offered' <=> Offered, LastSeq' = LastSeq, LastBody' = LastBody,
         air' \subseteq Frame,
         \A f \in air' : ToHead(f) => f \in air \/ (f.kind # "creds" /\ f.n = core.tx),
         \A f \in air' : f.kind = "ack" =>
           f \in air \/ (f.of < core.tx /\ (Offered /\ f.of = LastSeq => Ran)),
         Offered /\ cred'.confirmed /\ form'.at # "arm" => Ran,
         Offered /\ head'.up /\ head'.cmd /\ head'.last = LastSeq => Ran,
         UNCHANGED stored, faults'.head = faults.head,
         \/ \A f \in air' : f.kind # "creds"
         \/ ~head.up /\ head'.up
         \/ head.up /\ head.cmd => head'.up /\ head'.cmd /\ head'.last >= head.last
  PROVE  LastPush' /\ Held'
<1> USE DEF LinkInv, LinkTyped
<1>1. core.tx \in Nat /\ head.last \in Nat /\ LastSeq \in Nat
  BY LastTyped DEF CoreState, HeadState
<1>2. \A f \in air' : f.kind = "creds" => f \in air
  BY CredsFrame
<1>3. ASSUME NEW f \in air', f.kind = "ack"
      PROVE  f.of < core'.tx
  <2>1. f.of \in Nat /\ f.of < core.tx
    BY <1>3, CredsFrame DEF LastPush
  <2> QED
    BY <1>1, <2>1
<1>4. Offered' => LastSeq' < core'.tx
  BY <1>1 DEF LastPush
<1>5. \A f \in air' : f.kind = "creds" => Offered' /\ f.n <= LastSeq'
  BY <1>2 DEF LastPush
<1>6. ASSUME Offered', NEW f \in air', ToHead(f), f.n = LastSeq'
      PROVE  f.kind = "creds" /\ f.bundle = LastBody'
  <2>1. f \in air
    BY <1>1, <1>6 DEF LastPush
  <2> QED
    BY <1>6, <2>1 DEF LastPush
<1>7. LastPush'
  BY <1>3, <1>4, <1>5, <1>6 DEF LastPush
<1>8. Ran' => Ran
  BY DEF Ran
<1>9. ASSUME Ran', NEW f \in air', f.kind = "creds", f.n < LastSeq'
      PROVE  head'.up /\ head'.cmd /\ head'.last >= LastSeq'
  <2>1. f \in air
    BY <1>2, <1>9
  <2>2. head.up /\ head.cmd /\ head.last >= LastSeq
    BY <1>8, <1>9, <2>1 DEF Held
  <2>3. head'.up /\ head'.cmd /\ head'.last >= head.last
    BY <1>9, <2>2
  <2>4. head'.last >= LastSeq
    BY <1>1, <2>2, <2>3 DEF HeadState
  <2> QED
    BY <2>3, <2>4
<1>10. Held'
  BY <1>8, <1>9 DEF Held
<1> QED
  BY <1>7, <1>10

(* What no step of the link touches. *)
LEMMA SamePush ==
  ASSUME UNCHANGED <<home, cred, form>>
  PROVE  (Offered' <=> Offered) /\ LastSeq' = LastSeq /\ LastBody' = LastBody
BY DEF Offered, LastSeq, LastBody, Pushed

LEMMA HeldOnLink ==
  ASSUME LinkInv, HandlerKept, LastPush, Held, LinkSteps
  PROVE  LastPush' /\ Held'
<1> USE DEF LinkInv, LinkTyped
<1>1. UNCHANGED provisionVars
  BY DEF LinkSteps
<1>2. (Offered' <=> Offered) /\ LastSeq' = LastSeq /\ LastBody' = LastBody
  BY <1>1, SamePush DEF provisionVars
<1>3. UNCHANGED stored /\ faults'.head = faults.head /\ (cred'.confirmed <=> cred.confirmed)
      /\ form'.at = form.at
  BY <1>1 DEF provisionVars
<1>4. Offered /\ cred'.confirmed /\ form'.at # "arm" => Ran
  BY <1>3 DEF Ran
<1>5. core.tx \in Nat /\ head.tx \in Nat /\ head.boot \in Nat
  BY DEF CoreState, HeadState
<1>6. LinkInv'
  BY LinkStepsKeep
<1>7. head' \in HeadState /\ air' \subseteq Frame
  BY <1>6
<1>8. CASE HeadAssociates \/ HeadBeats
  <2> DEFINE f == Heartbeat(head.tx, head.boot)
  <2>1. ~ToHead(f) /\ f.kind # "ack"
    BY <1>5, Minted DEF Heartbeat
  <2>2. core' = core /\ air' = Put(air, f)
    BY <1>8 DEF HeadAssociates, HeadBeats, HeadSendsBeat
  <2>3. \/ ~head.up /\ head'.up /\ ~head'.cmd
        \/ head'.up = head.up /\ head'.cmd = head.cmd /\ head'.last = head.last
    <3>1. CASE HeadAssociates
      <4>1. head' = [[head EXCEPT !.up = TRUE, !.cmd = FALSE] EXCEPT !.tx = @ + 1] /\ ~head.up
        BY <3>1 DEF HeadAssociates, HeadSendsBeat
      <4> QED
        BY <4>1 DEF HeadState
    <3>2. CASE HeadBeats
      BY <3>2 DEF HeadBeats, HeadSendsBeat, HeadState
    <3> QED
      BY <1>8, <3>1, <3>2
  <2> HIDE DEF f
  <2>4. \A g \in air' : g = f \/ g \in air
    BY <2>2, PutFacts
  <2>5. head.last \in Nat /\ (Offered /\ head'.up /\ head'.cmd /\ head'.last = LastSeq => Ran)
    BY <2>3 DEF Ran, HeadState
  <2> QED
    BY <1>2, <1>3, <1>4, <1>5, <1>7, <2>1, <2>2, <2>3, <2>4, <2>5, HeldFrame
<1>9. CASE HeadMarksDown \/ HeadReboots
  <2>1. core' = core /\ air' = ForCore(air) /\ ~head'.up
    BY <1>9 DEF HeadMarksDown, HeadReboots, HeadOn, HeadState
  <2>2. \A g \in air' : g \in air /\ ~ToHead(g)
    BY <2>1 DEF ForCore, ToHead
  <2>3. \A g \in air' : g.kind # "creds"
    BY <1>7, <2>2, CredsFrame
  <2> QED
    BY <1>2, <1>3, <1>4, <1>5, <1>7, <2>1, <2>2, <2>3, HeldFrame
<1>10. CASE PumpSends
  <2>1. PICK kind \in Commands :
          CoreSends(Command(kind, core.tx), TRUE) /\ UNCHANGED head
    BY <1>10 DEF PumpSends
  <2> DEFINE f == Command(kind, core.tx)
  <2>2. f.n = core.tx /\ f.kind \notin {"creds", "ack"}
    BY LinkAssumption, ProvisionAssumption DEF Command
  <2>3. core'.tx = core.tx + 1 /\ air' = Put(air, f) /\ head' = head
    BY <2>1 DEF CoreSends, CoreState
  <2> HIDE DEF f
  <2>4. \A g \in air' : g = f \/ g \in air
    BY <2>3, PutFacts
  <2>5. core'.tx \in Nat /\ core'.tx >= core.tx
    BY <1>5, <2>3
  <2>6. head.last \in Nat /\ (Offered /\ head'.up /\ head'.cmd /\ head'.last = LastSeq => Ran)
    BY <2>3 DEF Ran, HeadState
  <2> QED
    BY <1>2, <1>3, <1>4, <1>7, <2>2, <2>3, <2>4, <2>5, <2>6, HeldFrame
<1> QED
  BY <1>8, <1>9, <1>10 DEF LinkSteps

(* A heartbeat heard. *)
LEMMA HeldHearing ==
  ASSUME LinkInv, HandlerKept, LastPush, Held, CoreReceives
  PROVE  LastPush' /\ Held'
<1> USE DEF LinkInv, LinkTyped
<1>1. UNCHANGED <<head, air, provisionVars>> /\ core'.tx = core.tx + 1
  BY DEF CoreReceives, CoreGetsBeat, CoreState
<1>2. (Offered' <=> Offered) /\ LastSeq' = LastSeq /\ LastBody' = LastBody
  BY <1>1, SamePush DEF provisionVars
<1>3. core.tx \in Nat /\ head.last \in Nat /\ core'.tx \in Nat /\ core'.tx >= core.tx
  BY <1>1 DEF CoreState, HeadState
<1>4. UNCHANGED stored /\ faults'.head = faults.head /\ cred' = cred /\ form' = form
  BY <1>1 DEF provisionVars
<1> QED
  BY <1>1, <1>2, <1>3, <1>4, HeldFrame DEF Ran

(* A duplicate is answered: it is the last command that ran. *)
LEMMA HeldAgain ==
  ASSUME LinkInv, HandlerKept, LastPush, Held, InRange, HeadAnswersAgain
  PROVE  LastPush' /\ Held'
<1> USE DEF LinkInv, LinkTyped
<1>1. PICK f \in air : HeadAgain(f)
  BY DEF HeadAnswersAgain
<1>2. UNCHANGED provisionVars /\ core' = core
  BY <1>1 DEF HeadAnswersAgain, HeadAgain
<1>3. (Offered' <=> Offered) /\ LastSeq' = LastSeq /\ LastBody' = LastBody
  BY <1>2, SamePush DEF provisionVars
<1>4. head.up /\ head.cmd /\ (f.n - head.last) % SeqMod = 0 /\ ToHead(f)
  BY <1>1 DEF HeadAgain, HeadGets, Classify, ToHead
<1>5. f.n \in Nat /\ head.last \in Nat /\ core.tx \in Nat /\ head.tx \in Nat
  BY CredsFrame DEF CoreState, HeadState
<1>6. f.n < core.tx /\ head.last - f.n < Half
  BY <1>4 DEF Near
<1>7. core.tx - head.last <= SeqMod
  BY <1>4 DEF InRange
<1>8. f.n - head.last < SeqMod /\ head.last - f.n < SeqMod
  BY <1>5, <1>6, <1>7, Halves
<1>9. f.n = head.last
  BY <1>4, <1>5, <1>8, SameNumber
<1> DEFINE a == Ack(head.tx, f.n)
<1>10. a.of = f.n /\ a.kind = "ack" /\ ~ToHead(a)
  BY <1>5, Minted DEF Ack
<1>11. /\ head' \in HeadState /\ head'.up = head.up /\ head'.cmd = head.cmd
       /\ head'.last = head.last /\ air' = Put(air, a)
  BY <1>1, <1>5 DEF HeadAgain, HeadAcks, HeadState
<1> HIDE DEF a
<1>12. \A g \in air' : g = a \/ g \in air
  BY <1>11, PutFacts
<1>13. Offered /\ a.of = LastSeq => Ran
  BY <1>4, <1>9, <1>10 DEF Ran
<1>14. LinkInv'
  BY <1>1, AgainKeeps
<1>15. UNCHANGED stored /\ faults'.head = faults.head /\ cred' = cred /\ form' = form
  BY <1>2 DEF provisionVars
<1>16. /\ Offered /\ cred'.confirmed /\ form'.at # "arm" => Ran
       /\ Offered /\ head'.up /\ head'.cmd /\ head'.last = LastSeq => Ran
  BY <1>11, <1>15 DEF Ran
<1> QED
  BY <1>2, <1>3, <1>5, <1>6, <1>10, <1>11, <1>12, <1>13, <1>14, <1>15, <1>16, HeldFrame

(* A saved bundle reads back. *)
LEMMA KeptLoads ==
  ASSUME NEW bundle \in BundleType, IsWhole(bundle), stored \in KeysType
  PROVE  Load(HeadKeeps(bundle, Field)) = bundle
<1>1. CASE bundle = NoNet
  BY <1>1 DEF HeadKeeps, Load, Usable, NoKeys, NoNet
<1>2. CASE bundle # NoNet
  <2>1. bundle.ssid # "none"
    BY <1>2 DEF IsWhole, NoNet, BundleType
  <2> DEFINE w == Written(stored, bundle, Field)
  <2>2. w.ssid = bundle.ssid /\ w.pass = bundle.pass /\ w.ok
    BY DEF Written, Field, KeysType
  <2> HIDE DEF w
  <2>3. Load(w) = [ssid |-> bundle.ssid, pass |-> bundle.pass]
    BY <2>1, <2>2 DEF Load, Usable
  <2>4. Load(w) = bundle
    BY <2>3 DEF BundleType
  <2> QED
    BY <1>2, <2>4 DEF HeadKeeps, w
<1> QED
  BY <1>1, <1>2

(* A command runs, a bundle or another: the last push itself, or one that   *)
(* tells nothing of it; after it no earlier bundle.                         *)
LEMMA HeldRuns ==
  ASSUME LinkInv, HandlerKept, LastPush, Held, HeadStores \/ HeadExecutes
  PROVE  LastPush' /\ Held'
<1> USE DEF LinkInv, LinkTyped
<1>1. PICK f \in air : /\ HeadRuns(f) /\ UNCHANGED <<core, home, cred, form>>
                       /\ f.kind # "creds" => UNCHANGED <<stored, faults>>
                       /\ f.kind = "creds" =>
                            \E fields \in SUBSET Field :
                              /\ stored' = HeadKeeps(f.bundle, fields)
                              /\ Fault("head", fields # Field)
  <2>1. CASE HeadStores
    BY <2>1 DEF HeadStores
  <2>2. CASE HeadExecutes
    BY <2>2, LinkAssumption, ProvisionAssumption DEF HeadExecutes, provisionVars
  <2> QED
    BY <2>1, <2>2
<1>2. (Offered' <=> Offered) /\ LastSeq' = LastSeq /\ LastBody' = LastBody
  BY <1>1, SamePush
<1>3. /\ f.n \in Nat /\ head.last \in Nat /\ core.tx \in Nat /\ head.tx \in Nat
      /\ LastSeq \in Nat /\ ToHead(f)
  BY <1>1, CredsFrame, LastTyped DEF CoreState, HeadState, HeadRuns, HeadGets, ToHead
<1> DEFINE a == Ack(head.tx, f.n)
<1>4. a.of = f.n /\ a.kind = "ack" /\ ~ToHead(a)
  BY <1>3, Minted DEF Ack
<1>5. /\ head.up /\ (head.cmd => f.n >= head.last)
      /\ head' \in HeadState /\ head'.up /\ head'.cmd /\ head'.last = f.n /\ air' = Put(air, a)
  <2>1. head.up /\ (head.cmd => f.n >= head.last)
    BY <1>1, RunsLater DEF HeadRuns, HeadGets
  <2>2. head' \in HeadState
    BY <1>1, RunKeeps
  <2>3. head'.up /\ head'.cmd /\ head'.last = f.n /\ air' = Put(air, a)
    BY <1>1, <2>1 DEF HeadRuns, HeadAcks, HeadState
  <2> QED
    BY <2>1, <2>2, <2>3
<1>6. f.n < core.tx
  BY <1>3 DEF Near
<1> HIDE DEF a
<1>7. \A g \in air' : g = a \/ g \in air
  BY <1>5, PutFacts
<1>8. air' \subseteq Frame
  BY <1>1, RunKeeps
<1>9. CASE Offered /\ f.n = LastSeq
  <2>1. f.kind = "creds" /\ f.bundle = LastBody
    BY <1>3, <1>9 DEF LastPush
  <2>2. PICK fields \in SUBSET Field :
          stored' = HeadKeeps(f.bundle, fields) /\ Fault("head", fields # Field)
    BY <1>1, <2>1
  <2>3. faults'.head = 0 => Load(stored') = LastBody
    <3> SUFFICES ASSUME faults'.head = 0 PROVE Load(stored') = LastBody
      OBVIOUS
    <3>1. fields = Field
      BY <2>2 DEF Fault, HandlerKept, ProvisionTyped
    <3>2. f.bundle \in BundleType /\ IsWhole(f.bundle)
      BY <2>1, CredsFrame DEF OfferedWhole, IsWhole
    <3> QED
      BY <2>1, <2>2, <3>1, <3>2, KeptLoads DEF HandlerKept, ProvisionTyped
  <2>4. LastPush'
    <3>1. \A g \in air' : g.kind = "ack" => g.of < core'.tx
      BY <1>1, <1>4, <1>6, <1>7 DEF LastPush
    <3>2. \A g \in air' : ToHead(g) => g \in air
      BY <1>4, <1>7
    <3>3. \A g \in air' : g.kind = "creds" => g \in air
      BY <1>4, <1>7
    <3> QED
      BY <1>1, <1>2, <3>1, <3>2, <3>3 DEF LastPush
  <2>5. Held'
    BY <1>2, <1>3, <1>5, <1>9, <2>3 DEF Held
  <2> QED
    BY <2>4, <2>5
<1>10. CASE ~(Offered /\ f.n = LastSeq)
  <2>1. CASE f.kind = "creds"
    <3>1. Offered /\ f.n < LastSeq
      BY <1>3, <1>10, <2>1 DEF LastPush
    <3>2. ~Ran
      BY <1>3, <1>5, <2>1, <3>1 DEF Held
    <3>3. ~Ran'
      <4>1. ~(\E g \in air' : g.kind = "ack" /\ g.of = LastSeq)
        BY <1>3, <1>4, <1>7, <3>1, <3>2 DEF Ran
      <4> QED
        BY <1>1, <1>2, <1>3, <1>5, <3>1, <3>2, <4>1 DEF Ran
    <3>4. LastPush'
      <4>1. \A g \in air' : g.kind = "ack" => g.of < core'.tx
        BY <1>1, <1>4, <1>6, <1>7 DEF LastPush
      <4>2. \A g \in air' : ToHead(g) => g \in air
        BY <1>4, <1>7
      <4>3. \A g \in air' : g.kind = "creds" => g \in air
        BY <1>4, <1>7
      <4> QED
        BY <1>1, <1>2, <4>1, <4>2, <4>3 DEF LastPush
    <3> QED
      BY <3>3, <3>4 DEF Held
  <2>2. CASE f.kind # "creds"
    <3>1. UNCHANGED stored /\ faults'.head = faults.head /\ cred' = cred /\ form' = form
          /\ core'.tx = core.tx
      BY <1>1, <2>2
    <3>2. /\ Offered /\ cred'.confirmed /\ form'.at # "arm" => Ran
          /\ Offered /\ head'.up /\ head'.cmd /\ head'.last = LastSeq => Ran
      BY <1>5, <1>10, <3>1 DEF Ran
    <3>3. Offered /\ a.of = LastSeq => Ran
      BY <1>4, <1>10
    <3>4. head.up /\ head.cmd => head'.up /\ head'.cmd /\ head'.last >= head.last
      BY <1>5
    <3> QED
      BY <1>2, <1>3, <1>4, <1>5, <1>6, <1>7, <1>8, <3>1, <3>2, <3>3, <3>4, HeldFrame
  <2> QED
    BY <2>1, <2>2
<1> QED
  BY <1>9, <1>10

(* A bundle goes out, from the handler or from the pump. *)
LEMMA HeldPushed ==
  ASSUME LinkInv, HandlerKept, LastPush, NEW bundle \in BundleType, UNCHANGED head,
         CoreSends(Creds(core.tx, bundle), TRUE), Offered', LastSeq' = core.tx, LastBody' = bundle,
         ~cred'.confirmed \/ form'.at = "arm"
  PROVE  LastPush' /\ Held'
<1> USE DEF LinkInv, LinkTyped
<1>1. core.tx \in Nat /\ head.last \in Nat /\ LastSeq \in Nat
  BY LastTyped DEF CoreState, HeadState
<1> DEFINE f == Creds(core.tx, bundle)
<1>2. f.n = core.tx /\ f.kind = "creds" /\ f.bundle = bundle /\ f \in Frame
  BY <1>1, Minted DEF Creds
<1>3. core'.tx = core.tx + 1 /\ air' = Put(air, f) /\ head' = head
  BY DEF CoreSends, CoreState
<1> HIDE DEF f
<1>4. \A g \in air' : g = f \/ g \in air
  BY <1>3, PutFacts
<1>5. \A g \in air : g.kind = "ack" => g.of \in Nat /\ g.of < core.tx
  BY CredsFrame DEF LastPush
<1>6. \A g \in air' : g.kind = "ack" => g.of < core'.tx /\ g.of # core.tx
  BY <1>1, <1>2, <1>3, <1>4, <1>5
<1>7. \A g \in air : ToHead(g) => g.n < core.tx /\ g.n \in Nat
  BY CredsFrame DEF Near
<1>8. \A g \in air' : g.kind = "creds" => g.n <= core.tx
  BY <1>1, <1>2, <1>4, <1>7, CredsFrame
<1>9. \A g \in air' : ToHead(g) /\ g.n = core.tx => g = f
  BY <1>1, <1>4, <1>7
<1>10. LastPush'
  BY <1>1, <1>2, <1>3, <1>6, <1>8, <1>9 DEF LastPush
<1>11. ~Ran'
  <2>1. ~(head'.up /\ head'.cmd /\ head'.last = core.tx)
    BY <1>1, <1>3 DEF Near
  <2> QED
    BY <1>6, <2>1 DEF Ran
<1> QED
  BY <1>10, <1>11 DEF Held

(* A datagram that the radio refused spends a number. *)
LEMMA HeldRefused ==
  ASSUME LinkInv, HandlerKept, LastPush, Held, UNCHANGED <<head, air, stored, faults>>,
         core'.tx \in {core.tx, core.tx + 1},
         Offered' <=> Offered, LastSeq' = LastSeq, LastBody' = LastBody,
         Offered /\ cred'.confirmed /\ form'.at # "arm" => Ran
  PROVE  LastPush' /\ Held'
<1> USE DEF LinkInv, LinkTyped
<1>1. core.tx \in Nat /\ head.last \in Nat /\ core'.tx \in Nat /\ core'.tx >= core.tx
  BY DEF CoreState, HeadState
<1>2. Offered /\ head'.up /\ head'.cmd /\ head'.last = LastSeq => Ran
  BY DEF Ran
<1> QED
  BY <1>1, <1>2, HeldFrame

(* The handler sends, and the pump: what goes out becomes the push that counts. *)
LEMMA HeldHandlerSends ==
  ASSUME LinkInv, HandlerKept, HeldInv, HandlerPushes
  PROVE  HeldInv'
<1> USE DEF HeldInv, LinkInv, LinkTyped
<1>0. core.tx \in Nat /\ cred \in Push /\ form \in FormType /\ pump \in PumpType
      /\ cred.tries \in Nat
  BY DEF CoreState, HandlerKept, ProvisionTyped, Push
<1>1. PICK sent \in BOOLEAN :
        /\ CoreSends(Creds(core.tx, Pushed), sent)
        /\ form' = IF sent THEN [form EXCEPT !.at = "arm", !.seq = core.tx] ELSE NoForm
  BY DEF HandlerPushes
<1>2. form.at = "push" /\ UNCHANGED <<head, flash, stored, home, cred, pump, faults>>
  BY DEF HandlerPushes
<1>3. ~pump'.on /\ Turns'
  BY <1>2 DEF Turns
<1>4. Pushed \in BundleType
  BY Bundles DEF Pushed, HandlerKept, ProvisionTyped
<1>5. CASE sent
  <2>1. form'.at = "arm" /\ form'.seq = core.tx /\ form'.op = form.op
    BY <1>0, <1>1, <1>5 DEF FormType
  <2>2. Offered' /\ LastSeq' = core.tx /\ LastBody' = Pushed
    BY <1>2, <2>1 DEF Offered, LastSeq, LastBody, Pushed
  <2>3. CoreSends(Creds(core.tx, Pushed), TRUE)
    BY <1>1, <1>5
  <2> QED
    BY <1>2, <1>3, <1>4, <2>1, <2>2, <2>3, HeldPushed
<1>6. CASE ~sent
  <2>1. form'.at = "idle" /\ core'.tx = core.tx + 1 /\ air' = air
    BY <1>1, <1>6 DEF CoreSends, NoForm, CoreState
  <2>2. (Offered' <=> Offered) /\ LastSeq' = LastSeq /\ LastBody' = LastBody
    BY <1>2, <2>1 DEF Offered, LastSeq, LastBody
  <2>3. Offered /\ cred'.confirmed /\ form'.at # "arm" => Ran
    BY <1>2 DEF Ran
  <2> QED
    BY <1>2, <1>3, <2>1, <2>2, <2>3, HeldRefused
<1> QED
  BY <1>5, <1>6

LEMMA HeldPumpSends ==
  ASSUME LinkInv, HandlerKept, HeldInv, PumpSendsBundle
  PROVE  HeldInv'
<1>0. core.tx \in Nat /\ cred \in Push /\ form \in FormType /\ pump \in PumpType
      /\ cred.tries \in Nat
  BY DEF CoreState, HandlerKept, ProvisionTyped, Push, LinkInv, LinkTyped
<1>1. PICK sent \in BOOLEAN :
        /\ CoreSends(Creds(core.tx, pump.body), sent)
        /\ cred' = [cred EXCEPT !.tries = @ + 1,
                                !.seq = IF sent THEN core.tx ELSE @,
                                !.body = IF sent THEN pump.body ELSE @]
  BY Zenon DEF PumpSendsBundle
<1>2. pump.on /\ ~pump'.on /\ UNCHANGED <<head, flash, stored, home, form, faults>>
  <2>1. pump.on /\ UNCHANGED <<head, flash, stored, home, form, faults>>
    BY DEF PumpSendsBundle
  <2>2. pump' = NoPump
    BY DEF PumpSendsBundle
  <2> QED
    BY <2>1, <2>2 DEF NoPump
<1> USE DEF HeldInv, LinkInv, LinkTyped
<1>3. form.at = "idle" /\ ~cred.confirmed /\ cred.tries >= 1
  BY <1>2 DEF Turns
<1>4. /\ cred'.confirmed = cred.confirmed /\ cred'.tries = cred.tries + 1
      /\ cred'.seq = (IF sent THEN core.tx ELSE cred.seq)
      /\ cred'.body = (IF sent THEN pump.body ELSE cred.body)
  <2> DEFINE seq == IF sent THEN core.tx ELSE cred.seq
             body == IF sent THEN pump.body ELSE cred.body
             tries == cred.tries + 1
  <2>1. cred' = [cred EXCEPT !.tries = tries, !.seq = seq, !.body = body]
    BY <1>0, <1>1 DEF Push
  <2> HIDE DEF seq, body, tries
  <2>2. /\ cred'.confirmed = cred.confirmed /\ cred'.tries = tries
        /\ cred'.seq = seq /\ cred'.body = body
    BY <1>0, <2>1 DEF Push
  <2> QED
    BY <2>2 DEF seq, body, tries
<1>5. Turns'
  <2>1. ~cred'.confirmed
    BY <1>3, <1>4
  <2> QED
    BY <1>2, <2>1 DEF Turns
<1>6. Offered /\ Offered' /\ LastSeq' = cred'.seq /\ LastBody' = cred'.body
      /\ LastSeq = cred.seq /\ LastBody = cred.body
  BY <1>0, <1>2, <1>3, <1>4 DEF Offered, LastSeq, LastBody
<1>7. CASE sent
  <2>1. CoreSends(Creds(core.tx, pump.body), TRUE) /\ pump.body \in BundleType
    BY <1>0, <1>1, <1>7 DEF PumpType
  <2> QED
    BY <1>2, <1>3, <1>4, <1>5, <1>6, <1>7, <2>1, HeldPushed
<1>8. CASE ~sent
  <2>1. core'.tx = core.tx + 1 /\ air' = air
    BY <1>1, <1>8 DEF CoreSends, CoreState
  <2> QED
    BY <1>2, <1>3, <1>4, <1>5, <1>6, <1>8, <2>1, HeldRefused
<1> QED
  BY <1>7, <1>8

(* A step that leaves the link and both stores of the head alone, and does  *)
(* not confirm.                                                             *)
LEMMA HeldElsewhere ==
  ASSUME LinkInv, HandlerKept, LastPush, Held, UNCHANGED <<core, head, air, stored>>,
         faults'.head = faults.head,
         Offered' <=> Offered, LastSeq' = LastSeq, LastBody' = LastBody,
         Offered /\ cred'.confirmed /\ form'.at # "arm" => Ran
  PROVE  LastPush' /\ Held'
<1> USE DEF LinkInv, LinkTyped
<1>1. core.tx \in Nat /\ head.last \in Nat
  BY DEF CoreState, HeadState
<1>2. Offered /\ head'.up /\ head'.cmd /\ head'.last = LastSeq => Ran
  BY DEF Ran
<1> QED
  BY <1>1, <1>2, HeldFrame

(* The handler outside its sending and arming, the latch and the page. *)
LEMMA HeldHandler ==
  ASSUME ~Overlap, LinkInv, HandlerKept, HeldInv,
         \/ PostStoreUnlinked \/ PostStore \/ PostForget \/ HandlerMarks \/ HandlerAttaches
         \/ PageStatus \/ LatchConfirms \/ LatchTimesOut
  PROVE  HeldInv'
<1> USE DEF HeldInv
<1>1. UNCHANGED <<core, head, air, stored, cred, pump>> /\ faults'.head = faults.head
  <2>1. CASE PostStore \/ PostForget
    <3>1. UNCHANGED <<core, head, air, stored, cred, pump>>
      BY <2>1 DEF PostStore, PostForget, linkVars
    <3>2. \E b \in BOOLEAN : Fault("core", b)
      BY <2>1 DEF PostStore, PostForget
    <3>3. faults'.head = faults.head
      BY <3>2 DEF Fault, HandlerKept, ProvisionTyped
    <3> QED
      BY <3>1, <3>3
  <2>2. CASE HandlerMarks \/ HandlerAttaches
    BY <2>2 DEF HandlerMarks, HandlerAttaches, linkVars
  <2> QED
    BY <2>1, <2>2 DEF PostStoreUnlinked, PageStatus, LatchConfirms, LatchTimesOut, linkVars
<1>2. /\ \/ form.at # "arm" /\ form'.at # "arm"
         \/ UNCHANGED <<home, form>>
      /\ pump.on => form'.at = "idle"
  <2>1. CASE PostStore \/ PostForget
    <3>1. form.at = "idle" /\ ~pump.on
      BY <2>1 DEF PostStore, PostForget, LinkFree
    <3>2. form' = form \/ form'.at = "mark"
      BY <2>1 DEF PostStore, PostForget, Marking
    <3> QED
      BY <3>1, <3>2
  <2>2. CASE HandlerMarks \/ HandlerAttaches
    <3>1. form.at \in {"mark", "attach"} /\ form'.at \in {"attach", "push"}
      BY <2>2 DEF HandlerMarks, HandlerAttaches, Goes, HandlerKept, ProvisionTyped, FormType
    <3> QED
      BY <3>1 DEF Turns
  <2>3. CASE PostStoreUnlinked \/ PageStatus \/ LatchConfirms \/ LatchTimesOut
    BY <2>3 DEF PostStoreUnlinked, PageStatus, LatchConfirms, LatchTimesOut, Turns
  <2> QED
    BY <2>1, <2>2, <2>3
<1>3. (Offered' <=> Offered) /\ LastSeq' = LastSeq /\ LastBody' = LastBody
  BY <1>1, <1>2 DEF Offered, LastSeq, LastBody, Pushed
<1>4. Offered /\ cred'.confirmed /\ form'.at # "arm" => Ran
  BY <1>1, <1>2 DEF Ran
<1>5. Turns'
  BY <1>1, <1>2 DEF Turns
<1> QED
  BY <1>1, <1>3, <1>4, <1>5, HeldElsewhere

(* The push is armed: it is what it was about to be. *)
LEMMA HeldArms ==
  ASSUME LinkInv, HandlerKept, HeldInv, HandlerArms
  PROVE  HeldInv'
<1> USE DEF HeldInv
<1>1. /\ form.at = "arm" /\ form'.at = "idle" /\ UNCHANGED <<core, head, air, stored, pump, faults>>
      /\ ~cred'.confirmed /\ cred'.tries = 1 /\ cred'.seq = form.seq /\ cred'.body = Pushed
  BY DEF HandlerArms, NoForm, linkVars
<1>2. Offered /\ Offered' /\ LastSeq' = LastSeq /\ LastBody' = LastBody
  BY <1>1 DEF Offered, LastSeq, LastBody
<1>3. Turns'
  BY <1>1 DEF Turns
<1> QED
  BY <1>1, <1>2, <1>3, HeldElsewhere

(* The pump gives up, reads, or finds nothing to send. *)
LEMMA HeldPump ==
  ASSUME ~Overlap, LinkInv, HandlerKept, HeldInv, PumpGivesUp \/ PumpReads \/ PumpHasNothing
  PROVE  HeldInv'
<1> USE DEF HeldInv
<1>1. UNCHANGED <<core, head, air, stored, home, form, faults>>
  BY DEF PumpGivesUp, PumpReads, PumpHasNothing, linkVars
<1>2. cred \in Push /\ cred.tries \in Nat
  BY DEF HandlerKept, ProvisionTyped, Push
<1>3. /\ cred'.confirmed = cred.confirmed /\ cred'.seq = cred.seq /\ cred'.body = cred.body
      /\ cred'.tries \in Nat /\ (cred'.tries >= 1 <=> cred.tries >= 1)
      /\ pump'.on => form.at = "idle" /\ ~cred.confirmed /\ cred.tries >= 1
  <2>1. CASE PumpGivesUp
    BY <1>2, <2>1 DEF PumpGivesUp, Push, Turns
  <2>2. CASE PumpReads
    BY <1>2, <2>2 DEF PumpReads, PumpPending, PortalFree, HandlerKept, TriesLeft
  <2>3. CASE PumpHasNothing
    <3>1. ~pump'.on /\ cred.tries >= 1
      BY <2>3 DEF PumpHasNothing, NoPump, Turns
    <3> QED
      BY <1>2, <2>3, <3>1 DEF PumpHasNothing, Push
  <2> QED
    BY <2>1, <2>2, <2>3
<1>4. (Offered' <=> Offered) /\ LastSeq' = LastSeq /\ LastBody' = LastBody
  BY <1>1, <1>3 DEF Offered, LastSeq, LastBody, Pushed
<1>5. Offered /\ cred'.confirmed /\ form'.at # "arm" => Ran
  BY <1>1, <1>3 DEF Ran
<1>6. Turns'
  BY <1>1, <1>3 DEF Turns
<1> QED
  BY <1>1, <1>4, <1>5, <1>6, HeldElsewhere

(* The push is confirmed: by an acknowledgement of its own. *)
LEMMA HeldAcked ==
  ASSUME ~Overlap, InRange, LinkInv, HandlerKept, HeldInv, CoreGetsAck
  PROVE  HeldInv'
<1> USE DEF HeldInv
<1>1. PICK f \in air : f.kind = "ack" /\ Confirms(f)
  BY DEF CoreGetsAck
<1>2. UNCHANGED <<core, head, air, stored, home, pump, form, faults>> /\ ~pump.on /\ form.at = "idle"
  BY DEF CoreGetsAck, LinkTaskFree, PortalFree, linkVars
<1>3. cred.armed /\ (f.of - cred.seq) % SeqMod = 0
  BY <1>1 DEF Confirms
<1>4. cred.tries >= 1 /\ cred.seq \in Nat /\ f.of \in Nat /\ core.tx \in Nat
  BY <1>1, <1>3, CredsFrame
     DEF HandlerKept, TriesLeft, ProvisionTyped, Push, LinkInv, LinkTyped, CoreState
<1>5. Offered /\ LastSeq = cred.seq
  BY <1>2, <1>4 DEF Offered, LastSeq
<1>6. f.of < core.tx /\ cred.seq < core.tx
  BY <1>1, <1>5 DEF LastPush
<1>7. core.tx - f.of <= SeqMod /\ core.tx - cred.seq <= SeqMod
  BY <1>1, <1>3 DEF InRange
<1>8. f.of = cred.seq
  <2>1. f.of - cred.seq < SeqMod /\ cred.seq - f.of < SeqMod
    BY <1>4, <1>6, <1>7, Halves
  <2> QED
    BY <1>3, <1>4, <2>1, SameNumber
<1>9. Ran
  BY <1>1, <1>5, <1>8 DEF Ran
<1>10. cred'.tries = cred.tries /\ cred'.seq = cred.seq /\ cred'.body = cred.body
  <2>1. cred \in Push /\ cred' = [cred EXCEPT !.confirmed = TRUE, !.armed = FALSE]
    BY DEF CoreGetsAck, HandlerKept, ProvisionTyped
  <2> QED
    BY <2>1 DEF Push
<1>11. (Offered' <=> Offered) /\ LastSeq' = LastSeq /\ LastBody' = LastBody
  BY <1>2, <1>10 DEF Offered, LastSeq, LastBody, Pushed
<1>12. Turns'
  BY <1>2, <1>4, <1>10 DEF Turns
<1> QED
  BY <1>2, <1>9, <1>11, <1>12, HeldElsewhere

LEMMA HeldReboots ==
  ASSUME CoreReboots
  PROVE  HeldInv'
<1>1. /\ air' = {} /\ ~cred'.confirmed /\ cred'.tries = 0 /\ ~pump'.on /\ form'.at = "idle"
  BY DEF CoreReboots, CoreRestarts, NoPush, NoPump, NoForm
<1> QED
  BY <1>1 DEF HeldInv, Turns, LastPush, Held, Offered, Ran

LEMMA HeldStart == Init => HeldInv
BY DEF Init, LinkInit, NoPush, NoPump, NoForm, HeldInv, Turns, LastPush, Held, Offered, Ran

(* What the handler's and the pump's turns rest on is theirs alone. *)
LEMMA TurnsKept == ASSUME Turns, UNCHANGED <<cred, pump, form>> PROVE Turns'
BY DEF Turns

LEMMA HeldKeep ==
  ASSUME ~Overlap
  PROVE  ProvisionInv /\ HeldInv /\ InRange /\ [Next]_vars => HeldInv'
<1> SUFFICES ASSUME ProvisionInv, HeldInv, InRange, [Next]_vars PROVE HeldInv'
  OBVIOUS
<1>1. LinkInv /\ HandlerKept /\ Turns /\ LastPush /\ Held
  BY DEF ProvisionInv, HeldInv
<1>2. CASE HandlerPushes \/ PumpSendsBundle
  BY <1>1, <1>2, HeldHandlerSends, HeldPumpSends
<1>3. CASE \/ PostStoreUnlinked \/ PostStore \/ PostForget \/ HandlerMarks \/ HandlerAttaches
           \/ PageStatus \/ LatchConfirms \/ LatchTimesOut
  BY <1>1, <1>3, HeldHandler
<1>4. CASE HandlerArms
  BY <1>1, <1>4, HeldArms
<1>5. CASE PumpGivesUp \/ PumpReads \/ PumpHasNothing
  BY <1>1, <1>5, HeldPump
<1>6. CASE CoreGetsAck
  BY <1>1, <1>6, HeldAcked
<1>7. CASE CoreReceives
  BY <1>1, <1>7, HeldHearing, TurnsKept DEF CoreReceives, provisionVars, HeldInv
<1>8. CASE HeadStores \/ HeadExecutes
  <2>1. UNCHANGED <<cred, pump, form>>
    BY <1>8 DEF HeadStores, HeadExecutes, provisionVars
  <2> QED
    BY <1>1, <1>8, <2>1, HeldRuns, TurnsKept DEF HeldInv
<1>9. CASE HeadAnswersAgain
  BY <1>1, <1>9, HeldAgain, TurnsKept DEF HeadAnswersAgain, provisionVars, HeldInv
<1>10. CASE LinkSteps
  BY <1>1, <1>10, HeldOnLink, TurnsKept DEF LinkSteps, provisionVars, HeldInv
<1>11. CASE CoreReboots
  BY <1>11, HeldReboots
<1>12. CASE UNCHANGED vars
  <2>1. UNCHANGED <<core, head, air, stored, home, cred, pump, form, faults>>
    BY <1>12 DEF vars, linkVars, provisionVars
  <2> QED
    BY <1>1, <2>1, TurnsKept, SamePush, HeldElsewhere DEF HeldInv, Ran
<1> QED
  BY <1>2, <1>3, <1>4, <1>5, <1>6, <1>7, <1>8, <1>9, <1>10, <1>11, <1>12
     DEF Next, Handler, Pump

(* A push that the core counts as confirmed is what the head has in flash,  *)
(* if the head's writes succeed: through losses, repeats, retries under new *)
(* numbers, re-associations and reboots of the head.  It takes the core's   *)
(* tasks in turn, and numbers that 16 bits tell apart (captive_portal.h,    *)
(* LinkServer::pollCredPush, LinkClient::handleCmd).                        *)
THEOREM ConfirmedHolds ==
  ASSUME ~Overlap
  PROVE  Spec /\ []InRange => []ConfirmedIsHeld
<1>1. ProvisionInv /\ HeldInv => ConfirmedIsHeld
  BY DEF HeldInv, Turns, Held, Ran, Offered, LastBody, ConfirmedIsHeld
<1> QED
  BY <1>1, HeldStart, HeldKeep, ProvisionInvariant, PTL DEF Spec

(* The same for a core that mints no more than one range in a boot, which   *)
(* is the case of the run.                                                  *)
THEOREM ConfirmedHoldsInRange ==
  ASSUME ~Overlap, MaxSends <= SeqMod
  PROVE  Spec => []ConfirmedIsHeld
<1>1. ProvisionInv /\ Bounded => InRange
  <2> SUFFICES ASSUME LinkInv, HandlerKept, Bounded PROVE InRange
    BY DEF ProvisionInv
  <2>1. core.tx \in Nat /\ head.last \in Nat /\ cred.seq \in Nat /\ core.tx <= SeqMod
    BY LinkAssumption, Halves
       DEF LinkInv, LinkTyped, CoreState, HeadState, HandlerKept, ProvisionTyped, Push, Bounded
  <2>2. \A f \in air : f.kind = "ack" => f.of \in Nat
    BY CredsFrame DEF LinkInv, LinkTyped
  <2> QED
    BY <2>1, <2>2, Halves DEF InRange
<1> QED
  BY <1>1, ConfirmedHolds, ProvisionInvariant, BoundedAlways, PTL
=============================================================================
