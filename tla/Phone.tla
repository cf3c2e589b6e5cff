-------------------------------- MODULE Phone --------------------------------
(* The app's side of a pair: the Room row and the vault, the two counter     *)
(* holders, the session manager's cached key, and the coroutines that enrol, *)
(* refresh and forget.  A coroutine is cut where it suspends between two     *)
(* writes; its steps interleave with the others and with the send loops.     *)
EXTENDS Wire

CONSTANTS
  Gate,         \* EXHAUSTION_GATE: the first counter never sent
  Margin,       \* PAIR_REFRESH_MARGIN: how far below it a refresh is due
  CountersUsed, \* bound: the counters that may be sent
  SentKinds,    \* bound: the kinds of traffic the app sends
  MaxPairs,     \* bound: pairing attempts
  MaxKills      \* bound: unclean deaths of the app

ASSUME PhoneAssumption ==
  /\ Gate \in 1 .. CounterMod - 1
  /\ Margin \in 0 .. Gate
  /\ Gate - Margin >= CounterMod \div 2
  /\ CountersUsed \subseteq 0 .. CounterMod - 1
  /\ SentKinds \subseteq Traffic
  /\ MaxPairs \in Nat
  /\ MaxKills \in Nat

VARIABLES
  row,      \* Room's paired_device: on, lastCounter, era, lastRobotCounter
  vault,    \* PairSecretStore: the key at rest
  holder,   \* ToRobotCounter: on (a device is adopted), lastSent, sincePersist
  rx,       \* FromRobotCounter: on, lastSeen
  sess,     \* SessionManager: the row last emitted, the cached key, whether the
            \* vault was found empty, whether the automatic forget has fired
  enrol,    \* the pairing attempt under way
  refresh,  \* the key refresh under way
  purge,    \* the two coroutines that delete the pair
  pairs,
  kills

phoneVars == <<row, vault, holder, rx, sess, enrol, refresh, purge, pairs, kills>>

NoRow == [on |-> FALSE, ctr |-> 0, era |-> 0, rctr |-> 0]
NoHolder == [on |-> FALSE, last |-> 0, since |-> 0]
NoRx == [on |-> FALSE, last |-> 0]
NoSess == [seen |-> NoRow, key |-> NoKey, missing |-> FALSE, fired |-> FALSE]
NoEnrol == [at |-> "idle", code |-> 0, nonce |-> 0]
NoRefresh == [at |-> "idle", era |-> 0, key |-> NoKey]
NoPurge == [forget |-> "idle", evict |-> "idle"]

-----------------------------------------------------------------------------
(* ToRobotCounter *)

Ensure(h, starting) ==
  IF h.on THEN h ELSE [on |-> TRUE, last |-> starting, since |-> 0]

CanAllocate(h) == h.last + 1 < Gate

WithinBound(h) == ~CanAllocate(h) \/ h.last + 1 \in CountersUsed

(* since is kept in 1..PersistEvery, which tells the multiples of the       *)
(* cadence and the clean state after a flush (zero) apart.                  *)
Allocate(h) ==
  [h EXCEPT !.last = @ + 1, !.since = IF @ = PersistEvery THEN 1 ELSE @ + 1]

SetCounter(r, ctr) == IF r.on THEN [r EXCEPT !.ctr = ctr] ELSE r

(* Every PersistEvery-th allocation saves a value one cadence ahead.        *)
PersistAhead(r, h) ==
  IF h.since = PersistEvery
  THEN SetCounter(r, IF h.last + PersistEvery >= Gate THEN Gate - 1
                     ELSE h.last + PersistEvery)
  ELSE r

Flush(r, h) == IF h.on /\ h.since # 0 THEN SetCounter(r, h.last) ELSE r

NeedsPairRefresh == holder.on /\ holder.last >= Gate - Margin

GetPairPsk == IF row.on THEN vault ELSE NoKey

-----------------------------------------------------------------------------
(* SessionManager *)

(* The key of the session: cached, or loaded once. *)
PskFor == IF sess.key # NoKey THEN sess.key
          ELSE IF sess.missing THEN NoKey ELSE GetPairPsk

Cached == [sess EXCEPT !.key = PskFor, !.missing = PskFor = NoKey]

(* One frame of the era last seen, from the next counter. *)
SendFrom(r, h, kind) ==
  /\ PskFor # NoKey /\ CanAllocate(h) /\ WithinBound(h)
  /\ holder' = Allocate(h)
  /\ row' = PersistAhead(r, Allocate(h))
  /\ sess' = Cached
  /\ air' = air \union {SignedFrame(kind, PskFor, sess.seen.era, h.last + 1)}
  /\ UNCHANGED <<vault, rx, enrol, refresh, purge, pairs, kills>>

(* No key, or no counter left: the pair is forgotten, once. *)
RefuseFrom(r, h) ==
  /\ PskFor = NoKey \/ ~CanAllocate(h)
  /\ holder' = IF PskFor = NoKey THEN holder ELSE h
  /\ row' = r
  /\ sess' = [Cached EXCEPT !.fired = TRUE]
  /\ purge' = IF ~sess.fired /\ purge.forget = "idle"
              THEN [purge EXCEPT !.forget = "send"] ELSE purge
  /\ UNCHANGED <<vault, rx, enrol, refresh, pairs, kills, air>>

Send(kind) ==
  /\ sess.seen.on
  /\ LET h == Ensure(holder, sess.seen.ctr)
     IN SendFrom(row, h, kind) \/ RefuseFrom(row, h)

(* Going to the background saves the exact counter, then says goodbye.      *)
Background ==
  /\ sess.seen.on /\ "bye" \in SentKinds
  /\ LET h == Ensure([holder EXCEPT !.since = 0], sess.seen.ctr)
     IN SendFrom(Flush(row, holder), h, "bye") \/ RefuseFrom(Flush(row, holder), h)

(* The row's flow emits: a new era or a new pair drops the cached key, no   *)
(* row also resets the counter.                                             *)
Observe ==
  /\ sess.seen # row
  /\ sess' =
       IF ~row.on THEN [sess EXCEPT !.seen = row, !.key = NoKey, !.missing = FALSE]
       ELSE IF sess.seen.on /\ sess.seen.era = row.era THEN [sess EXCEPT !.seen = row]
       ELSE [NoSess EXCEPT !.seen = row]
  /\ holder' = IF row.on THEN holder ELSE NoHolder
  /\ UNCHANGED <<row, vault, rx, enrol, refresh, purge, pairs, kills, air>>

-----------------------------------------------------------------------------
(* PairDeviceWithCodeUseCase.  An attempt starts from the unpaired screen:   *)
(* typing a code takes longer than what deleted or refreshed the last pair.  *)

StartPairing(code) ==
  /\ enrol.at = "idle" /\ ~sess.seen.on /\ ~row.on
  /\ refresh.at = "idle" /\ purge = NoPurge
  /\ pairs < MaxPairs
  /\ pairs' = pairs + 1
  /\ enrol' = [at |-> "wait", code |-> code, nonce |-> pairs + 1]
  /\ air' = air \union {PairReqFrame(code, pairs + 1)}
  /\ UNCHANGED <<row, vault, holder, rx, sess, refresh, purge, kills>>

(* Silence, an error, or an answer that this code and nonce do not open.    *)
PairingFails ==
  /\ enrol.at = "wait"
  /\ enrol' = NoEnrol
  /\ UNCHANGED <<row, vault, holder, rx, sess, refresh, purge, pairs, kills, air>>

PairingSavesPsk(f) ==
  /\ enrol.at = "wait" /\ f.code = enrol.code /\ f.nonce = enrol.nonce
  /\ vault' = f.key
  /\ enrol' = [enrol EXCEPT !.at = "row"]
  /\ UNCHANGED <<row, holder, rx, sess, refresh, purge, pairs, kills, air>>

PairingSavesRow ==
  /\ enrol.at = "row"
  /\ row' = [NoRow EXCEPT !.on = TRUE]
  /\ rx' = NoRx
  /\ enrol' = NoEnrol
  /\ UNCHANGED <<vault, holder, sess, refresh, purge, pairs, kills, air>>

-----------------------------------------------------------------------------
(* PairRefreshUseCase.  The resends of a request are the same bytes.         *)

StartRefresh ==
  /\ refresh.at = "idle" /\ sess.seen.on /\ NeedsPairRefresh
  /\ GetPairPsk # NoKey
  /\ CanAllocate(holder) /\ WithinBound(holder)
  /\ holder' = Allocate(holder)
  /\ row' = PersistAhead(row, Allocate(holder))
  /\ refresh' = [at |-> "wait", era |-> row.era + 1,
                 key |-> DerivePairRefreshPsk(vault, row.era + 1)]
  /\ air' = air \union {SignedFrame("refresh", vault, row.era + 1, holder.last + 1)}
  /\ UNCHANGED <<vault, rx, sess, enrol, purge, pairs, kills>>

(* The first answer for the era decides: a wrong tag ends the attempt.      *)
RefreshAnswered(f) ==
  /\ refresh.at = "wait" /\ f.era = refresh.era
  /\ refresh' = IF f.key = refresh.key THEN [refresh EXCEPT !.at = "vault"] ELSE NoRefresh
  /\ UNCHANGED <<row, vault, holder, rx, sess, enrol, purge, pairs, kills, air>>

RefreshTimesOut ==
  /\ refresh.at = "wait"
  /\ refresh' = NoRefresh
  /\ UNCHANGED <<row, vault, holder, rx, sess, enrol, purge, pairs, kills, air>>

RefreshSavesPsk ==
  /\ refresh.at = "vault"
  /\ vault' = refresh.key
  /\ refresh' = [refresh EXCEPT !.at = "row"]
  /\ UNCHANGED <<row, holder, rx, sess, enrol, purge, pairs, kills, air>>

RefreshSavesRow_KeepsEra ==
  /\ refresh.at = "row"
  /\ row' = IF row.on THEN [NoRow EXCEPT !.on = TRUE, !.era = row.era] ELSE row
  /\ refresh' = [refresh EXCEPT !.at = "holder"]
  /\ UNCHANGED <<vault, holder, rx, sess, enrol, purge, pairs, kills, air>>

RefreshSavesRow ==
  /\ refresh.at = "row"
  /\ row' = IF row.on THEN [NoRow EXCEPT !.on = TRUE, !.era = refresh.era] ELSE row
  /\ refresh' = [refresh EXCEPT !.at = "holder"]
  /\ UNCHANGED <<vault, holder, rx, sess, enrol, purge, pairs, kills, air>>

CompletePairRefresh_KeepsHolder ==
  /\ refresh.at = "holder"
  /\ rx' = NoRx
  /\ refresh' = [refresh EXCEPT !.at = "done"]
  /\ UNCHANGED <<row, vault, holder, sess, enrol, purge, pairs, kills, air>>

CompletePairRefresh ==
  /\ refresh.at = "holder"
  /\ holder' = IF holder.on THEN [holder EXCEPT !.last = 0, !.since = 0] ELSE holder
  /\ rx' = NoRx
  /\ refresh' = [refresh EXCEPT !.at = "done"]
  /\ UNCHANGED <<row, vault, sess, enrol, purge, pairs, kills, air>>

InvalidateSession ==
  /\ refresh.at = "done"
  /\ sess' = [sess EXCEPT !.key = NoKey, !.missing = FALSE]
  /\ refresh' = NoRefresh
  /\ UNCHANGED <<row, vault, holder, rx, enrol, purge, pairs, kills, air>>

-----------------------------------------------------------------------------
(* ForgetDeviceUseCase, and the eviction of ObserveRemoteDisconnectUseCase.  *)

ForgetTapped ==
  /\ sess.seen.on /\ purge.forget = "idle"
  /\ purge' = [purge EXCEPT !.forget = "send"]
  /\ UNCHANGED <<row, vault, holder, rx, sess, enrol, refresh, pairs, kills, air>>

(* With a row, a key and a counter left, UNPAIR goes out under the vault's  *)
(* key; otherwise the forget is local.                                      *)
ForgetSends ==
  /\ purge.forget = "send"
  /\ LET h == Ensure(holder, row.ctr)
         clean == [h EXCEPT !.since = 0]
     IN IF row.on /\ vault # NoKey
        THEN /\ WithinBound(h)
             /\ IF CanAllocate(h)
                THEN /\ holder' = Allocate(clean)
                     /\ row' = PersistAhead(Flush(row, h), Allocate(clean))
                     /\ air' = air \union {SignedFrame("unpair", vault, 0, h.last + 1)}
                ELSE /\ holder' = clean
                     /\ row' = Flush(row, h)
                     /\ UNCHANGED air
        ELSE UNCHANGED <<holder, row, air>>
  /\ purge' = [purge EXCEPT !.forget = IF row.on THEN "row" ELSE "rx"]
  /\ UNCHANGED <<vault, rx, sess, enrol, refresh, pairs, kills>>

Evicted_AnyKey(f) ==
  /\ purge.evict = "idle"
  /\ GetPairPsk # NoKey /\ f.era = row.era
  /\ LET last == IF rx.on THEN rx.last ELSE row.rctr
     IN IsFreshCounter(last, f.ctr)
  /\ rx' = [on |-> TRUE, last |-> f.ctr]
  /\ row' = [row EXCEPT !.rctr = f.ctr]
  /\ purge' = [purge EXCEPT !.evict = "row"]
  /\ UNCHANGED <<vault, holder, sess, enrol, refresh, pairs, kills, air>>

(* A goodbye of this era, of this key, newer than the last one heard. *)
Evicted(f) ==
  /\ purge.evict = "idle"
  /\ GetPairPsk # NoKey /\ f.key = vault /\ f.era = row.era
  /\ LET last == IF rx.on THEN rx.last ELSE row.rctr
     IN IsFreshCounter(last, f.ctr)
  /\ rx' = [on |-> TRUE, last |-> f.ctr]
  /\ row' = [row EXCEPT !.rctr = f.ctr]
  /\ purge' = [purge EXCEPT !.evict = "row"]
  /\ UNCHANGED <<vault, holder, sess, enrol, refresh, pairs, kills, air>>

PurgeRow_KeyFirst(p) ==
  /\ purge[p] = "row"
  /\ vault' = NoKey
  /\ purge' = [purge EXCEPT ![p] = "vault"]
  /\ UNCHANGED <<row, holder, rx, sess, enrol, refresh, pairs, kills, air>>

PurgeRow(p) ==
  /\ purge[p] = "row"
  /\ row' = NoRow
  /\ purge' = [purge EXCEPT ![p] = "vault"]
  /\ UNCHANGED <<vault, holder, rx, sess, enrol, refresh, pairs, kills, air>>

PurgeVault(p) ==
  /\ purge[p] = "vault"
  /\ vault' = NoKey
  /\ purge' = [purge EXCEPT ![p] = "rx"]
  /\ UNCHANGED <<row, holder, rx, sess, enrol, refresh, pairs, kills, air>>

(* Only the eviction resets the send holder here; after a forget, the row's *)
(* flow does.                                                               *)
PurgeCounters(p) ==
  /\ purge[p] = "rx"
  /\ rx' = NoRx
  /\ holder' = IF p = "evict" THEN NoHolder ELSE holder
  /\ purge' = [purge EXCEPT ![p] = "idle"]
  /\ UNCHANGED <<row, vault, sess, enrol, refresh, pairs, kills, air>>

-----------------------------------------------------------------------------
(* The process dies without warning and starts again: only Room and the     *)
(* vault are left.                                                          *)
Kill ==
  /\ kills < MaxKills
  /\ kills' = kills + 1
  /\ holder' = NoHolder /\ rx' = NoRx /\ sess' = NoSess
  /\ enrol' = NoEnrol /\ refresh' = NoRefresh /\ purge' = NoPurge
  /\ UNCHANGED <<row, vault, pairs, air>>

(* An app just started, with the row r and the key k at rest. *)
PhoneInit(r, k) ==
  /\ row = r
  /\ vault = k
  /\ holder = NoHolder /\ rx = NoRx /\ sess = NoSess
  /\ enrol = NoEnrol /\ refresh = NoRefresh /\ purge = NoPurge
  /\ pairs = 0 /\ kills = 0

Answered ==
  \/ \E f \in OnAir({"pairOk"}) : PairingSavesPsk(f)
  \/ \E f \in OnAir({"ack"}) : RefreshAnswered(f)
  \/ \E f \in OnAir({"evict"}) : Evicted(f)

PhoneNext ==
  \/ \E kind \in SentKinds \ {"bye"} : Send(kind)
  \/ Background \/ Observe \/ Answered
  \/ PairingFails \/ PairingSavesRow
  \/ StartRefresh \/ RefreshTimesOut \/ RefreshSavesPsk \/ RefreshSavesRow
  \/ CompletePairRefresh \/ InvalidateSession
  \/ ForgetTapped \/ ForgetSends \/ Kill
  \/ \E p \in {"forget", "evict"} : PurgeRow(p) \/ PurgeVault(p) \/ PurgeCounters(p)
=============================================================================
