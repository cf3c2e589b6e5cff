-------------------------------- MODULE Wire --------------------------------
(* What the robot and the phone agree on: how a key is made, when a counter *)
(* is newer than another, and the datagrams between them.                   *)
EXTENDS Integers, Sequences

CONSTANTS
  CounterMod,    \* the range of a counter (2^32 in the code)
  PersistEvery   \* frames between two saves of a counter (128 in the code)

ASSUME WireAssumption ==
  /\ CounterMod \in Nat \ {0}
  /\ PersistEvery \in Nat \ {0}

(* The datagrams sent so far.  One that is never received was lost, one     *)
(* received twice was duplicated, and nothing orders their receptions.      *)
VARIABLE air

-----------------------------------------------------------------------------
(* Keys.  A minted key is named by the code that was shown for it, which    *)
(* mints at most once; a derived key by its parent and the era mixed into   *)
(* it, so that equal inputs give equal keys and no others do.               *)

Key == Seq(Nat)

NoKey == <<>>

MintKey(code) == <<code>>

DerivePairRefreshPsk(key, era) == Append(key, era)

-----------------------------------------------------------------------------
(* Counters: strictly newer, across the wrap, by less than half the range.  *)

IsFreshCounter_PlainDifference(last, got) == got # last

IsFreshCounter(last, got) ==
  got # last /\ (got - last) % CounterMod < CounterMod \div 2

NextToAppCounter(c) == IF c + 1 = CounterMod THEN 1 ELSE c + 1

-----------------------------------------------------------------------------
(* Datagrams.  A tag is the key it was computed with; the encrypted answer  *)
(* to a pairing request opens with the code and the nonces of that request. *)

PairReqFrame(code, nonce) == [kind |-> "pairReq", code |-> code, nonce |-> nonce]

PairOkFrame(code, nonce, key) ==
  [kind |-> "pairOk", code |-> code, nonce |-> nonce, key |-> key]

SignedFrame(kind, key, era, ctr) ==
  [kind |-> kind, key |-> key, era |-> era, ctr |-> ctr]

AckFrame(key, era) == [kind |-> "ack", key |-> key, era |-> era]

NoFrame == [kind |-> "none"]

(* Frames of the app that spend a counter and leave the pair as it is.      *)
(* "drive" carries no era; "alive" stands for every other one.              *)
Traffic == {"drive", "alive", "bye"}

OnAir(kinds) == {f \in air : f.kind \in kinds}
=============================================================================
