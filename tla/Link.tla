-------------------------------- MODULE Link --------------------------------
(* The two ends of the link between the core and its head, over a network   *)
(* that loses, duplicates and reorders datagrams.  Heartbeats tell the core *)
(* where the head is; commands go to the head, which runs each at most once *)
(* and never after a later one.                                             *)
EXTENDS Integers

CONSTANTS
  SeqMod,      \* the range of a sequence number (2^16 in the code)
  MaxSends,    \* bound: frames the core mints in a boot
  MaxReplies,  \* bound: frames the head mints in a boot
  HeadBoots,   \* bound: boots of the head
  Commands     \* the kinds of command the ability pumps send

ASSUME LinkAssumption ==
  /\ SeqMod \in Nat /\ SeqMod > 2 /\ SeqMod % 2 = 0
  /\ MaxSends \in Nat /\ MaxReplies \in Nat /\ HeadBoots \in Nat
  /\ Commands \cap {"creds", "hb", "ack"} = {}

VARIABLES
  core,  \* LinkServer: the head is pinned (peer), a frame of the head was seen
         \* (heard) and its sequence number (seq) and epoch (boot), the next
         \* number to mint (tx)
  head,  \* LinkClient: its epoch (boot), whether it is associated (up), whether
         \* a command ran in this association (cmd), the last one's number
         \* (last), the next number to mint (tx)
  air    \* the datagrams that may still arrive: one that never does was lost,
         \* one that arrives twice was duplicated

linkVars == <<core, head, air>>

Half == SeqMod \div 2

(* Sequence numbers are kept unwrapped and compared as the code does, by    *)
(* their 16 bits.                                                           *)
Classify_NoStale(have, last, n) ==
  IF have /\ (n - last) % SeqMod = 0 THEN "duplicate" ELSE "fresh"

Classify(have, last, n) ==
  IF ~have \/ (n - last) % SeqMod \in 1 .. Half - 1 THEN "fresh"
  ELSE IF (n - last) % SeqMod = 0 THEN "duplicate" ELSE "stale"

Command(kind, n) == [to |-> "head", kind |-> kind, n |-> n]
Creds(n, bundle) == [to |-> "head", kind |-> "creds", n |-> n, bundle |-> bundle]
Heartbeat(n, boot) == [to |-> "core", kind |-> "hb", n |-> n, boot |-> boot]
Ack(n, of) == [to |-> "core", kind |-> "ack", n |-> n, of |-> of]

(* A datagram does not outlive half a range of later ones: hours.           *)
Put(frames, f) ==
  {g \in frames : g.to = f.to => f.n - g.n < Half} \union {f}

(* The frames for the head do not outlive its association.                  *)
ForCore(frames) == {g \in frames : g.to = "core"}

CoreOff == [peer |-> FALSE, heard |-> FALSE, seq |-> 0, boot |-> 0, tx |-> 0]
HeadOn(boot) == [boot |-> boot, up |-> FALSE, cmd |-> FALSE, last |-> 0, tx |-> 0]

LinkInit == core = CoreOff /\ head = HeadOn(1) /\ air = {}

-----------------------------------------------------------------------------
(* The head: associating, its heartbeat, and what it answers.               *)

HeadCanMint == head.tx < MaxReplies

HeadSendsBeat(h) ==
  /\ HeadCanMint
  /\ head' = [h EXCEPT !.tx = @ + 1]
  /\ air' = Put(air, Heartbeat(head.tx, head.boot))

HeadAssociates ==
  /\ ~head.up
  /\ HeadSendsBeat([head EXCEPT !.up = TRUE, !.cmd = FALSE])
  /\ UNCHANGED core

HeadBeats == head.up /\ HeadSendsBeat(head) /\ UNCHANGED core

(* The association ends, or three heartbeats in a row went unanswered.      *)
HeadMarksDown ==
  /\ head.up
  /\ head' = [head EXCEPT !.up = FALSE]
  /\ air' = ForCore(air)
  /\ UNCHANGED core

HeadReboots ==
  /\ head.boot < HeadBoots
  /\ head' = HeadOn(head.boot + 1)
  /\ air' = ForCore(air)
  /\ UNCHANGED core

(* What the head answers: an ACK for a command it runs, and again for a     *)
(* duplicate of it; a stale frame is dropped.                               *)
HeadAcks(f, h) ==
  /\ head' = [h EXCEPT !.tx = @ + 1]
  /\ air' = Put(air, Ack(head.tx, f.n))

HeadGets(f, verdict) ==
  /\ f \in air /\ f.to = "head" /\ head.up /\ HeadCanMint
  /\ Classify(head.cmd, head.last, f.n) = verdict

HeadRuns(f) ==
  /\ HeadGets(f, "fresh")
  /\ HeadAcks(f, [head EXCEPT !.cmd = TRUE, !.last = f.n])

HeadAgain(f) ==
  /\ HeadGets(f, "duplicate")
  /\ HeadAcks(f, head)
  /\ UNCHANGED core

-----------------------------------------------------------------------------
(* The core.  Every frame spends a number, the refused ones too.            *)

CoreCanMint == core.tx < MaxSends

CoreSends(f, sent) ==
  /\ CoreCanMint /\ core.peer
  /\ core' = [core EXCEPT !.tx = @ + 1]
  /\ air' = IF sent THEN Put(air, f) ELSE air

PumpSends ==
  \E kind \in Commands : CoreSends(Command(kind, core.tx), TRUE) /\ UNCHANGED head

(* A heartbeat of another epoch resynchronises; of the same epoch, only a   *)
(* stale one is dropped.                                                    *)
Hears_NoEpoch(f) == Classify(core.heard, core.seq, f.n) # "stale"

Hears(f) == core.boot # f.boot \/ Classify(core.heard, core.seq, f.n) # "stale"

(* The answer spends a number; what it tells the head is in module Follow.  *)
CoreGetsBeat(f) ==
  /\ f \in air /\ f.kind = "hb" /\ CoreCanMint
  /\ Hears(f)
  /\ core' = [core EXCEPT !.peer = TRUE, !.heard = TRUE, !.seq = f.n,
                          !.boot = f.boot, !.tx = @ + 1]
  /\ UNCHANGED <<head, air>>

(* Both ends start over: the access point the head was on goes away.        *)
CoreRestarts ==
  /\ core' = CoreOff
  /\ head' = [head EXCEPT !.up = FALSE]
  /\ air' = {}
=============================================================================
