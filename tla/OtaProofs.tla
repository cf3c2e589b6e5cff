------------------------------ MODULE OtaProofs ------------------------------
(* That what the core answers "staged" for is in its buffer, and that the   *)
(* head boots no image it checked unless it was committed, for every number *)
(* of clients, every size and label and every order of their chunks.        *)
EXTENDS Ota, SequenceTheorems, TLAPS

Byte == Nat \X Nat
Bytes == Seq(Byte)
Fill == 0 .. Cap
Buffer == [1 .. Cap -> Byte]

Post == [post : Nat, size : Sizes \union {0}, at : Nat,
         label : Versions \union {Keep}, bad : BOOLEAN]

StageState ==
  [has : BOOLEAN, buf : Buffer, len : Fill, up : Fill,
   uploading : BOOLEAN, ok : BOOLEAN, ver : Versions \union {0},
   pend : Versions \union {Keep}, sha : Bytes, fed : Bytes]

(* While an upload runs, what the digest was fed is what the buffer holds.  *)
Fed(s) ==
  s.uploading /\ s.fed # Off =>
    Len(s.fed) = s.up /\ \A k \in 1 .. s.up : s.fed[k] = s.buf[k]

(* What was staged stays whole for as long as it is said to be: no upload   *)
(* runs over it.  The digest is always that of something committed.         *)
Kept(s, c) ==
  /\ s.ok => /\ ~s.uploading
             /\ Committed(s) \in c
             /\ s.sha \in {NoSha, Held(s)}
  /\ s.sha # NoSha => \E x \in c : x.bytes = s.sha

Good(s, c) == s \in StageState /\ Fed(s) /\ Kept(s, c)

HeadState ==
  [st : {"idle", "asks", "opens", "fetch"}, man : Bytes, total : Fill,
   got : Bytes, fw : Bytes, version : Nat, checked : BOOLEAN]

(* The digest the head expects was committed, and so was the image it runs  *)
(* if it checked it.                                                        *)
HeadOK(h, c) ==
  /\ h \in HeadState
  /\ Len(h.got) <= h.total /\ (h.st = "fetch" => h.total > 0)
  /\ h.st = "fetch" /\ h.man # NoSha => \E x \in c : x.bytes = h.man
  /\ h.checked => \E x \in c : x.bytes = h.fw

ScreenOK ==
  /\ screen \in [code : {"none", "live", "due"}, ota : {"off", "bar", "alert"},
                 otaDue : BOOLEAN, eyes : Faces, on : BOOLEAN]
  /\ power \in Faces
  /\ render \in {"idle", "ota", "code"}

StagingOK == Good(stage, commits) /\ upload \in [Uploaders -> Post] /\ posts \in Nat

(* The inductive invariant. *)
OtaInv ==
  /\ StagingOK /\ ScreenOK /\ HeadOK(head, commits)
  /\ verb \in [staged : BOOLEAN, told : BOOLEAN]

-----------------------------------------------------------------------------
(* The staging manager's four calls. *)

LEMMA Digests == NoSha \in Bytes /\ <<>> \in Bytes /\ Off = NoSha
BY DEF NoSha, Off, Byte, Bytes

LEMMA Empty == 0 \in Fill
BY StagingAssumption DEF Fill

LEMMA StartKeeps ==
  ASSUME NEW s, NEW c, Good(s, c), NEW p \in Post, NEW room \in BOOLEAN
  PROVE  Good(Started(s, p, room), c)
<1> DEFINE t == Started(s, p, room)
           begun == [s EXCEPT !.pend = p.label]
           has == s.has \/ room
<1>1. s \in StageState /\ Kept(s, c) /\ p.label \in Versions \union {Keep}
      /\ p.bad \in BOOLEAN
  BY DEF Good, Post
<1>2. has \in BOOLEAN
  OBVIOUS
<1>3. begun \in StageState
  BY <1>1 DEF StageState
<1>4. CASE p.bad
  <2>1. t = [begun EXCEPT !.uploading = FALSE]
    BY <1>4 DEF Started
  <2>2. t \in StageState /\ ~t.uploading
    BY <1>3, <2>1 DEF StageState
  <2>3. /\ t.ok = s.ok /\ t.len = s.len /\ t.buf = s.buf /\ t.ver = s.ver
        /\ t.sha = s.sha
    BY <1>1, <2>1 DEF StageState
  <2> HIDE DEF t
  <2>4. Kept(t, c)
    BY <1>1, <2>2, <2>3 DEF Kept, Committed, Held
  <2> QED
    BY <2>2, <2>4 DEF Good, Fed, t
<1>5. CASE ~p.bad
  <2> HIDE DEF has
  <2>1. t = [begun EXCEPT !.has = has, !.uploading = has, !.up = 0,
                          !.ok = FALSE, !.fed = IF has THEN <<>> ELSE @]
    BY <1>5 DEF Started, has
  <2> HIDE DEF begun
  <2>2. /\ t \in StageState /\ ~t.ok /\ t.uploading = has /\ t.up = 0
        /\ t.sha = begun.sha
        /\ has => t.fed = <<>>
    <3> DEFINE fed == IF has THEN <<>> ELSE begun.fed
    <3>1. fed \in Bytes /\ (has => fed = <<>>)
      BY <1>2, <1>3, Digests DEF StageState
    <3>2. t = [begun EXCEPT !.has = has, !.uploading = has, !.up = 0,
                            !.ok = FALSE, !.fed = fed]
      BY <1>3, <2>1 DEF StageState
    <3> HIDE DEF fed
    <3> QED
      BY <1>2, <1>3, <3>1, <3>2, Empty DEF StageState
  <2>3. begun.sha = s.sha
    BY <1>1 DEF begun, StageState
  <2> HIDE DEF t
  <2>4. Kept(t, c)
    BY <1>1, <2>2, <2>3 DEF Kept
  <2>5. Fed(t)
    BY <2>2 DEF Fed
  <2> QED
    BY <2>2, <2>4, <2>5 DEF Good, t
<1> QED
  BY <1>1, <1>4, <1>5

LEMMA DigestFails ==
  ASSUME NEW s, NEW c, Good(s, c)
  PROVE  Good([s EXCEPT !.fed = Off], c)
<1> DEFINE t == [s EXCEPT !.fed = Off]
<1>1. s \in StageState /\ Kept(s, c)
  BY DEF Good
<1>2. /\ t \in StageState /\ t.fed = Off
      /\ t.ok = s.ok /\ t.len = s.len /\ t.buf = s.buf /\ t.ver = s.ver
      /\ t.sha = s.sha /\ t.uploading = s.uploading
  BY <1>1, Digests DEF StageState
<1> HIDE DEF t
<1>3. Kept(t, c)
  BY <1>1, <1>2 DEF Kept, Committed, Held
<1>4. Good(t, c)
  BY <1>2, <1>3 DEF Good, Fed
<1> QED
  BY <1>4 DEF t

LEMMA WriteKeeps ==
  ASSUME NEW s, NEW c, Good(s, c), NEW byte \in Byte
  PROVE  Good(Written(s, byte), c)
<1> DEFINE t == Written(s, byte)
<1>1. s \in StageState /\ Kept(s, c) /\ Fed(s)
  BY DEF Good
<1>2. CASE ~s.uploading
  BY <1>2 DEF Written
<1>3. CASE s.uploading /\ s.up = Cap
  <2>1. t = [s EXCEPT !.uploading = FALSE, !.up = 0, !.fed = Off]
    BY <1>3 DEF Written
  <2>2. /\ t \in StageState /\ ~t.uploading
        /\ t.ok = s.ok /\ t.len = s.len /\ t.buf = s.buf /\ t.ver = s.ver
        /\ t.sha = s.sha
    BY <1>1, <2>1, Digests, Empty DEF StageState
  <2> HIDE DEF t
  <2>3. Kept(t, c)
    BY <1>1, <2>2 DEF Kept, Committed, Held
  <2> QED
    BY <2>2, <2>3 DEF Good, Fed, t
<1>4. CASE s.uploading /\ s.up # Cap
  <2> DEFINE fed == IF s.fed = Off THEN Off ELSE Append(s.fed, byte)
             buf == [s.buf EXCEPT ![s.up + 1] = byte]
  <2>1. /\ s.up + 1 \in 1 .. Cap /\ s.up + 1 \in Fill /\ s.up \in Nat
        /\ s.buf \in Buffer /\ s.fed \in Bytes
    BY <1>1, <1>4, StagingAssumption DEF StageState, Fill
  <2>2. fed \in Bytes
    BY <2>1, Digests, AppendProperties DEF Bytes
  <2>3. /\ buf \in Buffer /\ buf[s.up + 1] = byte
        /\ \A k \in 1 .. s.up : buf[k] = s.buf[k]
    <3>1. DOMAIN s.buf = 1 .. Cap /\ buf \in Buffer
      BY <2>1 DEF Buffer
    <3>2. \A k \in 1 .. s.up : k # s.up + 1 /\ k \in 1 .. Cap
      BY <2>1, StagingAssumption
    <3> QED
      BY <2>1, <3>1, <3>2
  <2>4. t = [s EXCEPT !.buf = buf, !.up = s.up + 1, !.fed = fed]
    BY <1>1, <1>4 DEF Written, StageState
  <2>5. fed # Off => /\ Len(fed) = s.up + 1
                     /\ \A k \in 1 .. s.up + 1 : fed[k] = buf[k]
    <3> SUFFICES ASSUME fed # Off
                 PROVE  /\ Len(fed) = s.up + 1
                        /\ \A k \in 1 .. s.up + 1 : fed[k] = buf[k]
      OBVIOUS
    <3>1. s.fed # Off /\ fed = Append(s.fed, byte)
      OBVIOUS
    <3>2. Len(s.fed) = s.up /\ \A k \in 1 .. s.up : s.fed[k] = s.buf[k]
      BY <1>1, <1>4, <3>1 DEF Fed
    <3> HIDE DEF fed, buf
    <3>3. /\ Len(fed) = s.up + 1 /\ fed[s.up + 1] = byte
          /\ \A k \in 1 .. s.up : fed[k] = s.fed[k]
      BY <2>1, <3>1, <3>2, AppendProperties DEF Bytes
    <3> QED
      BY <2>1, <2>3, <3>2, <3>3
  <2> HIDE DEF fed, buf
  <2>6. /\ t \in StageState /\ t.up = s.up + 1 /\ t.fed = fed /\ t.buf = buf
        /\ t.ok = s.ok /\ t.sha = s.sha
    BY <1>1, <2>1, <2>2, <2>3, <2>4 DEF StageState
  <2>7. ~s.ok
    BY <1>1, <1>4 DEF Kept
  <2> HIDE DEF t
  <2>8. Kept(t, c)
    BY <1>1, <2>6, <2>7 DEF Kept
  <2>9. Fed(t)
    BY <2>5, <2>6 DEF Fed
  <2> QED
    BY <2>6, <2>8, <2>9 DEF Good, t
<1> QED
  BY <1>2, <1>3, <1>4

LEMMA FinishKeeps ==
  ASSUME NEW s, NEW c, Good(s, c)
  PROVE  Good(Finished(s),
              IF s.uploading THEN c \union {Committed(Finished(s))} ELSE c)
<1> DEFINE t == Finished(s)
<1>1. s \in StageState /\ Kept(s, c) /\ Fed(s)
  BY DEF Good
<1>2. CASE ~s.uploading
  <2>1. t = [s EXCEPT !.ok = FALSE]
    BY <1>2 DEF Finished
  <2>2. t \in StageState /\ ~t.ok /\ ~t.uploading /\ t.sha = s.sha
    BY <1>1, <1>2, <2>1 DEF StageState
  <2> HIDE DEF t
  <2>3. Good(t, c)
    BY <1>1, <2>2 DEF Good, Kept, Fed
  <2> QED
    BY <1>2, <2>3 DEF t
<1>3. CASE s.uploading
  <2> DEFINE d == c \union {Committed(t)}
             ver == IF s.pend \in Versions THEN s.pend ELSE s.ver
             sha == IF s.fed = Off THEN NoSha ELSE s.fed
  <2>1. ver \in Versions \union {0} /\ sha \in Bytes
    BY <1>1, Digests DEF StageState
  <2>2. t = [s EXCEPT !.uploading = FALSE, !.len = s.up, !.ok = TRUE, !.fed = Off,
                      !.ver = ver, !.sha = sha]
    BY <1>1, <1>3 DEF Finished, StageState
  <2>3. sha # NoSha => /\ s.fed \in Bytes /\ sha = s.fed
                       /\ Len(s.fed) = s.up
                       /\ \A k \in 1 .. s.up : s.fed[k] = s.buf[k]
    BY <1>1, <1>3 DEF Fed, StageState
  <2> HIDE DEF ver, sha
  <2>4. /\ t \in StageState /\ ~t.uploading /\ t.sha = sha
        /\ t.len = s.up /\ t.buf = s.buf
    BY <1>1, <2>1, <2>2, Digests DEF StageState
  <2> HIDE DEF t
  <2>5. sha # NoSha => sha = Held(t)
    <3> SUFFICES ASSUME sha # NoSha PROVE sha = Held(t)
      OBVIOUS
    <3>1. Held(t) = [k \in 1 .. s.up |-> s.buf[k]]
      BY <2>4 DEF Held
    <3>2. s.fed = [k \in 1 .. s.up |-> s.fed[k]]
      BY <2>3, LenProperties DEF Bytes
    <3> QED
      BY <2>3, <3>1, <3>2
  <2>6. Committed(t) \in d /\ Committed(t).bytes = Held(t)
    BY DEF Committed
  <2>7. Kept(t, d)
    BY <2>4, <2>5, <2>6 DEF Kept
  <2>8. Good(t, d)
    BY <2>4, <2>7 DEF Good, Fed
  <2> QED
    BY <1>3, <2>8 DEF t
<1> QED
  BY <1>2, <1>3

-----------------------------------------------------------------------------
(* The uploads. *)

(* A chunk: a start on the first, the digest, the byte, and on the last the *)
(* end, which commits.                                                      *)
LEMMA ChunkKeeps ==
  ASSUME StagingOK, NEW u \in Uploaders, UploadChunk(u)
  PROVE  StagingOK' /\ commits \subseteq commits'
<1> DEFINE p == upload[u]
           last == p.at + 1 = p.size
           started(room) == IF p.at = 0 THEN Started(stage, p, room) ELSE stage
           fed(room, ok) == IF ok THEN started(room) ELSE [started(room) EXCEPT !.fed = Off]
           written(room, ok) == Written(fed(room, ok), <<p.post, p.at + 1>>)
<1>1. p \in Post /\ Good(stage, commits)
  BY DEF StagingOK
<1>2. p.at \in Nat /\ <<p.post, p.at + 1>> \in Byte
  BY <1>1 DEF Post, Byte
<1>3. PICK room \in BOOLEAN, ok \in BOOLEAN :
        /\ stage' = IF last THEN Finished(written(room, ok)) ELSE written(room, ok)
        /\ commits' = IF last /\ written(room, ok).uploading
                      THEN commits \union {Committed(stage')} ELSE commits
  BY DEF UploadChunk
<1> DEFINE w == written(room, ok)
<1>4. Good(started(room), commits)
  BY <1>1, StartKeeps
<1>5. Good(fed(room, ok), commits)
  BY <1>4, DigestFails
<1>6. Good(w, commits)
  BY <1>2, <1>5, WriteKeeps
<1>7. /\ stage' = IF last THEN Finished(w) ELSE w
      /\ commits' = IF last /\ w.uploading
                    THEN commits \union {Committed(stage')} ELSE commits
  BY <1>3
<1> HIDE DEF w, last
<1>8. Good(stage', commits')
  BY <1>6, <1>7, FinishKeeps
<1>9. upload' \in [Uploaders -> Post]
  BY <1>1, <1>2 DEF UploadChunk, StagingOK, Post
<1> QED
  BY <1>7, <1>8, <1>9 DEF StagingOK, UploadChunk

LEMMA StagingKeeps ==
  ASSUME StagingOK, StagingNext
  PROVE  StagingOK' /\ commits \subseteq commits'
<1> PICK u \in Uploaders : PostBegins(u) \/ UploadChunk(u) \/ PostEnds(u) \/ PostAborts(u)
  BY DEF StagingNext
<1>1. NoUpload \in Post
  BY DEF NoUpload, Post
<1>2. CASE PostBegins(u)
  <2>1. PICK size \in Sizes, label \in Versions \union {Keep}, bad \in BOOLEAN :
          upload' = [upload EXCEPT ![u] = [post |-> posts + 1, size |-> size,
                                           label |-> label, bad |-> bad, at |-> 0]]
    BY <1>2 DEF PostBegins
  <2>2. upload' \in [Uploaders -> Post]
    BY <2>1 DEF StagingOK, Post
  <2> QED
    BY <1>2, <2>2 DEF PostBegins, StagingOK
<1>3. CASE UploadChunk(u)
  BY <1>3, ChunkKeeps
<1>4. CASE PostEnds(u)
  <2>1. Good(stage', commits)
    <3>1. stage \in StageState /\ Fed(stage) /\ Kept(stage, commits)
      BY DEF StagingOK, Good
    <3>2. stage' = [stage EXCEPT !.ok = FALSE]
      BY <1>4 DEF PostEnds
    <3>3. /\ stage' \in StageState /\ ~stage'.ok /\ stage'.uploading = stage.uploading
          /\ stage'.fed = stage.fed /\ stage'.up = stage.up /\ stage'.buf = stage.buf
          /\ stage'.sha = stage.sha
      BY <3>1, <3>2 DEF StageState
    <3> QED
      BY <3>1, <3>3 DEF Good, Fed, Kept
  <2> QED
    BY <1>1, <1>4, <2>1 DEF PostEnds, StagingOK
<1>5. CASE PostAborts(u)
  BY <1>1, <1>5 DEF PostAborts, StagingOK
<1> QED
  BY <1>2, <1>3, <1>4, <1>5

-----------------------------------------------------------------------------
(* The head. *)

LEMMA MoreCommits ==
  ASSUME NEW h, NEW c, NEW d, c \subseteq d, HeadOK(h, c)
  PROVE  HeadOK(h, d)
BY DEF HeadOK

LEMMA FailKeeps ==
  ASSUME NEW h, NEW c, HeadOK(h, c)
  PROVE  HeadOK(Fails(h), c)
BY DEF HeadOK, HeadState, Fails

LEMMA IdleOK ==
  ASSUME NEW c, NEW fw \in Bytes, NEW version \in Nat, NEW checked \in BOOLEAN,
         checked => \E x \in c : x.bytes = fw
  PROVE  HeadOK(Idle(fw, version, checked), c)
<1> DEFINE h == Idle(fw, version, checked)
<1>1. /\ h \in HeadState /\ h.st = "idle" /\ h.total = 0 /\ h.got = <<>>
      /\ h.fw = fw /\ h.checked = checked
  BY Digests, Empty DEF Idle, HeadState
<1> HIDE DEF h
<1>2. HeadOK(h, c)
  BY <1>1 DEF HeadOK
<1> QED
  BY <1>2 DEF h

LEMMA Restarts ==
  ASSUME ScreenOK, OtaInv, screen' = ScreenOff, power' = Boot, render' = "idle",
         verb' = [verb EXCEPT !.told = FALSE]
  PROVE  ScreenOK' /\ verb' \in [staged : BOOLEAN, told : BOOLEAN]
<1>1. Boot \in Faces
  BY ScreenAssumption DEF Boot
<1>2. ScreenOK'
  BY <1>1 DEF ScreenOK, ScreenOff
<1> QED
  BY <1>2 DEF OtaInv

LEMMA Shown ==
  ASSUME ScreenOK, UNCHANGED <<power, render>>,
         screen' \in {screen, ShowOta(screen), FailOta(screen), FailOta(ShowOta(screen)),
                      HideOta(screen), ShowCode(screen), HideCode(screen)}
  PROVE  ScreenOK'
BY DEF ScreenOK, ShowOta, FailOta, HideOta, ShowCode, HideCode

(* Opening: the digest the head will check is one of a committed image.     *)
LEMMA OpenKeeps ==
  ASSUME OtaInv, HeadOpens
  PROVE  HeadOK(head', commits)
<1>1. /\ head \in HeadState /\ stage.sha \in Bytes /\ stage.len \in Fill
      /\ stage.sha # NoSha => \E x \in commits : x.bytes = stage.sha
      /\ head.checked => \E x \in commits : x.bytes = head.fw
  BY DEF OtaInv, StagingOK, Good, Kept, StageState, HeadOK
<1>2. head' = [head EXCEPT !.st = "fetch", !.man = stage.sha, !.total = stage.len,
                           !.got = <<>>]
  BY DEF HeadOpens
<1>3. /\ head' \in HeadState /\ head'.man = stage.sha /\ head'.total = stage.len
      /\ head'.got = <<>> /\ head'.checked = head.checked /\ head'.fw = head.fw
  BY <1>1, <1>2, Digests DEF HeadState
<1>4. stage.len > 0
  BY DEF HeadOpens, HasImage
<1> QED
  BY <1>1, <1>3, <1>4 DEF HeadOK, Fill

LEMMA ReadKeeps ==
  ASSUME OtaInv, HeadReads
  PROVE  HeadOK(head', commits)
<1> DEFINE byte == stage.buf[Len(head.got) + 1]
           got == Append(head.got, byte)
<1>1. /\ head \in HeadState /\ head.got \in Bytes /\ head.total \in Fill
      /\ Len(head.got) < head.total /\ head.total > 0
      /\ stage.buf \in Buffer
  BY DEF OtaInv, StagingOK, Good, StageState, HeadOK, HeadState, HeadReads
<1>2. byte \in Byte
  BY <1>1, LenProperties, StagingAssumption DEF Bytes, Fill, Buffer
<1> HIDE DEF byte
<1>3. got \in Bytes /\ Len(got) <= head.total
  BY <1>1, <1>2, AppendProperties, LenProperties, StagingAssumption DEF Bytes, Fill
<1>4. head' = [head EXCEPT !.got = got]
  BY <1>1 DEF HeadReads, HeadState, byte
<1> HIDE DEF got
<1>5. /\ head' \in HeadState /\ head'.got = got /\ head'.total = head.total
      /\ head'.st = head.st /\ head'.man = head.man
      /\ head'.checked = head.checked /\ head'.fw = head.fw
  BY <1>1, <1>3, <1>4 DEF HeadState
<1> QED
  BY <1>1, <1>3, <1>5 DEF OtaInv, HeadOK

(* Booting: the bytes passed the digest, and the digest was committed.      *)
LEMMA BootKeeps ==
  ASSUME OtaInv, HeadBoots
  PROVE  HeadOK(head', commits)
<1>1. /\ head.st = "fetch" /\ Len(head.got) = head.total /\ head.total > 0
      /\ head.man \in {NoSha, head.got} /\ head.got \in Bytes
      /\ head.man # NoSha => \E x \in commits : x.bytes = head.man
  BY DEF OtaInv, HeadOK, HeadState, HeadBoots, Whole, Verified
<1>2. head.got[1] \in Byte
  BY <1>1, ElementOfSeq, LenProperties DEF Bytes
<1>3. head.got[1][1] \in Nat
  BY <1>2 DEF Byte
<1>4. head' = Idle(head.got, head.got[1][1], head.man # NoSha)
  BY DEF HeadBoots
<1>5. (head.man # NoSha) \in BOOLEAN
  OBVIOUS
<1> QED
  BY <1>1, <1>3, <1>4, <1>5, IdleOK

LEMMA UpdaterKeeps ==
  ASSUME OtaInv, Updater
  PROVE  OtaInv'
<1> USE DEF OtaInv
<1>1. CASE HeadAsks
  <2>1. head' \in {[head EXCEPT !.st = "opens"], Fails(head)}
    BY <1>1 DEF HeadAsks
  <2>2. HeadOK([head EXCEPT !.st = "opens"], commits)
    BY DEF HeadOK, HeadState
  <2>3. HeadOK(head', commits)
    BY <2>1, <2>2, FailKeeps
  <2> QED
    BY <1>1, <2>3 DEF HeadAsks, StagingOK, ScreenOK, stagingVars, screenVars
<1>2. CASE HeadCannotConnect
  BY <1>2, FailKeeps DEF HeadCannotConnect, StagingOK, ScreenOK, stagingVars, screenVars
<1>3. CASE HeadIsRefused
  BY <1>3, FailKeeps, Shown DEF HeadIsRefused, StagingOK, stagingVars
<1>4. CASE HeadOpens
  BY <1>4, OpenKeeps, Shown DEF HeadOpens, StagingOK, stagingVars
<1>5. CASE HeadReads
  BY <1>5, ReadKeeps, Shown DEF HeadReads, StagingOK, stagingVars
<1>6. CASE HeadBreaksOff
  BY <1>6, FailKeeps, Shown DEF HeadBreaksOff, StagingOK, stagingVars
<1>7. CASE HeadDiscards
  BY <1>7, FailKeeps, Shown DEF HeadDiscards, StagingOK, stagingVars
<1>8. CASE HeadBoots
  BY <1>8, BootKeeps, Restarts DEF HeadBoots, StagingOK, stagingVars
<1> QED
  BY <1>1, <1>2, <1>3, <1>4, <1>5, <1>6, <1>7, <1>8 DEF Updater

LEMMA PowerKeeps ==
  ASSUME OtaInv, HeadLosesPower
  PROVE  OtaInv'
<1>1. /\ head.fw \in Bytes /\ head.version \in Nat /\ head.checked \in BOOLEAN
      /\ head.checked => \E x \in commits : x.bytes = head.fw
  BY DEF OtaInv, HeadOK, HeadState
<1>2. HeadOK(head', commits)
  BY <1>1, IdleOK DEF HeadLosesPower
<1> QED
  BY <1>2, Restarts DEF HeadLosesPower, OtaInv, StagingOK, stagingVars

-----------------------------------------------------------------------------
(* The trigger and the display. *)

LEMMA VerbKeeps ==
  ASSUME OtaInv, OtaHeadVerb \/ PumpOtaLink \/ HeadIsTold
  PROVE  OtaInv'
<1> USE DEF OtaInv, StagingOK, ScreenOK, stagingVars, screenVars
<1>1. CASE OtaHeadVerb
  BY <1>1 DEF OtaHeadVerb
<1>2. CASE PumpOtaLink
  BY <1>2 DEF PumpOtaLink
<1>3. CASE HeadIsTold
  <2>1. HeadOK([head EXCEPT !.st = "asks"], commits)
    BY DEF HeadOK, HeadState
  <2> QED
    BY <1>3, <2>1 DEF HeadIsTold
<1> QED
  BY <1>1, <1>2, <1>3

LEMMA ScreenKeeps ==
  ASSUME ScreenOK,
         \/ PairShow \/ PairDone \/ (\E f \in Faces : Face(f))
         \/ (\E on \in BOOLEAN : Oled(on)) \/ Render \/ CodeFallsDue \/ OtaFallsDue
  PROVE  ScreenOK'
<1>1. CASE PairShow
  BY <1>1, Shown DEF PairShow
<1>2. CASE PairDone
  BY <1>2, Shown DEF PairDone
<1>3. CASE \E f \in Faces : Face(f)
  BY <1>3 DEF Face, ScreenOK
<1>4. CASE \E on \in BOOLEAN : Oled(on)
  BY <1>4 DEF Oled, ScreenOK
<1>5. CASE Render
  BY <1>5 DEF Render, RenderLooks, RenderClears, Clears, HideOta, HideCode, ScreenOK
<1>6. CASE CodeFallsDue \/ OtaFallsDue
  BY <1>6 DEF CodeFallsDue, OtaFallsDue, ScreenOK
<1> QED
  BY <1>1, <1>2, <1>3, <1>4, <1>5, <1>6

LEMMA DisplayKeeps ==
  ASSUME OtaInv, Command \/ CodeDone \/ RenderStep \/ Deadline
  PROVE  OtaInv'
<1>1. ScreenOK'
  BY ScreenKeeps DEF OtaInv, Command, CodeDone, RenderStep, Deadline
<1>2. UNCHANGED <<stagingVars, verb, head>>
  BY DEF Command, CodeDone, RenderStep, Deadline
<1> QED
  BY <1>1, <1>2 DEF OtaInv, StagingOK, stagingVars

-----------------------------------------------------------------------------
LEMMA Boots == Init => OtaInv
<1> SUFFICES ASSUME Init PROVE OtaInv
  OBVIOUS
<1>1. stage \in StageState /\ ~stage.ok /\ ~stage.uploading /\ stage.sha = NoSha
  <2>1. [k \in 1 .. Cap |-> <<0, k>>] \in Buffer
    BY StagingAssumption DEF Buffer, Byte
  <2> QED
    BY <2>1, Digests, Empty DEF Init, StagingInit, StageState, Keep
<1>2. Good(stage, commits)
  BY <1>1 DEF Good, Fed, Kept
<1>3. StagingOK
  BY <1>2 DEF Init, StagingInit, StagingOK, NoUpload, Post
<1>4. ScreenOK
  BY ScreenAssumption DEF Init, ScreenInit, ScreenOff, Boot, ScreenOK
<1>5. HeadOK(head, commits)
  BY IdleOK, Digests DEF Init
<1> QED
  BY <1>3, <1>4, <1>5 DEF Init, OtaInv

(* The induction: the buffer holds the order it was fed in (Fed, Kept) and  *)
(* the head's digest counts what it read (HeadOK), in every reachable       *)
(* state.                                                                   *)
LEMMA OtaInvariant == Spec => []OtaInv
<1>1. OtaInv /\ [Next]_vars => OtaInv'
  <2> SUFFICES ASSUME OtaInv, [Next]_vars PROVE OtaInv'
    OBVIOUS
  <2>1. CASE StagingStep
    <3>1. StagingOK' /\ HeadOK(head, commits')
      BY <2>1, StagingKeeps, MoreCommits DEF StagingStep, OtaInv
    <3> QED
      BY <2>1, <3>1 DEF StagingStep, OtaInv, ScreenOK, screenVars
  <2>2. CASE OtaHeadVerb \/ PumpOtaLink \/ HeadIsTold
    BY <2>2, VerbKeeps
  <2>3. CASE Updater \/ HeadLosesPower
    BY <2>3, UpdaterKeeps, PowerKeeps
  <2>4. CASE Command \/ CodeDone \/ RenderStep \/ Deadline
    BY <2>4, DisplayKeeps
  <2>5. CASE UNCHANGED vars
    BY <2>5 DEF vars, stagingVars, screenVars, OtaInv, StagingOK, ScreenOK
  <2> QED
    BY <2>1, <2>2, <2>3, <2>4, <2>5 DEF Next
<1> QED
  BY <1>1, Boots, PTL DEF Spec

(* Type correctness: neither the buffer nor the announced length is ever    *)
(* passed (StagingManager::writeChunk, OtaUpdater::poll).                   *)
THEOREM OtaTyped == Spec => []TypeOK
<1>1. OtaInv => TypeOK
  BY DEF OtaInv, StagingOK, Good, StageState, Buffer, Fill, Byte, Post, ScreenOK,
         HeadOK, HeadState, TypeOK
<1> QED
  BY OtaInvariant, <1>1, PTL

(* A post answered "staged" left its bytes in the buffer, whole and under   *)
(* their digest, however many clients post at once (takePostResult).        *)
THEOREM StagedIsIntact == Spec => []OkIsIntact
<1>1. OtaInv => OkIsIntact
  BY DEF OtaInv, StagingOK, Good, Kept, OkIsIntact
<1> QED
  BY OtaInvariant, <1>1, PTL

(* The head boots nothing it checked that was not committed, although the   *)
(* image is streamed from a buffer others write over (OtaUpdater::finish).  *)
THEOREM CheckedIsCommitted == Spec => []BootsCommitted
<1>1. OtaInv => BootsCommitted
  BY DEF OtaInv, HeadOK, BootsCommitted
<1> QED
  BY OtaInvariant, <1>1, PTL
=============================================================================
