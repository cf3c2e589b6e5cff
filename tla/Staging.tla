------------------------------- MODULE Staging -------------------------------
(* The core's staging of a firmware image for the head: uploads over HTTP   *)
(* into one buffer that is never freed, and the two pages the head reads.   *)
(* A byte is the pair of the post it came in and its place there; a digest  *)
(* is the bytes it was fed.                                                 *)
EXTENDS Naturals, Sequences

CONSTANTS
  Uploaders,   \* clients that may post at the same time
  Cap,         \* kMaxImage
  Sizes,       \* the sizes of the images posted
  Versions,    \* the labels a post may carry; a malformed one is bad
  MaxPosts,    \* bound: posts made
  MaxDigests   \* bound: digests that fail

ASSUME StagingAssumption ==
  /\ Cap \in Nat \ {0} /\ Sizes \subseteq Nat \ {0}
  /\ Versions \subseteq Nat \ {0}
  /\ MaxPosts \in Nat /\ MaxDigests \in Nat

VARIABLES
  stage,    \* StagingManager: buf and what of it is committed (len), what is
            \* uploaded (up), uploading, ok, the label (ver) and the
            \* pending one (pend), sha, and the digest of the task (fed)
  upload,   \* each client's post: its number, size, label and next byte (at)
  posts,    \* posts made so far
  digests,  \* digests failed so far
  commits   \* every image and label committed (no code reads it)

stagingVars == <<stage, upload, posts, digests, commits>>

(* No post has the number 0. *)
NoSha == << <<0, 0>> >>
Off == NoSha
Keep == 0
NoUpload == [post |-> 0, size |-> 0, label |-> Keep, bad |-> FALSE, at |-> 0]

StagingInit ==
  /\ stage = [has |-> FALSE, buf |-> [k \in 1 .. Cap |-> <<0, k>>], len |-> 0, up |-> 0,
              uploading |-> FALSE, ok |-> FALSE,
              ver |-> 0, pend |-> Keep, sha |-> NoSha, fed |-> Off]
  /\ upload = [u \in Uploaders |-> NoUpload]
  /\ posts = 0 /\ digests = 0 /\ commits = {}

Held(s) == [k \in 1 .. s.len |-> s.buf[k]]

PostBegins(u) ==
  /\ upload[u] = NoUpload /\ posts < MaxPosts
  /\ \E size \in Sizes, label \in Versions \union {Keep}, bad \in BOOLEAN :
       /\ bad => label = Keep
       /\ upload' = [upload EXCEPT ![u] =
                       [post |-> posts + 1, size |-> size,
                        label |-> label, bad |-> bad, at |-> 0]]
  /\ posts' = posts + 1
  /\ UNCHANGED <<stage, digests, commits>>

(* beginUpload, and storageReady unless it rejects: the first allocation    *)
(* may fail.  A rejected start stops an upload of somebody else as well.    *)
Started_KeepsOk(s, p, room) ==
  LET begun == [s EXCEPT !.pend = p.label] IN
  IF p.bad THEN [begun EXCEPT !.uploading = FALSE]
  ELSE [begun EXCEPT !.has = s.has \/ room, !.uploading = s.has \/ room, !.up = 0,
                     !.fed = IF s.has \/ room THEN <<>> ELSE @]

Started(s, p, room) ==
  LET begun == [s EXCEPT !.pend = p.label] IN
  IF p.bad THEN [begun EXCEPT !.uploading = FALSE]
  ELSE [begun EXCEPT !.has = s.has \/ room, !.uploading = s.has \/ room, !.up = 0,
                     !.ok = FALSE, !.fed = IF s.has \/ room THEN <<>> ELSE @]

(* writeChunk, in place, and the digest. *)
Written(s, byte) ==
  IF ~s.uploading THEN s
  ELSE IF s.up = Cap THEN [s EXCEPT !.uploading = FALSE, !.up = 0, !.fed = Off]
  ELSE [s EXCEPT !.buf = [@ EXCEPT ![s.up + 1] = byte], !.up = @ + 1,
                 !.fed = IF @ = Off THEN Off ELSE Append(@, byte)]

(* finishUpload: bytes, label and digest at once. *)
Finished(s) ==
  IF ~s.uploading THEN [s EXCEPT !.ok = FALSE]
  ELSE [s EXCEPT !.uploading = FALSE, !.len = s.up, !.ok = TRUE, !.fed = Off,
                 !.ver = IF s.pend \in Versions THEN s.pend ELSE @,
                 !.sha = IF s.fed = Off THEN NoSha ELSE s.fed]

Committed(s) == [bytes |-> Held(s), ver |-> s.ver]

(* OtaStaging::handleUpload, one chunk under the mutex.                     *)
UploadChunk(u) ==
  LET p == upload[u] IN
  /\ p.at < p.size
  /\ \E room, digestOk \in BOOLEAN :
       LET started == IF p.at = 0 THEN Started(stage, p, room) ELSE stage
           fed == IF digestOk THEN started ELSE [started EXCEPT !.fed = Off]
           written == Written(fed, <<p.post, p.at + 1>>)
           done == IF p.at + 1 = p.size THEN Finished(written) ELSE written
       IN
       /\ ~digestOk => started.uploading /\ started.fed # Off /\ digests < MaxDigests
       /\ digests' = IF digestOk THEN digests ELSE digests + 1
       /\ stage' = done
       /\ commits' = IF p.at + 1 = p.size /\ written.uploading
                     THEN commits \union {Committed(done)} ELSE commits
  /\ upload' = [upload EXCEPT ![u].at = @ + 1]
  /\ UNCHANGED posts

(* handlePostDone: the answer takes the outcome with it. *)
PostEnds(u) ==
  /\ upload[u] # NoUpload /\ upload[u].at = upload[u].size
  /\ stage' = [stage EXCEPT !.ok = FALSE]
  /\ upload' = [upload EXCEPT ![u] = NoUpload]
  /\ UNCHANGED <<posts, digests, commits>>

(* The client goes away: nobody is told. *)
PostAborts(u) ==
  /\ upload[u].at > 0
  /\ upload' = [upload EXCEPT ![u] = NoUpload]
  /\ UNCHANGED <<stage, posts, digests, commits>>

StagingNext ==
  \E u \in Uploaders : PostBegins(u) \/ UploadChunk(u) \/ PostEnds(u) \/ PostAborts(u)

(* What the two pages answer.  The manifest is there during an upload too;  *)
(* as text it says what it was built from, and each thing once.             *)
HasImage == ~stage.uploading /\ stage.len > 0
Manifest == [version |-> stage.ver, size |-> stage.len, sha |-> stage.sha]

(* A post is answered "staged" only for bytes that are in the buffer, whole *)
(* and under their digest: no later start, oversized or aborted upload has  *)
(* touched them (StagingManager::takePostResult).                           *)
OkIsIntact ==
  stage.ok =>
    /\ Committed(stage) \in commits
    /\ stage.sha \in {NoSha, Held(stage)}
=============================================================================
