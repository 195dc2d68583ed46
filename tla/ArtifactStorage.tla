--------------------------- MODULE ArtifactStorage ---------------------------
(***************************************************************************)
(* The image storage drivers below one illustration of one book.           *)
(*                                                                         *)
(* A driver knows an object by key and format; its callers know the key    *)
(* alone, so that a read asks for one format after another.  The cloud     *)
(* driver reads, writes and copies an object in one call.  The local       *)
(* driver looks before it reads or copies, and its writes are seen half    *)
(* done.  Over that, a claim of a run inspects the image its checkpoint    *)
(* names, copies it forward to a key of its own or has it drawn, records   *)
(* it, and publishes what it can read back; the claim it took over from    *)
(* may still be at work.  Readers of the published cover keep a thumbnail  *)
(* beside it, and a sweeper removes what nothing refers to.                *)
(***************************************************************************)
EXTENDS Naturals, Sequences

CONSTANTS Formats,          \* the formats, in the order in which a read asks for them
          StorageBudgets    \* the driver, the image at hand, and how often what may happen

RivalClaims == {"c1", "c2"}
CoverReaders == {"r1", "r2"}
ImageKeys == {"source", "k1", "k2"}
ThumbKeys == {"thumb_source", "thumb_k1", "thumb_k2"}
Extensions == {Formats[i] : i \in DOMAIN Formats}

(* Images "a" and "b" decode; "none" is no object, "torn" half of one.     *)
(* c1 and c2 are the images that the claims have drawn.                    *)
Pictures == {"a", "b"} \union RivalClaims
ThumbOf == [p \in Pictures |-> CASE p = "a" -> "thumb_of_a" [] p = "b" -> "thumb_of_b"
                                 [] p = "c1" -> "thumb_of_c1" [] p = "c2" -> "thumb_of_c2"]
Contents == {"none", "torn"} \union Pictures \union {ThumbOf[p] : p \in Pictures}

(* Images come in formats that are asked for, thumbnails in webp.          *)
ASSUME StorageAssumption ==
  /\ Formats \in Seq(STRING) /\ "webp" \in Extensions
  /\ StorageBudgets \subseteq
       [driver: {"cloud", "local"}, source: {"none", "torn"} \union Pictures,
        hash: {"none", "unknown"} \union Pictures, format: Extensions,
        draws: SUBSET Extensions, claims: 1 .. 2, changed: BOOLEAN, faults: Nat,
        reads: Nat, removals: Nat, closed: BOOLEAN]

\* Mutant: a key that names the run and not the claim.
ClaimKeyOfTheRun(c) == "k1"

(* claimImageAssetKey *)
ClaimKey(c) == IF c = "c1" THEN "k1" ELSE "k2"

\* Mutant: one thumbnail for every edition.
ThumbKeyOfTheBook(key) == "thumb_source"

(* coverThumbnailKey *)
ThumbKey(key) == CASE key = "source" -> "thumb_source" [] key = "k1" -> "thumb_k1"
                   [] key = "k2" -> "thumb_k2"

VARIABLES
  files,       \* key -> format -> content
  claim,       \* claim -> its step, the read in progress, what it expects and found
  owner,       \* the claim that may write the book's rows
  record,      \* the image in the book's checkpoint: its key and hash
  onShow,      \* the published image: its key and hash
  viewer,      \* reader -> its step, the read in progress, the edition it serves
  served,      \* what readers were given: the hash of their edition, the bytes
  sbudget      \* what may still happen

storageVars == <<files, claim, owner, record, onShow, viewer, served, sbudget>>
bookRows == <<owner, record, onShow>>

NoImage == [key |-> "source", hash |-> "none"]
NoRead == [key |-> "source", at |-> 1, got |-> "idle", format |-> "none"]
ReadOf(key) == [NoRead EXCEPT !.key = key, !.got = "asking"]

StorageInit ==
  /\ sbudget \in StorageBudgets
  /\ files = [k \in ImageKeys \union ThumbKeys |-> [f \in Extensions |->
       IF k = "source" /\ f = sbudget.format THEN sbudget.source ELSE "none"]]
  /\ claim = [c \in RivalClaims |-> [step |-> "waiting", read |-> NoRead, expected |-> NoImage,
                                bytes |-> "none", bound |-> "none", adopted |-> FALSE]]
  /\ owner = "none"
  /\ record = [key |-> "source", hash |-> sbudget.hash]
  /\ onShow = NoImage
  /\ viewer = [r \in CoverReaders |-> [step |-> "idle", read |-> NoRead, of |-> NoImage]]
  /\ served = {}

Local == sbudget.driver = "local"
Decodes(content) == content \in Pictures
Spend(what) == sbudget' = [sbudget EXCEPT ![what] = @ - 1]

(***************************************************************************)
(* The drivers.                                                            *)
(***************************************************************************)
(* getImageAsset asks for one format; the local driver, once it sees the   *)
(* file, opens it in a second step, and fails when it is gone by then.     *)
Asked(read) ==
  LET f == Formats[read.at]
      content == files[read.key][f]
  IN  CASE content # "none" /\ Local -> [read EXCEPT !.got = "opening", !.format = f]
        [] content # "none" /\ ~Local -> [read EXCEPT !.got = content, !.format = f]
        [] content = "none" /\ read.at < Len(Formats) -> [read EXCEPT !.at = @ + 1]
        [] OTHER -> [read EXCEPT !.got = "none"]

Opened(read) ==
  LET content == files[read.key][read.format]
  IN  [read EXCEPT !.got = IF content = "none" THEN "error" ELSE content]

Reading(read) == read.got \in {"asking", "opening"}
Progress(read) == IF read.got = "asking" THEN Asked(read) ELSE Opened(read)

(* saveImageAsset writes one format and leaves the others: the local file  *)
(* is torn until the rest is written, the cloud object appears whole.      *)
Written(key, f, content) == [files EXCEPT ![key][f] = content]
FirstWrite(key, f, content) == Written(key, f, IF Local THEN "torn" ELSE content)

(* What a read of the key returns when nothing moves.                      *)
Held(key) ==
  LET present == {i \in DOMAIN Formats : files[key][Formats[i]] # "none"}
  IN  IF present = {} THEN "none"
      ELSE files[key][Formats[CHOOSE i \in present : \A j \in present : i <= j]]

(***************************************************************************)
(* A claim.                                                                *)
(***************************************************************************)
Steps(c, step) == claim' = [claim EXCEPT ![c].step = step, ![c].read = NoRead]
Reads(c, step, key) == claim' = [claim EXCEPT ![c].step = step, ![c].read = ReadOf(key)]
Got(c, step) == claim[c].step = step /\ claim[c].read.got \in {"none"} \union Contents

\* Mutant: whatever decodes was recorded.
IsExpectedIfDecodes(content, hash) == Decodes(content)

(* An image is the expected one by its hash; checkpoints of old books have *)
(* none, and anything that decodes will do.                                *)
IsExpected(content, hash) == Decodes(content) /\ (hash = "unknown" \/ content = hash)

(* A claim starts, or takes over from one that still seems to run.  It     *)
(* resumes from the checkpoint when the book's input is the same.          *)
StartClaim(c) ==
  /\ claim[c].step = "waiting"
  /\ c = "c2" => claim["c1"].step # "waiting" /\ sbudget.claims = 2
  /\ owner' = c
  /\ \/ record.hash # "none" /\ claim' = [claim EXCEPT ![c].step = "inspect",
                                 ![c].read = ReadOf(record.key), ![c].expected = record]
     \/ (record.hash = "none" \/ sbudget.changed) /\ Steps(c, "draw")
  /\ UNCHANGED <<files, record, onShow, viewer, served, sbudget>>

ClaimReads(c) ==
  /\ Reading(claim[c].read)
  /\ claim' = [claim EXCEPT ![c].read = Progress(@)]
  /\ UNCHANGED <<files, bookRows, viewer, served, sbudget>>

(* inspect confirms the recorded image, or leaves it to be drawn.          *)
Inspected(c) ==
  /\ Got(c, "inspect")
  /\ IF IsExpected(claim[c].read.got, claim[c].expected.hash)
     THEN Reads(c, "current", ClaimKey(c)) ELSE Steps(c, "draw")
  /\ UNCHANGED <<files, bookRows, viewer, served, sbudget>>

(* resolveArtifact: the claim's own key first, then the source.            *)
CurrentRead(c) ==
  /\ Got(c, "current")
  /\ IF IsExpected(claim[c].read.got, claim[c].expected.hash)
     THEN Reads(c, "bind", ClaimKey(c)) ELSE Reads(c, "source", claim[c].expected.key)
  /\ UNCHANGED <<files, bookRows, viewer, served, sbudget>>

SourceRead(c) ==
  /\ Got(c, "source")
  /\ IF IsExpected(claim[c].read.got, claim[c].expected.hash)
     THEN claim' = [claim EXCEPT ![c].step = "find", ![c].read = NoRead,
                                 ![c].bytes = claim[c].read.got]
     ELSE Steps(c, "draw")
  /\ UNCHANGED <<files, bookRows, viewer, served, sbudget>>

(* copyImageAsset finds the format of its source, and no source at all is  *)
(* an image to draw.                                                       *)
FindSource(c) ==
  /\ claim[c].step = "find"
  /\ LET key == claim[c].expected.key
         present == {i \in DOMAIN Formats : files[key][Formats[i]] # "none"}
     IN  IF present = {} THEN Steps(c, "draw")
         ELSE claim' = [claim EXCEPT ![c].step = "copy", ![c].read = [NoRead EXCEPT
                !.format = Formats[CHOOSE i \in present : \A j \in present : i <= j]]]
  /\ UNCHANGED <<files, bookRows, viewer, served, sbudget>>

(* The copy fails when the source has gone since.                          *)
CopySource(c) ==
  /\ claim[c].step = "copy"
  /\ LET f == claim[c].read.format
         content == files[claim[c].expected.key][f]
     IN  IF content = "none" THEN Steps(c, "failed") /\ UNCHANGED files
         ELSE /\ files' = FirstWrite(ClaimKey(c), f, content)
              /\ IF Local THEN claim' = [claim EXCEPT ![c].step = "copying", ![c].read.got = content]
                 ELSE Reads(c, "verify", ClaimKey(c))
  /\ UNCHANGED <<bookRows, viewer, served, sbudget>>

FinishCopy(c) ==
  /\ claim[c].step = "copying"
  /\ files' = Written(ClaimKey(c), claim[c].read.format, claim[c].read.got)
  /\ Reads(c, "verify", ClaimKey(c))
  /\ UNCHANGED <<bookRows, viewer, served, sbudget>>

CopyVerified(c) ==
  /\ Got(c, "verify")
  /\ IF claim[c].read.got = claim[c].bytes /\ Decodes(claim[c].read.got)
     THEN Reads(c, "bind", ClaimKey(c)) ELSE Steps(c, "draw")
  /\ UNCHANGED <<files, bookRows, viewer, served, sbudget>>

(* stored: the owner checkpoints the hash of the bytes; a claim that was   *)
(* taken over fails here.                                                  *)
Stored(c, content) ==
  IF owner = c
  THEN /\ record' = [key |-> ClaimKey(c), hash |-> content]
       /\ claim' = [claim EXCEPT ![c].step = "render", ![c].read = ReadOf(ClaimKey(c)),
                                 ![c].bound = content, ![c].adopted = claim[c].step = "bind"]
  ELSE Steps(c, "failed") /\ UNCHANGED record

BindKept(c) ==
  /\ Got(c, "bind")
  /\ IF Decodes(claim[c].read.got) THEN Stored(c, claim[c].read.got)
     ELSE Steps(c, "failed") /\ UNCHANGED record
  /\ UNCHANGED <<files, owner, onShow, viewer, served, sbudget>>

(* The provider draws, in a format of its own.                             *)
Illustrated(c) ==
  /\ claim[c].step = "draw"
  /\ \E f \in sbudget.draws : claim' = [claim EXCEPT ![c].step = "save", ![c].read.format = f]
  /\ UNCHANGED <<files, bookRows, viewer, served, sbudget>>

SaveDrawn(c) ==
  /\ claim[c].step = "save"
  /\ files' = FirstWrite(ClaimKey(c), claim[c].read.format, c)
  /\ claim' = [claim EXCEPT ![c].step = "saving"]
  /\ UNCHANGED <<bookRows, viewer, served, sbudget>>

DrawnSaved(c) ==
  /\ claim[c].step = "saving"
  /\ files' = IF Local THEN Written(ClaimKey(c), claim[c].read.format, c) ELSE files
  /\ Stored(c, c)
  /\ UNCHANGED <<owner, onShow, viewer, served, sbudget>>

(* The PDF needs the recorded bytes; the owner then publishes.             *)
Rendered(c) ==
  /\ Got(c, "render")
  /\ IF owner = c /\ claim[c].read.got = claim[c].bound
     THEN onShow' = record /\ Steps(c, "done")
     ELSE Steps(c, "failed") /\ UNCHANGED onShow
  /\ UNCHANGED <<files, owner, record, viewer, served, sbudget>>

(* A storage call fails or the worker dies; what it had begun to write     *)
(* stays as it is.                                                         *)
ClaimFails(c) ==
  /\ claim[c].step \notin {"waiting", "done", "failed"}
  /\ sbudget.faults > 0 \/ claim[c].read.got = "error"
  /\ Steps(c, "failed")
  /\ IF claim[c].read.got = "error" THEN UNCHANGED sbudget ELSE Spend("faults")
  /\ UNCHANGED <<files, bookRows, viewer, served>>

(***************************************************************************)
(* Readers of the published cover, and the sweeper.                        *)
(***************************************************************************)
Views(r, step, read) == viewer' = [viewer EXCEPT ![r].step = step, ![r].read = read]
ViewerGot(r, step) == viewer[r].step = step /\ viewer[r].read.got \in Contents

(* getPublishedImage looks for the cached thumbnail first.                 *)
AskCover(r) ==
  /\ viewer[r].step = "idle" /\ onShow # NoImage /\ sbudget.reads > 0
  /\ viewer' = [viewer EXCEPT ![r] = [step |-> "thumb", read |-> ReadOf(ThumbKey(onShow.key)),
                                      of |-> onShow]]
  /\ Spend("reads")
  /\ UNCHANGED <<files, claim, bookRows, served>>

ViewerReads(r) ==
  /\ Reading(viewer[r].read)
  /\ viewer' = [viewer EXCEPT ![r].read = Progress(@)]
  /\ UNCHANGED <<files, claim, bookRows, served, sbudget>>

Answer(r, content) == served' = served \union {[of |-> viewer[r].of.hash, bytes |-> content]}

ThumbRead(r) ==
  /\ ViewerGot(r, "thumb")
  /\ IF viewer[r].read.got = "none" THEN Views(r, "cover", ReadOf(viewer[r].of.key)) /\ UNCHANGED served
     ELSE Views(r, "idle", NoRead) /\ Answer(r, viewer[r].read.got)
  /\ UNCHANGED <<files, claim, bookRows, sbudget>>

(* The thumbnail is made from the cover, unless a deletion has closed the  *)
(* book to writers, and bytes that do not decode go out as they are.       *)
CoverRead(r) ==
  /\ ViewerGot(r, "cover")
  /\ LET got == viewer[r].read.got
     IN  IF Decodes(got)
         THEN \/ Views(r, "save", [NoRead EXCEPT !.got = ThumbOf[got]]) /\ UNCHANGED served
              \/ sbudget.closed /\ Views(r, "idle", NoRead) /\ Answer(r, ThumbOf[got])
         ELSE Views(r, "idle", NoRead) /\ (IF got = "none" THEN UNCHANGED served ELSE Answer(r, got))
  /\ UNCHANGED <<files, claim, bookRows, sbudget>>

SaveThumb(r) ==
  /\ viewer[r].step = "save"
  /\ files' = FirstWrite(ThumbKey(viewer[r].of.key), "webp", viewer[r].read.got)
  /\ viewer' = [viewer EXCEPT ![r].step = "saving"]
  /\ UNCHANGED <<claim, bookRows, served, sbudget>>

ThumbSaved(r) ==
  /\ viewer[r].step = "saving"
  /\ files' = IF Local THEN Written(ThumbKey(viewer[r].of.key), "webp", viewer[r].read.got) ELSE files
  /\ Views(r, "idle", NoRead) /\ Answer(r, viewer[r].read.got)
  /\ UNCHANGED <<claim, bookRows, sbudget>>

(* A failed save discards the thumbnail: every format of its key goes.     *)
ThumbSaveFails(r) ==
  /\ viewer[r].step \in {"save", "saving"} /\ sbudget.faults > 0
  /\ files' = [files EXCEPT ![ThumbKey(viewer[r].of.key)] = [f \in Extensions |-> "none"]]
  /\ Views(r, "idle", NoRead) /\ Answer(r, viewer[r].read.got)
  /\ Spend("faults")
  /\ UNCHANGED <<claim, bookRows>>

ViewFails(r) ==
  /\ viewer[r].read.got = "error"
  /\ Views(r, "idle", NoRead)
  /\ UNCHANGED <<files, claim, bookRows, served, sbudget>>

(* An object nothing refers to is removed: a thumbnail, or an image that   *)
(* is neither published nor the running claim's.  The image that a         *)
(* checkpoint names may be lost too.                                       *)
RemoveObject(key) ==
  /\ key \in ThumbKeys \union (ImageKeys \ ({onShow.key} \union
                                 IF owner = "none" THEN {} ELSE {ClaimKey(owner)}))
  /\ sbudget.removals > 0
  /\ \E f \in Extensions : files[key][f] # "none" /\ files' = Written(key, f, "none")
  /\ Spend("removals")
  /\ UNCHANGED <<claim, bookRows, viewer, served>>

ClaimStep(c) ==
  \/ ClaimReads(c) \/ Inspected(c) \/ CurrentRead(c) \/ SourceRead(c) \/ FindSource(c)
  \/ CopySource(c) \/ FinishCopy(c) \/ CopyVerified(c) \/ BindKept(c) \/ Illustrated(c)
  \/ SaveDrawn(c) \/ DrawnSaved(c) \/ Rendered(c)

StorageNext ==
  \/ \E c \in RivalClaims : StartClaim(c) \/ ClaimStep(c) \/ ClaimFails(c)
  \/ \E r \in CoverReaders :
       \/ AskCover(r) \/ ViewerReads(r) \/ ThumbRead(r) \/ CoverRead(r)
       \/ SaveThumb(r) \/ ThumbSaved(r) \/ ThumbSaveFails(r) \/ ViewFails(r)
  \/ \E key \in ImageKeys \union ThumbKeys : RemoveObject(key)

StorageSpec == StorageInit /\ [][StorageNext]_storageVars

-----------------------------------------------------------------------------
(***************************************************************************)
(* The properties.                                                         *)
(***************************************************************************)
(* The bytes of the published image, read by key alone, stay the ones that *)
(* were recorded and rendered: no half-written file, no older format, no   *)
(* write of the claim that was taken over shows under its key.             *)
PublishedBytesStand == onShow # NoImage => Held(onShow.key) = onShow.hash

(* What a claim copied forward or found under its key, and recorded as its *)
(* own, is the image that its checkpoint named by hash.                    *)
AdoptedAsRecorded ==
  \A c \in RivalClaims : claim[c].adopted /\ claim[c].expected.hash # "unknown"
                      => claim[c].bound = claim[c].expected.hash

(* A reader is given the cover of the edition it resolved or a thumbnail   *)
(* made from it, whatever other readers, editions and the sweeper do; only *)
(* the local driver can show a thumbnail that is still being written.      *)
ServedIsPublished ==
  \A s \in served : \/ s.bytes \in {s.of, ThumbOf[s.of]}
                    \/ sbudget.driver = "local" /\ s.bytes = "torn"

(* What was recorded, adopted and published stays what readers get.        *)
StoredImagesStand ==
  PublishedBytesStand /\ AdoptedAsRecorded /\ ServedIsPublished

=============================================================================
