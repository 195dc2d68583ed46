----------------------------- MODULE BookPipeline -----------------------------
(***************************************************************************)
(* What the workers of a book's generation runs do between a claim and its *)
(* outcome: reuse what the checkpoint proves intact, make the rest (the    *)
(* character profile and sheet, the story, the illustrations), store it    *)
(* under the claim's own namespace, record it in the fenced checkpoint,    *)
(* render the PDF and publish.  Workers stop anywhere, are superseded by   *)
(* later claims while they still run, and stored bytes get lost.           *)
(*                                                                         *)
(* Claims are numbered as they are made, over all runs of the book.  An    *)
(* input stands for the input hash with the compatibility fingerprint.     *)
(* Content and bytes are identified by the claim that made them (by) and   *)
(* what they were made from (of; ref: the profile whose sheet was shown).  *)
(* The paid providers are configured, so a missing character reference     *)
(* ends a run under the policy "required".                                 *)
(***************************************************************************)
EXTENDS Naturals, FiniteSets

CONSTANTS Illustrations,    \* labels of the planned images: covers and pages
          BookInputs,
          MaxClaims,        \* bound: claims in a behaviour
          PipelineBudgets   \* bounds: [images, policy, claims, overlaps, faults, losses,
                          \* edits, cancels, switches]: the planned images of the book, its first
                          \* policy, and bounds; an overlap is a takeover of a live worker

VARIABLES run,         \* the active or last run: [status, input, policy, calls]
          attempt,     \* the last claim
          worker,      \* claim -> the state of startBookGeneration
          objects,     \* claim -> label -> stored bytes
          pdfs,        \* claim -> what its stored PDF shows
          checkpoint,  \* Book.generationCheckpoint
          edition,     \* the published fields of the book
          bookInput,   \* what the book's fields say
          fallback,    \* CHARACTER_FALLBACK_POLICY
          pipelineBudget

Policies == {"required", "allow_degraded"}

ASSUME PipelineAssumption ==
    /\ MaxClaims \in Nat /\ BookInputs # {}
    /\ IsFiniteSet(Illustrations) /\ "character_sheet" \notin Illustrations
    /\ PipelineBudgets \subseteq
           [images: SUBSET Illustrations, policy: Policies, claims: Nat, overlaps: Nat,
            faults: Nat, losses: Nat, edits: Nat, cancels: Nat, switches: Nat]

pipelineVars == <<run, attempt, worker, objects, pdfs, checkpoint, edition, bookInput, fallback,
                  pipelineBudget>>
bookVars == <<checkpoint, edition>>
outsideVars == <<attempt, bookInput, fallback>>

Claims == 1..MaxClaims
Planned == pipelineBudget.images
Assets == Planned \cup {"character_sheet"}
Absent == [by |-> 0, of |-> 0, ref |-> 0]
Torn == [by |-> 0, of |-> 0, ref |-> 1]
Intact(bytes) == bytes.by # 0
Nothing == [x \in {} |-> 0]
\* One part of a checkpoint, and new parts laid over old ones.
JustThe(key, value) == [k \in {key} |-> value]
Over(new, old) ==
    [k \in DOMAIN new \cup DOMAIN old |-> IF k \in DOMAIN new THEN new[k] ELSE old[k]]
NoWriter == [by |-> 0, of |-> 0]
NoProfile == [by |-> 0, generic |-> FALSE, degraded |-> FALSE, sheet |-> FALSE]

SpendPipeline(what) ==
    pipelineBudget[what] > 0 /\ pipelineBudget' = [pipelineBudget EXCEPT ![what] = @ - 1]

Idle == [pc |-> "none", input |-> CHOOSE i \in BookInputs : TRUE, policy |-> "required",
         profile |-> NoProfile, story |-> NoWriter, sheet |-> FALSE, error |-> FALSE,
         reuse |-> Nothing, art |-> Nothing, manifest |-> Nothing, reference |-> 0]

PipelineInit ==
    /\ pipelineBudget \in PipelineBudgets
    /\ bookInput = Idle.input /\ fallback = pipelineBudget.policy
    /\ run = [status |-> "draft", input |-> bookInput, policy |-> fallback, calls |-> 0]
    /\ attempt = 0 /\ worker = [c \in Claims |-> Idle]
    /\ objects = [c \in Claims |-> [l \in Illustrations \cup {"character_sheet"} |-> Absent]]
    /\ pdfs = [c \in Claims |-> Nothing]
    /\ checkpoint = [by |-> 0, input |-> bookInput, content |-> Nothing, artifacts |-> Nothing,
                     source |-> <<>>]
    /\ edition = [by |-> 0]

----------------------------------------------------------------------------
(* The checkpoint, and what of it may be reused. *)

\* The current content and artifacts over those of a compatible source.
EffectiveCheckpoint ==
    LET s == checkpoint.source
        compatible == s # <<>> /\ s.input = checkpoint.input
    IN [checkpoint EXCEPT !.content = IF compatible THEN Over(@, s.content) ELSE @,
                          !.artifacts = IF compatible THEN Over(@, s.artifacts) ELSE @]

\* The recorded artifacts whose bytes are still what was recorded.
Confirmed ==
    LET arts == EffectiveCheckpoint.artifacts
        intact == {l \in DOMAIN arts : objects[arts[l].key][l] = arts[l].sha}
    IN [l \in intact |-> arts[l]]

\* Defective variants for mutation: reuse across inputs; images only with their sheet.
InspectAnyInput(input, policy) ==
    LET cp == EffectiveCheckpoint
        profile == IF "profile" \in DOMAIN cp.content THEN cp.content.profile ELSE NoProfile
        story == IF "story" \in DOMAIN cp.content THEN cp.content.story ELSE NoWriter
    IN [profile |-> profile, story |-> story, valid |-> Confirmed]

InspectSheetFirst(input, policy) ==
    LET cp == EffectiveCheckpoint
        reusable == cp.by # 0 /\ cp.input = input
    IN [profile |-> IF reusable /\ "profile" \in DOMAIN cp.content THEN cp.content.profile
                    ELSE NoProfile,
        story |-> IF reusable /\ "story" \in DOMAIN cp.content THEN cp.content.story ELSE NoWriter,
        valid |-> IF reusable /\ "character_sheet" \in DOMAIN Confirmed THEN Confirmed ELSE Nothing]

Inspect(input, policy) ==
    LET cp == EffectiveCheckpoint
        compatible == cp.by # 0 /\ cp.input = input
        profile == IF /\ compatible /\ "profile" \in DOMAIN cp.content
                      /\ cp.content.profile.degraded => policy = "allow_degraded"
                   THEN cp.content.profile ELSE NoProfile
        story == IF profile # NoProfile /\ "story" \in DOMAIN cp.content THEN cp.content.story
                 ELSE NoWriter
        reusable == (IF story # NoWriter THEN Planned ELSE {})
                    \cup (IF profile.sheet THEN {"character_sheet"} ELSE {})
    IN [profile |-> profile, story |-> story,
        valid |-> [l \in reusable \cap DOMAIN Confirmed |-> Confirmed[l]]]

\* maximumProviderCalls of an estimate: what inspection does not find again.
RemainingCalls(found) ==
    Cardinality(Assets) + 2 - Cardinality(DOMAIN found.valid)
    - (IF found.profile # NoProfile THEN 1 ELSE 0) - (IF found.story # NoWriter THEN 1 ELSE 0)

\* Defective variant for mutation: any running attempt writes.
OwnedByStatus(c) == run.status = "running"

Owned(c) == run.status = "running" /\ attempt = c

\* checkpoint() of the fenced execution service, for the owner.
Recorded(c, content, artifacts) ==
    LET same == checkpoint.by = c
        cp == EffectiveCheckpoint
    IN [by |-> c, input |-> worker[c].input,
        content |-> Over(content, IF same THEN checkpoint.content ELSE Nothing),
        artifacts |-> Over(artifacts, IF same THEN checkpoint.artifacts ELSE Nothing),
        source |-> IF same THEN checkpoint.source
                   ELSE IF cp.by # 0 /\ cp.input = worker[c].input
                   THEN [input |-> cp.input, content |-> cp.content, artifacts |-> cp.artifacts]
                   ELSE <<>>]

----------------------------------------------------------------------------
(* Runs and claims. *)

\* A retry takes the input of the failed run and is authorized for what is
\* left of it; a generation or regeneration takes the book's fields and is
\* authorized for a whole book.
ScheduleRun(kind) ==
    /\ run.status \notin {"queued", "running"} /\ pipelineBudget.claims > 0
    /\ kind = "retry" => run.status = "failed"
    /\ \E input \in {IF kind = "retry" THEN run.input ELSE bookInput} :
         run' = [status |-> "queued", input |-> input, policy |-> fallback,
                 calls |-> IF kind = "retry" THEN RemainingCalls(Inspect(input, fallback))
                           ELSE Cardinality(Assets) + 2]
    /\ UNCHANGED <<outsideVars, worker, objects, pdfs, bookVars, pipelineBudget>>

\* A first claim, or a takeover while an earlier worker may still be running.
ClaimBook ==
    /\ run.status \in {"queued", "running"} /\ attempt < MaxClaims
    /\ pipelineBudget.claims > 0
    /\ attempt > 0 /\ worker[attempt].pc # "gone" => pipelineBudget.overlaps > 0
    /\ pipelineBudget' = [pipelineBudget EXCEPT
          !.claims = @ - 1,
          !.overlaps = IF attempt > 0 /\ worker[attempt].pc # "gone" THEN @ - 1 ELSE @]
    /\ run' = [run EXCEPT !.status = "running"] /\ attempt' = attempt + 1
    /\ worker' = [worker EXCEPT ![attempt + 1] =
                     [Idle EXCEPT !.pc = "inspect", !.input = run.input, !.policy = run.policy]]
    /\ UNCHANGED <<objects, pdfs, bookVars, bookInput, fallback>>

\* Its local state is gone with it.
Gone(c) == worker' = [worker EXCEPT ![c] = [Idle EXCEPT !.pc = "gone", !.input = worker[c].input]]

\* An error the pipeline does not handle: the run fails if the claim still owns it.
FailRun(c) ==
    /\ Gone(c)
    /\ run' = IF Owned(c) THEN [run EXCEPT !.status = "failed"] ELSE run

WorkerStops(c) ==
    /\ worker[c].pc \notin {"none", "gone"} /\ Gone(c)
    /\ UNCHANGED <<outsideVars, run, objects, pdfs, bookVars, pipelineBudget>>

RecoverRun ==
    /\ run.status = "running" /\ worker[attempt].pc = "gone"
    /\ run' = [run EXCEPT !.status = "failed"]
    /\ UNCHANGED <<outsideVars, worker, objects, pdfs, bookVars, pipelineBudget>>

CancelRun ==
    /\ run.status \in {"queued", "running"} /\ SpendPipeline("cancels")
    /\ run' = [run EXCEPT !.status = "cancelled"]
    /\ UNCHANGED <<outsideVars, worker, objects, pdfs, bookVars>>

EditBookInput ==
    /\ run.status \notin {"queued", "running"} /\ SpendPipeline("edits")
    /\ bookInput' \in BookInputs \ {bookInput}
    /\ UNCHANGED <<attempt, fallback, run, worker, objects, pdfs, bookVars>>

SwitchPolicy ==
    /\ SpendPipeline("switches")
    /\ fallback' = IF fallback = "required" THEN "allow_degraded" ELSE "required"
    /\ UNCHANGED <<attempt, bookInput, run, worker, objects, pdfs, bookVars>>

\* Bytes of an earlier claim are swept or damaged; those of the published one are kept.
LoseObject(c, l) ==
    /\ c < attempt /\ c # edition.by /\ Intact(objects[c][l]) /\ SpendPipeline("losses")
    /\ \E left \in {Absent, Torn} : objects' = [objects EXCEPT ![c][l] = left]
    /\ UNCHANGED <<outsideVars, run, worker, pdfs, bookVars>>

----------------------------------------------------------------------------
(* The steps of one worker. *)

At(c, pcs) == worker[c].pc \in pcs

\* A step whose database write is fenced: a stale worker leaves quietly.
StaleLeaves(c) ==
    /\ ~Owned(c) /\ Gone(c) /\ UNCHANGED <<run, objects, pdfs, bookVars, pipelineBudget>>

\* inspect, revalidateExecution, authorize.
InspectWork(c) ==
    /\ At(c, {"inspect"})
    /\ \E found \in {Inspect(worker[c].input, worker[c].policy)} :
         IF fallback # worker[c].policy \/ RemainingCalls(found) > run.calls
         THEN FailRun(c)
         ELSE /\ IF Owned(c) THEN worker' = [worker EXCEPT ![c].pc = "plan", ![c].reuse = found.valid]
                 ELSE Gone(c)
              /\ UNCHANGED run
    /\ UNCHANGED <<objects, pdfs, bookVars, pipelineBudget>>

\* plan: inspects once more and copies the character sheet forward.
PlanReuse(c) ==
    /\ At(c, {"plan"})
    /\ \E found \in {Inspect(worker[c].input, worker[c].policy)} :
         LET sheet == "character_sheet" \in DOMAIN found.valid
         IN /\ objects' = IF sheet
                          THEN [objects EXCEPT ![c]["character_sheet"] =
                                   found.valid["character_sheet"].sha]
                          ELSE objects
            /\ IF ~Owned(c) THEN Gone(c) ELSE worker' = [worker EXCEPT
                 ![c].pc = IF found.profile = NoProfile THEN "profile"
                           ELSE IF sheet THEN "profiled" ELSE "sheet",
                 ![c].profile = found.profile, ![c].story = found.story, ![c].sheet = sheet]
    /\ UNCHANGED <<run, pdfs, bookVars, pipelineBudget>>

\* The profile provider, or the generic profile where the policy allows it.
BuildProfile(c) ==
    /\ At(c, {"profile"})
    /\ \/ StaleLeaves(c)
       \/ \E generic \in BOOLEAN :
            /\ Owned(c)
            /\ IF generic THEN SpendPipeline("faults") ELSE UNCHANGED pipelineBudget
            /\ IF generic /\ worker[c].policy = "required"
               THEN FailRun(c) /\ UNCHANGED bookVars
               ELSE \E p \in {[by |-> c, generic |-> generic, degraded |-> generic, sheet |-> FALSE]} :
                      /\ checkpoint' = Recorded(c, JustThe("profile", p), Nothing)
                      /\ worker' = [worker EXCEPT ![c].pc = "sheet", ![c].profile = p,
                                                  ![c].error = generic]
                      /\ UNCHANGED <<edition, run>>
            /\ UNCHANGED <<objects, pdfs>>

\* Provider call and the start of the write; the bytes are whole when it ends.
DrawSheet(c) ==
    /\ At(c, {"sheet"})
    /\ \/ StaleLeaves(c)
       \/ /\ Owned(c)
          /\ objects' = [objects EXCEPT ![c]["character_sheet"] = Torn]
          /\ worker' = [worker EXCEPT ![c].pc = "saveSheet"]
          /\ UNCHANGED <<run, pdfs, bookVars, pipelineBudget>>

SheetStored(c) ==
    /\ At(c, {"saveSheet"})
    /\ objects' = [objects EXCEPT ![c]["character_sheet"] =
                      [by |-> c, of |-> worker[c].profile.by, ref |-> 0]]
    /\ worker' = [worker EXCEPT ![c].pc = "recordSheet"]
    /\ UNCHANGED <<run, pdfs, bookVars, pipelineBudget>>

SheetArtifact(c) ==
    JustThe("character_sheet", [key |-> c, sha |-> objects[c]["character_sheet"]])

\* Defective variant for mutation: the profile does not learn that it has a sheet.
RecordSheetUnmarked(c) ==
    /\ At(c, {"recordSheet"}) /\ Owned(c)
    /\ checkpoint' = Recorded(c, Nothing, SheetArtifact(c))
    /\ worker' = [worker EXCEPT ![c].pc = "profiled", ![c].sheet = TRUE]
    /\ UNCHANGED <<run, objects, pdfs, edition, pipelineBudget>>

RecordSheet(c) ==
    /\ At(c, {"recordSheet"})
    /\ \/ StaleLeaves(c)
       \/ /\ Owned(c)
          /\ checkpoint' = Recorded(c, Nothing, SheetArtifact(c))
          /\ worker' = [worker EXCEPT ![c].pc = "profiled", ![c].sheet = TRUE,
                                      ![c].profile.sheet = TRUE]
          /\ UNCHANGED <<run, objects, pdfs, edition, pipelineBudget>>

SheetFails(c) ==
    /\ At(c, {"sheet", "saveSheet"}) /\ SpendPipeline("faults")
    /\ IF worker[c].policy = "required" THEN FailRun(c)
       ELSE /\ worker' = [worker EXCEPT ![c].pc = "profiled", ![c].error = TRUE,
                                        ![c].profile.sheet = FALSE]
            /\ UNCHANGED run
    /\ UNCHANGED <<objects, pdfs, bookVars>>

\* Defective variant for mutation: a resumed profile counts as new.
ResumedErrorForgets(w) == w.error

\* Work resumed from a degraded profile stays degraded.
ResumedError(w) == w.error \/ w.profile.degraded

CheckpointProfile(c) ==
    /\ At(c, {"profiled"})
    /\ \/ StaleLeaves(c)
       \/ \E e \in {ResumedError(worker[c])} :
          \E p \in {[worker[c].profile EXCEPT !.degraded = e]} :
            /\ Owned(c)
            /\ checkpoint' = Recorded(c, JustThe("profile", p), Nothing)
            /\ worker' = [worker EXCEPT ![c].pc = "story", ![c].profile = p, ![c].error = e]
            /\ UNCHANGED <<run, objects, pdfs, edition, pipelineBudget>>

\* The reusable story, or one generation that passes review (repaired or not).
TellStory(c) ==
    /\ At(c, {"story"})
    /\ \/ StaleLeaves(c)
       \/ \E s \in {IF worker[c].story # NoWriter THEN worker[c].story
                    ELSE [by |-> c, of |-> worker[c].profile.by]} :
            /\ Owned(c)
            /\ checkpoint' = Recorded(c, JustThe("story", s), Nothing)
            /\ worker' = [worker EXCEPT ![c].pc = "reference", ![c].story = s]
            /\ UNCHANGED <<run, objects, pdfs, edition, pipelineBudget>>

\* The provider fails, or neither the story nor its one repair passes review.
StoryFails(c) ==
    /\ At(c, {"story"}) /\ worker[c].story = NoWriter /\ SpendPipeline("faults")
    /\ FailRun(c)
    /\ UNCHANGED <<objects, pdfs, bookVars>>

\* loadReference; every image inspection found valid is then to be adopted.
LoadReference(c) ==
    /\ At(c, {"reference"})
    /\ \E has \in {worker[c].sheet /\ Intact(objects[c]["character_sheet"])} :
         IF ~has /\ worker[c].policy = "required"
         THEN FailRun(c) /\ UNCHANGED <<objects, pdfs, bookVars, pipelineBudget>>
         ELSE \/ has /\ StaleLeaves(c)
              \/ /\ has => Owned(c)
                 /\ checkpoint' = IF has THEN Recorded(c, Nothing, SheetArtifact(c)) ELSE checkpoint
                 /\ worker' = [worker EXCEPT
                      ![c].pc = "images",
                      ![c].reference = IF has THEN objects[c]["character_sheet"].of ELSE 0,
                      ![c].art = [l \in Planned |->
                                    IF l \in DOMAIN worker[c].reuse THEN "adopt" ELSE "draw"]]
                 /\ UNCHANGED <<run, objects, pdfs, edition, pipelineBudget>>

----------------------------------------------------------------------------
(* Planned: adopted first, then the rest drawn concurrently. *)

Art(c, l, from, to) == worker[c].art[l] = from /\ worker' = [worker EXCEPT ![c].art[l] = to]

\* resolveArtifact: the source is checked once more, copied and verified.
AdoptImage(c, l) ==
    /\ At(c, {"images"}) /\ worker[c].art[l] = "adopt"
    /\ LET source == worker[c].reuse[l]
       IN IF objects[source.key][l] = source.sha
          THEN /\ Art(c, l, "adopt", "adopted")
               /\ objects' = [objects EXCEPT ![c][l] = source.sha]
          ELSE Art(c, l, "adopt", "draw") /\ UNCHANGED objects
    /\ UNCHANGED <<run, pdfs, bookVars, pipelineBudget>>

Keep(c, l, to) ==
    worker' = [worker EXCEPT ![c].art[l] = to, ![c].manifest = Over(JustThe(l, objects[c][l]), @)]

RecordImage(c, l) ==
    /\ At(c, {"images", "drawing"})
    /\ \/ worker[c].art[l] = "adopted" /\ StaleLeaves(c)
       \/ /\ worker[c].art[l] = "stored" /\ ~Owned(c) /\ Keep(c, l, "failed")
          /\ UNCHANGED <<run, objects, pdfs, bookVars, pipelineBudget>>
       \/ /\ worker[c].art[l] \in {"adopted", "stored"} /\ Owned(c) /\ Keep(c, l, "ready")
          /\ checkpoint' = Recorded(c, Nothing, JustThe(l, [key |-> c, sha |-> objects[c][l]]))
          /\ UNCHANGED <<run, objects, pdfs, edition, pipelineBudget>>

Adopted(c) == \A l \in Planned : worker[c].art[l] \notin {"adopt", "adopted"}
\* Defective variant for mutation: the stage waits for images that failed.
DrawnAllReady(c) == \A l \in Planned : worker[c].art[l] = "ready"
Drawn(c) == \A l \in Planned : worker[c].art[l] \in {"ready", "failed"}

StartDrawing(c) ==
    /\ At(c, {"images"}) /\ Adopted(c)
    /\ worker' = [worker EXCEPT ![c].pc = "drawing"]
    /\ UNCHANGED <<run, objects, pdfs, bookVars, pipelineBudget>>

DrawImage(c, l) ==
    /\ At(c, {"drawing"})
    /\ IF Owned(c)
       THEN Art(c, l, "draw", "saving") /\ objects' = [objects EXCEPT ![c][l] = Torn]
       ELSE Art(c, l, "draw", "failed") /\ UNCHANGED objects
    /\ UNCHANGED <<run, pdfs, bookVars, pipelineBudget>>

ImageStored(c, l) ==
    /\ At(c, {"drawing"}) /\ Art(c, l, "saving", "stored")
    /\ objects' = [objects EXCEPT ![c][l] =
                      [by |-> c, of |-> worker[c].story.by, ref |-> worker[c].reference]]
    /\ UNCHANGED <<run, pdfs, bookVars, pipelineBudget>>

\* One image that fails does not stop the others.
ImageFails(c, l) ==
    /\ At(c, {"drawing"}) /\ SpendPipeline("faults")
    /\ Art(c, l, "draw", "failed") \/ Art(c, l, "saving", "failed")
    /\ UNCHANGED <<run, objects, pdfs, bookVars>>

----------------------------------------------------------------------------
(* Publication. *)

StoreBookCandidate(c) ==
    /\ At(c, {"drawing"}) /\ Drawn(c)
    /\ \/ StaleLeaves(c)
       \/ /\ Owned(c)
          /\ checkpoint' = Recorded(c, Over(JustThe("profile", worker[c].profile),
                                            JustThe("story", worker[c].story)), Nothing)
          /\ worker' = [worker EXCEPT ![c].pc = "pdf"]
          /\ UNCHANGED <<run, objects, pdfs, edition, pipelineBudget>>

\* Every planned image is in the claim's own namespace, as recorded.
AllImagesResolved(c) ==
    \A l \in Planned : /\ Intact(objects[c][l])
                       /\ l \in DOMAIN worker[c].manifest
                       /\ worker[c].manifest[l] = objects[c][l]

RenderPdf(c) ==
    /\ At(c, {"pdf"})
    /\ \/ StaleLeaves(c)
       \/ \E fails \in BOOLEAN :
            /\ Owned(c)
            /\ IF fails THEN SpendPipeline("faults") ELSE UNCHANGED pipelineBudget
            /\ IF AllImagesResolved(c) /\ ~fails
               THEN /\ pdfs' = [pdfs EXCEPT ![c] = [l \in Planned |-> objects[c][l]]]
                    /\ worker' = [worker EXCEPT ![c].pc = "rendered"]
               ELSE worker' = [worker EXCEPT ![c].pc = "refused"] /\ UNCHANGED pdfs
            /\ UNCHANGED <<run, objects, bookVars>>

\* completeRun publishes the candidate, failRun leaves the reader's book alone.
EndRun(c) ==
    /\ At(c, {"rendered", "refused"})
    /\ \/ StaleLeaves(c)
       \/ /\ Owned(c) /\ Gone(c)
          /\ IF worker[c].pc = "refused"
             THEN run' = [run EXCEPT !.status = "failed"] /\ UNCHANGED edition
             ELSE /\ run' = [run EXCEPT !.status = "complete"]
                  /\ edition' = [by |-> c, input |-> worker[c].input, profile |-> worker[c].profile,
                                 story |-> worker[c].story, manifest |-> worker[c].manifest,
                                 degraded |-> worker[c].error \/ ~worker[c].profile.sheet]
          /\ UNCHANGED <<objects, pdfs, checkpoint, pipelineBudget>>

ImageStep(c, l) == \/ AdoptImage(c, l) \/ RecordImage(c, l) \/ DrawImage(c, l) \/ ImageStored(c, l)

PipelineStep(c) ==
    /\ \/ InspectWork(c) \/ PlanReuse(c) \/ BuildProfile(c) \/ DrawSheet(c) \/ SheetStored(c)
       \/ RecordSheet(c) \/ CheckpointProfile(c) \/ TellStory(c) \/ LoadReference(c)
       \/ StartDrawing(c) \/ StoreBookCandidate(c) \/ RenderPdf(c) \/ EndRun(c)
       \/ \E l \in Planned : ImageStep(c, l)
    /\ UNCHANGED outsideVars

PipelineFault(c) ==
    /\ SheetFails(c) \/ StoryFails(c) \/ \E l \in Planned : ImageFails(c, l)
    /\ UNCHANGED outsideVars

PipelineNext ==
    \/ \E kind \in {"generate", "retry"} : ScheduleRun(kind)
    \/ ClaimBook \/ RecoverRun \/ CancelRun \/ EditBookInput \/ SwitchPolicy
    \/ \E c \in Claims : PipelineStep(c) \/ PipelineFault(c) \/ WorkerStops(c)
    \/ \E c \in Claims : \E l \in Assets : LoseObject(c, l)

\* Workers run, a dead worker's run is recovered and a queued run is claimed.
PipelineFairness ==
    /\ WF_pipelineVars(RecoverRun) /\ WF_pipelineVars(run.status = "queued" /\ ClaimBook)
    /\ \A c \in Claims : WF_pipelineVars(PipelineStep(c))

PipelineSpec == PipelineInit /\ [][PipelineNext]_pipelineVars /\ PipelineFairness

----------------------------------------------------------------------------
(* Properties. *)

PipelineTypeOK ==
    /\ run.status \in {"draft", "queued", "running", "complete", "failed", "cancelled"}
    /\ attempt \in 0..MaxClaims /\ run.calls \in 0..Cardinality(Assets) + 2
    /\ \A c \in Claims : /\ c > attempt => worker[c] = Idle /\ pdfs[c] = Nothing
                         /\ DOMAIN worker[c].manifest \subseteq Planned
                         /\ worker[c].sheet => worker[c].profile.sheet
    /\ DOMAIN checkpoint.content \subseteq {"profile", "story"}
    /\ DOMAIN checkpoint.artifacts \subseteq Assets

Published == edition.by # 0

\* The edition has what its run ordered: the PDF shows exactly the images of its
\* manifest, one for every page, and story and profile were made from its input -
\* whatever claims they were adopted from, and whatever bytes were torn or lost.
EditionIsRendered ==
    Published =>
        /\ pdfs[edition.by] = edition.manifest /\ DOMAIN edition.manifest = Planned
        /\ \A made \in {edition.story.by, edition.profile.by} :
              made \in 1..attempt /\ worker[made].input = edition.input

\* allow_degraded is never taken back: no behaviour switches from it to "required".
\* What a run inherits from before such a switch breaks the two properties below
\* (FallbackIsRecorded).
NeverTightened ==
    \A b \in PipelineBudgets : b.switches = 0 \/ (b.policy = "required" /\ b.switches = 1)

\* The book a reader gets is one book: its story is about the profile it shows, all its
\* images were drawn for this story, and each without or with the sheet of this profile.
EditionIsOneBook ==
    Published =>
        /\ edition.story.of = edition.profile.by
        /\ \A l \in Planned : /\ edition.manifest[l].of = edition.story.by
                              /\ edition.manifest[l].ref \in {0, edition.profile.by}

\* "allow_degraded explicitly permits it, with publication degradation recorded"
\* (docs/CURRENT_PRODUCT.md:496): a book not marked degraded has a personal profile,
\* a story about it, and no image that was drawn without the character's reference.
DegradationRecorded ==
    (Published /\ ~edition.degraded) =>
        /\ ~edition.profile.generic /\ edition.story.of = edition.profile.by
        /\ \A l \in Planned : edition.manifest[l].ref = edition.profile.by

\* "CHARACTER_FALLBACK_POLICY=required prevents paid personalization from silently
\* becoming a generic fallback; allow_degraded explicitly permits it, with publication
\* degradation recorded" (docs/CURRENT_PRODUCT.md:495): every image of a book that is
\* not marked degraded was drawn after the sheet of the character the book is about.
FallbackIsRecorded ==
    (Published /\ ~edition.degraded) =>
        \A l \in Planned : edition.manifest[l].ref = edition.profile.by

\* Only the claim that owns the running run changes the checkpoint or the
\* published book; whatever superseded workers still do stays in their namespaces.
OwnerWrites ==
    /\ bookVars' # bookVars => run.status = "running"
    /\ checkpoint' # checkpoint => checkpoint'.by = attempt
    /\ edition' # edition => edition'.by = attempt

OnlyTheOwnerWrites == [][OwnerWrites]_pipelineVars

\* What the checkpoint holds for this input and the storage still has intact is
\* not made again: profile, story for that profile, and images of that story.
Redone(c) ==
    LET cp == EffectiveCheckpoint
        mine == Owned(c) /\ cp.by # 0 /\ cp.input = worker[c].input
        has(what) == mine /\ what \in DOMAIN cp.content
    IN \/ /\ worker[c].pc = "profile" /\ worker'[c].pc = "sheet" /\ has("profile")
          /\ worker[c].policy = "required" => ~cp.content.profile.degraded
       \/ /\ worker[c].pc = "story" /\ worker'[c].pc = "reference" /\ has("story")
          /\ worker'[c].story.by = c /\ cp.content.story.of = worker[c].profile.by
       \/ /\ worker[c].pc = "drawing" /\ worker'[c].pc = "drawing" /\ has("story")
          /\ cp.content.story = worker[c].story
          /\ \E l \in Planned : /\ worker'[c].art[l] = "saving" /\ worker[c].art[l] = "draw"
                                /\ l \in DOMAIN Confirmed

NothingMadeTwice == [][\A c \in Claims : ~Redone(c)]_pipelineVars

\* Every run that was claimed ends, whatever fails, is lost or taken over.
EveryRunEnds ==
    []<>(run.status # "running")

\* What is published is one book, and says what it lacks.
EditionsAreWhole ==
    PipelineTypeOK /\ EditionIsRendered /\ EditionIsOneBook /\ DegradationRecorded

\* Of overlapping claims one writes the book, none repeats what is kept, and the run
\* ends.
ClaimsWorkInTurn ==
    /\ OnlyTheOwnerWrites
    /\ NothingMadeTwice
    /\ EveryRunEnds

=============================================================================
