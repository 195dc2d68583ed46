---------------------------- MODULE PipelineProofs ----------------------------
(***************************************************************************)
(* That a published edition has what its run ordered, and that it is one   *)
(* book and says what it lacks, unless the fallback policy is tightened.   *)
(***************************************************************************)
EXTENDS BookPipeline, FiniteSetTheorems, TLAPS

-----------------------------------------------------------------------------
(* The checkpoint as a value *)

IsFunction(f) == f = [x \in DOMAIN f |-> f[x]]

\* A checkpoint with its source, which was made from the same input.
IsCheckpoint(cp) ==
    /\ cp = [by |-> cp.by, input |-> cp.input, content |-> cp.content,
             artifacts |-> cp.artifacts, source |-> cp.source]
    /\ IsFunction(cp.content) /\ IsFunction(cp.artifacts)
    /\ cp.source # <<>> =>
         /\ cp.source = [input |-> cp.input, content |-> cp.source.content,
                         artifacts |-> cp.source.artifacts]
         /\ IsFunction(cp.source.content) /\ IsFunction(cp.source.artifacts)

\* What a claim for the input inherits from the checkpoint.
Content(cp) == IF cp.source # <<>> THEN Over(cp.content, cp.source.content) ELSE cp.content
Artifacts(cp) == IF cp.source # <<>> THEN Over(cp.artifacts, cp.source.artifacts) ELSE cp.artifacts
Inherits(cp, input) == cp.by # 0 /\ cp.input = input
KeptContent(cp, input) == IF Inherits(cp, input) THEN Content(cp) ELSE Nothing
KeptArtifacts(cp, input) == IF Inherits(cp, input) THEN Artifacts(cp) ELSE Nothing

-----------------------------------------------------------------------------
(* Types *)

Bytes == [by: Nat, of: Nat, ref: Nat]
ArtifactsOf(labels) == UNION {[S -> [key: Claims, sha: Bytes]] : S \in SUBSET labels}
Profiles == [by: Nat, generic: BOOLEAN, degraded: BOOLEAN, sheet: BOOLEAN]
Writers == [by: Nat, of: Nat]
ArtStates == {"adopt", "adopted", "draw", "saving", "stored", "ready", "failed"}
WorkerStates == {"none", "gone", "inspect", "plan", "profile", "sheet", "saveSheet", "recordSheet",
                 "profiled", "story", "reference", "images", "drawing", "pdf", "rendered", "refused"}
ArtOf(images) == UNION {[S -> ArtStates] : S \in {{}, images}}
ManifestsOf(images) == UNION {[S -> Bytes] : S \in SUBSET images}
WorkersOf(images) ==
    [pc: WorkerStates, input: BookInputs, policy: Policies, profile: Profiles, story: Writers,
     sheet: BOOLEAN, error: BOOLEAN, reuse: ArtifactsOf(images \cup {"character_sheet"}),
     art: ArtOf(images), manifest: ManifestsOf(images), reference: Nat]
Labels == Illustrations \cup {"character_sheet"}
RunsOf(images) ==
    [status: {"draft", "queued", "running", "complete", "failed", "cancelled"},
     input: BookInputs, policy: Policies,
     calls: 0..Cardinality(images \cup {"character_sheet"}) + 2]
Budgets == [images: SUBSET Illustrations, policy: Policies, claims: Nat, overlaps: Nat,
            faults: Nat, losses: Nat, edits: Nat, cancels: Nat, switches: Nat]

PipelineTypes ==
    /\ run \in RunsOf(Planned)
    /\ attempt \in 0..MaxClaims
    /\ worker \in [Claims -> WorkersOf(Planned)]
    /\ objects \in [Claims -> [Labels -> Bytes]]
    /\ pdfs = [c \in Claims |-> pdfs[c]]
    /\ bookInput \in BookInputs /\ fallback \in Policies
    /\ pipelineBudget \in Budgets

Untouched(c) == worker[c] = Idle /\ pdfs[c] = Nothing /\ \A l \in Labels : objects[c][l] = Absent
FreshClaims == \A c \in Claims : c > attempt => Untouched(c)

-----------------------------------------------------------------------------
(* Who made what, and for which input *)

Sheetless == {"profile", "sheet", "saveSheet", "recordSheet"}
Profiling == {"sheet", "saveSheet", "recordSheet", "profiled"}
Drawing == {"images", "drawing", "pdf", "rendered"}
Told == Drawing \cup {"reference"}
Telling == Told \cup {"story"}

Made(m, input) == m \in 1..attempt /\ worker[m].input = input

MadeFor(content, input) ==
    /\ DOMAIN content \subseteq {"profile", "story"}
    /\ "profile" \in DOMAIN content =>
          content["profile"] \in Profiles /\ Made(content["profile"].by, input)
    /\ "story" \in DOMAIN content =>
          content["story"] \in Writers /\ Made(content["story"].by, input)

CheckpointOK ==
    /\ IsCheckpoint(checkpoint) /\ checkpoint.by \in 0..attempt
    /\ checkpoint.by # 0 => worker[checkpoint.by].input = checkpoint.input
    /\ MadeFor(Content(checkpoint), checkpoint.input)
    /\ Artifacts(checkpoint) \in ArtifactsOf(Assets)

\* What is true of a worker's state w when its PDF is shown.
WorkerIs(w, shown) ==
    /\ w.sheet => w.profile.sheet
    /\ w.pc \in Sheetless => ~w.sheet
    /\ w.pc \in {"images", "drawing"} =>
         DOMAIN w.art = Planned /\ \A l \in Planned : w.art[l] = "adopt" => l \in DOMAIN w.reuse
    /\ w.pc \in Profiling \cup Telling => Made(w.profile.by, w.input)
    /\ w.story # NoWriter => Made(w.story.by, w.input)
    /\ w.pc \in Told => w.story # NoWriter
    /\ w.pc = "rendered" => shown = w.manifest /\ DOMAIN w.manifest = Planned
WorkerOK(c) == WorkerIs(worker[c], pdfs[c])

EditionOK ==
    Published =>
        /\ edition.by \in 1..attempt /\ worker[edition.by].pc = "gone"
        /\ EditionIsRendered

PipelineInv ==
    /\ PipelineTypes /\ FreshClaims /\ CheckpointOK
    /\ \A c \in Claims : WorkerOK(c)
    /\ EditionOK

-----------------------------------------------------------------------------
(* Merging, and what a claim inherits *)

\* Laying parts over others is associative.
LEMMA MergedTwice ==
    ASSUME NEW f, NEW g, NEW h
    PROVE  Over(Over(f, g), h) = Over(f, Over(g, h))
BY DEF Over

\* Nothing changes nothing, whether laid over or under.
LEMMA NothingMerges ==
    ASSUME NEW f, IsFunction(f)
    PROVE  Over(f, Nothing) = f /\ Over(Nothing, f) = f
BY DEF Over, Nothing, IsFunction

LEMMA OnlyPart ==
    ASSUME NEW k, NEW v
    PROVE  IsFunction(JustThe(k, v)) /\ DOMAIN JustThe(k, v) = {k} /\ JustThe(k, v)[k] = v
BY DEF JustThe, IsFunction

\* A source is told from no source: a record is no empty sequence.
LEMMA RecordsAreNotEmpty ==
    ASSUME NEW i, NEW f, NEW g
    PROVE  [input |-> i, content |-> f, artifacts |-> g] # <<>>
<1>1. "input" \in DOMAIN [input |-> i, content |-> f, artifacts |-> g]
  OBVIOUS
<1>2. DOMAIN <<>> = {}
  OBVIOUS
<1> QED
  BY <1>1, <1>2

\* EffectiveCheckpoint of a checkpoint is its content over that of the source.
LEMMA EffectiveIs ==
    ASSUME IsCheckpoint(checkpoint)
    PROVE  /\ EffectiveCheckpoint.by = checkpoint.by
           /\ EffectiveCheckpoint.input = checkpoint.input
           /\ EffectiveCheckpoint.content = Content(checkpoint)
           /\ EffectiveCheckpoint.artifacts = Artifacts(checkpoint)
<1>1. checkpoint.source # <<>> => checkpoint.source.input = checkpoint.input
  BY DEF IsCheckpoint
<1>2. CASE checkpoint.source # <<>>
  BY <1>1, <1>2 DEF IsCheckpoint, EffectiveCheckpoint, Content, Artifacts
<1>3. CASE checkpoint.source = <<>>
  BY <1>3 DEF IsCheckpoint, EffectiveCheckpoint, Content, Artifacts
<1> QED
  BY <1>2, <1>3

\* What a checkpoint holds with its source is a function again.
LEMMA PartsAreFunctions ==
    ASSUME NEW cp, IsCheckpoint(cp)
    PROVE  IsFunction(Content(cp)) /\ IsFunction(Artifacts(cp))
BY DEF IsCheckpoint, Content, Artifacts, Over, IsFunction

LEMMA KeptAreFunctions ==
    ASSUME NEW cp, IsCheckpoint(cp), NEW input
    PROVE  IsFunction(KeptContent(cp, input)) /\ IsFunction(KeptArtifacts(cp, input))
BY PartsAreFunctions DEF KeptContent, KeptArtifacts, Nothing, IsFunction

\* The checkpoint that a claim records lays the new parts over what it inherits.
Records(cp, c, input, content, artifacts) ==
    /\ IsCheckpoint(cp) /\ cp.by = c /\ cp.input = input
    /\ Content(cp) = content /\ Artifacts(cp) = artifacts

\* checkpoint() of the owner: a claim that goes on with its own checkpoint keeps its source,
\* one that follows another makes the other its source; both come to the same content.
LEMMA RecordedOver ==
    ASSUME IsCheckpoint(checkpoint), NEW c \in Claims,
           checkpoint.by = c => checkpoint.input = worker[c].input,
           NEW content, IsFunction(content), NEW artifacts, IsFunction(artifacts)
    PROVE  Records(Recorded(c, content, artifacts), c, worker[c].input,
                   Over(content, KeptContent(checkpoint, worker[c].input)),
                   Over(artifacts, KeptArtifacts(checkpoint, worker[c].input)))
<1> DEFINE r == Recorded(c, content, artifacts)
           input == worker[c].input
<1>1. c # 0
  BY DEF Claims
<1>2. CASE checkpoint.by = c
  <2>1. r = [by |-> c, input |-> input, content |-> Over(content, checkpoint.content),
             artifacts |-> Over(artifacts, checkpoint.artifacts), source |-> checkpoint.source]
    BY <1>2 DEF Recorded
  <2>2. Inherits(checkpoint, input)
    BY <1>1, <1>2 DEF Inherits
  <2>3. IsCheckpoint(r)
    BY <2>1, <1>2 DEF IsCheckpoint, Over, IsFunction
  <2>4. Content(r) = Over(content, Content(checkpoint))
    BY <2>1, MergedTwice DEF Content
  <2>5. Artifacts(r) = Over(artifacts, Artifacts(checkpoint))
    BY <2>1, MergedTwice DEF Artifacts
  <2> QED
    BY <2>1, <2>2, <2>3, <2>4, <2>5 DEF Records, KeptContent, KeptArtifacts
<1>3. CASE checkpoint.by # c /\ Inherits(checkpoint, input)
  <2> DEFINE s == [input |-> checkpoint.input, content |-> Content(checkpoint),
                   artifacts |-> Artifacts(checkpoint)]
  <2>1. r = [by |-> c, input |-> input, content |-> Over(content, Nothing),
             artifacts |-> Over(artifacts, Nothing), source |-> s]
    BY <1>3, EffectiveIs DEF Recorded, Inherits
  <2>2. r = [by |-> c, input |-> input, content |-> content, artifacts |-> artifacts,
             source |-> s]
    BY <2>1, NothingMerges
  <2>3. s # <<>> /\ s.input = input
    BY <1>3, RecordsAreNotEmpty DEF Inherits
  <2>4. IsCheckpoint(r)
    <3>1. IsFunction(Content(checkpoint)) /\ IsFunction(Artifacts(checkpoint))
      BY PartsAreFunctions
    <3>2. r.source = s /\ s = [input |-> input, content |-> s.content, artifacts |-> s.artifacts]
      BY <2>2, <1>3 DEF Inherits
    <3>3. s.content = Content(checkpoint) /\ s.artifacts = Artifacts(checkpoint)
      OBVIOUS
    <3> HIDE DEF s
    <3>4. r.content = content /\ r.artifacts = artifacts /\ r.input = input /\ r.by = c
      BY <2>2
    <3>5. r = [by |-> r.by, input |-> r.input, content |-> r.content,
               artifacts |-> r.artifacts, source |-> r.source]
      BY <2>2
    <3> HIDE DEF r
    <3> QED
      BY <3>1, <3>2, <3>3, <3>4, <3>5 DEF IsCheckpoint
  <2>5. Content(r) = Over(content, Content(checkpoint)) /\ Artifacts(r) = Over(artifacts, Artifacts(checkpoint))
    BY <2>2, <2>3 DEF Content, Artifacts
  <2> QED
    BY <2>2, <2>4, <2>5, <1>3 DEF Records, KeptContent, KeptArtifacts
<1>4. CASE checkpoint.by # c /\ ~Inherits(checkpoint, input)
  <2>1. r = [by |-> c, input |-> input, content |-> Over(content, Nothing),
             artifacts |-> Over(artifacts, Nothing), source |-> <<>>]
    BY <1>4, EffectiveIs DEF Recorded, Inherits
  <2>2. IsCheckpoint(r)
    BY <2>1 DEF IsCheckpoint, Over, IsFunction
  <2>3. Content(r) = Over(content, Nothing) /\ Artifacts(r) = Over(artifacts, Nothing)
    BY <2>1 DEF Content, Artifacts
  <2> QED
    BY <2>1, <2>2, <2>3, <1>4 DEF Records, KeptContent, KeptArtifacts
<1> QED
  BY <1>2, <1>3, <1>4

-----------------------------------------------------------------------------
(* One worker moves *)

\* The assets are the planned images and the character sheet, finitely many.
LEMMA PlannedAre ==
    ASSUME PipelineTypes
    PROVE  /\ Planned \subseteq Illustrations /\ Planned \subseteq Assets /\ Assets \subseteq Labels
           /\ "character_sheet" \in Assets /\ "character_sheet" \notin Planned
           /\ Assets = Planned \cup {"character_sheet"}
           /\ IsFiniteSet(Assets) /\ Cardinality(Assets) \in Nat
<1>1. Planned \subseteq Illustrations
  BY DEF PipelineTypes, Planned, Budgets
<1>2. IsFiniteSet(Planned)
  BY <1>1, PipelineAssumption, FS_Subset
<1>3. IsFiniteSet(Assets)
  BY <1>2, FS_AddElement DEF Assets
<1>4. Cardinality(Assets) \in Nat
  BY <1>3, FS_CardinalityType
<1> QED
  BY <1>1, <1>3, <1>4, PipelineAssumption DEF Assets, Labels

BudgetRests ==
    /\ pipelineBudget' \in Budgets /\ pipelineBudget'.images = pipelineBudget.images
    /\ pipelineBudget'.switches = pipelineBudget.switches

\* What is spent of the bounds is neither the planned images nor the policy switches.
LEMMA BudgetSpent ==
    ASSUME PipelineTypes,
           NEW what \in {"claims", "overlaps", "faults", "losses", "edits", "cancels"},
           SpendPipeline(what)
    PROVE  BudgetRests
BY DEF PipelineTypes, Budgets, SpendPipeline, BudgetRests

LEMMA BudgetKept ==
    ASSUME PipelineTypes, UNCHANGED pipelineBudget
    PROVE  BudgetRests
BY DEF PipelineTypes, BudgetRests

\* Only the worker of c moves: the other claims, the input and the policy rest.
Alone(c) ==
    /\ PipelineTypes' /\ BudgetRests /\ UNCHANGED outsideVars
    /\ \A d \in Claims \ {c} :
          worker'[d] = worker[d] /\ objects'[d] = objects[d] /\ pdfs'[d] = pdfs[d]
    /\ worker'[c].input = worker[c].input

\* The namespace of c: one of its objects, and its PDF.
Stores(c) == UNCHANGED objects \/ \E l \in Labels, b \in Bytes : objects' = [objects EXCEPT ![c][l] = b]
Renders(c) == UNCHANGED pdfs \/ \E shown : pdfs' = [pdfs EXCEPT ![c] = shown]

LEMMA PlannedRests ==
    ASSUME BudgetRests
    PROVE  Planned' = Planned /\ Assets' = Assets
BY DEF BudgetRests, Planned, Assets

\* A worker that moves with its own objects and PDF moves nobody else.
LEMMA MovesAlone ==
    ASSUME PipelineTypes, NEW c \in Claims,
           run' \in RunsOf(Planned), BudgetRests, UNCHANGED outsideVars,
           NEW w \in WorkersOf(Planned), w.input = worker[c].input,
           worker' = [worker EXCEPT ![c] = w], Stores(c), Renders(c)
    PROVE  Alone(c) /\ worker'[c] = w
<1>1. Planned' = Planned
  BY PlannedRests
<1>3. /\ worker' \in [Claims -> WorkersOf(Planned)] /\ worker'[c] = w
      /\ \A d \in Claims \ {c} : worker'[d] = worker[d]
  BY DEF PipelineTypes
<1>4. /\ objects' \in [Claims -> [Labels -> Bytes]]
      /\ \A d \in Claims \ {c} : objects'[d] = objects[d]
  <2>1. CASE UNCHANGED objects
    BY <2>1 DEF PipelineTypes
  <2>2. CASE \E l \in Labels, b \in Bytes : objects' = [objects EXCEPT ![c][l] = b]
    <3>1. PICK l \in Labels, b \in Bytes : objects' = [objects EXCEPT ![c][l] = b]
      BY <2>2
    <3>2. objects \in [Claims -> [Labels -> Bytes]]
      BY DEF PipelineTypes
    <3> QED
      BY <3>1, <3>2
  <2> QED
    BY <2>1, <2>2 DEF Stores
<1>5. /\ pdfs' = [d \in Claims |-> pdfs'[d]]
      /\ \A d \in Claims \ {c} : pdfs'[d] = pdfs[d]
  <2>1. pdfs = [d \in Claims |-> pdfs[d]]
    BY DEF PipelineTypes
  <2>2. CASE UNCHANGED pdfs
    BY <2>1, <2>2
  <2>3. CASE \E shown : pdfs' = [pdfs EXCEPT ![c] = shown]
    <3>1. PICK shown : pdfs' = [pdfs EXCEPT ![c] = shown]
      BY <2>3
    <3> QED
      BY <2>1, <3>1
  <2> QED
    BY <2>2, <2>3 DEF Renders
<1>6. PipelineTypes'
  BY <1>1, <1>3, <1>4, <1>5 DEF PipelineTypes, BudgetRests, outsideVars
<1> QED
  BY <1>3, <1>4, <1>5, <1>6 DEF Alone

\* Who made something for which input stays so, whatever a worker does.
LEMMA MadeStays ==
    ASSUME PipelineTypes, NEW c \in Claims, Alone(c), NEW m, NEW input
    PROVE  Made(m, input)' <=> Made(m, input)
<1>1. \A d \in Claims : worker'[d].input = worker[d].input
  BY DEF Alone
<1>2. attempt' = attempt /\ 1..attempt \subseteq Claims
  BY PipelineAssumption DEF Alone, outsideVars, PipelineTypes, Claims
<1> QED
  BY <1>1, <1>2 DEF Made

LEMMA MadeForStays ==
    ASSUME PipelineTypes, NEW c \in Claims, Alone(c), NEW content, NEW input
    PROVE  MadeFor(content, input)' <=> MadeFor(content, input)
BY MadeStays DEF MadeFor

\* A worker that has begun is a claim made before, for its own input.
LEMMA ClaimedBefore ==
    ASSUME PipelineInv, NEW c \in Claims, worker[c].pc # "none"
    PROVE  c \in 1..attempt /\ Made(c, worker[c].input)
<1>1. c <= attempt
  BY DEF PipelineInv, FreshClaims, Untouched, Idle, PipelineTypes, Claims
<1> QED
  BY <1>1 DEF Made, Claims, PipelineInv, PipelineTypes

\* A step of one worker leaves the invariant of the others alone.
LEMMA OthersOK ==
    ASSUME PipelineInv, NEW c \in Claims, Alone(c), NEW d \in Claims \ {c}
    PROVE  WorkerOK(d)'
<1>1. WorkerOK(d) /\ worker'[d] = worker[d] /\ pdfs'[d] = pdfs[d] /\ Planned' = Planned
  BY PlannedRests DEF PipelineInv, Alone
<1>2. \A m, input : Made(m, input)' <=> Made(m, input)
  BY MadeStays DEF PipelineInv
<1> QED
  BY <1>1, <1>2 DEF WorkerOK, WorkerIs

LEMMA FreshStay ==
    ASSUME PipelineInv, NEW c \in Claims, Alone(c), worker[c].pc # "none"
    PROVE  FreshClaims'
<1>1. c <= attempt /\ attempt' = attempt /\ attempt \in Nat
  BY ClaimedBefore DEF Alone, outsideVars, PipelineInv, PipelineTypes
<1>2. \A d \in Claims : d > attempt => d # c /\ Untouched(d)
  BY <1>1 DEF PipelineInv, FreshClaims, Claims
<1>3. \A d \in Claims \ {c} : Untouched(d) => Untouched(d)'
  BY DEF Alone, Untouched
<1> QED
  BY <1>1, <1>2, <1>3 DEF FreshClaims

\* An unchanged checkpoint stays good when a worker moves.
LEMMA CheckpointRests ==
    ASSUME PipelineInv, NEW c \in Claims, Alone(c), UNCHANGED checkpoint
    PROVE  CheckpointOK'
<1>1. /\ IsCheckpoint(checkpoint) /\ checkpoint.by \in 0..attempt
      /\ checkpoint.by # 0 => worker[checkpoint.by].input = checkpoint.input
      /\ MadeFor(Content(checkpoint), checkpoint.input)
      /\ Artifacts(checkpoint) \in ArtifactsOf(Assets)
  BY DEF PipelineInv, CheckpointOK
<1>2. MadeFor(Content(checkpoint), checkpoint.input)'
  BY <1>1, MadeForStays DEF PipelineInv
<1>3. \A d \in Claims : worker'[d].input = worker[d].input
  BY DEF Alone
<1>4. Assets' = Assets /\ attempt' = attempt
  BY PlannedRests DEF Alone, outsideVars
<1>5. checkpoint.by # 0 => checkpoint.by \in Claims
  BY <1>1, PipelineAssumption DEF PipelineInv, PipelineTypes, Claims
<1> QED
  BY <1>1, <1>2, <1>3, <1>4, <1>5 DEF CheckpointOK

LEMMA NothingIs ==
    /\ IsFunction(Nothing) /\ DOMAIN Nothing = {}
    /\ \A labels : Nothing \in ArtifactsOf(labels)
    /\ \A images : Nothing \in ArtOf(images) /\ Nothing \in ManifestsOf(images)
<1>1. IsFunction(Nothing) /\ DOMAIN Nothing = {}
  BY DEF Nothing, IsFunction
<1>2. \A T : Nothing \in [{} -> T]
  BY DEF Nothing
<1> QED
  BY <1>1, <1>2 DEF ArtifactsOf, ArtOf, ManifestsOf

\* Recorded artifacts are a function from labels to keys with bytes.
LEMMA ArtifactsAre ==
    ASSUME NEW labels, NEW f, IsFunction(f)
    PROVE  f \in ArtifactsOf(labels) <=>
              DOMAIN f \subseteq labels /\ \A l \in DOMAIN f : f[l] \in [key: Claims, sha: Bytes]
<1>1. ASSUME f \in ArtifactsOf(labels)
      PROVE  DOMAIN f \subseteq labels /\ \A l \in DOMAIN f : f[l] \in [key: Claims, sha: Bytes]
  <2>1. PICK S \in SUBSET labels : f \in [S -> [key: Claims, sha: Bytes]]
    BY <1>1 DEF ArtifactsOf
  <2> QED
    BY <2>1
<1>2. ASSUME DOMAIN f \subseteq labels, \A l \in DOMAIN f : f[l] \in [key: Claims, sha: Bytes]
      PROVE  f \in ArtifactsOf(labels)
  <2>1. f \in [DOMAIN f -> [key: Claims, sha: Bytes]]
    BY <1>2 DEF IsFunction
  <2> QED
    BY <1>2, <2>1 DEF ArtifactsOf
<1> QED
  BY <1>1, <1>2

LEMMA ArtifactsAreFunctions ==
    ASSUME NEW labels, NEW f \in ArtifactsOf(labels)
    PROVE  IsFunction(f)
BY DEF ArtifactsOf, IsFunction

\* What a claim inherits was made by claims for its input.
LEMMA KeptMade ==
    ASSUME PipelineInv, NEW input
    PROVE  /\ MadeFor(KeptContent(checkpoint, input), input)
           /\ KeptArtifacts(checkpoint, input) \in ArtifactsOf(Assets)
           /\ IsFunction(KeptContent(checkpoint, input)) /\ IsFunction(KeptArtifacts(checkpoint, input))
<1>1. CASE Inherits(checkpoint, input)
  BY <1>1, KeptAreFunctions DEF PipelineInv, CheckpointOK, KeptContent, KeptArtifacts, Inherits
<1>2. CASE ~Inherits(checkpoint, input)
  BY <1>2, NothingIs DEF KeptContent, KeptArtifacts, MadeFor
<1> QED
  BY <1>1, <1>2

\* What a claim records lies over what it inherits.
LEMMA RecordsOver ==
    ASSUME PipelineInv, NEW c \in Claims, Alone(c), worker[c].pc # "none",
           NEW content, IsFunction(content), MadeFor(content, worker[c].input),
           NEW artifacts \in ArtifactsOf(Assets),
           checkpoint' = Recorded(c, content, artifacts)
    PROVE  /\ Records(checkpoint', c, worker[c].input,
                      Over(content, KeptContent(checkpoint, worker[c].input)),
                      Over(artifacts, KeptArtifacts(checkpoint, worker[c].input)))
           /\ CheckpointOK'
<1> DEFINE input == worker[c].input
           kept == KeptContent(checkpoint, input)
           keptArts == KeptArtifacts(checkpoint, input)
<1>1. IsCheckpoint(checkpoint) /\ (checkpoint.by = c => checkpoint.input = input)
  BY DEF PipelineInv, CheckpointOK, Claims
<1>2. Records(checkpoint', c, input, Over(content, kept), Over(artifacts, keptArts))
  BY <1>1, RecordedOver, ArtifactsAreFunctions
<1>3. MadeFor(kept, input) /\ keptArts \in ArtifactsOf(Assets) /\ IsFunction(keptArts)
  BY KeptMade
<1> HIDE DEF kept, keptArts
<1>4. MadeFor(Over(content, kept), input)
  <2>1. DOMAIN Over(content, kept) = DOMAIN content \cup DOMAIN kept
    BY DEF Over
  <2>2. \A x \in DOMAIN Over(content, kept) :
           Over(content, kept)[x] = IF x \in DOMAIN content THEN content[x] ELSE kept[x]
    BY DEF Over
  <2> QED
    BY <1>3, <2>1, <2>2 DEF MadeFor
<1>5. Over(artifacts, keptArts) \in ArtifactsOf(Assets)
  <2>1. IsFunction(artifacts) /\ IsFunction(Over(artifacts, keptArts))
    BY ArtifactsAreFunctions DEF Over, IsFunction
  <2>2. DOMAIN Over(artifacts, keptArts) = DOMAIN artifacts \cup DOMAIN keptArts
    BY DEF Over
  <2>3. \A x \in DOMAIN Over(artifacts, keptArts) :
           Over(artifacts, keptArts)[x] = IF x \in DOMAIN artifacts THEN artifacts[x] ELSE keptArts[x]
    BY DEF Over
  <2> QED
    BY <1>3, <2>1, <2>2, <2>3, ArtifactsAre
<1>6. c \in 0..attempt /\ attempt' = attempt /\ worker'[c].input = input /\ Assets' = Assets
  BY ClaimedBefore, PlannedRests DEF Alone, outsideVars
<1>7. \A f, i : f = Over(content, kept) /\ i = input => MadeFor(f, i)'
  BY <1>4, MadeForStays DEF PipelineInv
<1>8. /\ IsCheckpoint(checkpoint') /\ checkpoint'.by = c /\ checkpoint'.input = input
      /\ Content(checkpoint') = Over(content, kept) /\ Artifacts(checkpoint') = Over(artifacts, keptArts)
  BY <1>2 DEF Records
<1>9. CheckpointOK'
  <2>1. MadeFor(Content(checkpoint), checkpoint.input)'
    BY <1>7, <1>8 DEF MadeFor, Made
  <2> QED
    BY <1>5, <1>6, <1>8, <2>1 DEF CheckpointOK
<1> QED
  BY <1>2, <1>9 DEF kept, keptArts

\* The published edition stays good: the worker of its claim is gone, its PDF is never
\* written again.
LEMMA EditionRests ==
    ASSUME PipelineInv, NEW c \in Claims, Alone(c), worker[c].pc # "gone", UNCHANGED edition
    PROVE  EditionOK'
<1>1. Published' <=> Published
  BY DEF Published
<1>2. CASE Published
  <2>1. edition.by \in 1..attempt /\ worker[edition.by].pc = "gone" /\ EditionIsRendered
    BY <1>2 DEF PipelineInv, EditionOK
  <2>2. edition.by \in Claims \ {c}
    BY <2>1, PipelineAssumption DEF PipelineInv, PipelineTypes, Claims
  <2>3. /\ worker'[edition.by] = worker[edition.by] /\ pdfs'[edition.by] = pdfs[edition.by]
        /\ Planned' = Planned /\ attempt' = attempt
    BY <2>2, PlannedRests DEF Alone, outsideVars
  <2>4. \A m : Made(m, edition.input) => Made(m, edition.input)'
    BY MadeStays DEF PipelineInv
  <2>5. \A m \in {edition.story.by, edition.profile.by} : Made(m, edition.input)
    BY <1>2, <2>1 DEF EditionIsRendered, Made
  <2>6. \A m \in {edition.story.by, edition.profile.by} : Made(m, edition.input)'
    BY <2>4, <2>5
  <2>7. EditionIsRendered'
    BY <1>2, <2>1, <2>3, <2>6 DEF EditionIsRendered, Made
  <2> QED
    BY <2>1, <2>3, <2>7 DEF EditionOK
<1>3. CASE ~Published
  BY <1>1, <1>3 DEF EditionOK
<1> QED
  BY <1>2, <1>3

-----------------------------------------------------------------------------
(* Inspection *)

\* What inspection finds, of what the checkpoint keeps for the input.
Finds(found, input, policy) ==
    LET kept == KeptContent(checkpoint, input)
        arts == KeptArtifacts(checkpoint, input)
        usable == /\ "profile" \in DOMAIN kept
                  /\ kept["profile"].degraded => policy = "allow_degraded"
    IN /\ found.profile = IF usable THEN kept["profile"] ELSE NoProfile
       /\ found.story = IF found.profile # NoProfile /\ "story" \in DOMAIN kept
                        THEN kept["story"] ELSE NoWriter
       /\ IsFunction(found.valid)
       /\ \A l \in DOMAIN found.valid :
             /\ l \in DOMAIN arts /\ l \in Assets
             /\ found.valid[l] = arts[l] /\ objects[arts[l].key][l] = arts[l].sha
             /\ IF l \in Planned THEN found.story # NoWriter ELSE found.profile.sheet

\* inspect() in terms of what the claim inherits.
LEMMA InspectFinds ==
    ASSUME PipelineTypes, IsCheckpoint(checkpoint), NEW input, NEW policy
    PROVE  Finds(Inspect(input, policy), input, policy)
<1> DEFINE found == Inspect(input, policy)
           kept == KeptContent(checkpoint, input)
           arts == KeptArtifacts(checkpoint, input)
           cp == EffectiveCheckpoint
           usable == /\ Inherits(checkpoint, input) /\ "profile" \in DOMAIN Content(checkpoint)
                     /\ Content(checkpoint)["profile"].degraded => policy = "allow_degraded"
           profile == IF usable THEN Content(checkpoint)["profile"] ELSE NoProfile
           story == IF profile # NoProfile /\ "story" \in DOMAIN Content(checkpoint)
                    THEN Content(checkpoint)["story"] ELSE NoWriter
           reusable == (IF story # NoWriter THEN Planned ELSE {})
                       \cup (IF profile.sheet THEN {"character_sheet"} ELSE {})
           intact == {l \in DOMAIN Artifacts(checkpoint) :
                        objects[Artifacts(checkpoint)[l].key][l] = Artifacts(checkpoint)[l].sha}
<1>1. /\ cp.by = checkpoint.by /\ cp.input = checkpoint.input
      /\ cp.content = Content(checkpoint) /\ cp.artifacts = Artifacts(checkpoint)
  BY EffectiveIs
<1>2. Confirmed = [l \in intact |-> Artifacts(checkpoint)[l]]
  BY <1>1 DEF Confirmed
<1>3. found = [profile |-> profile, story |-> story,
               valid |-> [l \in reusable \cap intact |-> Artifacts(checkpoint)[l]]]
  BY <1>1, <1>2 DEF Inspect, Inherits
<1>4. found.profile = profile /\ found.story = story
  BY <1>3
<1>5. /\ DOMAIN found.valid = reusable \cap intact /\ IsFunction(found.valid)
      /\ \A l \in DOMAIN found.valid : found.valid[l] = Artifacts(checkpoint)[l]
  BY <1>3 DEF IsFunction
<1>6. ~usable => DOMAIN found.valid = {}
  BY <1>5 DEF NoProfile
<1>7. CASE Inherits(checkpoint, input)
  <2>1. kept = Content(checkpoint) /\ arts = Artifacts(checkpoint)
    BY <1>7 DEF KeptContent, KeptArtifacts
  <2>2. \A l \in DOMAIN found.valid :
           /\ l \in DOMAIN arts /\ l \in Assets
           /\ found.valid[l] = arts[l] /\ objects[arts[l].key][l] = arts[l].sha
           /\ IF l \in Planned THEN story # NoWriter ELSE profile.sheet
    BY <2>1, <1>5, PlannedAre
  <2> QED
    BY <1>7, <1>4, <1>5, <2>1, <2>2 DEF Finds
<1>8. CASE ~Inherits(checkpoint, input)
  <2>1. DOMAIN kept = {}
    BY <1>8, NothingIs DEF KeptContent
  <2> QED
    BY <1>8, <1>4, <1>5, <1>6, <2>1 DEF Finds
<1> QED
  BY <1>7, <1>8

\* The types of what is found, and who made it.
LEMMA FoundMade ==
    ASSUME PipelineInv, NEW input, NEW policy, NEW found, Finds(found, input, policy)
    PROVE  /\ found.profile \in Profiles /\ found.story \in Writers
           /\ found.valid \in ArtifactsOf(Assets)
           /\ found.profile # NoProfile => Made(found.profile.by, input)
           /\ found.story # NoWriter => Made(found.story.by, input)
           /\ "character_sheet" \in DOMAIN found.valid => found.profile.sheet
<1> DEFINE kept == KeptContent(checkpoint, input)
           arts == KeptArtifacts(checkpoint, input)
<1>1. MadeFor(kept, input) /\ arts \in ArtifactsOf(Assets) /\ IsFunction(arts)
  BY KeptMade
<1>2. NoProfile \in Profiles /\ NoWriter \in Writers
  BY DEF NoProfile, NoWriter, Profiles, Writers
<1>3. found.profile \in Profiles /\ (found.profile # NoProfile => Made(found.profile.by, input))
  BY <1>1, <1>2 DEF Finds, MadeFor
<1>4. found.story \in Writers /\ (found.story # NoWriter => Made(found.story.by, input))
  BY <1>1, <1>2 DEF Finds, MadeFor
<1>5. found.valid \in ArtifactsOf(Assets)
  <2>1. \A l \in DOMAIN arts : arts[l] \in [key: Claims, sha: Bytes]
    BY <1>1, ArtifactsAre
  <2>2. /\ IsFunction(found.valid) /\ DOMAIN found.valid \subseteq Assets
        /\ \A l \in DOMAIN found.valid : found.valid[l] \in [key: Claims, sha: Bytes]
    BY <2>1 DEF Finds
  <2> QED
    BY <2>2, ArtifactsAre
<1>6. "character_sheet" \in DOMAIN found.valid => found.profile.sheet
  BY PlannedAre DEF Finds, PipelineInv
<1> QED
  BY <1>3, <1>4, <1>5, <1>6

\* maximumProviderCalls is never negative.
LEMMA RemainingCallsBounded ==
    ASSUME PipelineTypes, NEW found, DOMAIN found.valid \subseteq Assets
    PROVE  RemainingCalls(found) \in 0..Cardinality(Assets) + 2
<1>1. /\ Cardinality(DOMAIN found.valid) \in Nat /\ Cardinality(Assets) \in Nat
      /\ Cardinality(DOMAIN found.valid) <= Cardinality(Assets)
  BY PlannedAre, FS_Subset, FS_CardinalityType
<1> DEFINE p == IF found.profile # NoProfile THEN 1 ELSE 0
           s == IF found.story # NoWriter THEN 1 ELSE 0
<1>2. p \in 0..1 /\ s \in 0..1
  OBVIOUS
<1>3. RemainingCalls(found)
        = Cardinality(Assets) + 2 - Cardinality(DOMAIN found.valid) - p - s
  BY DEF RemainingCalls
<1> HIDE DEF p, s
<1> QED
  BY <1>1, <1>2, <1>3

-----------------------------------------------------------------------------
(* What the steps of a worker keep *)

\* What is true of a worker state stays true when a worker moves.
LEMMA WorkerStays ==
    ASSUME PipelineTypes, NEW c \in Claims, Alone(c), NEW w, NEW shown
    PROVE  WorkerIs(w, shown)' <=> WorkerIs(w, shown)
<1>1. \A m, input : Made(m, input)' <=> Made(m, input)
  BY MadeStays
<1>2. Planned' = Planned
  BY PlannedRests DEF Alone
<1> QED
  BY <1>1, <1>2 DEF WorkerIs

\* A worker moves on: what its new state and what it records must be.
LEMMA WorkerKeeps ==
    ASSUME PipelineInv, NEW c \in Claims, worker[c].pc \notin {"none", "gone"},
           run' \in RunsOf(Planned), BudgetRests, UNCHANGED outsideVars,
           NEW w \in WorkersOf(Planned), w.input = worker[c].input,
           worker' = [worker EXCEPT ![c] = w], Stores(c), Renders(c),
           WorkerIs(w, pdfs'[c])
    PROVE  /\ Alone(c) /\ worker'[c] = w
           /\ CheckpointOK' /\ EditionOK' => PipelineInv'
           /\ CheckpointOK' /\ UNCHANGED edition => PipelineInv'
           /\ UNCHANGED bookVars => PipelineInv'
<1>1. Alone(c) /\ worker'[c] = w
  BY MovesAlone DEF PipelineInv
<1>2. \A d \in Claims : WorkerOK(d)'
  <2>1. \A shown : shown = pdfs'[c] => WorkerIs(w, shown)'
    BY <1>1, WorkerStays DEF PipelineInv
  <2>2. WorkerOK(c)'
    BY <1>1, <2>1 DEF WorkerOK, WorkerIs
  <2> QED
    BY <1>1, <2>2, OthersOK
<1>3. FreshClaims' /\ PipelineTypes'
  BY <1>1, FreshStay DEF Alone
<1>4. UNCHANGED edition => EditionOK'
  BY <1>1, EditionRests
<1>5. UNCHANGED checkpoint => CheckpointOK'
  BY <1>1, CheckpointRests
<1> QED
  BY <1>1, <1>2, <1>3, <1>4, <1>5 DEF PipelineInv, bookVars

\* A worker state that has not begun is a good one.
LEMMA IdleIs ==
    ASSUME NEW images
    PROVE  /\ Idle \in WorkersOf(images) /\ Idle.pc = "none" /\ Idle.input \in BookInputs
           /\ \A shown : WorkerIs(Idle, shown)
<1>1. Idle.input \in BookInputs
  BY PipelineAssumption DEF Idle
<1>2. Idle \in WorkersOf(images)
  <2>1. NoProfile \in Profiles /\ NoWriter \in Writers
    BY DEF NoProfile, NoWriter, Profiles, Writers
  <2>2. "none" \in WorkerStates /\ "required" \in Policies
    BY DEF WorkerStates, Policies
  <2> QED
    BY <1>1, <2>1, <2>2, NothingIs DEF Idle, WorkersOf
<1>3. \A shown : WorkerIs(Idle, shown)
  BY DEF WorkerIs, Idle, NoProfile, Sheetless, Profiling, Telling, Told, Drawing
<1> QED
  BY <1>1, <1>2, <1>3 DEF Idle

\* A worker leaves, and with it its local state.
LEMMA GoneKeeps ==
    ASSUME PipelineInv, NEW c \in Claims, worker[c].pc \notin {"none", "gone"}, Gone(c),
           run' \in RunsOf(Planned), BudgetRests, UNCHANGED outsideVars, UNCHANGED pdfs, Stores(c)
    PROVE  /\ Alone(c) /\ worker'[c].pc = "gone"
           /\ CheckpointOK' /\ EditionOK' => PipelineInv'
           /\ UNCHANGED bookVars => PipelineInv'
<1> DEFINE w == [Idle EXCEPT !.pc = "gone", !.input = worker[c].input]
<1>1. w \in WorkersOf(Planned) /\ w.input = worker[c].input /\ w.pc = "gone"
  <2>1. worker[c].input \in BookInputs /\ "gone" \in WorkerStates
    BY DEF PipelineInv, PipelineTypes, WorkersOf, WorkerStates
  <2> QED
    BY <2>1, IdleIs DEF WorkersOf, Idle
<1>2. WorkerIs(w, pdfs'[c])
  BY DEF WorkerIs, Idle, NoProfile, Sheetless, Profiling, Telling, Told, Drawing
<1>3. worker' = [worker EXCEPT ![c] = w] /\ Renders(c)
  BY DEF Gone, Renders
<1> HIDE DEF w
<1> QED
  BY <1>1, <1>2, <1>3, WorkerKeeps

\* A worker may leave at any step.
LEMMA LeavesKeeps ==
    ASSUME PipelineInv, NEW c \in Claims, worker[c].pc \notin {"none", "gone"}, Gone(c),
           run' \in RunsOf(Planned), BudgetRests, UNCHANGED outsideVars,
           UNCHANGED <<objects, pdfs>>, UNCHANGED bookVars
    PROVE  PipelineInv'
BY GoneKeeps DEF Stores

\* The run as it is, failed, cancelled or complete.
LEMMA RunEnds ==
    ASSUME PipelineInv
    PROVE  /\ run \in RunsOf(Planned)
           /\ \A status \in {"running", "complete", "failed", "cancelled"} :
                 [run EXCEPT !.status = status] \in RunsOf(Planned)
BY DEF PipelineInv, PipelineTypes, RunsOf

LEMMA FailKeeps ==
    ASSUME PipelineInv, NEW c \in Claims, worker[c].pc \notin {"none", "gone"}, FailRun(c),
           BudgetRests, UNCHANGED outsideVars, UNCHANGED <<objects, pdfs>>, UNCHANGED bookVars
    PROVE  PipelineInv'
BY LeavesKeeps, RunEnds DEF FailRun

LEMMA StaleKeeps ==
    ASSUME PipelineInv, NEW c \in Claims, worker[c].pc \notin {"none", "gone"}, StaleLeaves(c),
           UNCHANGED outsideVars
    PROVE  PipelineInv'
BY LeavesKeeps, RunEnds, BudgetKept DEF StaleLeaves, PipelineInv

\* A worker that records parts of the book on its way.
LEMMA WorkerRecords ==
    ASSUME PipelineInv, NEW c \in Claims, worker[c].pc \notin {"none", "gone"},
           UNCHANGED run, BudgetRests, UNCHANGED outsideVars,
           NEW w \in WorkersOf(Planned), w.input = worker[c].input,
           worker' = [worker EXCEPT ![c] = w], UNCHANGED <<objects, pdfs>>,
           WorkerIs(w, pdfs[c]),
           NEW content, IsFunction(content), MadeFor(content, worker[c].input),
           NEW artifacts \in ArtifactsOf(Assets),
           checkpoint' = Recorded(c, content, artifacts), UNCHANGED edition
    PROVE  PipelineInv'
<1>1. /\ Alone(c) /\ worker'[c] = w
      /\ CheckpointOK' /\ UNCHANGED edition => PipelineInv'
  BY WorkerKeeps, RunEnds DEF Stores, Renders
<1>2. CheckpointOK'
  BY <1>1, RecordsOver
<1> QED
  BY <1>1, <1>2

\* The parts that stages record were made for the input of the claim.
LEMMA PartsMade ==
    ASSUME NEW input
    PROVE  /\ IsFunction(Nothing) /\ MadeFor(Nothing, input)
           /\ \A p \in Profiles : Made(p.by, input) =>
                 IsFunction(JustThe("profile", p)) /\ MadeFor(JustThe("profile", p), input)
           /\ \A s \in Writers : Made(s.by, input) =>
                 IsFunction(JustThe("story", s)) /\ MadeFor(JustThe("story", s), input)
           /\ \A p \in Profiles, s \in Writers : Made(p.by, input) /\ Made(s.by, input) =>
                 /\ IsFunction(Over(JustThe("profile", p), JustThe("story", s)))
                 /\ MadeFor(Over(JustThe("profile", p), JustThe("story", s)), input)
<1>1. IsFunction(Nothing) /\ MadeFor(Nothing, input)
  BY NothingIs DEF MadeFor
<1>2. \A p, s : /\ DOMAIN Over(JustThe("profile", p), JustThe("story", s)) = {"profile", "story"}
                /\ Over(JustThe("profile", p), JustThe("story", s))["profile"] = p
                /\ Over(JustThe("profile", p), JustThe("story", s))["story"] = s
                /\ IsFunction(Over(JustThe("profile", p), JustThe("story", s)))
  BY DEF Over, JustThe, IsFunction
<1>3. \A k, v : IsFunction(JustThe(k, v))
  BY DEF JustThe, IsFunction
<1>4. \A p \in Profiles : Made(p.by, input) =>
         IsFunction(JustThe("profile", p)) /\ MadeFor(JustThe("profile", p), input)
  BY <1>3 DEF MadeFor, JustThe
<1>5. \A s \in Writers : Made(s.by, input) =>
         IsFunction(JustThe("story", s)) /\ MadeFor(JustThe("story", s), input)
  BY <1>3 DEF MadeFor, JustThe
<1>6. \A p \in Profiles, s \in Writers : Made(p.by, input) /\ Made(s.by, input) =>
         /\ IsFunction(Over(JustThe("profile", p), JustThe("story", s)))
         /\ MadeFor(Over(JustThe("profile", p), JustThe("story", s)), input)
  BY <1>2 DEF MadeFor
<1> QED
  BY <1>1, <1>4, <1>5, <1>6

\* An artifact that stages record: a label, the claim and the stored bytes.
LEMMA ArtifactIs ==
    ASSUME PipelineInv, NEW c \in Claims, NEW l \in Assets
    PROVE  JustThe(l, [key |-> c, sha |-> objects[c][l]]) \in ArtifactsOf(Assets)
<1>1. objects[c][l] \in Bytes
  BY PlannedAre DEF PipelineInv, PipelineTypes
<1> DEFINE f == JustThe(l, [key |-> c, sha |-> objects[c][l]])
<1>2. /\ IsFunction(f) /\ DOMAIN f \subseteq Assets
      /\ \A k \in DOMAIN f : f[k] \in [key: Claims, sha: Bytes]
  BY <1>1 DEF JustThe, IsFunction
<1> HIDE DEF f
<1>3. f \in ArtifactsOf(Assets)
  BY <1>2, ArtifactsAre
<1> QED
  BY <1>3 DEF f

\* What a step of a worker starts from.
LEMMA WorkerFacts ==
    ASSUME PipelineInv, NEW c \in Claims
    PROVE  /\ worker[c] \in WorkersOf(Planned) /\ WorkerIs(worker[c], pdfs[c])
           /\ run \in RunsOf(Planned) /\ PipelineTypes /\ IsCheckpoint(checkpoint)
           /\ "character_sheet" \in Labels /\ Planned \subseteq Labels
           /\ \A l \in Labels : objects[c][l] \in Bytes
           /\ Planned \cup {"character_sheet"} = Assets
BY PlannedAre DEF PipelineInv, PipelineTypes, WorkerOK, CheckpointOK, Labels

\* Each step of a worker keeps the invariant, the owner's and a superseded one's.
LEMMA InspectWorkKeeps ==
    ASSUME PipelineInv, NEW c \in Claims, InspectWork(c), UNCHANGED outsideVars
    PROVE  PipelineInv'
<1>1. /\ worker[c].pc = "inspect" /\ UNCHANGED <<objects, pdfs>> /\ UNCHANGED bookVars
      /\ BudgetRests
  BY BudgetKept DEF InspectWork, At, PipelineInv
<1> DEFINE found == Inspect(worker[c].input, worker[c].policy)
           w == [worker[c] EXCEPT !.pc = "plan", !.reuse = found.valid]
<1>2. CASE FailRun(c)
  BY <1>1, <1>2, FailKeeps
<1>3. CASE UNCHANGED run /\ Gone(c)
  BY <1>1, <1>3, LeavesKeeps, RunEnds
<1>4. CASE UNCHANGED run /\ worker' = [worker EXCEPT ![c].pc = "plan", ![c].reuse = found.valid]
  <2>1. found.valid \in ArtifactsOf(Assets)
    BY WorkerFacts, InspectFinds, FoundMade
  <2> HIDE DEF found
  <2>2. w \in WorkersOf(Planned) /\ w.input = worker[c].input
    BY <2>1, WorkerFacts DEF WorkersOf, WorkerStates
  <2>3. WorkerIs(w, pdfs[c])
    BY <1>1, WorkerFacts DEF WorkerIs, WorkersOf, Sheetless, Profiling, Telling, Told, Drawing
  <2>4. worker' = [worker EXCEPT ![c] = w]
    BY <1>4
  <2> HIDE DEF w
  <2> QED
    BY <1>1, <1>4, <2>2, <2>3, <2>4, WorkerKeeps, RunEnds DEF Stores, Renders
<1> QED
  BY <1>2, <1>3, <1>4 DEF InspectWork

LEMMA PlanReuseKeeps ==
    ASSUME PipelineInv, NEW c \in Claims, PlanReuse(c), UNCHANGED outsideVars
    PROVE  PipelineInv'
<1>1. /\ worker[c].pc = "plan" /\ UNCHANGED <<run, pdfs>> /\ UNCHANGED bookVars /\ BudgetRests
  BY BudgetKept DEF PlanReuse, At, PipelineInv
<1> DEFINE found == Inspect(worker[c].input, worker[c].policy)
           sheet == "character_sheet" \in DOMAIN found.valid
           pc == IF found.profile = NoProfile THEN "profile"
                 ELSE IF sheet THEN "profiled" ELSE "sheet"
           w == [worker[c] EXCEPT !.pc = pc, !.profile = found.profile, !.story = found.story,
                                  !.sheet = sheet]
<1>2. /\ found.profile \in Profiles /\ found.story \in Writers
      /\ found.valid \in ArtifactsOf(Assets) /\ (sheet => found.profile.sheet)
      /\ found.profile # NoProfile => Made(found.profile.by, worker[c].input)
      /\ found.story # NoWriter => Made(found.story.by, worker[c].input)
  BY WorkerFacts, InspectFinds, FoundMade
<1>3. Stores(c)
  <2>1. sheet => found.valid["character_sheet"].sha \in Bytes
    BY <1>2 DEF ArtifactsOf
  <2> QED
    BY <2>1, WorkerFacts DEF PlanReuse, Stores
<1>4. Gone(c) \/ worker' = [worker EXCEPT ![c].pc = pc, ![c].profile = found.profile,
                                          ![c].story = found.story, ![c].sheet = sheet]
  BY DEF PlanReuse
<1>5. /\ sheet \in BOOLEAN /\ pc \in {"profile", "profiled", "sheet"}
      /\ pc \in {"profiled", "sheet"} => Made(found.profile.by, worker[c].input)
      /\ sheet => pc = "profiled"
  <2>1. ~NoProfile.sheet
    BY DEF NoProfile
  <2> QED
    BY <1>2, <2>1
<1> HIDE DEF found, sheet, pc
<1>6. w \in WorkersOf(Planned) /\ w.input = worker[c].input
  <2>1. worker[c] \in WorkersOf(Planned) /\ pc \in WorkerStates
    BY <1>5, WorkerFacts DEF WorkerStates
  <2> QED
    BY <1>2, <1>5, <2>1 DEF WorkersOf
<1>7. WorkerIs(w, pdfs[c])
  BY <1>2, <1>5, WorkerFacts DEF WorkerIs, WorkersOf, Sheetless, Profiling, Telling, Told, Drawing
<1>8. CASE Gone(c)
  BY <1>1, <1>3, <1>8, GoneKeeps, RunEnds
<1>9. CASE worker' = [worker EXCEPT ![c].pc = pc, ![c].profile = found.profile,
                                    ![c].story = found.story, ![c].sheet = sheet]
  <2>1. worker' = [worker EXCEPT ![c] = w]
    BY <1>9
  <2> HIDE DEF w
  <2> QED
    BY <1>1, <1>3, <1>6, <1>7, <2>1, WorkerKeeps, RunEnds DEF Renders
<1> QED
  BY <1>4, <1>8, <1>9

LEMMA BuildProfileKeeps ==
    ASSUME PipelineInv, NEW c \in Claims, BuildProfile(c), UNCHANGED outsideVars
    PROVE  PipelineInv'
<1>1. worker[c].pc = "profile"
  BY DEF BuildProfile, At
<1>2. CASE StaleLeaves(c)
  BY <1>1, <1>2, StaleKeeps
<1>3. ASSUME NEW generic \in BOOLEAN,
             IF generic THEN SpendPipeline("faults") ELSE UNCHANGED pipelineBudget,
             UNCHANGED <<objects, pdfs>>
      PROVE  /\ BudgetRests
             /\ FailRun(c) /\ UNCHANGED bookVars => PipelineInv'
  BY <1>1, <1>3, BudgetSpent, BudgetKept, FailKeeps DEF PipelineInv
<1>4. ASSUME NEW generic \in BOOLEAN, BudgetRests, UNCHANGED <<objects, pdfs, edition, run>>,
             NEW p, p = [by |-> c, generic |-> generic, degraded |-> generic, sheet |-> FALSE],
             checkpoint' = Recorded(c, JustThe("profile", p), Nothing),
             worker' = [worker EXCEPT ![c].pc = "sheet", ![c].profile = p, ![c].error = generic]
      PROVE  PipelineInv'
  <2> DEFINE w == [worker[c] EXCEPT !.pc = "sheet", !.profile = p, !.error = generic]
  <2>1. p \in Profiles /\ p.by = c /\ generic \in BOOLEAN
    BY <1>4 DEF Profiles, Claims
  <2>2. Made(c, worker[c].input)
    BY <1>1, ClaimedBefore
  <2>3. w \in WorkersOf(Planned) /\ w.input = worker[c].input
    <3>1. worker[c] \in WorkersOf(Planned) /\ "sheet" \in WorkerStates
      BY WorkerFacts DEF WorkerStates
    <3> QED
      BY <2>1, <3>1 DEF WorkersOf
  <2>4. WorkerIs(w, pdfs[c])
    BY <1>1, <2>1, <2>2, WorkerFacts
       DEF WorkerIs, WorkersOf, Sheetless, Profiling, Telling, Told, Drawing
  <2>5. worker' = [worker EXCEPT ![c] = w]
    BY <1>4
  <2>6. IsFunction(JustThe("profile", p)) /\ MadeFor(JustThe("profile", p), worker[c].input)
    BY <2>1, <2>2, PartsMade
  <2> HIDE DEF w
  <2> QED
    BY <1>1, <1>4, <2>3, <2>4, <2>5, <2>6, NothingIs, WorkerRecords
<1> QED
  BY <1>2, <1>3, <1>4 DEF BuildProfile, bookVars

LEMMA DrawSheetKeeps ==
    ASSUME PipelineInv, NEW c \in Claims, DrawSheet(c), UNCHANGED outsideVars
    PROVE  PipelineInv'
<1>1. worker[c].pc = "sheet"
  BY DEF DrawSheet, At
<1>2. CASE StaleLeaves(c)
  BY <1>1, <1>2, StaleKeeps
<1>3. CASE ~StaleLeaves(c)
  <2> DEFINE w == [worker[c] EXCEPT !.pc = "saveSheet"]
  <2>1. /\ objects' = [objects EXCEPT ![c]["character_sheet"] = Torn]
        /\ worker' = [worker EXCEPT ![c] = w]
        /\ UNCHANGED <<run, pdfs>> /\ UNCHANGED bookVars /\ BudgetRests
    BY <1>3, BudgetKept DEF DrawSheet, PipelineInv
  <2>2. w \in WorkersOf(Planned) /\ w.input = worker[c].input
    BY WorkerFacts DEF WorkersOf, WorkerStates
  <2>3. WorkerIs(w, pdfs[c])
    BY <1>1, WorkerFacts DEF WorkerIs, WorkersOf, Sheetless, Profiling, Telling, Told, Drawing
  <2>4. Stores(c)
    <3>1. Torn \in Bytes
      BY DEF Torn, Bytes
    <3> QED
      BY <2>1, <3>1, WorkerFacts DEF Stores
  <2> HIDE DEF w
  <2> QED
    BY <1>1, <2>1, <2>2, <2>3, <2>4, WorkerKeeps, RunEnds DEF Renders
<1> QED
  BY <1>2, <1>3

LEMMA SheetStoredKeeps ==
    ASSUME PipelineInv, NEW c \in Claims, SheetStored(c), UNCHANGED outsideVars
    PROVE  PipelineInv'
<1> DEFINE w == [worker[c] EXCEPT !.pc = "recordSheet"]
           b == [by |-> c, of |-> worker[c].profile.by, ref |-> 0]
<1>1. /\ worker[c].pc = "saveSheet"
      /\ objects' = [objects EXCEPT ![c]["character_sheet"] = b]
      /\ worker' = [worker EXCEPT ![c] = w]
      /\ UNCHANGED <<run, pdfs>> /\ UNCHANGED bookVars /\ BudgetRests
  BY BudgetKept DEF SheetStored, PipelineInv, At
<1>2. w \in WorkersOf(Planned) /\ w.input = worker[c].input
  BY WorkerFacts DEF WorkersOf, WorkerStates
<1>3. WorkerIs(w, pdfs[c])
  BY <1>1, WorkerFacts DEF WorkerIs, WorkersOf, Sheetless, Profiling, Telling, Told, Drawing
<1>4. Stores(c)
  <2>1. worker[c].profile.by \in Nat
    BY WorkerFacts DEF WorkersOf, Profiles
  <2>2. b \in Bytes
    BY <2>1 DEF Bytes, Claims
  <2> QED
    BY <1>1, <2>2, WorkerFacts DEF Stores
<1> HIDE DEF w, b
<1> QED
  BY <1>1, <1>2, <1>3, <1>4, WorkerKeeps, RunEnds DEF Renders

LEMMA RecordSheetKeeps ==
    ASSUME PipelineInv, NEW c \in Claims, RecordSheet(c), UNCHANGED outsideVars
    PROVE  PipelineInv'
<1>1. worker[c].pc = "recordSheet"
  BY DEF RecordSheet, At
<1>2. CASE StaleLeaves(c)
  BY <1>1, <1>2, StaleKeeps
<1>3. CASE ~StaleLeaves(c)
  <2> DEFINE w == [worker[c] EXCEPT !.pc = "profiled", !.sheet = TRUE, !.profile.sheet = TRUE]
  <2>1. /\ worker' = [worker EXCEPT ![c] = w]
        /\ UNCHANGED <<run, objects, pdfs, edition>> /\ BudgetRests
        /\ checkpoint' = Recorded(c, Nothing, SheetArtifact(c))
    BY <1>3, BudgetKept DEF RecordSheet, PipelineInv
  <2>2. w.profile \in Profiles /\ w.profile.sheet /\ w.profile.by = worker[c].profile.by
    <3>1. worker[c] \in WorkersOf(Planned) /\ worker[c].profile \in Profiles
      BY WorkerFacts DEF WorkersOf
    <3> QED
      BY <3>1 DEF WorkersOf, Profiles
  <2>3. w \in WorkersOf(Planned) /\ w.input = worker[c].input
    <3>1. worker[c] \in WorkersOf(Planned) /\ "profiled" \in WorkerStates
      BY WorkerFacts DEF WorkerStates
    <3> DEFINE p == [worker[c].profile EXCEPT !.sheet = TRUE]
    <3>2. p \in Profiles
      BY <3>1 DEF WorkersOf, Profiles
    <3>3. w = [worker[c] EXCEPT !.pc = "profiled", !.sheet = TRUE, !.profile = p]
      OBVIOUS
    <3> HIDE DEF p
    <3> QED
      BY <3>1, <3>2, <3>3 DEF WorkersOf
  <2>4. WorkerIs(w, pdfs[c])
    <3>1. w.pc = "profiled" /\ w.story = worker[c].story /\ w.input = worker[c].input
      BY WorkerFacts DEF WorkersOf
    <3> HIDE DEF w
    <3> QED
      BY <1>1, <2>2, <3>1, WorkerFacts DEF WorkerIs, Sheetless, Profiling, Telling, Told, Drawing
  <2>5. SheetArtifact(c) \in ArtifactsOf(Assets)
    BY ArtifactIs, PlannedAre, WorkerFacts DEF SheetArtifact
  <2> HIDE DEF w
  <2> QED
    BY <1>1, <2>1, <2>3, <2>4, <2>5, PartsMade, WorkerRecords
<1> QED
  BY <1>2, <1>3

LEMMA SheetFailsKeeps ==
    ASSUME PipelineInv, NEW c \in Claims, SheetFails(c), UNCHANGED outsideVars
    PROVE  PipelineInv'
<1>1. /\ worker[c].pc \in {"sheet", "saveSheet"}
      /\ UNCHANGED <<objects, pdfs>> /\ UNCHANGED bookVars /\ BudgetRests
  BY BudgetSpent DEF SheetFails, At, PipelineInv
<1>2. CASE FailRun(c)
  BY <1>1, <1>2, FailKeeps
<1>3. CASE ~FailRun(c)
  <2> DEFINE p == [worker[c].profile EXCEPT !.sheet = FALSE]
             w == [worker[c] EXCEPT !.pc = "profiled", !.error = TRUE, !.profile = p]
  <2>1. UNCHANGED run /\ worker' = [worker EXCEPT ![c] = w]
    <3>1. w = [worker[c] EXCEPT !.pc = "profiled", !.error = TRUE, !.profile.sheet = FALSE]
      OBVIOUS
    <3>2. /\ UNCHANGED run
          /\ worker' = [worker EXCEPT ![c].pc = "profiled", ![c].error = TRUE, ![c].profile.sheet = FALSE]
      BY <1>3 DEF SheetFails
    <3> HIDE DEF w
    <3> QED
      BY <3>1, <3>2
  <2>2. p \in Profiles /\ p.by = worker[c].profile.by
    BY WorkerFacts DEF WorkersOf, Profiles
  <2> HIDE DEF p
  <2>3. w \in WorkersOf(Planned) /\ w.input = worker[c].input
    <3>1. worker[c] \in WorkersOf(Planned) /\ "profiled" \in WorkerStates
      BY WorkerFacts DEF WorkerStates
    <3> QED
      BY <2>2, <3>1 DEF WorkersOf
  <2>4. WorkerIs(w, pdfs[c])
    <3>1. /\ w.pc = "profiled" /\ w.story = worker[c].story /\ w.input = worker[c].input
          /\ w.sheet = worker[c].sheet /\ w.profile = p
      BY WorkerFacts DEF WorkersOf
    <3> HIDE DEF w
    <3> QED
      BY <1>1, <2>2, <3>1, WorkerFacts DEF WorkerIs, Sheetless, Profiling, Telling, Told, Drawing
  <2> HIDE DEF w
  <2> QED
    BY <1>1, <2>1, <2>3, <2>4, WorkerKeeps, RunEnds DEF Stores, Renders
<1> QED
  BY <1>2, <1>3

LEMMA CheckpointProfileKeeps ==
    ASSUME PipelineInv, NEW c \in Claims, CheckpointProfile(c), UNCHANGED outsideVars
    PROVE  PipelineInv'
<1>1. worker[c].pc = "profiled"
  BY DEF CheckpointProfile, At
<1>2. CASE StaleLeaves(c)
  BY <1>1, <1>2, StaleKeeps
<1>3. CASE ~StaleLeaves(c)
  <2> DEFINE e == ResumedError(worker[c])
             p == [worker[c].profile EXCEPT !.degraded = e]
             w == [worker[c] EXCEPT !.pc = "story", !.profile = p, !.error = e]
  <2>1. /\ worker' = [worker EXCEPT ![c] = w]
        /\ UNCHANGED <<run, objects, pdfs, edition>> /\ BudgetRests
        /\ checkpoint' = Recorded(c, JustThe("profile", p), Nothing)
    BY <1>3, BudgetKept DEF CheckpointProfile, PipelineInv
  <2>2. e \in BOOLEAN
    BY DEF ResumedError
  <2> HIDE DEF e
  <2>3. p \in Profiles /\ p.by = worker[c].profile.by /\ p.sheet = worker[c].profile.sheet
    BY <2>2, WorkerFacts DEF WorkersOf, Profiles
  <2> HIDE DEF p
  <2>4. w \in WorkersOf(Planned) /\ w.input = worker[c].input
    <3>1. worker[c] \in WorkersOf(Planned) /\ "story" \in WorkerStates
      BY WorkerFacts DEF WorkerStates
    <3> QED
      BY <2>2, <2>3, <3>1 DEF WorkersOf
  <2>5. Made(p.by, worker[c].input)
    BY <1>1, <2>3, WorkerFacts DEF WorkerIs, Profiling
  <2>6. WorkerIs(w, pdfs[c])
    <3>1. /\ w.pc = "story" /\ w.story = worker[c].story /\ w.input = worker[c].input
          /\ w.sheet = worker[c].sheet /\ w.profile = p
      BY WorkerFacts DEF WorkersOf
    <3> HIDE DEF w
    <3> QED
      BY <1>1, <2>3, <2>5, <3>1, WorkerFacts DEF WorkerIs, Sheetless, Profiling, Telling, Told, Drawing
  <2>7. IsFunction(JustThe("profile", p)) /\ MadeFor(JustThe("profile", p), worker[c].input)
    BY <2>3, <2>5, PartsMade
  <2> HIDE DEF w
  <2> QED
    BY <1>1, <2>1, <2>4, <2>6, <2>7, NothingIs, WorkerRecords
<1> QED
  BY <1>2, <1>3

LEMMA TellStoryKeeps ==
    ASSUME PipelineInv, NEW c \in Claims, TellStory(c), UNCHANGED outsideVars
    PROVE  PipelineInv'
<1>1. worker[c].pc = "story"
  BY DEF TellStory, At
<1>2. CASE StaleLeaves(c)
  BY <1>1, <1>2, StaleKeeps
<1>3. CASE ~StaleLeaves(c)
  <2> DEFINE s == IF worker[c].story # NoWriter THEN worker[c].story
                  ELSE [by |-> c, of |-> worker[c].profile.by]
             w == [worker[c] EXCEPT !.pc = "reference", !.story = s]
  <2>1. /\ worker' = [worker EXCEPT ![c] = w]
        /\ UNCHANGED <<run, objects, pdfs, edition>> /\ BudgetRests
        /\ checkpoint' = Recorded(c, JustThe("story", s), Nothing)
    BY <1>3, BudgetKept DEF TellStory, PipelineInv
  <2>2. s \in Writers /\ s # NoWriter
    <3>1. worker[c].story \in Writers /\ worker[c].profile.by \in Nat /\ c \in Nat /\ c # 0
      BY WorkerFacts DEF WorkersOf, Profiles, Claims
    <3> QED
      BY <3>1 DEF Writers, NoWriter
  <2>3. Made(s.by, worker[c].input)
    BY <1>1, ClaimedBefore, WorkerFacts DEF WorkerIs
  <2> HIDE DEF s
  <2>4. w \in WorkersOf(Planned) /\ w.input = worker[c].input
    <3>1. worker[c] \in WorkersOf(Planned) /\ "reference" \in WorkerStates
      BY WorkerFacts DEF WorkerStates
    <3> QED
      BY <2>2, <3>1 DEF WorkersOf
  <2>5. WorkerIs(w, pdfs[c])
    <3>1. /\ w.pc = "reference" /\ w.story = s /\ w.input = worker[c].input
          /\ w.sheet = worker[c].sheet /\ w.profile = worker[c].profile
      BY WorkerFacts DEF WorkersOf
    <3> HIDE DEF w
    <3> QED
      BY <1>1, <2>2, <2>3, <3>1, WorkerFacts
         DEF WorkerIs, Sheetless, Profiling, Telling, Told, Drawing
  <2>6. IsFunction(JustThe("story", s)) /\ MadeFor(JustThe("story", s), worker[c].input)
    BY <2>2, <2>3, PartsMade
  <2> HIDE DEF w
  <2> QED
    BY <1>1, <2>1, <2>4, <2>5, <2>6, NothingIs, WorkerRecords
<1> QED
  BY <1>2, <1>3

LEMMA StoryFailsKeeps ==
    ASSUME PipelineInv, NEW c \in Claims, StoryFails(c), UNCHANGED outsideVars
    PROVE  PipelineInv'
BY FailKeeps, BudgetSpent DEF StoryFails, At, PipelineInv

LEMMA LoadReferenceKeeps ==
    ASSUME PipelineInv, NEW c \in Claims, LoadReference(c), UNCHANGED outsideVars
    PROVE  PipelineInv'
<1> DEFINE has == worker[c].sheet /\ Intact(objects[c]["character_sheet"])
<1>1. worker[c].pc = "reference" /\ UNCHANGED pdfs
  BY DEF LoadReference, At, StaleLeaves
<1>2. CASE FailRun(c) /\ UNCHANGED <<objects, pdfs, bookVars, pipelineBudget>>
  BY <1>1, <1>2, FailKeeps, BudgetKept DEF PipelineInv
<1>3. CASE StaleLeaves(c)
  BY <1>1, <1>3, StaleKeeps
<1>4. CASE ~(FailRun(c) /\ UNCHANGED <<objects, pdfs, bookVars, pipelineBudget>>) /\ ~StaleLeaves(c)
  <2> DEFINE reference == IF has THEN objects[c]["character_sheet"].of ELSE 0
             art == [l \in Planned |-> IF l \in DOMAIN worker[c].reuse THEN "adopt" ELSE "draw"]
             w == [worker[c] EXCEPT !.pc = "images", !.reference = reference, !.art = art]
  <2>1. /\ worker' = [worker EXCEPT ![c] = w]
        /\ UNCHANGED <<run, objects, pdfs, edition>> /\ BudgetRests
        /\ checkpoint' = IF has THEN Recorded(c, Nothing, SheetArtifact(c)) ELSE checkpoint
    BY <1>4, BudgetKept DEF LoadReference, PipelineInv
  <2>2. reference \in Nat
    BY WorkerFacts DEF Bytes
  <2>3. /\ art \in ArtOf(Planned) /\ DOMAIN art = Planned
        /\ \A l \in Planned : art[l] = "adopt" => l \in DOMAIN worker[c].reuse
    BY DEF ArtOf, ArtStates
  <2> HIDE DEF reference, art
  <2>4. w \in WorkersOf(Planned) /\ w.input = worker[c].input
    <3>1. worker[c] \in WorkersOf(Planned) /\ "images" \in WorkerStates
      BY WorkerFacts DEF WorkerStates
    <3> QED
      BY <2>2, <2>3, <3>1 DEF WorkersOf
  <2>5. WorkerIs(w, pdfs[c])
    <3>1. /\ w.pc = "images" /\ w.story = worker[c].story /\ w.input = worker[c].input
          /\ w.sheet = worker[c].sheet /\ w.profile = worker[c].profile /\ w.art = art
          /\ w.reuse = worker[c].reuse
      BY WorkerFacts DEF WorkersOf
    <3> HIDE DEF w
    <3> QED
      BY <1>1, <2>3, <3>1, WorkerFacts
         DEF WorkerIs, Sheetless, Profiling, Telling, Told, Drawing
  <2>6. SheetArtifact(c) \in ArtifactsOf(Assets)
    BY ArtifactIs, PlannedAre, WorkerFacts DEF SheetArtifact
  <2> HIDE DEF w
  <2>7. CASE has
    <3>1. checkpoint' = Recorded(c, Nothing, SheetArtifact(c))
      BY <2>1, <2>7
    <3> HIDE DEF has
    <3> QED
      BY <1>1, <2>1, <2>4, <2>5, <2>6, <3>1, PartsMade, WorkerRecords
  <2>8. CASE ~has
    <3>1. UNCHANGED bookVars
      BY <2>1, <2>8 DEF bookVars
    <3> HIDE DEF has
    <3> QED
      BY <1>1, <2>1, <2>4, <2>5, <3>1, WorkerKeeps, RunEnds DEF Stores, Renders
  <2> QED
    BY <2>7, <2>8
<1> QED
  BY <1>2, <1>3, <1>4

\* The art of a worker that adopts or draws.
LEMMA ArtTurns ==
    ASSUME PipelineInv, NEW c \in Claims, NEW l \in Planned, NEW to \in ArtStates \ {"adopt"},
           worker[c].pc \in {"images", "drawing"},
           NEW w, w = [worker[c] EXCEPT !.art[l] = to]
    PROVE  w \in WorkersOf(Planned) /\ w.input = worker[c].input /\ WorkerIs(w, pdfs[c])
<1> DEFINE art == [worker[c].art EXCEPT ![l] = to]
<1>1. worker[c].art \in [Planned -> ArtStates]
  <2>1. worker[c].art \in ArtOf(Planned) /\ DOMAIN worker[c].art = Planned
    BY WorkerFacts DEF WorkersOf, WorkerIs
  <2> QED
    BY <2>1 DEF ArtOf
<1>2. /\ art \in ArtOf(Planned) /\ DOMAIN art = Planned
      /\ \A k \in Planned : art[k] = "adopt" => worker[c].art[k] = "adopt"
  BY <1>1 DEF ArtOf
<1>3. w = [worker[c] EXCEPT !.art = art]
  OBVIOUS
<1> HIDE DEF art
<1>4. w \in WorkersOf(Planned) /\ w.input = worker[c].input
  <2>1. worker[c] \in WorkersOf(Planned)
    BY WorkerFacts
  <2> QED
    BY <1>2, <1>3, <2>1 DEF WorkersOf
<1>5. /\ w.pc = worker[c].pc /\ w.story = worker[c].story /\ w.sheet = worker[c].sheet
      /\ w.profile = worker[c].profile /\ w.art = art /\ w.reuse = worker[c].reuse
  BY <1>3, WorkerFacts DEF WorkersOf
<1>6. WorkerIs(w, pdfs[c])
  BY <1>2, <1>4, <1>5, WorkerFacts DEF WorkerIs, Sheetless, Profiling, Telling, Told, Drawing
<1> QED
  BY <1>4, <1>6

\* One artwork turns, and with it at most one object of the claim.
LEMMA ArtKeeps ==
    ASSUME PipelineInv, NEW c \in Claims, NEW l \in Planned, NEW to \in ArtStates \ {"adopt"},
           worker[c].pc \in {"images", "drawing"},
           worker' = [worker EXCEPT ![c].art[l] = to], Stores(c), UNCHANGED <<run, pdfs>>,
           BudgetRests, UNCHANGED outsideVars, UNCHANGED bookVars
    PROVE  PipelineInv'
<1> DEFINE w == [worker[c] EXCEPT !.art[l] = to]
<1>1. worker' = [worker EXCEPT ![c] = w]
  OBVIOUS
<1>2. w \in WorkersOf(Planned) /\ w.input = worker[c].input /\ WorkerIs(w, pdfs[c])
  BY ArtTurns
<1> HIDE DEF w
<1> QED
  BY <1>1, <1>2, WorkerKeeps, RunEnds DEF Renders

LEMMA AdoptImageKeeps ==
    ASSUME PipelineInv, NEW c \in Claims, NEW l \in Planned, AdoptImage(c, l), UNCHANGED outsideVars
    PROVE  PipelineInv'
<1> DEFINE source == worker[c].reuse[l]
<1>1. /\ worker[c].pc = "images" /\ worker[c].art[l] = "adopt" /\ UNCHANGED <<run, pdfs>>
      /\ UNCHANGED bookVars /\ BudgetRests
  BY BudgetKept DEF AdoptImage, At, PipelineInv
<1>2. source.sha \in Bytes
  <2>1. l \in DOMAIN worker[c].reuse /\ worker[c].reuse \in ArtifactsOf(Assets)
    BY <1>1, WorkerFacts DEF WorkerIs, WorkersOf
  <2> QED
    BY <2>1, ArtifactsAre, ArtifactsAreFunctions
<1>3. \/ /\ worker' = [worker EXCEPT ![c].art[l] = "adopted"]
         /\ objects' = [objects EXCEPT ![c][l] = source.sha]
      \/ worker' = [worker EXCEPT ![c].art[l] = "draw"] /\ UNCHANGED objects
  BY DEF AdoptImage, Art
<1>4. Stores(c)
  BY <1>2, <1>3, WorkerFacts DEF Stores
<1> HIDE DEF source
<1> QED
  BY <1>1, <1>3, <1>4, ArtKeeps DEF ArtStates

LEMMA DrawImageKeeps ==
    ASSUME PipelineInv, NEW c \in Claims, NEW l \in Planned, DrawImage(c, l), UNCHANGED outsideVars
    PROVE  PipelineInv'
<1>1. /\ worker[c].pc = "drawing" /\ UNCHANGED <<run, pdfs>>
      /\ UNCHANGED bookVars /\ BudgetRests
  BY BudgetKept DEF DrawImage, At, PipelineInv
<1>2. \/ worker' = [worker EXCEPT ![c].art[l] = "saving"] /\ objects' = [objects EXCEPT ![c][l] = Torn]
      \/ worker' = [worker EXCEPT ![c].art[l] = "failed"] /\ UNCHANGED objects
  BY DEF DrawImage, Art
<1>3. Stores(c)
  <2>1. Torn \in Bytes
    BY DEF Torn, Bytes
  <2> QED
    BY <1>2, <2>1, WorkerFacts DEF Stores
<1> QED
  BY <1>1, <1>2, <1>3, ArtKeeps DEF ArtStates

LEMMA ImageStoredKeeps ==
    ASSUME PipelineInv, NEW c \in Claims, NEW l \in Planned, ImageStored(c, l), UNCHANGED outsideVars
    PROVE  PipelineInv'
<1> DEFINE b == [by |-> c, of |-> worker[c].story.by, ref |-> worker[c].reference]
<1>1. /\ worker[c].pc = "drawing" /\ UNCHANGED <<run, pdfs>>
      /\ worker' = [worker EXCEPT ![c].art[l] = "stored"]
      /\ objects' = [objects EXCEPT ![c][l] = b]
      /\ UNCHANGED bookVars /\ BudgetRests
  BY BudgetKept DEF ImageStored, At, Art, PipelineInv
<1>2. b \in Bytes
  <2>1. worker[c].story.by \in Nat /\ worker[c].reference \in Nat
    BY WorkerFacts DEF WorkersOf, Writers
  <2> QED
    BY <2>1 DEF Bytes, Claims
<1>3. Stores(c)
  BY <1>1, <1>2, WorkerFacts DEF Stores
<1> HIDE DEF b
<1> QED
  BY <1>1, <1>3, ArtKeeps DEF ArtStates

LEMMA ImageFailsKeeps ==
    ASSUME PipelineInv, NEW c \in Claims, NEW l \in Planned, ImageFails(c, l), UNCHANGED outsideVars
    PROVE  PipelineInv'
<1>1. /\ worker[c].pc = "drawing" /\ UNCHANGED <<run, objects, pdfs>>
      /\ worker' = [worker EXCEPT ![c].art[l] = "failed"]
      /\ UNCHANGED bookVars /\ BudgetRests
  BY BudgetSpent DEF ImageFails, At, Art, PipelineInv
<1> QED
  BY <1>1, ArtKeeps DEF ArtStates, Stores

\* The art and the manifest of a worker that has an image.
LEMMA KeepTurns ==
    ASSUME PipelineInv, NEW c \in Claims, NEW l \in Planned, NEW to \in ArtStates \ {"adopt"},
           worker[c].pc \in {"images", "drawing"},
           NEW w, w = [worker[c] EXCEPT !.art[l] = to,
                                        !.manifest = Over(JustThe(l, objects[c][l]), @)]
    PROVE  w \in WorkersOf(Planned) /\ w.input = worker[c].input /\ WorkerIs(w, pdfs[c])
<1> DEFINE v == [worker[c] EXCEPT !.art[l] = to]
           manifest == Over(JustThe(l, objects[c][l]), worker[c].manifest)
<1>1. v \in WorkersOf(Planned) /\ v.input = worker[c].input /\ WorkerIs(v, pdfs[c])
  BY ArtTurns
<1>2. w = [v EXCEPT !.manifest = manifest] /\ v.pc = worker[c].pc
  BY WorkerFacts DEF WorkersOf
<1> HIDE DEF v
<1>3. manifest \in ManifestsOf(Planned)
  <2>1. PICK S \in SUBSET Planned : worker[c].manifest \in [S -> Bytes]
    BY WorkerFacts DEF WorkersOf, ManifestsOf
  <2>2. objects[c][l] \in Bytes
    BY WorkerFacts
  <2>3. manifest \in [{l} \cup S -> Bytes]
    BY <2>1, <2>2 DEF Over, JustThe
  <2> QED
    BY <2>3 DEF ManifestsOf
<1> HIDE DEF manifest
<1>4. w \in WorkersOf(Planned) /\ w.input = worker[c].input
  BY <1>1, <1>2, <1>3 DEF WorkersOf
<1>5. /\ w.pc = v.pc /\ w.story = v.story /\ w.sheet = v.sheet /\ w.input = v.input
      /\ w.profile = v.profile /\ w.art = v.art /\ w.reuse = v.reuse
  BY <1>1, <1>2 DEF WorkersOf
<1>6. WorkerIs(w, pdfs[c])
  BY <1>1, <1>2, <1>5 DEF WorkerIs
<1> QED
  BY <1>4, <1>6

LEMMA RecordImageKeeps ==
    ASSUME PipelineInv, NEW c \in Claims, NEW l \in Planned, RecordImage(c, l), UNCHANGED outsideVars
    PROVE  PipelineInv'
<1>1. worker[c].pc \in {"images", "drawing"}
  BY DEF RecordImage, At
<1>2. CASE StaleLeaves(c)
  BY <1>1, <1>2, StaleKeeps
<1>3. ASSUME NEW to \in {"failed", "ready"}, Keep(c, l, to),
             UNCHANGED <<run, objects, pdfs, edition, pipelineBudget>>,
             \/ UNCHANGED checkpoint
             \/ checkpoint' = Recorded(c, Nothing, JustThe(l, [key |-> c, sha |-> objects[c][l]]))
      PROVE  PipelineInv'
  <2> DEFINE w == [worker[c] EXCEPT !.art[l] = to, !.manifest = Over(JustThe(l, objects[c][l]), @)]
             recorded == JustThe(l, [key |-> c, sha |-> objects[c][l]])
  <2>1. worker' = [worker EXCEPT ![c] = w] /\ BudgetRests
    BY <1>3, BudgetKept DEF Keep, PipelineInv
  <2>2. w \in WorkersOf(Planned) /\ w.input = worker[c].input /\ WorkerIs(w, pdfs[c])
    BY <1>1, KeepTurns DEF ArtStates
  <2>3. recorded \in ArtifactsOf(Assets)
    BY ArtifactIs, PlannedAre, WorkerFacts
  <2> HIDE DEF w, recorded
  <2>4. CASE UNCHANGED checkpoint
    BY <1>1, <1>3, <2>1, <2>2, <2>4, WorkerKeeps, RunEnds DEF Stores, Renders, bookVars
  <2>5. CASE checkpoint' = Recorded(c, Nothing, recorded)
    BY <1>1, <1>3, <2>1, <2>2, <2>3, <2>5, PartsMade, WorkerRecords
  <2> QED
    BY <1>3, <2>4, <2>5 DEF recorded
<1> QED
  BY <1>2, <1>3 DEF RecordImage, bookVars

LEMMA StartDrawingKeeps ==
    ASSUME PipelineInv, NEW c \in Claims, StartDrawing(c), UNCHANGED outsideVars
    PROVE  PipelineInv'
<1> DEFINE w == [worker[c] EXCEPT !.pc = "drawing"]
<1>1. /\ worker[c].pc = "images" /\ worker' = [worker EXCEPT ![c] = w]
      /\ UNCHANGED <<run, objects, pdfs>> /\ UNCHANGED bookVars /\ BudgetRests
  BY BudgetKept DEF StartDrawing, PipelineInv, At
<1>2. w \in WorkersOf(Planned) /\ w.input = worker[c].input
  BY WorkerFacts DEF WorkersOf, WorkerStates
<1>3. WorkerIs(w, pdfs[c])
  BY <1>1, WorkerFacts DEF WorkerIs, WorkersOf, Sheetless, Profiling, Telling, Told, Drawing
<1> HIDE DEF w
<1> QED
  BY <1>1, <1>2, <1>3, WorkerKeeps, RunEnds DEF Stores, Renders

LEMMA StoreBookCandidateKeeps ==
    ASSUME PipelineInv, NEW c \in Claims, StoreBookCandidate(c), UNCHANGED outsideVars
    PROVE  PipelineInv'
<1>1. worker[c].pc = "drawing"
  BY DEF StoreBookCandidate, At
<1>2. CASE StaleLeaves(c)
  BY <1>1, <1>2, StaleKeeps
<1>3. CASE ~StaleLeaves(c)
  <2> DEFINE w == [worker[c] EXCEPT !.pc = "pdf"]
             both == Over(JustThe("profile", worker[c].profile), JustThe("story", worker[c].story))
  <2>1. /\ worker' = [worker EXCEPT ![c] = w]
        /\ UNCHANGED <<run, objects, pdfs, edition>> /\ BudgetRests
        /\ checkpoint' = Recorded(c, both, Nothing)
    BY <1>3, BudgetKept DEF StoreBookCandidate, PipelineInv
  <2>2. w \in WorkersOf(Planned) /\ w.input = worker[c].input
    BY WorkerFacts DEF WorkersOf, WorkerStates
  <2>3. WorkerIs(w, pdfs[c])
    BY <1>1, WorkerFacts DEF WorkerIs, WorkersOf, Sheetless, Profiling, Telling, Told, Drawing
  <2>4. IsFunction(both) /\ MadeFor(both, worker[c].input)
    <3>1. /\ worker[c].profile \in Profiles /\ worker[c].story \in Writers
          /\ Made(worker[c].profile.by, worker[c].input) /\ Made(worker[c].story.by, worker[c].input)
      BY <1>1, WorkerFacts DEF WorkersOf, WorkerIs, Telling, Told, Drawing
    <3> QED
      BY <3>1, PartsMade
  <2> HIDE DEF w, both
  <2> QED
    BY <1>1, <2>1, <2>2, <2>3, <2>4, NothingIs, WorkerRecords
<1> QED
  BY <1>2, <1>3

LEMMA RenderPdfKeeps ==
    ASSUME PipelineInv, NEW c \in Claims, RenderPdf(c), UNCHANGED outsideVars
    PROVE  PipelineInv'
<1>1. worker[c].pc = "pdf"
  BY DEF RenderPdf, At
<1>2. CASE StaleLeaves(c)
  BY <1>1, <1>2, StaleKeeps
<1>3. ASSUME NEW pc \in {"rendered", "refused"}, BudgetRests,
             UNCHANGED <<run, objects>>, UNCHANGED bookVars, Renders(c),
             worker' = [worker EXCEPT ![c].pc = pc],
             pc = "rendered" => pdfs'[c] = worker[c].manifest /\ DOMAIN worker[c].manifest = Planned
      PROVE  PipelineInv'
  <2> DEFINE w == [worker[c] EXCEPT !.pc = pc]
  <2>1. w \in WorkersOf(Planned) /\ w.input = worker[c].input
    BY WorkerFacts DEF WorkersOf, WorkerStates
  <2>2. WorkerIs(w, pdfs'[c])
    <3>1. /\ w.pc = pc /\ w.story = worker[c].story /\ w.sheet = worker[c].sheet
          /\ w.profile = worker[c].profile /\ w.manifest = worker[c].manifest
      BY WorkerFacts DEF WorkersOf
    <3> HIDE DEF w
    <3> QED
      BY <1>1, <1>3, <2>1, <3>1, WorkerFacts
         DEF WorkerIs, Sheetless, Profiling, Telling, Told, Drawing
  <2>3. worker' = [worker EXCEPT ![c] = w]
    BY <1>3
  <2> HIDE DEF w
  <2> QED
    BY <1>1, <1>3, <2>1, <2>2, <2>3, WorkerKeeps, RunEnds DEF Stores
<1>4. ASSUME AllImagesResolved(c), pdfs' = [pdfs EXCEPT ![c] = [l \in Planned |-> objects[c][l]]]
      PROVE  pdfs'[c] = worker[c].manifest /\ DOMAIN worker[c].manifest = Planned
  <2>1. pdfs'[c] = [l \in Planned |-> objects[c][l]]
    <3>1. pdfs = [d \in Claims |-> pdfs[d]]
      BY WorkerFacts DEF PipelineTypes
    <3> QED
      BY <1>4, <3>1
  <2>2. PICK S \in SUBSET Planned : worker[c].manifest \in [S -> Bytes]
    BY WorkerFacts DEF WorkersOf, ManifestsOf
  <2>3. S = Planned /\ \A l \in Planned : worker[c].manifest[l] = objects[c][l]
    BY <1>4, <2>2 DEF AllImagesResolved
  <2> QED
    BY <2>1, <2>2, <2>3
<1>5. ASSUME NEW fails \in BOOLEAN,
             IF fails THEN SpendPipeline("faults") ELSE UNCHANGED pipelineBudget
      PROVE  BudgetRests
  BY <1>5, BudgetSpent, BudgetKept DEF PipelineInv
<1> QED
  BY <1>2, <1>3, <1>4, <1>5 DEF RenderPdf, Renders

LEMMA EndRunKeeps ==
    ASSUME PipelineInv, NEW c \in Claims, EndRun(c), UNCHANGED outsideVars
    PROVE  PipelineInv'
<1>1. worker[c].pc \in {"rendered", "refused"}
  BY DEF EndRun, At
<1>2. CASE StaleLeaves(c)
  BY <1>1, <1>2, StaleKeeps
<1>3. CASE ~StaleLeaves(c)
  <2>1. Gone(c) /\ UNCHANGED <<objects, pdfs, checkpoint, pipelineBudget>>
    BY <1>3 DEF EndRun
  <2>2. run' \in RunsOf(Planned)
    BY <1>3, RunEnds DEF EndRun
  <2>3. /\ Alone(c) /\ worker'[c].pc = "gone"
        /\ CheckpointOK' /\ EditionOK' => PipelineInv'
        /\ UNCHANGED bookVars => PipelineInv'
    BY <1>1, <2>1, <2>2, BudgetKept, GoneKeeps DEF Stores, PipelineInv
  <2>4. CheckpointOK'
    BY <2>1, <2>3, CheckpointRests
  <2>5. CASE UNCHANGED edition
    BY <2>1, <2>3, <2>5 DEF bookVars
  <2>6. ASSUME worker[c].pc = "rendered",
               NEW degraded,
               edition' = [by |-> c, input |-> worker[c].input, profile |-> worker[c].profile,
                           story |-> worker[c].story, manifest |-> worker[c].manifest,
                           degraded |-> degraded]
        PROVE  EditionOK'
    <3>1. /\ Made(worker[c].profile.by, worker[c].input) /\ Made(worker[c].story.by, worker[c].input)
          /\ pdfs[c] = worker[c].manifest /\ DOMAIN worker[c].manifest = Planned
      BY <2>6, WorkerFacts DEF WorkerIs, Telling, Told, Drawing
    <3>2. \A m, i : Made(m, i) => Made(m, i)'
      BY <2>3, MadeStays DEF PipelineInv
    <3>3. \A m \in {edition'.story.by, edition'.profile.by} :
             m \in 1..attempt' /\ worker'[m].input = edition'.input
      <4>1. \A m, i : Made(m, i) => m \in 1..attempt' /\ worker'[m].input = i
        BY <3>2 DEF Made
      <4> QED
        BY <2>6, <3>1, <4>1
    <3>4. edition'.by = c /\ pdfs'[c] = edition'.manifest /\ DOMAIN edition'.manifest = Planned'
      BY <2>1, <2>3, <2>6, <3>1, PlannedRests DEF Alone
    <3>5. c \in 1..attempt'
      BY <1>1, <2>3, ClaimedBefore DEF Alone, outsideVars
    <3> QED
      BY <2>3, <3>3, <3>4, <3>5 DEF EditionOK, EditionIsRendered
  <2> QED
    BY <1>1, <1>3, <2>3, <2>4, <2>5, <2>6 DEF EndRun
<1> QED
  BY <1>2, <1>3

LEMMA WorkerStopsKeeps ==
    ASSUME PipelineInv, NEW c \in Claims, WorkerStops(c)
    PROVE  PipelineInv'
BY LeavesKeeps, RunEnds, BudgetKept DEF WorkerStops, PipelineInv

-----------------------------------------------------------------------------
(* Around the workers *)

\* The run and the book's surroundings change, or an object of a claim made earlier.
LEMMA AroundKeeps ==
    ASSUME PipelineInv, UNCHANGED <<attempt, worker, pdfs, checkpoint, edition>>,
           run' \in RunsOf(Planned), bookInput' \in BookInputs, fallback' \in Policies,
           pipelineBudget' \in Budgets, pipelineBudget'.images = pipelineBudget.images,
           objects' \in [Claims -> [Labels -> Bytes]],
           \A c \in Claims : c > attempt => objects'[c] = objects[c]
    PROVE  PipelineInv'
<1>1. Planned' = Planned /\ Assets' = Assets
  BY DEF Planned, Assets
<1>2. PipelineTypes'
  BY <1>1 DEF PipelineInv, PipelineTypes
<1>3. FreshClaims'
  BY DEF PipelineInv, FreshClaims, Untouched
<1>4. CheckpointOK'
  BY <1>1 DEF PipelineInv, CheckpointOK, MadeFor, Made
<1>5. \A c \in Claims : WorkerOK(c)'
  BY <1>1 DEF PipelineInv, WorkerOK, WorkerIs, Made
<1>6. EditionOK'
  BY <1>1 DEF PipelineInv, EditionOK, EditionIsRendered, Published
<1> QED
  BY <1>2, <1>3, <1>4, <1>5, <1>6 DEF PipelineInv

\* The planned images are chosen once.
LEMMA BudgetFacts ==
    ASSUME PipelineInv, BudgetRests \/ SpendPipeline("switches")
    PROVE  pipelineBudget' \in Budgets /\ pipelineBudget'.images = pipelineBudget.images
<1>1. CASE BudgetRests
  BY <1>1 DEF BudgetRests
<1>2. CASE SpendPipeline("switches")
  BY <1>2 DEF PipelineInv, PipelineTypes, Budgets, SpendPipeline
<1> QED
  BY <1>1, <1>2

\* Scheduling, recovery, cancellation, edits, policy switches and lost objects keep the
\* invariant; so does a claim, which starts from a clean worker and an empty namespace.
LEMMA ScheduleRunKeeps ==
    ASSUME PipelineInv, NEW kind \in {"generate", "retry"}, ScheduleRun(kind)
    PROVE  PipelineInv'
<1>1. /\ UNCHANGED <<attempt, worker, pdfs, checkpoint, edition>>
      /\ UNCHANGED <<bookInput, fallback, objects, pipelineBudget>>
  BY DEF ScheduleRun, outsideVars, bookVars
<1>2. /\ run.input \in BookInputs /\ bookInput \in BookInputs /\ fallback \in Policies
      /\ objects \in [Claims -> [Labels -> Bytes]] /\ PipelineTypes
  BY DEF PipelineInv, PipelineTypes, RunsOf
<1> DEFINE input == IF kind = "retry" THEN run.input ELSE bookInput
           calls == IF kind = "retry" THEN RemainingCalls(Inspect(input, fallback))
                    ELSE Cardinality(Assets) + 2
<1>3. run' = [status |-> "queued", input |-> input, policy |-> fallback, calls |-> calls]
  BY DEF ScheduleRun
<1>4. input \in BookInputs
  BY <1>2
<1>5. calls \in 0..Cardinality(Assets) + 2
  <2>1. Cardinality(Assets) + 2 \in 0..Cardinality(Assets) + 2
    BY <1>2, PlannedAre
  <2>2. Finds(Inspect(input, fallback), input, fallback)
    BY <1>2, InspectFinds, WorkerFacts DEF PipelineInv, CheckpointOK
  <2>3. DOMAIN Inspect(input, fallback).valid \subseteq Assets
    BY <2>2 DEF Finds
  <2>4. RemainingCalls(Inspect(input, fallback)) \in 0..Cardinality(Assets) + 2
    BY <1>2, <2>3, RemainingCallsBounded
  <2> QED
    BY <2>1, <2>4
<1> HIDE DEF input, calls
<1>6. run' \in RunsOf(Planned)
  BY <1>2, <1>3, <1>4, <1>5 DEF RunsOf, Assets
<1>7. BudgetRests
  BY <1>1, <1>2, BudgetKept
<1> QED
  BY <1>1, <1>2, <1>6, <1>7, BudgetFacts, AroundKeeps

LEMMA RecoverRunKeeps ==
    ASSUME PipelineInv, RecoverRun
    PROVE  PipelineInv'
<1>1. /\ UNCHANGED <<attempt, worker, pdfs, checkpoint, edition>>
      /\ UNCHANGED <<bookInput, fallback, objects, pipelineBudget>>
      /\ run' = [run EXCEPT !.status = "failed"]
  BY DEF RecoverRun, outsideVars, bookVars
<1>2. BudgetRests
  BY <1>1, BudgetKept DEF PipelineInv
<1> QED
  BY <1>1, <1>2, RunEnds, BudgetFacts, AroundKeeps DEF PipelineInv, PipelineTypes

LEMMA CancelRunKeeps ==
    ASSUME PipelineInv, CancelRun
    PROVE  PipelineInv'
<1>1. /\ UNCHANGED <<attempt, worker, pdfs, checkpoint, edition>>
      /\ UNCHANGED <<bookInput, fallback, objects>>
      /\ run' = [run EXCEPT !.status = "cancelled"]
  BY DEF CancelRun, outsideVars, bookVars
<1>2. BudgetRests
  BY BudgetSpent DEF PipelineInv, CancelRun
<1> QED
  BY <1>1, <1>2, RunEnds, BudgetFacts, AroundKeeps DEF PipelineInv, PipelineTypes

LEMMA EditBookInputKeeps ==
    ASSUME PipelineInv, EditBookInput
    PROVE  PipelineInv'
<1>1. /\ UNCHANGED <<attempt, worker, pdfs, checkpoint, edition>>
      /\ UNCHANGED <<run, fallback, objects>> /\ bookInput' \in BookInputs
  BY DEF EditBookInput, bookVars
<1>2. BudgetRests
  BY BudgetSpent DEF PipelineInv, EditBookInput
<1> QED
  BY <1>1, <1>2, RunEnds, BudgetFacts, AroundKeeps DEF PipelineInv, PipelineTypes

LEMMA SwitchPolicyKeeps ==
    ASSUME PipelineInv, SwitchPolicy
    PROVE  PipelineInv'
<1>1. /\ UNCHANGED <<attempt, worker, pdfs, checkpoint, edition>>
      /\ UNCHANGED <<run, bookInput, objects>> /\ fallback' \in Policies
      /\ SpendPipeline("switches")
  BY DEF SwitchPolicy, bookVars, Policies
<1> QED
  BY <1>1, RunEnds, BudgetFacts, AroundKeeps DEF PipelineInv, PipelineTypes

LEMMA LoseObjectKeeps ==
    ASSUME PipelineInv, NEW c \in Claims, NEW l \in Assets, LoseObject(c, l)
    PROVE  PipelineInv'
<1>1. /\ UNCHANGED <<attempt, worker, pdfs, checkpoint, edition>>
      /\ UNCHANGED <<run, fallback, bookInput>> /\ c < attempt
  BY DEF LoseObject, outsideVars, bookVars
<1>2. BudgetRests
  BY BudgetSpent DEF PipelineInv, LoseObject
<1>3. PICK left \in {Absent, Torn} : objects' = [objects EXCEPT ![c][l] = left]
  BY DEF LoseObject
<1>4. left \in Bytes /\ l \in Labels /\ objects \in [Claims -> [Labels -> Bytes]]
  BY PlannedAre DEF Absent, Torn, Bytes, PipelineInv, PipelineTypes
<1>5. objects' \in [Claims -> [Labels -> Bytes]]
  BY <1>3, <1>4
<1>6. \A d \in Claims : d > attempt => objects'[d] = objects[d]
  <2>1. \A d \in Claims : d # c => objects'[d] = objects[d]
    BY <1>3, <1>4
  <2>2. c \in Nat /\ attempt \in Nat
    BY DEF Claims, PipelineInv, PipelineTypes
  <2> QED
    BY <1>1, <2>1, <2>2
<1> QED
  BY <1>1, <1>2, <1>5, <1>6, RunEnds, BudgetFacts, AroundKeeps DEF PipelineInv, PipelineTypes

LEMMA ClaimBookKeeps ==
    ASSUME PipelineInv, ClaimBook
    PROVE  PipelineInv'
<1> DEFINE c == attempt + 1
           w == [Idle EXCEPT !.pc = "inspect", !.input = run.input, !.policy = run.policy]
<1>1. c \in Claims /\ attempt \in Nat /\ attempt < MaxClaims /\ attempt \notin {c}
  BY PipelineAssumption DEF ClaimBook, PipelineInv, PipelineTypes, Claims
<1>2. /\ attempt' = c /\ worker' = [worker EXCEPT ![c] = w]
      /\ run' = [run EXCEPT !.status = "running"]
      /\ UNCHANGED <<objects, pdfs, checkpoint, edition, bookInput, fallback>>
  BY DEF ClaimBook, bookVars
<1>3. pipelineBudget' \in Budgets /\ Planned' = Planned /\ Assets' = Assets
  <2>1. PICK overlaps \in Nat :
           pipelineBudget' = [pipelineBudget EXCEPT !.claims = @ - 1, !.overlaps = overlaps]
    <3> DEFINE live == attempt > 0 /\ worker[attempt].pc # "gone"
               left == IF live THEN pipelineBudget.overlaps - 1 ELSE pipelineBudget.overlaps
    <3>1. pipelineBudget' = [pipelineBudget EXCEPT !.claims = @ - 1, !.overlaps = left]
      BY DEF ClaimBook
    <3>2. live => pipelineBudget.overlaps > 0
      BY DEF ClaimBook
    <3>3. pipelineBudget.overlaps \in Nat
      BY DEF PipelineInv, PipelineTypes, Budgets
    <3> HIDE DEF live
    <3>4. left \in Nat
      BY <3>2, <3>3
    <3> QED
      BY <3>1, <3>4
  <2>2. pipelineBudget \in Budgets /\ pipelineBudget.claims - 1 \in Nat
    BY DEF PipelineInv, PipelineTypes, ClaimBook, Budgets
  <2>3. pipelineBudget' \in Budgets /\ pipelineBudget'.images = pipelineBudget.images
    BY <2>1, <2>2 DEF Budgets
  <2> QED
    BY <2>3 DEF Planned, Assets
<1>4. w \in WorkersOf(Planned) /\ w.pc = "inspect"
  <2>1. run.input \in BookInputs /\ run.policy \in Policies /\ "inspect" \in WorkerStates
    BY DEF PipelineInv, PipelineTypes, RunsOf, WorkerStates
  <2> QED
    BY <2>1, IdleIs DEF WorkersOf, Idle
<1>5. /\ worker'[c] = w /\ \A d \in Claims \ {c} : worker'[d] = worker[d]
      /\ worker' \in [Claims -> WorkersOf(Planned)]
  <2>1. worker \in [Claims -> WorkersOf(Planned)]
    BY DEF PipelineInv, PipelineTypes
  <2> HIDE DEF w
  <2> QED
    BY <1>1, <1>2, <1>4, <2>1
<1>6. PipelineTypes'
  <2>1. run' \in RunsOf(Planned)
    BY <1>2, RunEnds
  <2>2. attempt' \in 0..MaxClaims
    BY <1>1, <1>2, PipelineAssumption DEF Claims
  <2> HIDE DEF w, c
  <2> QED
    BY <1>2, <1>3, <1>5, <2>1, <2>2 DEF PipelineInv, PipelineTypes
<1>7. \A m, input : Made(m, input) => Made(m, input)'
  <2>1. 1..attempt \subseteq Claims \ {c} /\ 1..attempt \subseteq 1..c
    BY <1>1, PipelineAssumption DEF Claims
  <2> HIDE DEF w, c
  <2> QED
    BY <1>2, <1>5, <2>1 DEF Made
<1>8. \A d \in Claims : WorkerOK(d)'
  <2>1. \A d \in Claims \ {c} : WorkerOK(d)'
    <3>1. \A d \in Claims \ {c} : WorkerOK(d) /\ worker'[d] = worker[d] /\ pdfs'[d] = pdfs[d]
      BY <1>2, <1>5 DEF PipelineInv
    <3> HIDE DEF w, c
    <3> QED
      BY <1>3, <1>7, <3>1 DEF WorkerOK, WorkerIs
  <2>2. \A d \in Claims : d = c => WorkerOK(d)'
    <3>1. /\ w.sheet = FALSE /\ w.story = NoWriter /\ w.pc = "inspect"
      BY DEF Idle
    <3> HIDE DEF w, c
    <3> QED
      BY <1>5, <3>1 DEF WorkerOK, WorkerIs, Sheetless, Profiling, Telling, Told, Drawing
  <2> QED
    BY <2>1, <2>2
<1>9. FreshClaims'
  <2>1. \A d \in Claims : d > c => d > attempt /\ d # c
    BY <1>1, PipelineAssumption DEF Claims
  <2> HIDE DEF w, c
  <2> QED
    BY <1>2, <1>5, <2>1 DEF PipelineInv, FreshClaims, Untouched
<1>10. \A d \in 1..attempt : d \in Claims \ {c} /\ d \in 1..c
  BY <1>1, PipelineAssumption DEF Claims
<1>11. CheckpointOK'
  <2>1. /\ IsCheckpoint(checkpoint) /\ checkpoint.by \in 0..attempt
        /\ checkpoint.by # 0 => worker[checkpoint.by].input = checkpoint.input
        /\ MadeFor(Content(checkpoint), checkpoint.input)
        /\ Artifacts(checkpoint) \in ArtifactsOf(Assets)
    BY DEF PipelineInv, CheckpointOK
  <2>2. checkpoint.by \in 0..c /\ (checkpoint.by # 0 => checkpoint.by \in 1..attempt)
    BY <1>1, <2>1
  <2> HIDE DEF w, c
  <2>3. \A f, i : MadeFor(f, i) => MadeFor(f, i)'
    BY <1>7 DEF MadeFor
  <2>4. MadeFor(Content(checkpoint), checkpoint.input)'
    BY <1>2, <2>1, <2>3 DEF MadeFor, Made
  <2> QED
    BY <1>2, <1>3, <1>5, <1>10, <2>1, <2>2, <2>4 DEF CheckpointOK
<1>12. EditionOK'
  <2> HIDE DEF w, c
  <2>1. CASE Published
    <3>1. edition.by \in 1..attempt /\ worker[edition.by].pc = "gone" /\ EditionIsRendered
      BY <2>1 DEF PipelineInv, EditionOK
    <3>2. \A m \in {edition.story.by, edition.profile.by} : Made(m, edition.input)'
      BY <1>2, <1>7, <2>1, <3>1 DEF EditionIsRendered, Made
    <3>3. EditionIsRendered'
      BY <1>2, <1>3, <2>1, <3>1, <3>2 DEF EditionIsRendered, Made
    <3> QED
      BY <1>2, <1>5, <1>10, <3>1, <3>3 DEF EditionOK
  <2>2. CASE ~Published
    BY <1>2, <2>2 DEF EditionOK, Published
  <2> QED
    BY <2>1, <2>2
<1> QED
  BY <1>6, <1>8, <1>9, <1>11, <1>12 DEF PipelineInv

LEMMA PipelineInit_Inv ==
    ASSUME PipelineInit
    PROVE  PipelineInv
<1>1. pipelineBudget \in Budgets
  BY PipelineAssumption DEF PipelineInit, Budgets
<1>2. attempt = 0 /\ \A c \in Claims : worker[c] = Idle /\ pdfs[c] = Nothing
  BY DEF PipelineInit
<1>3. \A c \in Claims, l \in Labels : objects[c][l] = Absent
  BY DEF PipelineInit, Labels
<1>4. PipelineTypes
  <2>1. worker \in [Claims -> WorkersOf(Planned)]
    BY IdleIs DEF PipelineInit
  <2>2. objects \in [Claims -> [Labels -> Bytes]]
    <3>1. Absent \in Bytes
      BY DEF Absent, Bytes
    <3> QED
      BY <3>1 DEF PipelineInit, Labels
  <2>3. bookInput \in BookInputs /\ fallback \in Policies
    BY <1>1, IdleIs DEF PipelineInit, Budgets
  <2>4. run \in RunsOf(Planned)
    <3>1. IsFiniteSet(Assets)
      <4>1. Planned \subseteq Illustrations
        BY <1>1 DEF Planned, Budgets
      <4> QED
        BY <4>1, PipelineAssumption, FS_Subset, FS_AddElement DEF Assets
    <3>2. 0 \in 0..Cardinality(Assets) + 2
      BY <3>1, FS_CardinalityType
    <3> QED
      BY <2>3, <3>2 DEF PipelineInit, RunsOf, Assets
  <2>5. pdfs = [c \in Claims |-> pdfs[c]] /\ attempt \in 0..MaxClaims
    BY PipelineAssumption DEF PipelineInit
  <2> QED
    BY <1>1, <2>1, <2>2, <2>3, <2>4, <2>5 DEF PipelineTypes
<1>5. FreshClaims
  BY <1>2, <1>3 DEF FreshClaims, Untouched
<1>6. CheckpointOK
  <2>1. /\ checkpoint.by = 0 /\ checkpoint.source = <<>>
        /\ checkpoint.content = Nothing /\ checkpoint.artifacts = Nothing
        /\ checkpoint = [by |-> checkpoint.by, input |-> checkpoint.input,
                         content |-> checkpoint.content, artifacts |-> checkpoint.artifacts,
                         source |-> checkpoint.source]
    BY DEF PipelineInit
  <2>2. IsCheckpoint(checkpoint)
    BY <2>1, NothingIs DEF IsCheckpoint
  <2>3. Content(checkpoint) = Nothing /\ Artifacts(checkpoint) = Nothing
    BY <2>1 DEF Content, Artifacts
  <2> QED
    BY <1>2, <2>1, <2>2, <2>3, NothingIs DEF CheckpointOK, MadeFor
<1>7. \A c \in Claims : WorkerOK(c)
  BY <1>2, IdleIs DEF WorkerOK
<1>8. EditionOK
  BY DEF PipelineInit, EditionOK, Published
<1> QED
  BY <1>4, <1>5, <1>6, <1>7, <1>8 DEF PipelineInv

LEMMA PipelineStepKeeps ==
    ASSUME PipelineInv, NEW c \in Claims, PipelineStep(c) \/ PipelineFault(c)
    PROVE  PipelineInv'
<1>1. UNCHANGED outsideVars
  BY DEF PipelineStep, PipelineFault
<1>2. CASE PipelineStep(c)
  <2>1. ASSUME NEW l \in Planned, ImageStep(c, l) PROVE PipelineInv'
    BY <1>1, <2>1, AdoptImageKeeps, RecordImageKeeps, DrawImageKeeps, ImageStoredKeeps DEF ImageStep
  <2> QED
    BY <1>1, <1>2, <2>1, InspectWorkKeeps, PlanReuseKeeps, BuildProfileKeeps, DrawSheetKeeps,
       SheetStoredKeeps, RecordSheetKeeps, CheckpointProfileKeeps, TellStoryKeeps,
       LoadReferenceKeeps, StartDrawingKeeps, StoreBookCandidateKeeps, RenderPdfKeeps, EndRunKeeps
       DEF PipelineStep
<1>3. CASE PipelineFault(c)
  BY <1>1, <1>3, SheetFailsKeeps, StoryFailsKeeps, ImageFailsKeeps DEF PipelineFault
<1> QED
  BY <1>2, <1>3

LEMMA PipelineNext_Inv ==
    ASSUME PipelineInv, [PipelineNext]_pipelineVars
    PROVE  PipelineInv'
<1>1. CASE PipelineNext
  BY <1>1, PipelineStepKeeps, WorkerStopsKeeps, ScheduleRunKeeps, ClaimBookKeeps, RecoverRunKeeps,
     CancelRunKeeps, EditBookInputKeeps, SwitchPolicyKeeps, LoseObjectKeeps DEF PipelineNext
<1>2. CASE UNCHANGED pipelineVars
  <2>1. /\ UNCHANGED <<attempt, worker, pdfs, checkpoint, edition>>
        /\ UNCHANGED <<run, objects, bookInput, fallback, pipelineBudget>>
    BY <1>2 DEF pipelineVars
  <2>2. BudgetRests
    BY <2>1, BudgetKept DEF PipelineInv
  <2> QED
    BY <2>1, <2>2, RunEnds, BudgetFacts, AroundKeeps DEF PipelineInv, PipelineTypes
<1> QED
  BY <1>1, <1>2

\* The invariant implies the types and that the edition is rendered.
LEMMA PipelineInvTypes ==
    ASSUME PipelineInv
    PROVE  PipelineTypeOK /\ EditionIsRendered
<1>1. /\ run.status \in {"draft", "queued", "running", "complete", "failed", "cancelled"}
      /\ attempt \in 0..MaxClaims /\ run.calls \in 0..Cardinality(Assets) + 2
  BY DEF PipelineInv, PipelineTypes, RunsOf, Assets
<1>2. ASSUME NEW c \in Claims
      PROVE  /\ c > attempt => worker[c] = Idle /\ pdfs[c] = Nothing
             /\ DOMAIN worker[c].manifest \subseteq Planned
             /\ worker[c].sheet => worker[c].profile.sheet
  <2>1. worker[c].manifest \in ManifestsOf(Planned) /\ WorkerIs(worker[c], pdfs[c])
    BY WorkerFacts DEF WorkersOf
  <2>2. DOMAIN worker[c].manifest \subseteq Planned
    BY <2>1 DEF ManifestsOf
  <2> QED
    BY <2>1, <2>2 DEF PipelineInv, FreshClaims, Untouched, WorkerIs
<1>3. /\ DOMAIN checkpoint.content \subseteq {"profile", "story"}
      /\ DOMAIN checkpoint.artifacts \subseteq Assets
  <2>1. /\ DOMAIN checkpoint.content \subseteq DOMAIN Content(checkpoint)
        /\ DOMAIN checkpoint.artifacts \subseteq DOMAIN Artifacts(checkpoint)
    BY DEF Content, Artifacts, Over
  <2>2. DOMAIN Content(checkpoint) \subseteq {"profile", "story"}
    BY DEF PipelineInv, CheckpointOK, MadeFor
  <2>3. DOMAIN Artifacts(checkpoint) \subseteq Assets
    BY ArtifactsAre, ArtifactsAreFunctions DEF PipelineInv, CheckpointOK
  <2> QED
    BY <2>1, <2>2, <2>3
<1>4. EditionIsRendered
  BY DEF PipelineInv, EditionOK, EditionIsRendered
<1> QED
  BY <1>1, <1>2, <1>3, <1>4 DEF PipelineTypeOK

\* The invariant holds of every behaviour: types, fresh claims, the checkpoint with its
\* source, every worker and the edition.
THEOREM PipelineInvariant == PipelineSpec => []PipelineInv
BY PipelineInit_Inv, PipelineNext_Inv, PTL DEF PipelineSpec

\* A published edition has what its run ordered, under any policy: its PDF shows exactly
\* the images of its manifest, one for every planned page, and its story and profile were
\* made by claims for the input it was ordered with, whatever bytes were torn or lost.
THEOREM EditionsAreRendered == PipelineSpec => [](PipelineTypeOK /\ EditionIsRendered)
BY PipelineInvariant, PipelineInvTypes, PTL

-----------------------------------------------------------------------------
(* One book, as long as the policy is never tightened *)

\* Bytes drawn for the story, without or with the sheet of the profile; without
\* one only if the profile says so.
Shows(b, story, profile) ==
    /\ b.by # 0 /\ b.of = story.by /\ b.ref \in {0, profile.by}
    /\ b.ref = 0 => profile.degraded

SheetOf(b, profile) == b.by # 0 /\ b.of = profile.by

\* The parts of a checkpoint fit each other.
Fits(content, artifacts) ==
    /\ "story" \in DOMAIN content =>
          "profile" \in DOMAIN content /\ content["story"].of = content["profile"].by
    /\ "profile" \in DOMAIN content =>
          /\ content["profile"].generic => content["profile"].degraded
          /\ content["profile"].degraded => fallback = "allow_degraded"
    /\ \A l \in DOMAIN artifacts \cap Planned :
          /\ "story" \in DOMAIN content
          /\ Shows(artifacts[l].sha, content["story"], content["profile"])
    /\ "character_sheet" \in DOMAIN artifacts =>
          "profile" \in DOMAIN content /\ SheetOf(artifacts["character_sheet"].sha, content["profile"])

PolicyRelaxedOnce ==
    /\ pipelineBudget.switches = 0 \/ (fallback = "required" /\ pipelineBudget.switches = 1)
    /\ run.policy = "allow_degraded" => fallback = "allow_degraded"

\* What the owner takes over fits what the checkpoint keeps, and its policy permits it.
ReuseFits(w, kept) ==
    /\ "profile" \in DOMAIN kept /\ kept["profile"].degraded => w.policy = "allow_degraded"
    /\ \A l \in DOMAIN w.reuse \cap Planned :
          "story" \in DOMAIN kept /\ Shows(w.reuse[l].sha, kept["story"], kept["profile"])

\* Its profile is the one kept; a lack in either is remembered and permitted.
ProfileFits(w, kept) ==
    /\ "profile" \in DOMAIN kept /\ kept["profile"].by = w.profile.by
    /\ kept["profile"].degraded => w.profile.degraded
    /\ w.profile.generic => w.profile.degraded
    /\ w.profile.degraded \/ w.error => w.policy = "allow_degraded"

\* It has the sheet of its profile, or remembers that it has none.
SheetFits(w, o) ==
    /\ w.sheet <=> w.profile.sheet
    /\ w.sheet => SheetOf(o["character_sheet"], w.profile)
    /\ ~w.sheet => w.error \/ w.profile.degraded

\* Whatever images it has show its story and its profile.
ImagesFit(w, o) ==
    /\ w.reference \in {0, w.profile.by} /\ (w.reference = 0 => w.profile.degraded)
    /\ \A l \in Planned : Intact(o[l]) => Shows(o[l], w.story, w.profile)

\* The owner's state w and its objects o fit what the checkpoint keeps for it.
OwnerIs(w, o, kept) ==
    /\ w.policy = "allow_degraded" => fallback = "allow_degraded"
    /\ w.pc \in {"inspect", "plan", "profile"} => ~w.error
    /\ w.pc \in Profiling \cup Telling \cup {"plan", "profile"} => ReuseFits(w, kept)
    /\ w.pc = "profile" => "profile" \notin DOMAIN kept
    /\ w.pc \in Profiling \cup Telling => ProfileFits(w, kept)
    /\ w.pc \in Profiling \cup {"profile", "story"} =>
         w.story = IF "story" \in DOMAIN kept THEN kept["story"] ELSE NoWriter
    /\ w.pc = "recordSheet" => SheetOf(o["character_sheet"], w.profile)
    /\ w.pc \in Telling \cup {"profiled"} => SheetFits(w, o)
    /\ w.pc \in Telling => kept["profile"] = w.profile /\ (w.error <=> w.profile.degraded)
    /\ w.pc \in Told => "story" \in DOMAIN kept /\ kept["story"] = w.story
    /\ w.pc \notin Drawing \cup {"none", "gone", "refused"} => \A l \in Planned : ~Intact(o[l])
    /\ w.pc \in Drawing => ImagesFit(w, o)
    /\ w.pc \in {"images", "drawing"} =>
         \A l \in Planned : w.art[l] \in {"adopted", "stored"} => Intact(o[l])
    /\ w.pc = "rendered" => \A l \in Planned : Shows(w.manifest[l], w.story, w.profile)

OwnerFits(c) == OwnerIs(worker[c], objects[c], KeptContent(checkpoint, worker[c].input))

HeroInv ==
    /\ PolicyRelaxedOnce
    /\ Fits(Content(checkpoint), Artifacts(checkpoint))
    /\ run.status = "running" => attempt # 0 /\ OwnerFits(attempt)
    /\ EditionIsOneBook /\ DegradationRecorded

\* Whether parts fit depends on nothing but themselves, the planned images and the policy.
LEMMA FitsStay ==
    ASSUME BudgetRests, UNCHANGED fallback
    PROVE  /\ \A f, g : Fits(f, g)' <=> Fits(f, g)
           /\ \A w, o, kept : OwnerIs(w, o, kept)' <=> OwnerIs(w, o, kept)
<1>1. Planned' = Planned
  BY PlannedRests
<1>2. \A f, g : Fits(f, g)' <=> Fits(f, g)
  BY <1>1 DEF Fits
<1>3. \A w, kept : ReuseFits(w, kept)' <=> ReuseFits(w, kept)
  BY <1>1 DEF ReuseFits
<1>4. \A w, o : ImagesFit(w, o)' <=> ImagesFit(w, o)
  BY <1>1 DEF ImagesFit
<1>5. \A w, o, kept : OwnerIs(w, o, kept)' <=> OwnerIs(w, o, kept)
  BY <1>1, <1>3, <1>4 DEF OwnerIs
<1> QED
  BY <1>2, <1>5

\* An edition that is not replaced stays one book.
LEMMA EditionFitStays ==
    ASSUME HeroInv, BudgetRests, UNCHANGED edition
    PROVE  (EditionIsOneBook /\ DegradationRecorded)'
<1>1. Planned' = Planned
  BY PlannedRests
<1> QED
  BY <1>1 DEF HeroInv, EditionIsOneBook, DegradationRecorded, Published

LEMMA PolicyStays ==
    ASSUME HeroInv, BudgetRests, UNCHANGED fallback, run'.policy = run.policy
    PROVE  PolicyRelaxedOnce'
BY DEF HeroInv, PolicyRelaxedOnce, BudgetRests

\* Nothing fits, and so does what the checkpoint keeps for any input.
LEMMA KeptFits ==
    ASSUME PipelineInv, HeroInv, NEW input
    PROVE  Fits(KeptContent(checkpoint, input), KeptArtifacts(checkpoint, input))
<1>1. CASE Inherits(checkpoint, input)
  BY <1>1 DEF HeroInv, KeptContent, KeptArtifacts
<1>2. CASE ~Inherits(checkpoint, input)
  <2>1. KeptContent(checkpoint, input) = Nothing /\ KeptArtifacts(checkpoint, input) = Nothing
    BY <1>2 DEF KeptContent, KeptArtifacts
  <2> QED
    BY <2>1, NothingIs DEF Fits
<1> QED
  BY <1>1, <1>2

\* The owner moves on and leaves the checkpoint as it is.
LEMMA OwnerMoves ==
    ASSUME PipelineInv, HeroInv, NEW c \in Claims, Owned(c),
           BudgetRests, UNCHANGED outsideVars, UNCHANGED run, UNCHANGED bookVars,
           NEW w, worker'[c] = w, w.input = worker[c].input,
           OwnerIs(w, objects'[c], KeptContent(checkpoint, worker[c].input))
    PROVE  HeroInv'
<1>1. UNCHANGED <<attempt, fallback, checkpoint, edition>> /\ attempt = c /\ c # 0
  BY DEF outsideVars, bookVars, Owned, Claims
<1>2. \A o : o = objects'[c] => OwnerIs(w, o, KeptContent(checkpoint, worker[c].input))
  OBVIOUS
<1>3. \A o, k : o = objects'[c] /\ k = KeptContent(checkpoint, worker[c].input) => OwnerIs(w, o, k)'
  BY <1>1, <1>2, FitsStay
<1>4. KeptContent(checkpoint, worker[c].input)' = KeptContent(checkpoint, worker[c].input)
  BY <1>1 DEF KeptContent, Inherits, Content
<1>5. OwnerFits(c)'
  <2>1. \A o, k : o = objects'[c] /\ k = KeptContent(checkpoint', w.input) => OwnerIs(w, o, k)'
    BY <1>1, <1>3
  <2> QED
    BY <2>1 DEF OwnerFits
<1>6. Fits(Content(checkpoint), Artifacts(checkpoint))'
  BY <1>1, FitsStay DEF HeroInv
<1> QED
  BY <1>1, <1>5, <1>6, PolicyStays, EditionFitStays DEF HeroInv

\* The owner records parts of the book and moves on.
LEMMA OwnerRecords ==
    ASSUME PipelineInv, HeroInv, NEW c \in Claims, Owned(c),
           BudgetRests, UNCHANGED outsideVars, UNCHANGED <<run, edition>>,
           NEW w, worker'[c] = w, w.input = worker[c].input,
           NEW content, IsFunction(content), NEW artifacts \in ArtifactsOf(Assets),
           checkpoint' = Recorded(c, content, artifacts),
           Fits(Over(content, KeptContent(checkpoint, worker[c].input)),
                Over(artifacts, KeptArtifacts(checkpoint, worker[c].input))),
           OwnerIs(w, objects'[c], Over(content, KeptContent(checkpoint, worker[c].input)))
    PROVE  HeroInv'
<1> DEFINE input == worker[c].input
           k == Over(content, KeptContent(checkpoint, input))
           a == Over(artifacts, KeptArtifacts(checkpoint, input))
<1>1. UNCHANGED <<attempt, fallback, edition>> /\ attempt = c /\ c # 0
  BY DEF outsideVars, Owned, Claims
<1>2. Records(checkpoint', c, input, k, a)
  <2>1. IsCheckpoint(checkpoint) /\ (checkpoint.by = c => checkpoint.input = input)
    BY DEF PipelineInv, CheckpointOK, Claims
  <2> QED
    BY <2>1, RecordedOver, ArtifactsAreFunctions
<1>3. \A f, g : f = k /\ g = a => Fits(f, g)'
  BY <1>1, FitsStay
<1>4. \A o, f : o = objects'[c] /\ f = k => OwnerIs(w, o, f)'
  <2>1. \A o, f : o = objects'[c] /\ f = k => OwnerIs(w, o, f)
    OBVIOUS
  <2> HIDE DEF k
  <2> QED
    BY <1>1, <2>1, FitsStay
<1>5. /\ checkpoint'.by = c /\ checkpoint'.input = input /\ c # 0
      /\ Content(checkpoint') = k /\ Artifacts(checkpoint') = a
  BY <1>2 DEF Records, Claims
<1>6. KeptContent(checkpoint', w.input) = k
  BY <1>5 DEF KeptContent, Inherits
<1> HIDE DEF k, a
<1>7. OwnerFits(c)'
  <2>1. \A o, f : o = objects'[c] /\ f = KeptContent(checkpoint', w.input) => OwnerIs(w, o, f)'
    BY <1>4, <1>6
  <2> QED
    BY <2>1 DEF OwnerFits
<1>8. Fits(Content(checkpoint), Artifacts(checkpoint))'
  <2>1. \A f, g : f = Content(checkpoint') /\ g = Artifacts(checkpoint') => Fits(f, g)'
    BY <1>3, <1>5
  <2> QED
    BY <2>1
<1> QED
  BY <1>1, <1>7, <1>8, PolicyStays, EditionFitStays DEF HeroInv

\* The run ends, and the checkpoint stays.
LEMMA OwnerLeaves ==
    ASSUME PipelineInv, HeroInv, BudgetRests, UNCHANGED outsideVars, UNCHANGED checkpoint,
           run'.status # "running", run'.policy = run.policy,
           EditionIsOneBook' /\ DegradationRecorded'
    PROVE  HeroInv'
<1>1. UNCHANGED fallback
  BY DEF outsideVars
<1>2. Fits(Content(checkpoint), Artifacts(checkpoint))'
  BY <1>1, FitsStay DEF HeroInv
<1> QED
  BY <1>1, <1>2, PolicyStays DEF HeroInv

\* The owner fails its run and publishes nothing.
LEMMA OwnerFails ==
    ASSUME PipelineInv, HeroInv, NEW c \in Claims, Owned(c), FailRun(c), BudgetRests,
           UNCHANGED outsideVars, UNCHANGED bookVars
    PROVE  HeroInv'
<1>1. run' = [run EXCEPT !.status = "failed"] /\ UNCHANGED <<checkpoint, edition>>
  BY DEF FailRun, bookVars
<1>2. run'.status # "running" /\ run'.policy = run.policy
  BY <1>1 DEF PipelineInv, PipelineTypes, RunsOf
<1> QED
  BY <1>1, <1>2, OwnerLeaves, EditionFitStays

\* What an owner's step starts from.
LEMMA OwnerFacts ==
    ASSUME PipelineInv, HeroInv, NEW c \in Claims, Owned(c)
    PROVE  /\ OwnerIs(worker[c], objects[c], KeptContent(checkpoint, worker[c].input))
           /\ Fits(KeptContent(checkpoint, worker[c].input), KeptArtifacts(checkpoint, worker[c].input))
           /\ MadeFor(KeptContent(checkpoint, worker[c].input), worker[c].input)
           /\ KeptArtifacts(checkpoint, worker[c].input) \in ArtifactsOf(Assets)
           /\ IsFunction(KeptContent(checkpoint, worker[c].input))
           /\ IsFunction(KeptArtifacts(checkpoint, worker[c].input))
           /\ worker[c] \in WorkersOf(Planned) /\ WorkerIs(worker[c], pdfs[c])
           /\ worker \in [Claims -> WorkersOf(Planned)]
           /\ objects \in [Claims -> [Labels -> Bytes]]
           /\ PipelineTypes
<1>1. OwnerIs(worker[c], objects[c], KeptContent(checkpoint, worker[c].input))
  BY DEF HeroInv, Owned, OwnerFits
<1> QED
  BY <1>1, KeptFits, KeptMade, WorkerFacts DEF PipelineTypes

\* Each step of the owner keeps its parts fitting.
LEMMA InspectWorkFits ==
    ASSUME PipelineInv, HeroInv, NEW c \in Claims, Owned(c), InspectWork(c), UNCHANGED outsideVars
    PROVE  HeroInv'
<1> DEFINE found == Inspect(worker[c].input, worker[c].policy)
           kept == KeptContent(checkpoint, worker[c].input)
           arts == KeptArtifacts(checkpoint, worker[c].input)
<1>1. /\ worker[c].pc = "inspect" /\ UNCHANGED <<objects, pdfs>> /\ UNCHANGED bookVars
      /\ BudgetRests
  BY BudgetKept DEF InspectWork, At, PipelineInv
<1>2. CASE FailRun(c)
  BY <1>1, <1>2, OwnerFails
<1>3. CASE ~FailRun(c)
  <2> DEFINE w == [worker[c] EXCEPT !.pc = "plan", !.reuse = found.valid]
  <2>1. /\ UNCHANGED run /\ fallback = worker[c].policy
        /\ worker' = [worker EXCEPT ![c].pc = "plan", ![c].reuse = found.valid]
    BY <1>3 DEF InspectWork
  <2>2. Finds(found, worker[c].input, worker[c].policy)
    BY WorkerFacts, InspectFinds
  <2> HIDE DEF found
  <2>3. worker'[c] = w /\ w.pc = "plan" /\ w.input = worker[c].input /\ w.reuse = found.valid
        /\ w.policy = worker[c].policy /\ w.error = worker[c].error
    BY <2>1, OwnerFacts DEF WorkersOf
  <2> HIDE DEF w
  <2>4. ReuseFits(w, kept)
    <3>1. Fits(kept, arts)
      BY OwnerFacts
    <3>2. "profile" \in DOMAIN kept /\ kept["profile"].degraded => w.policy = "allow_degraded"
      BY <2>1, <2>3, <3>1 DEF Fits
    <3>3. \A l \in DOMAIN found.valid : l \in DOMAIN arts /\ found.valid[l] = arts[l]
      BY <2>2 DEF Finds
    <3> HIDE DEF kept, arts
    <3> QED
      BY <2>3, <3>1, <3>2, <3>3 DEF ReuseFits, Fits
  <2>5. OwnerIs(w, objects'[c], kept)
    <3>1. OwnerIs(worker[c], objects[c], kept)
      BY OwnerFacts
    <3> HIDE DEF kept
    <3> QED
      BY <1>1, <2>3, <2>4, <3>1 DEF OwnerIs, Profiling, Telling, Told, Drawing
  <2> QED
    BY <1>1, <2>1, <2>3, <2>5, OwnerMoves
<1> QED
  BY <1>2, <1>3

LEMMA PlanReuseFits ==
    ASSUME PipelineInv, HeroInv, NEW c \in Claims, Owned(c), PlanReuse(c), UNCHANGED outsideVars
    PROVE  HeroInv'
<1> DEFINE found == Inspect(worker[c].input, worker[c].policy)
           kept == KeptContent(checkpoint, worker[c].input)
           arts == KeptArtifacts(checkpoint, worker[c].input)
           sheet == "character_sheet" \in DOMAIN found.valid
           pc == IF found.profile = NoProfile THEN "profile" ELSE IF sheet THEN "profiled" ELSE "sheet"
           w == [worker[c] EXCEPT !.pc = pc, !.profile = found.profile, !.story = found.story,
                                  !.sheet = sheet]
           o == objects'[c]
<1>1. /\ worker[c].pc = "plan" /\ UNCHANGED <<run, pdfs>> /\ UNCHANGED bookVars /\ BudgetRests
  BY BudgetKept DEF PlanReuse, At, PipelineInv
<1>2. /\ objects' = IF sheet
                    THEN [objects EXCEPT ![c]["character_sheet"] = found.valid["character_sheet"].sha]
                    ELSE objects
      /\ worker' = [worker EXCEPT ![c] = w]
  <2>1. worker' = [worker EXCEPT ![c].pc = pc, ![c].profile = found.profile,
                                 ![c].story = found.story, ![c].sheet = sheet]
    BY DEF PlanReuse
  <2>2. objects' = IF sheet
                   THEN [objects EXCEPT ![c]["character_sheet"] = found.valid["character_sheet"].sha]
                   ELSE objects
    BY DEF PlanReuse
  <2> HIDE DEF found, pc, sheet
  <2> QED
    BY <2>1, <2>2 DEF sheet
<1>3. Finds(found, worker[c].input, worker[c].policy)
  BY WorkerFacts, InspectFinds
<1>4. Fits(kept, arts) /\ OwnerIs(worker[c], objects[c], kept) /\ MadeFor(kept, worker[c].input)
  BY OwnerFacts
<1> HIDE DEF found
<1>5. /\ worker'[c] = w /\ w.pc = pc /\ w.input = worker[c].input /\ w.reuse = worker[c].reuse
      /\ w.policy = worker[c].policy /\ w.error = worker[c].error
      /\ w.profile = found.profile /\ w.story = found.story /\ w.sheet = sheet
  BY <1>2, OwnerFacts DEF WorkersOf
<1>6. ReuseFits(w, kept) /\ ~w.error /\ (w.policy = "allow_degraded" => fallback = "allow_degraded")
  BY <1>1, <1>4, <1>5 DEF OwnerIs, ReuseFits
<1>7. /\ \A l \in Planned : o[l] = objects[c][l]
      /\ sheet => o["character_sheet"] = found.valid["character_sheet"].sha
  BY <1>2, PlannedAre, OwnerFacts
<1>8. \A l \in Planned : ~Intact(o[l])
  BY <1>1, <1>4, <1>7 DEF OwnerIs, Drawing
\* The profile kept is taken, for the policy permits it.
<1>9. IF "profile" \in DOMAIN kept THEN found.profile = kept["profile"] /\ found.profile # NoProfile
      ELSE found.profile = NoProfile
  <2>1. "profile" \in DOMAIN kept => kept["profile"].by # 0
    BY <1>4 DEF MadeFor, Made
  <2>2. NoProfile.by = 0
    BY DEF NoProfile
  <2>3. found.profile = IF /\ "profile" \in DOMAIN kept
                           /\ kept["profile"].degraded => worker[c].policy = "allow_degraded"
                        THEN kept["profile"] ELSE NoProfile
    BY <1>3 DEF Finds
  <2> HIDE DEF kept, w
  <2> QED
    BY <1>5, <1>6, <2>1, <2>2, <2>3 DEF ReuseFits
<1>10. found.story = IF "story" \in DOMAIN kept THEN kept["story"] ELSE NoWriter
  BY <1>3, <1>4, <1>9 DEF Finds, Fits
<1>11. sheet => /\ found.profile.sheet /\ "profile" \in DOMAIN kept
                /\ SheetOf(o["character_sheet"], found.profile)
  <2>1. sheet => /\ found.profile.sheet /\ "character_sheet" \in DOMAIN arts
                 /\ found.valid["character_sheet"] = arts["character_sheet"]
    BY <1>3, PlannedAre, OwnerFacts DEF Finds
  <2> HIDE DEF kept, arts, sheet, o
  <2> QED
    BY <1>4, <1>7, <1>9, <2>1 DEF Fits
<1>12. pc \in {"profile", "profiled", "sheet"} /\ (pc = "profile" <=> "profile" \notin DOMAIN kept)
       /\ (pc = "profiled" => sheet)
  BY <1>9
<1>13. "profile" \in DOMAIN kept => ProfileFits(w, kept)
  BY <1>4, <1>5, <1>6, <1>9 DEF ProfileFits, ReuseFits, Fits
<1> HIDE DEF w, kept, arts, sheet, pc, o
<1>14. pc = "profiled" => SheetFits(w, o)
  BY <1>5, <1>11, <1>12 DEF SheetFits
<1>15. OwnerIs(w, o, kept)
  BY <1>5, <1>6, <1>8, <1>10, <1>12, <1>13, <1>14 DEF OwnerIs, Profiling, Telling, Told, Drawing
<1> QED
  BY <1>1, <1>5, <1>15, OwnerMoves DEF kept, o

LEMMA BuildProfileFits ==
    ASSUME PipelineInv, HeroInv, NEW c \in Claims, Owned(c), BuildProfile(c), UNCHANGED outsideVars
    PROVE  HeroInv'
<1> DEFINE kept == KeptContent(checkpoint, worker[c].input)
           arts == KeptArtifacts(checkpoint, worker[c].input)
<1>1. worker[c].pc = "profile" /\ UNCHANGED <<objects, pdfs>>
  BY DEF BuildProfile, At, StaleLeaves
<1>2. PICK generic \in BOOLEAN :
        /\ IF generic THEN SpendPipeline("faults") ELSE UNCHANGED pipelineBudget
        /\ IF generic /\ worker[c].policy = "required"
           THEN FailRun(c) /\ UNCHANGED bookVars
           ELSE \E p \in {[by |-> c, generic |-> generic, degraded |-> generic, sheet |-> FALSE]} :
                  /\ checkpoint' = Recorded(c, JustThe("profile", p), Nothing)
                  /\ worker' = [worker EXCEPT ![c].pc = "sheet", ![c].profile = p, ![c].error = generic]
                  /\ UNCHANGED <<edition, run>>
  BY DEF BuildProfile, StaleLeaves
<1>3. BudgetRests
  BY <1>2, BudgetSpent, BudgetKept DEF PipelineInv
<1>4. CASE generic /\ worker[c].policy = "required"
  BY <1>2, <1>3, <1>4, OwnerFails
<1>5. CASE ~(generic /\ worker[c].policy = "required")
  <2> DEFINE p == [by |-> c, generic |-> generic, degraded |-> generic, sheet |-> FALSE]
             w == [worker[c] EXCEPT !.pc = "sheet", !.profile = p, !.error = generic]
             k == Over(JustThe("profile", p), kept)
             a == Over(Nothing, arts)
  <2>1. /\ checkpoint' = Recorded(c, JustThe("profile", p), Nothing)
        /\ worker' = [worker EXCEPT ![c].pc = "sheet", ![c].profile = p, ![c].error = generic]
        /\ UNCHANGED <<edition, run>>
    BY <1>2, <1>5
  <2>2. p.by = c /\ p.generic = generic /\ p.degraded = generic /\ p \in Profiles
    BY DEF Profiles, Claims
  <2> HIDE DEF p
  <2>3. /\ worker'[c] = w /\ w.pc = "sheet" /\ w.input = worker[c].input /\ w.profile = p
        /\ w.error = generic /\ w.story = worker[c].story /\ w.reuse = worker[c].reuse
        /\ w.policy = worker[c].policy
    BY <2>1, OwnerFacts DEF WorkersOf
  <2>4. /\ OwnerIs(worker[c], objects[c], kept) /\ Fits(kept, arts)
        /\ IsFunction(arts) /\ w.policy \in Policies
    BY <2>3, OwnerFacts DEF WorkersOf
  <2>5. "profile" \notin DOMAIN kept /\ "story" \notin DOMAIN kept
    BY <1>1, <2>4 DEF OwnerIs, Fits
  <2>6. DOMAIN k = {"profile"} \cup DOMAIN kept /\ k["profile"] = p /\ "story" \notin DOMAIN k
    BY <2>5 DEF Over, JustThe
  <2>7. a = arts
    BY <2>4, NothingMerges
  <2> HIDE DEF w, k, a, kept, arts
  <2>8. w.policy = "allow_degraded" => fallback = "allow_degraded"
    BY <2>3, <2>4 DEF OwnerIs
  <2>9. generic => w.policy = "allow_degraded"
    BY <1>5, <2>3, <2>4 DEF Policies
  <2>10. Fits(k, a)
    BY <2>2, <2>4, <2>5, <2>6, <2>7, <2>8, <2>9 DEF Fits
  <2>11. DOMAIN w.reuse \cap Planned = {}
    BY <1>1, <2>3, <2>4, <2>5 DEF OwnerIs, ReuseFits
  <2>12. ReuseFits(w, k) /\ ProfileFits(w, k)
    BY <2>2, <2>3, <2>6, <2>9, <2>11 DEF ReuseFits, ProfileFits
  <2>13. w.story = NoWriter /\ \A l \in Planned : ~Intact(objects'[c][l])
    BY <1>1, <2>3, <2>4, <2>5 DEF OwnerIs, Profiling, Drawing
  <2>14. OwnerIs(w, objects'[c], k)
    BY <2>3, <2>6, <2>8, <2>12, <2>13 DEF OwnerIs, Profiling, Telling, Told, Drawing
  <2>15. IsFunction(JustThe("profile", p)) /\ Nothing \in ArtifactsOf(Assets)
    BY NothingIs, OnlyPart
  <2> QED
    BY <1>3, <2>1, <2>3, <2>10, <2>14, <2>15, OwnerRecords DEF k, a, kept, arts
<1> QED
  BY <1>4, <1>5

\* A step of the owner that leaves its parts alone.
LEMMA DrawSheetFits ==
    ASSUME PipelineInv, HeroInv, NEW c \in Claims, Owned(c), DrawSheet(c), UNCHANGED outsideVars
    PROVE  HeroInv'
<1> DEFINE kept == KeptContent(checkpoint, worker[c].input)
           w == [worker[c] EXCEPT !.pc = "saveSheet"]
           o == objects'[c]
<1>1. /\ worker[c].pc = "sheet" /\ UNCHANGED <<run, pdfs>> /\ UNCHANGED bookVars /\ BudgetRests
      /\ objects' = [objects EXCEPT ![c]["character_sheet"] = Torn]
      /\ worker' = [worker EXCEPT ![c] = w]
  BY BudgetKept DEF DrawSheet, At, StaleLeaves, PipelineInv
<1>2. /\ worker'[c] = w /\ w.pc = "saveSheet" /\ w.input = worker[c].input
      /\ w.profile = worker[c].profile /\ w.error = worker[c].error /\ w.story = worker[c].story
      /\ w.reuse = worker[c].reuse /\ w.policy = worker[c].policy /\ w.sheet = worker[c].sheet
  BY <1>1, OwnerFacts DEF WorkersOf
<1>3. \A l \in Planned : o[l] = objects[c][l]
  BY <1>1, PlannedAre, OwnerFacts
<1>4. OwnerIs(worker[c], objects[c], kept)
  BY OwnerFacts
<1> HIDE DEF w, kept, o
<1>5. ReuseFits(w, kept) /\ ProfileFits(w, kept)
  BY <1>1, <1>2, <1>4 DEF OwnerIs, Profiling, ReuseFits, ProfileFits
<1>6. OwnerIs(w, o, kept)
  BY <1>1, <1>2, <1>3, <1>4, <1>5 DEF OwnerIs, Profiling, Telling, Told, Drawing
<1> QED
  BY <1>1, <1>2, <1>6, OwnerMoves DEF kept, o

LEMMA SheetStoredFits ==
    ASSUME PipelineInv, HeroInv, NEW c \in Claims, Owned(c), SheetStored(c), UNCHANGED outsideVars
    PROVE  HeroInv'
<1> DEFINE kept == KeptContent(checkpoint, worker[c].input)
           w == [worker[c] EXCEPT !.pc = "recordSheet"]
           o == objects'[c]
<1>1. /\ worker[c].pc = "saveSheet" /\ UNCHANGED <<run, pdfs>> /\ UNCHANGED bookVars /\ BudgetRests
      /\ objects' = [objects EXCEPT ![c]["character_sheet"] =
                        [by |-> c, of |-> worker[c].profile.by, ref |-> 0]]
      /\ worker' = [worker EXCEPT ![c] = w]
  BY BudgetKept DEF SheetStored, At, PipelineInv
<1>2. /\ worker'[c] = w /\ w.pc = "recordSheet" /\ w.input = worker[c].input
      /\ w.profile = worker[c].profile /\ w.error = worker[c].error /\ w.story = worker[c].story
      /\ w.reuse = worker[c].reuse /\ w.policy = worker[c].policy /\ w.sheet = worker[c].sheet
  BY <1>1, OwnerFacts DEF WorkersOf
<1>3. /\ \A l \in Planned : o[l] = objects[c][l]
      /\ o["character_sheet"] = [by |-> c, of |-> worker[c].profile.by, ref |-> 0]
  BY <1>1, PlannedAre, OwnerFacts
<1>4. OwnerIs(worker[c], objects[c], kept) /\ c # 0
  BY OwnerFacts DEF Claims
<1> HIDE DEF w, kept, o
<1>5. ReuseFits(w, kept) /\ ProfileFits(w, kept)
  BY <1>1, <1>2, <1>4 DEF OwnerIs, Profiling, ReuseFits, ProfileFits
<1>6. SheetOf(o["character_sheet"], w.profile)
  BY <1>2, <1>3, <1>4 DEF SheetOf
<1>7. OwnerIs(w, o, kept)
  BY <1>1, <1>2, <1>3, <1>4, <1>5, <1>6 DEF OwnerIs, Profiling, Telling, Told, Drawing
<1> QED
  BY <1>1, <1>2, <1>7, OwnerMoves DEF kept, o

LEMMA RecordSheetFits ==
    ASSUME PipelineInv, HeroInv, NEW c \in Claims, Owned(c), RecordSheet(c), UNCHANGED outsideVars
    PROVE  HeroInv'
<1> DEFINE kept == KeptContent(checkpoint, worker[c].input)
           arts == KeptArtifacts(checkpoint, worker[c].input)
           w == [worker[c] EXCEPT !.pc = "profiled", !.sheet = TRUE, !.profile.sheet = TRUE]
           o == objects'[c]
           k == Over(Nothing, kept)
           a == Over(SheetArtifact(c), arts)
<1>1. /\ worker[c].pc = "recordSheet" /\ UNCHANGED <<run, objects, pdfs, edition>> /\ BudgetRests
      /\ checkpoint' = Recorded(c, Nothing, SheetArtifact(c))
      /\ worker' = [worker EXCEPT ![c] = w]
  BY BudgetKept DEF RecordSheet, At, StaleLeaves, PipelineInv
<1>2. /\ worker'[c] = w /\ w.pc = "profiled" /\ w.input = worker[c].input
      /\ w.error = worker[c].error /\ w.story = worker[c].story
      /\ w.reuse = worker[c].reuse /\ w.policy = worker[c].policy /\ w.sheet = TRUE
      /\ w.profile.by = worker[c].profile.by /\ w.profile.generic = worker[c].profile.generic
      /\ w.profile.degraded = worker[c].profile.degraded /\ w.profile.sheet = TRUE
  <2>1. worker[c] \in WorkersOf(Planned) /\ worker[c].profile \in Profiles
    BY OwnerFacts DEF WorkersOf
  <2> QED
    BY <1>1, <2>1, OwnerFacts DEF WorkersOf, Profiles
<1>3. /\ OwnerIs(worker[c], o, kept) /\ Fits(kept, arts) /\ IsFunction(kept) /\ IsFunction(arts)
  BY <1>1, OwnerFacts
<1>4. k = kept
  BY <1>3, NothingMerges
<1>5. /\ DOMAIN a = {"character_sheet"} \cup DOMAIN arts
      /\ a["character_sheet"].sha = o["character_sheet"]
      /\ \A l \in Planned \cap DOMAIN a : l \in DOMAIN arts /\ a[l] = arts[l]
  <2>1. "character_sheet" \notin Planned
    BY PlannedAre, OwnerFacts
  <2> QED
    BY <1>1, <2>1 DEF Over, JustThe, SheetArtifact
<1>6. SheetArtifact(c) \in ArtifactsOf(Assets)
  BY ArtifactIs, PlannedAre, OwnerFacts DEF SheetArtifact
<1> HIDE DEF w, kept, arts, o, k, a
<1>7. ReuseFits(w, kept) /\ ProfileFits(w, kept)
  BY <1>1, <1>2, <1>3 DEF OwnerIs, Profiling, ReuseFits, ProfileFits
<1>8. SheetFits(w, o)
  BY <1>1, <1>2, <1>3 DEF OwnerIs, SheetFits, SheetOf
<1>9. OwnerIs(w, o, k)
  BY <1>1, <1>2, <1>3, <1>4, <1>7, <1>8 DEF OwnerIs, Profiling, Telling, Told, Drawing
<1>10. Fits(k, a)
  <2>1. "profile" \in DOMAIN kept /\ SheetOf(a["character_sheet"].sha, kept["profile"])
    BY <1>1, <1>3, <1>5 DEF OwnerIs, Profiling, ProfileFits, SheetOf
  <2> QED
    BY <1>3, <1>4, <1>5, <2>1 DEF Fits
<1> QED
  BY <1>1, <1>2, <1>6, <1>9, <1>10, NothingIs, OwnerRecords DEF k, a, kept, arts, o

LEMMA SheetFailsFits ==
    ASSUME PipelineInv, HeroInv, NEW c \in Claims, Owned(c), SheetFails(c), UNCHANGED outsideVars
    PROVE  HeroInv'
<1>1. /\ worker[c].pc \in {"sheet", "saveSheet"} /\ UNCHANGED <<objects, pdfs>>
      /\ UNCHANGED bookVars /\ BudgetRests
  BY BudgetSpent DEF SheetFails, At, PipelineInv
<1>2. CASE FailRun(c)
  BY <1>1, <1>2, OwnerFails
<1>3. CASE ~FailRun(c)
  <2> DEFINE kept == KeptContent(checkpoint, worker[c].input)
             p == [worker[c].profile EXCEPT !.sheet = FALSE]
             w == [worker[c] EXCEPT !.pc = "profiled", !.error = TRUE, !.profile = p]
             o == objects'[c]
  <2>1. UNCHANGED run /\ worker' = [worker EXCEPT ![c] = w] /\ worker[c].policy # "required"
    <3>1. w = [worker[c] EXCEPT !.pc = "profiled", !.error = TRUE, !.profile.sheet = FALSE]
      OBVIOUS
    <3>2. /\ UNCHANGED run /\ worker[c].policy # "required"
          /\ worker' = [worker EXCEPT ![c].pc = "profiled", ![c].error = TRUE, ![c].profile.sheet = FALSE]
      BY <1>3 DEF SheetFails
    <3> HIDE DEF w
    <3> QED
      BY <3>1, <3>2
  <2>2. /\ p.by = worker[c].profile.by /\ p.generic = worker[c].profile.generic
        /\ p.degraded = worker[c].profile.degraded /\ ~p.sheet
    BY WorkerFacts DEF WorkersOf, Profiles
  <2> HIDE DEF p
  <2>3. /\ worker'[c] = w /\ w.pc = "profiled" /\ w.input = worker[c].input
        /\ w.error = TRUE /\ w.story = worker[c].story /\ w.profile = p
        /\ w.reuse = worker[c].reuse /\ w.policy = "allow_degraded" /\ w.sheet = worker[c].sheet
        /\ worker[c].policy = "allow_degraded"
    BY <2>1, OwnerFacts DEF WorkersOf, Policies
  <2>4. /\ OwnerIs(worker[c], o, kept) /\ ~worker[c].sheet
    BY <1>1, OwnerFacts DEF WorkerIs, Sheetless
  <2> HIDE DEF w, o, kept
  <2>5. ReuseFits(w, kept) /\ ProfileFits(w, kept) /\ SheetFits(w, o)
    BY <1>1, <2>2, <2>3, <2>4 DEF OwnerIs, Profiling, ReuseFits, ProfileFits, SheetFits
  <2>6. OwnerIs(w, o, kept)
    BY <1>1, <2>3, <2>4, <2>5 DEF OwnerIs, Profiling, Telling, Told, Drawing
  <2> QED
    BY <1>1, <2>1, <2>3, <2>6, OwnerMoves DEF o, kept
<1> QED
  BY <1>2, <1>3

\* A better known profile: what was drawn for the profile still shows it.
LEMMA ShowsStill ==
    ASSUME NEW b, NEW story, NEW p, NEW q, Shows(b, story, p), q.by = p.by, p.degraded => q.degraded
    PROVE  Shows(b, story, q)
BY DEF Shows

LEMMA CheckpointProfileFits ==
    ASSUME PipelineInv, HeroInv, NEW c \in Claims, Owned(c), CheckpointProfile(c),
           UNCHANGED outsideVars
    PROVE  HeroInv'
<1> DEFINE kept == KeptContent(checkpoint, worker[c].input)
           arts == KeptArtifacts(checkpoint, worker[c].input)
           e == ResumedError(worker[c])
           p == [worker[c].profile EXCEPT !.degraded = e]
           w == [worker[c] EXCEPT !.pc = "story", !.profile = p, !.error = e]
           o == objects'[c]
           k == Over(JustThe("profile", p), kept)
           a == Over(Nothing, arts)
<1>1. /\ worker[c].pc = "profiled" /\ UNCHANGED <<run, objects, pdfs, edition>> /\ BudgetRests
      /\ checkpoint' = Recorded(c, JustThe("profile", p), Nothing)
      /\ worker' = [worker EXCEPT ![c].pc = "story", ![c].profile = p, ![c].error = e]
  BY BudgetKept DEF CheckpointProfile, At, StaleLeaves, PipelineInv
<1>2. e = (worker[c].error \/ worker[c].profile.degraded)
  BY DEF ResumedError
<1> HIDE DEF e
<1>3. /\ p.by = worker[c].profile.by /\ p.generic = worker[c].profile.generic
      /\ p.degraded = e /\ p.sheet = worker[c].profile.sheet
  BY OwnerFacts DEF WorkersOf, Profiles
<1> HIDE DEF p
<1>4. /\ worker'[c] = w /\ w.pc = "story" /\ w.input = worker[c].input
      /\ w.error = e /\ w.story = worker[c].story /\ w.profile = p
      /\ w.reuse = worker[c].reuse /\ w.policy = worker[c].policy /\ w.sheet = worker[c].sheet
  BY <1>1, OwnerFacts DEF WorkersOf
<1>5. /\ OwnerIs(worker[c], o, kept) /\ Fits(kept, arts) /\ IsFunction(arts)
  BY <1>1, OwnerFacts
<1>6. a = arts
  BY <1>5, NothingMerges
<1>7. /\ DOMAIN k = {"profile"} \cup DOMAIN kept /\ k["profile"] = p
      /\ "story" \in DOMAIN kept => k["story"] = kept["story"]
  BY DEF Over, JustThe
<1> HIDE DEF w, kept, arts, o, k, a
<1>8. ReuseFits(worker[c], kept) /\ ProfileFits(worker[c], kept) /\ SheetFits(worker[c], o)
  BY <1>1, <1>5 DEF OwnerIs, Profiling
<1>9. /\ "profile" \in DOMAIN kept /\ p.by = kept["profile"].by /\ (kept["profile"].degraded => e)
      /\ (p.generic => e) /\ (e => w.policy = "allow_degraded")
  BY <1>2, <1>3, <1>4, <1>8 DEF ProfileFits
<1>10. w.policy = "allow_degraded" => fallback = "allow_degraded"
  BY <1>4, <1>5 DEF OwnerIs
<1>11. Fits(k, a)
  <2>1. \A l \in DOMAIN a \cap Planned : "story" \in DOMAIN k /\ Shows(a[l].sha, k["story"], p)
    BY <1>3, <1>5, <1>6, <1>7, <1>9, ShowsStill DEF Fits
  <2> QED
    BY <1>3, <1>5, <1>6, <1>7, <1>9, <1>10, <2>1 DEF Fits, SheetOf
<1>12. ReuseFits(w, k)
  BY <1>3, <1>4, <1>7, <1>8, <1>9, ShowsStill DEF ReuseFits
<1>13. ProfileFits(w, k) /\ SheetFits(w, o)
  BY <1>2, <1>3, <1>4, <1>7, <1>8, <1>9 DEF ProfileFits, SheetFits, SheetOf
<1>14. w.story = IF "story" \in DOMAIN k THEN k["story"] ELSE NoWriter
  BY <1>1, <1>4, <1>5, <1>7 DEF OwnerIs, Profiling
<1>15. \A l \in Planned : ~Intact(o[l])
  BY <1>1, <1>5 DEF OwnerIs, Drawing
<1>16. OwnerIs(w, o, k)
  BY <1>3, <1>4, <1>7, <1>10, <1>12, <1>13, <1>14, <1>15
     DEF OwnerIs, Profiling, Telling, Told, Drawing
<1>17. IsFunction(JustThe("profile", p)) /\ Nothing \in ArtifactsOf(Assets)
  BY NothingIs, OnlyPart
<1> QED
  BY <1>1, <1>4, <1>11, <1>16, <1>17, OwnerRecords DEF k, a, kept, arts, o

LEMMA TellStoryFits ==
    ASSUME PipelineInv, HeroInv, NEW c \in Claims, Owned(c), TellStory(c), UNCHANGED outsideVars
    PROVE  HeroInv'
<1> DEFINE kept == KeptContent(checkpoint, worker[c].input)
           arts == KeptArtifacts(checkpoint, worker[c].input)
           s == IF worker[c].story # NoWriter THEN worker[c].story
                ELSE [by |-> c, of |-> worker[c].profile.by]
           w == [worker[c] EXCEPT !.pc = "reference", !.story = s]
           o == objects'[c]
           k == Over(JustThe("story", s), kept)
           a == Over(Nothing, arts)
<1>1. /\ worker[c].pc = "story" /\ UNCHANGED <<run, objects, pdfs, edition>> /\ BudgetRests
      /\ checkpoint' = Recorded(c, JustThe("story", s), Nothing)
      /\ worker' = [worker EXCEPT ![c].pc = "reference", ![c].story = s]
  BY BudgetKept DEF TellStory, At, StaleLeaves, PipelineInv
<1>2. worker[c].story = NoWriter => s.of = worker[c].profile.by
  OBVIOUS
<1>3. worker[c].story # NoWriter => s = worker[c].story
  OBVIOUS
<1> HIDE DEF s
<1>4. /\ worker'[c] = w /\ w.pc = "reference" /\ w.input = worker[c].input
      /\ w.error = worker[c].error /\ w.story = s /\ w.profile = worker[c].profile
      /\ w.reuse = worker[c].reuse /\ w.policy = worker[c].policy /\ w.sheet = worker[c].sheet
  BY <1>1, OwnerFacts DEF WorkersOf
<1>5. /\ OwnerIs(worker[c], o, kept) /\ Fits(kept, arts) /\ IsFunction(arts)
      /\ MadeFor(kept, worker[c].input)
  BY <1>1, OwnerFacts
<1>6. a = arts
  BY <1>5, NothingMerges
<1>7. /\ DOMAIN k = {"story"} \cup DOMAIN kept /\ k["story"] = s
      /\ "profile" \in DOMAIN kept => k["profile"] = kept["profile"]
  BY DEF Over, JustThe
<1> HIDE DEF w, kept, arts, o, k, a
<1>8. /\ ReuseFits(worker[c], kept) /\ ProfileFits(worker[c], kept) /\ SheetFits(worker[c], o)
      /\ kept["profile"] = worker[c].profile /\ "profile" \in DOMAIN kept
      /\ worker[c].error <=> worker[c].profile.degraded
  BY <1>1, <1>5 DEF OwnerIs, Telling, ProfileFits
\* The story kept is taken.
<1>9. "story" \in DOMAIN kept => s = kept["story"]
  <2>1. "story" \in DOMAIN kept => worker[c].story = kept["story"]
    BY <1>1, <1>5 DEF OwnerIs
  <2>2. "story" \in DOMAIN kept => kept["story"].by # 0
    BY <1>5 DEF MadeFor, Made
  <2>3. NoWriter.by = 0
    BY DEF NoWriter
  <2> QED
    BY <1>3, <2>1, <2>2, <2>3
<1>10. s.of = worker[c].profile.by
  <2>1. CASE "story" \in DOMAIN kept
    BY <1>5, <1>8, <1>9, <2>1 DEF Fits
  <2>2. CASE "story" \notin DOMAIN kept
    BY <1>1, <1>2, <1>5, <2>2 DEF OwnerIs
  <2> QED
    BY <2>1, <2>2
<1>11. Fits(k, a)
  BY <1>5, <1>6, <1>7, <1>8, <1>9, <1>10 DEF Fits
<1>12. ReuseFits(w, k)
  BY <1>4, <1>7, <1>8, <1>9 DEF ReuseFits
<1>13. ProfileFits(w, k) /\ SheetFits(w, o)
  BY <1>4, <1>7, <1>8 DEF ProfileFits, SheetFits
<1>14. \A l \in Planned : ~Intact(o[l])
  BY <1>1, <1>5 DEF OwnerIs, Drawing
<1>15. OwnerIs(w, o, k)
  BY <1>4, <1>5, <1>7, <1>8, <1>12, <1>13, <1>14 DEF OwnerIs, Profiling, Telling, Told, Drawing
<1>16. IsFunction(JustThe("story", s)) /\ Nothing \in ArtifactsOf(Assets)
  BY NothingIs, OnlyPart
<1> QED
  BY <1>1, <1>4, <1>11, <1>15, <1>16, OwnerRecords DEF k, a, kept, arts, o

LEMMA StoryFailsFits ==
    ASSUME PipelineInv, HeroInv, NEW c \in Claims, Owned(c), StoryFails(c), UNCHANGED outsideVars
    PROVE  HeroInv'
BY OwnerFails, BudgetSpent DEF StoryFails, PipelineInv

LEMMA LoadReferenceFits ==
    ASSUME PipelineInv, HeroInv, NEW c \in Claims, Owned(c), LoadReference(c), UNCHANGED outsideVars
    PROVE  HeroInv'
<1> DEFINE kept == KeptContent(checkpoint, worker[c].input)
           arts == KeptArtifacts(checkpoint, worker[c].input)
           has == worker[c].sheet /\ Intact(objects[c]["character_sheet"])
           art == [l \in Planned |-> IF l \in DOMAIN worker[c].reuse THEN "adopt" ELSE "draw"]
           reference == IF has THEN objects[c]["character_sheet"].of ELSE 0
           w == [worker[c] EXCEPT !.pc = "images", !.reference = reference, !.art = art]
           o == objects'[c]
<1>1. /\ worker[c].pc = "reference" /\ UNCHANGED <<objects, pdfs>> /\ BudgetRests
  BY BudgetKept DEF LoadReference, At, StaleLeaves, PipelineInv
<1>2. CASE FailRun(c) /\ UNCHANGED bookVars
  BY <1>1, <1>2, OwnerFails
<1>3. CASE ~(FailRun(c) /\ UNCHANGED bookVars)
  <2>1. /\ checkpoint' = IF has THEN Recorded(c, Nothing, SheetArtifact(c)) ELSE checkpoint
        /\ worker' = [worker EXCEPT ![c].pc = "images", ![c].reference = reference, ![c].art = art]
        /\ UNCHANGED <<run, edition>>
    BY <1>3 DEF LoadReference, StaleLeaves
  <2>2. \A l \in Planned : art[l] \notin {"adopted", "stored"}
    OBVIOUS
  <2> HIDE DEF art
  <2>3. /\ worker'[c] = w /\ w.pc = "images" /\ w.input = worker[c].input
        /\ w.error = worker[c].error /\ w.story = worker[c].story /\ w.profile = worker[c].profile
        /\ w.reuse = worker[c].reuse /\ w.policy = worker[c].policy /\ w.sheet = worker[c].sheet
        /\ w.reference = reference /\ w.art = art
    BY <2>1, OwnerFacts DEF WorkersOf
  <2>4. /\ OwnerIs(worker[c], o, kept) /\ Fits(kept, arts) /\ IsFunction(kept)
        /\ IsFunction(arts)
    BY <1>1, OwnerFacts
  <2>5. Over(Nothing, kept) = kept
    BY <2>4, NothingMerges
  <2>6. has => reference = o["character_sheet"].of
    BY <1>1
  <2>7. has <=> worker[c].sheet /\ Intact(o["character_sheet"])
    BY <1>1
  <2>8. ~has => reference = 0
    OBVIOUS
  <2> HIDE DEF w, kept, arts, o, has, reference
  <2>9. /\ ReuseFits(worker[c], kept) /\ ProfileFits(worker[c], kept) /\ SheetFits(worker[c], o)
        /\ kept["profile"] = worker[c].profile /\ "profile" \in DOMAIN kept
        /\ worker[c].error <=> worker[c].profile.degraded
    BY <1>1, <2>4 DEF OwnerIs, Telling, Told, ProfileFits
  <2>10. \A l \in Planned : ~Intact(o[l])
    BY <1>1, <2>4 DEF OwnerIs, Drawing
  <2>11. ImagesFit(w, o)
    <3>1. worker[c].profile.by # 0
      BY <1>1, OwnerFacts DEF WorkerIs, Telling, Told, Made
    <3> QED
      BY <2>3, <2>6, <2>7, <2>8, <2>9, <2>10, <3>1 DEF ImagesFit, SheetFits, SheetOf, Intact
  <2>12. ReuseFits(w, kept) /\ ProfileFits(w, kept) /\ SheetFits(w, o)
    BY <2>3, <2>9 DEF ReuseFits, ProfileFits, SheetFits
  <2>13. OwnerIs(w, o, kept)
    BY <1>1, <2>2, <2>3, <2>4, <2>9, <2>11, <2>12
       DEF OwnerIs, Profiling, Telling, Told, Drawing
  <2>14. CASE ~has
    BY <1>1, <2>1, <2>3, <2>13, <2>14, OwnerMoves DEF kept, o, bookVars
  <2>15. CASE has
    <3> DEFINE a == Over(SheetArtifact(c), arts)
    <3>1. SheetArtifact(c) \in ArtifactsOf(Assets)
      BY ArtifactIs, PlannedAre, OwnerFacts DEF SheetArtifact
    <3>2. /\ DOMAIN a = {"character_sheet"} \cup DOMAIN arts
          /\ a["character_sheet"].sha = o["character_sheet"]
          /\ \A l \in Planned \cap DOMAIN a : l \in DOMAIN arts /\ a[l] = arts[l]
      <4>1. "character_sheet" \notin Planned
        BY PlannedAre, OwnerFacts
      <4> QED
        BY <1>1, <4>1 DEF Over, JustThe, SheetArtifact, o
    <3>3. SheetOf(a["character_sheet"].sha, kept["profile"])
      BY <2>7, <2>9, <2>15, <3>2 DEF SheetFits
    <3> HIDE DEF a
    <3>4. Fits(kept, a)
      BY <2>4, <2>9, <3>2, <3>3 DEF Fits
    <3> QED
      BY <1>1, <2>1, <2>3, <2>5, <2>13, <2>15, <3>1, <3>4, NothingIs, OwnerRecords DEF kept, arts, o, a
  <2> QED
    BY <2>14, <2>15
<1> QED
  BY <1>2, <1>3

\* An image is being made, and the rest of the owner's state stays.
LEMMA ImageMoves ==
    ASSUME PipelineInv, HeroInv, NEW c \in Claims, Owned(c), NEW l \in Planned,
           worker[c].pc \in {"images", "drawing"},
           UNCHANGED outsideVars, UNCHANGED run, UNCHANGED bookVars, BudgetRests,
           NEW to \in ArtStates, worker' = [worker EXCEPT ![c].art[l] = to],
           NEW b, UNCHANGED objects \/ objects' = [objects EXCEPT ![c][l] = b],
           objects' # objects /\ Intact(b) => Shows(b, worker[c].story, worker[c].profile),
           to \in {"adopted", "stored"} => Intact(objects'[c][l])
    PROVE  HeroInv'
<1> DEFINE kept == KeptContent(checkpoint, worker[c].input)
           w == [worker[c] EXCEPT !.art[l] = to]
           o == objects'[c]
<1>1. worker' = [worker EXCEPT ![c] = w]
  OBVIOUS
<1>2. DOMAIN worker[c].art = Planned
  BY OwnerFacts DEF WorkerIs
<1>3. /\ worker'[c] = w /\ w.pc = worker[c].pc /\ w.input = worker[c].input
      /\ w.profile = worker[c].profile /\ w.error = worker[c].error /\ w.story = worker[c].story
      /\ w.reuse = worker[c].reuse /\ w.policy = worker[c].policy /\ w.sheet = worker[c].sheet
      /\ w.reference = worker[c].reference /\ w.art[l] = to
      /\ \A m \in Planned \ {l} : w.art[m] = worker[c].art[m]
  <2>1. worker[c] \in WorkersOf(Planned) /\ worker \in [Claims -> WorkersOf(Planned)]
    BY OwnerFacts
  <2>2. /\ w.pc = worker[c].pc /\ w.input = worker[c].input
        /\ w.profile = worker[c].profile /\ w.error = worker[c].error /\ w.story = worker[c].story
        /\ w.reuse = worker[c].reuse /\ w.policy = worker[c].policy /\ w.sheet = worker[c].sheet
        /\ w.reference = worker[c].reference /\ w.art = [worker[c].art EXCEPT ![l] = to]
    BY <2>1 DEF WorkersOf
  <2> HIDE DEF w
  <2> QED
    BY <1>1, <1>2, <2>1, <2>2
<1>4. /\ \A m \in Planned \ {l} : o[m] = objects[c][m]
      /\ o[l] = objects[c][l] \/ (objects' # objects /\ o[l] = b)
      /\ o["character_sheet"] = objects[c]["character_sheet"]
  BY PlannedAre, OwnerFacts
<1>5. OwnerIs(worker[c], objects[c], kept)
  BY OwnerFacts
<1> HIDE DEF w, kept, o
<1>6. /\ ReuseFits(w, kept) /\ ProfileFits(w, kept) /\ SheetFits(w, o)
  BY <1>3, <1>4, <1>5
     DEF OwnerIs, Telling, Told, Drawing, ReuseFits, ProfileFits, SheetFits
<1>7. ImagesFit(w, o)
  BY <1>3, <1>4, <1>5 DEF OwnerIs, Drawing, ImagesFit
<1>8. \A m \in Planned : w.art[m] \in {"adopted", "stored"} => Intact(o[m])
  <2>1. \A m \in Planned \ {l} : w.art[m] \in {"adopted", "stored"} => Intact(o[m])
    BY <1>3, <1>4, <1>5 DEF OwnerIs
  <2>2. w.art[l] \in {"adopted", "stored"} => Intact(o[l])
    BY <1>3 DEF o
  <2> QED
    BY <2>1, <2>2
<1>9. OwnerIs(w, o, kept)
  BY <1>3, <1>5, <1>6, <1>7, <1>8 DEF OwnerIs, Profiling, Telling, Told, Drawing
<1> QED
  BY <1>3, <1>9, OwnerMoves DEF kept, o

LEMMA AdoptImageFits ==
    ASSUME PipelineInv, HeroInv, NEW c \in Claims, Owned(c), NEW l \in Planned, AdoptImage(c, l),
           UNCHANGED outsideVars
    PROVE  HeroInv'
<1> DEFINE kept == KeptContent(checkpoint, worker[c].input)
           b == worker[c].reuse[l].sha
<1>1. /\ worker[c].pc = "images" /\ worker[c].art[l] = "adopt" /\ UNCHANGED run
      /\ UNCHANGED bookVars /\ BudgetRests
  BY BudgetKept DEF AdoptImage, At, PipelineInv
<1>2. /\ OwnerIs(worker[c], objects[c], kept) /\ l \in DOMAIN worker[c].reuse
      /\ MadeFor(kept, worker[c].input)
  BY <1>1, OwnerFacts DEF WorkerIs
<1>3. Shows(b, worker[c].story, worker[c].profile)
  <2> HIDE DEF kept, b
  <2>1. /\ "story" \in DOMAIN kept /\ kept["story"] = worker[c].story
        /\ kept["profile"] = worker[c].profile /\ ReuseFits(worker[c], kept)
    BY <1>1, <1>2 DEF OwnerIs, Telling, Told, Drawing
  <2> QED
    BY <1>2, <2>1 DEF ReuseFits, b
<1>4. CASE UNCHANGED objects /\ worker' = [worker EXCEPT ![c].art[l] = "draw"]
  BY <1>1, <1>4, ImageMoves DEF ArtStates
<1>5. CASE objects' = [objects EXCEPT ![c][l] = b] /\ worker' = [worker EXCEPT ![c].art[l] = "adopted"]
  <2>1. objects'[c][l] = b
    BY <1>5, PlannedAre, OwnerFacts
  <2>2. Intact(objects'[c][l])
    BY <1>3, <2>1 DEF Shows, Intact
  <2>3. "adopted" \in ArtStates
    BY DEF ArtStates
  <2> HIDE DEF b
  <2> QED
    BY <1>1, <1>3, <1>5, <2>2, <2>3, ImageMoves
<1> QED
  BY <1>4, <1>5 DEF AdoptImage, Art

LEMMA DrawImageFits ==
    ASSUME PipelineInv, HeroInv, NEW c \in Claims, Owned(c), NEW l \in Planned, DrawImage(c, l),
           UNCHANGED outsideVars
    PROVE  HeroInv'
<1>1. /\ worker[c].pc = "drawing" /\ worker[c].art[l] = "draw" /\ UNCHANGED run
      /\ UNCHANGED bookVars /\ BudgetRests
      /\ worker' = [worker EXCEPT ![c].art[l] = "saving"] /\ objects' = [objects EXCEPT ![c][l] = Torn]
  BY BudgetKept DEF DrawImage, At, Art, PipelineInv
<1>2. ~Intact(Torn) /\ "saving" \in ArtStates
  BY DEF Torn, Intact, ArtStates
<1> QED
  BY <1>1, <1>2, ImageMoves

LEMMA ImageStoredFits ==
    ASSUME PipelineInv, HeroInv, NEW c \in Claims, Owned(c), NEW l \in Planned, ImageStored(c, l),
           UNCHANGED outsideVars
    PROVE  HeroInv'
<1> DEFINE b == [by |-> c, of |-> worker[c].story.by, ref |-> worker[c].reference]
<1>1. /\ worker[c].pc = "drawing" /\ worker[c].art[l] = "saving" /\ UNCHANGED run
      /\ UNCHANGED bookVars /\ BudgetRests
      /\ worker' = [worker EXCEPT ![c].art[l] = "stored"] /\ objects' = [objects EXCEPT ![c][l] = b]
  BY BudgetKept DEF ImageStored, At, Art, PipelineInv
<1>2. b.by # 0 /\ b.of = worker[c].story.by /\ b.ref = worker[c].reference
  BY DEF Claims
<1> HIDE DEF b
<1>3. Shows(b, worker[c].story, worker[c].profile)
  <2>1. ImagesFit(worker[c], objects[c])
    BY <1>1, OwnerFacts DEF OwnerIs, Drawing
  <2> QED
    BY <1>2, <2>1 DEF Shows, ImagesFit
<1>4. Intact(objects'[c][l]) /\ "stored" \in ArtStates
  <2>1. objects'[c][l] = b
    BY <1>1, PlannedAre, OwnerFacts
  <2> QED
    BY <1>2, <2>1 DEF Intact, ArtStates
<1> QED
  BY <1>1, <1>3, <1>4, ImageMoves

LEMMA ImageFailsFits ==
    ASSUME PipelineInv, HeroInv, NEW c \in Claims, Owned(c), NEW l \in Planned, ImageFails(c, l),
           UNCHANGED outsideVars
    PROVE  HeroInv'
<1>1. /\ worker[c].pc = "drawing" /\ worker[c].art[l] \in {"draw", "saving"} /\ UNCHANGED run
      /\ UNCHANGED bookVars /\ BudgetRests /\ UNCHANGED objects
      /\ worker' = [worker EXCEPT ![c].art[l] = "failed"]
  BY BudgetSpent DEF ImageFails, At, Art, PipelineInv
<1>2. "failed" \in ArtStates
  BY DEF ArtStates
<1>3. /\ UNCHANGED objects \/ objects' = [objects EXCEPT ![c][l] = Torn]
      /\ objects' # objects /\ Intact(Torn) => Shows(Torn, worker[c].story, worker[c].profile)
      /\ "failed" \in {"adopted", "stored"} => Intact(objects'[c][l])
      /\ worker[c].pc \in {"images", "drawing"}
  BY <1>1
<1> QED
  BY <1>1, <1>2, <1>3, ImageMoves

LEMMA RecordImageFits ==
    ASSUME PipelineInv, HeroInv, NEW c \in Claims, Owned(c), NEW l \in Planned, RecordImage(c, l),
           UNCHANGED outsideVars
    PROVE  HeroInv'
<1> DEFINE kept == KeptContent(checkpoint, worker[c].input)
           arts == KeptArtifacts(checkpoint, worker[c].input)
           part == JustThe(l, [key |-> c, sha |-> objects[c][l]])
           w == [worker[c] EXCEPT !.art[l] = "ready",
                                  !.manifest = Over(JustThe(l, objects[c][l]), @)]
           o == objects'[c]
           k == Over(Nothing, kept)
           a == Over(part, arts)
<1>1. /\ worker[c].pc \in {"images", "drawing"} /\ worker[c].art[l] \in {"adopted", "stored"}
      /\ UNCHANGED <<run, objects, pdfs, edition>> /\ BudgetRests
      /\ checkpoint' = Recorded(c, Nothing, part)
      /\ worker' = [worker EXCEPT ![c] = w]
  BY BudgetKept DEF RecordImage, At, Keep, StaleLeaves, PipelineInv
<1>2. DOMAIN worker[c].art = Planned
  BY <1>1, OwnerFacts DEF WorkerIs
<1>3. /\ worker'[c] = w /\ w.pc = worker[c].pc /\ w.input = worker[c].input
      /\ w.profile = worker[c].profile /\ w.error = worker[c].error /\ w.story = worker[c].story
      /\ w.reuse = worker[c].reuse /\ w.policy = worker[c].policy /\ w.sheet = worker[c].sheet
      /\ w.reference = worker[c].reference
      /\ \A m \in Planned : w.art[m] \in {"adopted", "stored"} => w.art[m] = worker[c].art[m]
  <2>1. worker[c] \in WorkersOf(Planned) /\ worker \in [Claims -> WorkersOf(Planned)]
    BY OwnerFacts
  <2>2. /\ w.pc = worker[c].pc /\ w.input = worker[c].input
        /\ w.profile = worker[c].profile /\ w.error = worker[c].error /\ w.story = worker[c].story
        /\ w.reuse = worker[c].reuse /\ w.policy = worker[c].policy /\ w.sheet = worker[c].sheet
        /\ w.reference = worker[c].reference /\ w.art = [worker[c].art EXCEPT ![l] = "ready"]
    BY <2>1 DEF WorkersOf
  <2> HIDE DEF w
  <2> QED
    BY <1>1, <1>2, <2>1, <2>2
<1>4. /\ OwnerIs(worker[c], o, kept) /\ Fits(kept, arts) /\ IsFunction(kept)
  BY <1>1, OwnerFacts
<1>5. k = kept
  BY <1>4, NothingMerges
<1>6. /\ DOMAIN a = {l} \cup DOMAIN arts /\ a[l].sha = o[l]
      /\ \A m \in DOMAIN arts \ {l} : a[m] = arts[m]
  BY <1>1 DEF Over, JustThe
<1>7. part \in ArtifactsOf(Assets) /\ l # "character_sheet"
  BY ArtifactIs, PlannedAre, OwnerFacts
<1> HIDE DEF w, kept, arts, o, k, a, part
<1>8. /\ ReuseFits(w, kept) /\ ProfileFits(w, kept) /\ SheetFits(w, o) /\ ImagesFit(w, o)
  BY <1>1, <1>3, <1>4
     DEF OwnerIs, Telling, Told, Drawing, ReuseFits, ProfileFits, SheetFits, ImagesFit
<1>9. \A m \in Planned : w.art[m] \in {"adopted", "stored"} => Intact(o[m])
  BY <1>1, <1>3, <1>4 DEF OwnerIs
<1>10. OwnerIs(w, o, kept)
  BY <1>1, <1>3, <1>4, <1>8, <1>9 DEF OwnerIs, Profiling, Telling, Told, Drawing
<1>11. Shows(a[l].sha, kept["story"], kept["profile"]) /\ "story" \in DOMAIN kept
  <2>1. Intact(o[l]) /\ ImagesFit(worker[c], o)
    BY <1>1, <1>4 DEF OwnerIs, Drawing
  <2>2. /\ "story" \in DOMAIN kept /\ kept["story"] = worker[c].story
        /\ kept["profile"] = worker[c].profile
    BY <1>1, <1>4 DEF OwnerIs, Telling, Told, Drawing
  <2> QED
    BY <1>6, <2>1, <2>2 DEF ImagesFit
<1>12. Fits(kept, a)
  BY <1>4, <1>6, <1>7, <1>11 DEF Fits
<1> QED
  BY <1>1, <1>3, <1>5, <1>7, <1>10, <1>12, NothingIs, OwnerRecords DEF kept, arts, o, k, a

LEMMA StartDrawingFits ==
    ASSUME PipelineInv, HeroInv, NEW c \in Claims, Owned(c), StartDrawing(c), UNCHANGED outsideVars
    PROVE  HeroInv'
<1> DEFINE kept == KeptContent(checkpoint, worker[c].input)
           w == [worker[c] EXCEPT !.pc = "drawing"]
           o == objects'[c]
<1>1. /\ worker[c].pc = "images" /\ UNCHANGED <<run, objects, pdfs>> /\ UNCHANGED bookVars
      /\ BudgetRests /\ worker' = [worker EXCEPT ![c] = w]
  BY BudgetKept DEF StartDrawing, At, PipelineInv
<1>2. /\ worker'[c] = w /\ w.pc = "drawing" /\ w.input = worker[c].input /\ w.art = worker[c].art
      /\ w.profile = worker[c].profile /\ w.error = worker[c].error /\ w.story = worker[c].story
      /\ w.reuse = worker[c].reuse /\ w.policy = worker[c].policy /\ w.sheet = worker[c].sheet
      /\ w.reference = worker[c].reference
  BY <1>1, OwnerFacts DEF WorkersOf
<1>3. OwnerIs(worker[c], o, kept)
  BY <1>1, OwnerFacts
<1> HIDE DEF w, kept, o
<1>4. /\ ReuseFits(w, kept) /\ ProfileFits(w, kept) /\ SheetFits(w, o) /\ ImagesFit(w, o)
  BY <1>1, <1>2, <1>3
     DEF OwnerIs, Telling, Told, Drawing, ReuseFits, ProfileFits, SheetFits, ImagesFit
<1>5. OwnerIs(w, o, kept)
  BY <1>1, <1>2, <1>3, <1>4 DEF OwnerIs, Profiling, Telling, Told, Drawing
<1> QED
  BY <1>1, <1>2, <1>5, OwnerMoves DEF kept, o

LEMMA StoreBookCandidateFits ==
    ASSUME PipelineInv, HeroInv, NEW c \in Claims, Owned(c), StoreBookCandidate(c),
           UNCHANGED outsideVars
    PROVE  HeroInv'
<1> DEFINE kept == KeptContent(checkpoint, worker[c].input)
           arts == KeptArtifacts(checkpoint, worker[c].input)
           both == Over(JustThe("profile", worker[c].profile), JustThe("story", worker[c].story))
           w == [worker[c] EXCEPT !.pc = "pdf"]
           o == objects'[c]
           k == Over(both, kept)
           a == Over(Nothing, arts)
<1>1. /\ worker[c].pc = "drawing" /\ UNCHANGED <<run, objects, pdfs, edition>> /\ BudgetRests
      /\ checkpoint' = Recorded(c, both, Nothing) /\ worker' = [worker EXCEPT ![c] = w]
  BY BudgetKept DEF StoreBookCandidate, At, StaleLeaves, PipelineInv
<1>2. /\ worker'[c] = w /\ w.pc = "pdf" /\ w.input = worker[c].input /\ w.art = worker[c].art
      /\ w.profile = worker[c].profile /\ w.error = worker[c].error /\ w.story = worker[c].story
      /\ w.reuse = worker[c].reuse /\ w.policy = worker[c].policy /\ w.sheet = worker[c].sheet
      /\ w.reference = worker[c].reference
  BY <1>1, OwnerFacts DEF WorkersOf
<1>3. /\ OwnerIs(worker[c], o, kept) /\ Fits(kept, arts) /\ IsFunction(arts)
  BY <1>1, OwnerFacts
<1>4. a = arts
  BY <1>3, NothingMerges
<1>5. /\ DOMAIN k = {"profile", "story"} \cup DOMAIN kept
      /\ k["profile"] = worker[c].profile /\ k["story"] = worker[c].story
  BY DEF Over, JustThe
<1>6. IsFunction(both) /\ Nothing \in ArtifactsOf(Assets)
  BY NothingIs DEF Over, JustThe, IsFunction
<1> HIDE DEF w, kept, arts, o, k, a, both
<1>7. /\ "profile" \in DOMAIN kept /\ kept["profile"] = worker[c].profile
      /\ "story" \in DOMAIN kept /\ kept["story"] = worker[c].story
  BY <1>1, <1>3 DEF OwnerIs, Telling, Told, Drawing, ProfileFits
<1>8. DOMAIN k = DOMAIN kept /\ k["profile"] = kept["profile"] /\ k["story"] = kept["story"]
  BY <1>5, <1>7
<1>9. Fits(k, a)
  BY <1>3, <1>4, <1>8 DEF Fits
<1>10. /\ ReuseFits(w, k) /\ ProfileFits(w, k) /\ SheetFits(w, o) /\ ImagesFit(w, o)
  BY <1>1, <1>2, <1>3, <1>8
     DEF OwnerIs, Telling, Told, Drawing, ReuseFits, ProfileFits, SheetFits, ImagesFit
<1>11. OwnerIs(w, o, k)
  BY <1>1, <1>2, <1>3, <1>7, <1>8, <1>10 DEF OwnerIs, Profiling, Telling, Told, Drawing
<1> QED
  BY <1>1, <1>2, <1>6, <1>9, <1>11, OwnerRecords DEF k, a, kept, arts, o

LEMMA RenderPdfFits ==
    ASSUME PipelineInv, HeroInv, NEW c \in Claims, Owned(c), RenderPdf(c), UNCHANGED outsideVars
    PROVE  HeroInv'
<1> DEFINE kept == KeptContent(checkpoint, worker[c].input)
           o == objects'[c]
<1>1. PICK fails \in BOOLEAN :
        /\ worker[c].pc = "pdf" /\ UNCHANGED <<run, objects>> /\ UNCHANGED bookVars
        /\ IF fails THEN SpendPipeline("faults") ELSE UNCHANGED pipelineBudget
        /\ IF AllImagesResolved(c) /\ ~fails
           THEN worker' = [worker EXCEPT ![c].pc = "rendered"]
           ELSE worker' = [worker EXCEPT ![c].pc = "refused"]
  BY DEF RenderPdf, At, StaleLeaves
<1>2. BudgetRests
  BY <1>1, BudgetSpent, BudgetKept DEF PipelineInv
<1>3. PICK pc \in {"rendered", "refused"} :
        /\ worker' = [worker EXCEPT ![c].pc = pc]
        /\ pc = "rendered" => AllImagesResolved(c)
  BY <1>1
<1> DEFINE w == [worker[c] EXCEPT !.pc = pc]
<1>4. /\ worker'[c] = w /\ w.pc = pc /\ w.input = worker[c].input /\ w.art = worker[c].art
      /\ w.profile = worker[c].profile /\ w.error = worker[c].error /\ w.story = worker[c].story
      /\ w.reuse = worker[c].reuse /\ w.policy = worker[c].policy /\ w.sheet = worker[c].sheet
      /\ w.reference = worker[c].reference /\ w.manifest = worker[c].manifest
  BY <1>3, OwnerFacts DEF WorkersOf
<1>5. OwnerIs(worker[c], o, kept)
  BY <1>1, OwnerFacts
<1>6. pc = "rendered" => \A l \in Planned : Intact(o[l]) /\ w.manifest[l] = o[l]
  BY <1>1, <1>3, <1>4 DEF AllImagesResolved
<1> HIDE DEF w, kept, o
<1>7. /\ ReuseFits(w, kept) /\ ProfileFits(w, kept) /\ SheetFits(w, o) /\ ImagesFit(w, o)
  BY <1>1, <1>4, <1>5
     DEF OwnerIs, Telling, Told, Drawing, ReuseFits, ProfileFits, SheetFits, ImagesFit
<1>8. pc = "rendered" => \A l \in Planned : Shows(w.manifest[l], w.story, w.profile)
  BY <1>6, <1>7 DEF ImagesFit
<1>9. OwnerIs(w, o, kept)
  BY <1>1, <1>3, <1>4, <1>5, <1>7, <1>8 DEF OwnerIs, Profiling, Telling, Told, Drawing
<1> QED
  BY <1>1, <1>2, <1>4, <1>9, OwnerMoves DEF kept, o

LEMMA EndRunFits ==
    ASSUME PipelineInv, HeroInv, NEW c \in Claims, Owned(c), EndRun(c), UNCHANGED outsideVars
    PROVE  HeroInv'
<1> DEFINE kept == KeptContent(checkpoint, worker[c].input)
           arts == KeptArtifacts(checkpoint, worker[c].input)
<1>1. /\ worker[c].pc \in {"rendered", "refused"} /\ UNCHANGED checkpoint /\ BudgetRests
      /\ run'.status # "running" /\ run'.policy = run.policy
  <2>1. run \in RunsOf(Planned)
    BY WorkerFacts
  <2> QED
    BY <2>1, BudgetKept DEF EndRun, At, StaleLeaves, PipelineInv, RunsOf
<1>2. CASE worker[c].pc = "refused"
  <2>1. UNCHANGED edition
    BY <1>2 DEF EndRun, StaleLeaves
  <2> QED
    BY <1>1, <2>1, OwnerLeaves, EditionFitStays
<1>3. CASE worker[c].pc = "rendered"
  <2>1. /\ edition'.by = c /\ edition'.profile = worker[c].profile /\ edition'.story = worker[c].story
        /\ edition'.manifest = worker[c].manifest
        /\ edition'.degraded = (worker[c].error \/ ~worker[c].profile.sheet)
    BY <1>3 DEF EndRun, StaleLeaves
  <2>2. OwnerIs(worker[c], objects[c], kept) /\ Fits(kept, arts)
    BY OwnerFacts
  <2> HIDE DEF kept, arts
  <2>3. /\ "profile" \in DOMAIN kept /\ kept["profile"] = worker[c].profile
        /\ "story" \in DOMAIN kept /\ kept["story"] = worker[c].story
        /\ worker[c].error <=> worker[c].profile.degraded
        /\ worker[c].profile.generic => worker[c].profile.degraded
        /\ \A l \in Planned : Shows(worker[c].manifest[l], worker[c].story, worker[c].profile)
    BY <1>3, <2>2 DEF OwnerIs, Telling, Told, Drawing, ProfileFits
  <2>4. worker[c].story.of = worker[c].profile.by
    BY <2>2, <2>3 DEF Fits
  <2>5. EditionIsOneBook' /\ DegradationRecorded'
    <3>1. Planned' = Planned
      BY <1>1, PlannedRests
    <3> QED
      BY <2>1, <2>3, <2>4, <3>1 DEF EditionIsOneBook, DegradationRecorded, Published, Shows
  <2> QED
    BY <1>1, <2>5, OwnerLeaves
<1> QED
  BY <1>1, <1>2, <1>3

LEMMA WorkerStopsFits ==
    ASSUME PipelineInv, HeroInv, NEW c \in Claims, Owned(c), WorkerStops(c)
    PROVE  HeroInv'
<1> DEFINE kept == KeptContent(checkpoint, worker[c].input)
           w == [Idle EXCEPT !.pc = "gone", !.input = worker[c].input]
           o == objects'[c]
<1>1. /\ worker' = [worker EXCEPT ![c] = w] /\ UNCHANGED run /\ UNCHANGED bookVars
      /\ UNCHANGED outsideVars /\ BudgetRests
  BY BudgetKept DEF WorkerStops, Gone, PipelineInv
<1>2. /\ worker'[c] = w /\ w.pc = "gone" /\ w.input = worker[c].input /\ w.policy = "required"
  BY <1>1, OwnerFacts DEF Idle
<1> HIDE DEF w, kept, o
<1>3. OwnerIs(w, o, kept)
  BY <1>2 DEF OwnerIs, Profiling, Telling, Told, Drawing
<1> QED
  BY <1>1, <1>2, <1>3, OwnerMoves DEF kept, o

-----------------------------------------------------------------------------
(* Steps of others *)

\* A superseded worker stays in its namespace.
LEMMA StaleSteps ==
    ASSUME PipelineInv, NEW c \in Claims, ~Owned(c),
           PipelineStep(c) \/ PipelineFault(c) \/ WorkerStops(c)
    PROVE  /\ UNCHANGED run /\ UNCHANGED bookVars /\ UNCHANGED outsideVars /\ BudgetRests
           /\ \A d \in Claims \ {c} : worker'[d] = worker[d] /\ objects'[d] = objects[d]
<1>1. UNCHANGED outsideVars
  BY DEF PipelineStep, PipelineFault, WorkerStops
<1>2. /\ worker \in [Claims -> WorkersOf(Planned)] /\ objects \in [Claims -> [Labels -> Bytes]]
      /\ PipelineTypes
  BY DEF PipelineInv, PipelineTypes
<1>3. CASE WorkerStops(c)
  BY <1>2, <1>3, BudgetKept DEF WorkerStops, Gone
<1>4. CASE PipelineFault(c)
  <2>1. SpendPipeline("faults") /\ UNCHANGED objects /\ UNCHANGED bookVars
    BY <1>4 DEF PipelineFault, SheetFails, StoryFails, ImageFails
  <2>2. UNCHANGED run /\ \A d \in Claims \ {c} : worker'[d] = worker[d]
    BY <1>2, <1>4 DEF PipelineFault, SheetFails, StoryFails, ImageFails, FailRun, Gone, Art
  <2> QED
    BY <1>1, <1>2, <2>1, <2>2, BudgetSpent
<1>5. CASE PipelineStep(c)
  <2>1. CASE StaleLeaves(c)
    BY <1>1, <1>2, <2>1, BudgetKept DEF StaleLeaves, Gone
  <2>2. CASE InspectWork(c)
    BY <1>1, <1>2, <2>2, BudgetKept DEF InspectWork, FailRun, Gone
  <2>3. CASE PlanReuse(c)
    BY <1>1, <1>2, <2>3, BudgetKept DEF PlanReuse, Gone
  <2>4. CASE SheetStored(c)
    BY <1>1, <1>2, <2>4, BudgetKept DEF SheetStored
  <2>5. CASE StartDrawing(c)
    BY <1>1, <1>2, <2>5, BudgetKept DEF StartDrawing
  <2>6. CASE LoadReference(c) /\ ~StaleLeaves(c)
    <3>1. UNCHANGED <<run, objects>> /\ UNCHANGED bookVars /\ UNCHANGED pipelineBudget
      BY <2>6 DEF LoadReference, FailRun, bookVars
    <3>2. \A d \in Claims \ {c} : worker'[d] = worker[d]
      BY <1>2, <2>6 DEF LoadReference, FailRun, Gone
    <3> QED
      BY <1>1, <1>2, <3>1, <3>2, BudgetKept
  <2>7. ASSUME NEW l \in Planned, ImageStep(c, l), ~StaleLeaves(c)
        PROVE  /\ UNCHANGED run /\ UNCHANGED bookVars /\ UNCHANGED pipelineBudget
               /\ \A d \in Claims \ {c} : worker'[d] = worker[d] /\ objects'[d] = objects[d]
    <3>1. CASE AdoptImage(c, l)
      BY <1>2, <3>1 DEF AdoptImage, Art
    <3>2. CASE DrawImage(c, l)
      BY <1>2, <3>2 DEF DrawImage, Art
    <3>3. CASE ImageStored(c, l)
      BY <1>2, <3>3 DEF ImageStored, Art
    <3>4. CASE RecordImage(c, l)
      BY <1>2, <2>7, <3>4 DEF RecordImage, Keep
    <3> QED
      BY <2>7, <3>1, <3>2, <3>3, <3>4 DEF ImageStep
  <2>8. \/ StaleLeaves(c) \/ InspectWork(c) \/ PlanReuse(c) \/ SheetStored(c) \/ StartDrawing(c)
        \/ LoadReference(c) \/ \E l \in Planned : ImageStep(c, l)
    BY <1>5 DEF PipelineStep, BuildProfile, DrawSheet, RecordSheet, CheckpointProfile, TellStory,
       StoreBookCandidate, RenderPdf, EndRun
  <2> QED
    BY <1>1, <1>2, <2>1, <2>2, <2>3, <2>4, <2>5, <2>6, <2>7, <2>8, BudgetKept
<1> QED
  BY <1>3, <1>4, <1>5

\* The owner, its objects and what it takes over stay, or there is no owner.
LEMMA OwnerStays ==
    ASSUME PipelineInv, HeroInv, UNCHANGED <<attempt, checkpoint, edition, fallback>>, BudgetRests,
           run'.policy = run.policy,
           run'.status = "running" =>
              /\ run.status = "running"
              /\ worker'[attempt] = worker[attempt] /\ objects'[attempt] = objects[attempt]
    PROVE  HeroInv'
<1>1. Fits(Content(checkpoint), Artifacts(checkpoint))'
  BY FitsStay DEF HeroInv
<1>2. run'.status = "running" => OwnerFits(attempt)'
  <2>1. CASE run'.status = "running"
    <3> DEFINE w == worker[attempt]
               o == objects[attempt]
               k == KeptContent(checkpoint, w.input)
    <3>1. OwnerIs(w, o, k)
      BY <2>1 DEF HeroInv, OwnerFits
    <3>2. \A f, g, h : f = w /\ g = o /\ h = k => OwnerIs(f, g, h)'
      <4> HIDE DEF w, o, k
      <4> QED
        BY <3>1, FitsStay
    <3>3. /\ worker'[attempt'] = w /\ objects'[attempt'] = o
          /\ KeptContent(checkpoint', worker'[attempt'].input) = k
      BY <2>1
    <3>4. \A f, g, h : /\ f = worker'[attempt'] /\ g = objects'[attempt']
                       /\ h = KeptContent(checkpoint', worker'[attempt'].input)
                       => OwnerIs(f, g, h)'
      BY <3>2, <3>3
    <3> HIDE DEF w, o, k
    <3> QED
      BY <3>4 DEF OwnerFits
  <2> QED
    BY <2>1
<1> QED
  BY <1>1, <1>2, PolicyStays, EditionFitStays DEF HeroInv

\* So whatever superseded workers do, the owner's parts fit.
LEMMA StaleFits ==
    ASSUME PipelineInv, HeroInv, NEW c \in Claims, ~Owned(c),
           PipelineStep(c) \/ PipelineFault(c) \/ WorkerStops(c)
    PROVE  HeroInv'
<1>1. /\ UNCHANGED <<attempt, checkpoint, edition, fallback, run>> /\ BudgetRests
      /\ \A d \in Claims \ {c} : worker'[d] = worker[d] /\ objects'[d] = objects[d]
  BY StaleSteps DEF bookVars, outsideVars
<1>2. run.status = "running" => attempt \in Claims \ {c}
  <2>1. run.status = "running" => attempt # 0
    BY DEF HeroInv
  <2> QED
    BY <2>1, PipelineAssumption DEF Owned, PipelineInv, PipelineTypes, Claims
<1> QED
  BY <1>1, <1>2, OwnerStays

-----------------------------------------------------------------------------
(* Around the workers *)

\* What happens around the workers leaves the fit alone: a new run takes the policy in
\* force, a new claim starts with nothing.
LEMMA ScheduleRunFits ==
    ASSUME PipelineInv, HeroInv, NEW kind \in {"generate", "retry"}, ScheduleRun(kind)
    PROVE  HeroInv'
<1>1. /\ UNCHANGED <<checkpoint, edition, fallback>> /\ BudgetRests
      /\ run'.status # "running" /\ run'.policy = fallback
  BY BudgetKept DEF ScheduleRun, outsideVars, bookVars, PipelineInv
<1>2. PolicyRelaxedOnce'
  BY <1>1 DEF HeroInv, PolicyRelaxedOnce, BudgetRests
<1>3. Fits(Content(checkpoint), Artifacts(checkpoint))'
  BY <1>1, FitsStay DEF HeroInv
<1> QED
  BY <1>1, <1>2, <1>3, EditionFitStays DEF HeroInv

LEMMA ClaimBookFits ==
    ASSUME PipelineInv, HeroInv, ClaimBook
    PROVE  HeroInv'
<1> DEFINE c == attempt + 1
           w == [Idle EXCEPT !.pc = "inspect", !.input = run.input, !.policy = run.policy]
           o == objects[c]
<1>1. c \in Claims /\ c > attempt /\ c # 0
  BY PipelineAssumption DEF ClaimBook, PipelineInv, PipelineTypes, Claims
<1>2. /\ attempt' = c /\ worker' = [worker EXCEPT ![c] = w] /\ UNCHANGED objects
      /\ run'.policy = run.policy /\ UNCHANGED <<checkpoint, edition, fallback>>
  BY DEF ClaimBook, bookVars, PipelineInv, PipelineTypes, RunsOf
<1>3. BudgetRests
  <2>1. PICK overlaps \in Nat :
           pipelineBudget' = [pipelineBudget EXCEPT !.claims = @ - 1, !.overlaps = overlaps]
    <3> DEFINE live == attempt > 0 /\ worker[attempt].pc # "gone"
               left == IF live THEN pipelineBudget.overlaps - 1 ELSE pipelineBudget.overlaps
    <3>1. pipelineBudget' = [pipelineBudget EXCEPT !.claims = @ - 1, !.overlaps = left]
      BY DEF ClaimBook
    <3>2. live => pipelineBudget.overlaps > 0
      BY DEF ClaimBook
    <3>3. pipelineBudget.overlaps \in Nat
      BY DEF PipelineInv, PipelineTypes, Budgets
    <3> HIDE DEF live
    <3>4. left \in Nat
      BY <3>2, <3>3
    <3> QED
      BY <3>1, <3>4
  <2>2. pipelineBudget \in Budgets /\ pipelineBudget.claims - 1 \in Nat
    BY DEF PipelineInv, PipelineTypes, ClaimBook, Budgets
  <2> QED
    BY <2>1, <2>2 DEF Budgets, BudgetRests
<1>4. worker'[c] = w /\ w.pc = "inspect" /\ w.policy = run.policy /\ ~w.error
  <2>1. worker \in [Claims -> WorkersOf(Planned)]
    BY DEF PipelineInv, PipelineTypes
  <2> QED
    BY <1>1, <1>2, <2>1 DEF Idle
<1>5. \A l \in Planned : ~Intact(o[l])
  <2>1. \A l \in Labels : o[l] = Absent
    BY <1>1 DEF PipelineInv, FreshClaims, Untouched
  <2> QED
    BY <2>1, PlannedAre DEF PipelineInv, Absent, Intact
<1>6. run.policy = "allow_degraded" => fallback = "allow_degraded"
  BY DEF HeroInv, PolicyRelaxedOnce
<1> HIDE DEF c, w, o
<1>7. \A k : OwnerIs(w, o, k)
  BY <1>4, <1>5, <1>6 DEF OwnerIs, Profiling, Telling, Told, Drawing
<1>8. OwnerFits(attempt)'
  <2>1. \A f, g, k : f = w /\ g = o => OwnerIs(f, g, k)'
    BY <1>2, <1>3, <1>7, FitsStay
  <2>2. \A d : d = c => worker'[d] = w /\ objects'[d] = o
    BY <1>2, <1>4 DEF o
  <2>3. \A d : d = c => OwnerFits(d)'
    BY <2>1, <2>2 DEF OwnerFits
  <2>4. \A d : d = attempt' => OwnerFits(d)'
    BY <1>2, <2>3
  <2> QED
    BY <2>4
<1>9. Fits(Content(checkpoint), Artifacts(checkpoint))'
  BY <1>2, <1>3, FitsStay DEF HeroInv
<1> QED
  BY <1>1, <1>2, <1>3, <1>8, <1>9, PolicyStays, EditionFitStays DEF HeroInv

LEMMA RunEndsFits ==
    ASSUME PipelineInv, HeroInv, RecoverRun \/ CancelRun
    PROVE  HeroInv'
<1>1. /\ UNCHANGED <<attempt, checkpoint, edition, fallback>> /\ BudgetRests
      /\ \E status \in {"failed", "cancelled"} : run' = [run EXCEPT !.status = status]
  BY BudgetKept, BudgetSpent DEF RecoverRun, CancelRun, outsideVars, bookVars, PipelineInv
<1>2. run'.status # "running" /\ run'.policy = run.policy
  BY <1>1 DEF PipelineInv, PipelineTypes, RunsOf
<1> QED
  BY <1>1, <1>2, OwnerStays

LEMMA EditBookInputFits ==
    ASSUME PipelineInv, HeroInv, EditBookInput
    PROVE  HeroInv'
BY OwnerStays, BudgetSpent DEF EditBookInput, bookVars, PipelineInv

LEMMA LoseObjectFits ==
    ASSUME PipelineInv, HeroInv, NEW c \in Claims, NEW l \in Assets, LoseObject(c, l)
    PROVE  HeroInv'
<1>1. UNCHANGED <<attempt, checkpoint, edition, fallback, run, worker>> /\ BudgetRests
  BY BudgetSpent DEF LoseObject, outsideVars, bookVars, PipelineInv
<1>2. PICK left \in {Absent, Torn} : objects' = [objects EXCEPT ![c][l] = left]
  BY DEF LoseObject
<1>3. /\ c < attempt /\ c \in Nat /\ attempt \in 0..MaxClaims
      /\ objects \in [Claims -> [Labels -> Bytes]]
  BY DEF LoseObject, PipelineInv, PipelineTypes, Claims
<1>4. attempt \in Claims \ {c}
  BY <1>3, PipelineAssumption DEF Claims
<1>5. objects'[attempt] = objects[attempt]
  BY <1>2, <1>3, <1>4
<1> QED
  BY <1>1, <1>5, OwnerStays

\* The policy is relaxed, and what it permitted it still permits.
LEMMA SwitchPolicyFits ==
    ASSUME PipelineInv, HeroInv, SwitchPolicy
    PROVE  HeroInv'
<1>1. /\ UNCHANGED <<attempt, run, worker, objects, checkpoint, edition>>
      /\ Planned' = Planned /\ pipelineBudget.switches = 1 /\ fallback = "required"
      /\ pipelineBudget'.switches = 0 /\ fallback' = "allow_degraded"
  BY DEF SwitchPolicy, SpendPipeline, bookVars, HeroInv, PolicyRelaxedOnce, Planned, PipelineInv,
     PipelineTypes, Budgets
<1>2. PolicyRelaxedOnce'
  BY <1>1 DEF PolicyRelaxedOnce
<1>3. \A f, g : Fits(f, g) => Fits(f, g)'
  BY <1>1 DEF Fits
<1>4. \A w, o, kept : OwnerIs(w, o, kept) => OwnerIs(w, o, kept)'
  <2>1. \A w, kept : ReuseFits(w, kept)' <=> ReuseFits(w, kept)
    BY <1>1 DEF ReuseFits
  <2>2. \A w, o : ImagesFit(w, o)' <=> ImagesFit(w, o)
    BY <1>1 DEF ImagesFit
  <2> QED
    BY <1>1, <2>1, <2>2 DEF OwnerIs
<1>5. Fits(Content(checkpoint), Artifacts(checkpoint))'
  BY <1>1, <1>3 DEF HeroInv
<1>6. run.status = "running" => OwnerFits(attempt)'
  <2>1. \A f, g, h : OwnerIs(f, g, h) => OwnerIs(f, g, h)'
    BY <1>4
  <2> DEFINE w == worker[attempt]
             o == objects[attempt]
             k == KeptContent(checkpoint, w.input)
  <2>2. \A f, g, h : f = w /\ g = o /\ h = k /\ run.status = "running" => OwnerIs(f, g, h)'
    BY <2>1 DEF HeroInv, OwnerFits
  <2>3. /\ worker'[attempt'] = w /\ objects'[attempt'] = o
        /\ KeptContent(checkpoint', worker'[attempt'].input) = k
    BY <1>1
  <2>4. \A f, g, h : /\ f = worker'[attempt'] /\ g = objects'[attempt'] /\ run.status = "running"
                     /\ h = KeptContent(checkpoint', worker'[attempt'].input)
                     => OwnerIs(f, g, h)'
    BY <2>2, <2>3
  <2> HIDE DEF w, o, k
  <2> QED
    BY <2>4 DEF OwnerFits
<1>7. EditionIsOneBook' /\ DegradationRecorded'
  BY <1>1 DEF HeroInv, EditionIsOneBook, DegradationRecorded, Published
<1> QED
  BY <1>1, <1>2, <1>5, <1>6, <1>7 DEF HeroInv

\* At first nothing is kept, and nothing published.
LEMMA PipelineInit_Fits ==
    ASSUME PipelineInit, NeverTightened
    PROVE  HeroInv
<1>1. /\ checkpoint.by = 0 /\ checkpoint.source = <<>> /\ edition.by = 0
      /\ checkpoint.content = Nothing /\ checkpoint.artifacts = Nothing
      /\ run.status = "draft" /\ run.policy = fallback
      /\ pipelineBudget \in PipelineBudgets /\ fallback = pipelineBudget.policy
  BY DEF PipelineInit
<1>2. PolicyRelaxedOnce
  BY <1>1 DEF NeverTightened, PolicyRelaxedOnce
<1>3. Fits(Content(checkpoint), Artifacts(checkpoint))
  <2>1. Content(checkpoint) = Nothing /\ Artifacts(checkpoint) = Nothing
    BY <1>1 DEF Content, Artifacts
  <2> QED
    BY <2>1, NothingIs DEF Fits
<1> QED
  BY <1>1, <1>2, <1>3 DEF HeroInv, EditionIsOneBook, DegradationRecorded, Published

\* All steps of the owner.
LEMMA OwnerStepFits ==
    ASSUME PipelineInv, HeroInv, NEW c \in Claims, Owned(c),
           PipelineStep(c) \/ PipelineFault(c) \/ WorkerStops(c)
    PROVE  HeroInv'
<1>1. CASE WorkerStops(c)
  BY <1>1, WorkerStopsFits
<1>2. CASE PipelineStep(c)
  <2>1. UNCHANGED outsideVars
    BY <1>2 DEF PipelineStep
  <2>2. ASSUME NEW l \in Planned, ImageStep(c, l) PROVE HeroInv'
    BY <2>1, <2>2, AdoptImageFits, RecordImageFits, DrawImageFits, ImageStoredFits DEF ImageStep
  <2> QED
    BY <1>2, <2>1, <2>2, InspectWorkFits, PlanReuseFits, BuildProfileFits, DrawSheetFits,
       SheetStoredFits, RecordSheetFits, CheckpointProfileFits, TellStoryFits, LoadReferenceFits,
       StartDrawingFits, StoreBookCandidateFits, RenderPdfFits, EndRunFits DEF PipelineStep
<1>3. CASE PipelineFault(c)
  BY <1>3, SheetFailsFits, StoryFailsFits, ImageFailsFits DEF PipelineFault
<1> QED
  BY <1>1, <1>2, <1>3

\* Every step keeps the parts fitting.
LEMMA PipelineNext_Fits ==
    ASSUME PipelineInv, HeroInv, [PipelineNext]_pipelineVars
    PROVE  HeroInv'
<1>1. CASE PipelineNext
  BY <1>1, OwnerStepFits, StaleFits, ScheduleRunFits, ClaimBookFits, RunEndsFits,
     EditBookInputFits, SwitchPolicyFits, LoseObjectFits DEF PipelineNext
<1>2. CASE UNCHANGED pipelineVars
  <2>1. /\ UNCHANGED <<attempt, checkpoint, edition, fallback>>
        /\ UNCHANGED <<run, worker, objects, pipelineBudget>>
    BY <1>2 DEF pipelineVars
  <2> QED
    BY <2>1, BudgetKept, OwnerStays DEF PipelineInv
<1> QED
  BY <1>1, <1>2

\* As long as the policy is never taken back from allow_degraded to required, what is
\* published is one book: the story is about the profile shown, every image was drawn for
\* this story without or with the sheet of this profile, and a book that lacks anything of
\* that says so.  Without the hypothesis FallbackIsRecorded is violated (run fallback).
THEOREM EditionsAreOneBook == NeverTightened => (PipelineSpec => []EditionsAreWhole)
<1>1. PipelineInv /\ HeroInv => EditionsAreWhole
  BY PipelineInvTypes DEF HeroInv, EditionsAreWhole
<1>2. ASSUME NeverTightened PROVE PipelineInit => HeroInv
  BY <1>2, PipelineInit_Fits
<1>3. PipelineInv /\ HeroInv /\ [PipelineNext]_pipelineVars => HeroInv'
  BY PipelineNext_Fits
<1>4. ASSUME NeverTightened PROVE PipelineSpec => []EditionsAreWhole
  BY <1>1, <1>2, <1>3, <1>4, PipelineInvariant, PTL DEF PipelineSpec
<1> QED
  BY <1>4
=============================================================================
