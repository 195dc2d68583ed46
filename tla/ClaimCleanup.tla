---------------------------- MODULE ClaimCleanup ----------------------------
(***************************************************************************)
(* The sweeper of orphaned claim artifacts (agent/claim-artifact-cleanup)  *)
(* against the writers of one book: generation claims that adopt the       *)
(* artifacts of earlier claims through the checkpoint, page image          *)
(* revisions and page text edits.                                          *)
(*                                                                         *)
(* A namespace is <<kind, id, fencingVersion>>; a stored object is a       *)
(* namespace and a file: an illustration label (images driver) or "pdf".   *)
(* Storage ages are abstracted to "every object of the namespace is older  *)
(* than the retention" (aged).  The lease generation is abstracted to its  *)
(* owner: a restarted instance has a new instanceId, so the lease of a     *)
(* crashed one belongs to Dead.                                            *)
(***************************************************************************)
EXTENDS Naturals, Sequences, FiniteSets, Functions, SequencesExt

CONSTANTS Sweepers, Labels, Inputs,   \* worker processes, illustrations, input hashes
          NoNs, Dead, NoOwner,        \* model values
          MaxRun, MaxFence, MaxRevision, MaxEdit, \* the identifiers there are
          MaxObjects, MaxNamespaces,  \* the per-pass limits of the sweeper
          Budgets  \* how often each bounded event may happen in a behaviour: see budget

ASSUME CleanupBounds == /\ {MaxRun, MaxFence, MaxRevision, MaxEdit} \subseteq Nat
                        /\ {MaxObjects, MaxNamespaces} \subseteq Nat \ {0}
                        /\ \A b \in Budgets : b.runs \in 0..MaxRun /\ b.revisions \in 0..MaxRevision
                                              /\ b.edits \in 0..MaxEdit /\ b.sweepers \subseteq Sweepers

VARIABLES objects,   \* stored objects of both drivers
          aged,      \* namespaces whose newest object is past the retention
          bookRow,   \* the Book row and its BookPage overrides
          claim,     \* how far the live claim of the active run is
          edit,      \* the text edit or page image revision being written
          sweeper,   \* per process: where its pass is
          cleanupLease, \* the recovery_leases row of the sweep
          spent,     \* how much of the budget has been used
          budget     \* runs, claims, revisions, edits, late saves, faults and sweeping processes

cleanupVars == <<objects, aged, bookRow, claim, edit, sweeper, cleanupLease, spent, budget>>
rowVars == <<bookRow, claim, edit>>
sweepVars == <<sweeper, cleanupLease, budget>>

Files == Labels \cup {"pdf"}
Ns(kind, id, fence) == <<kind, id, fence>>
Namespaces == ({"run"} \X (1..MaxRun) \X (1..MaxFence))
              \cup ({"revision"} \X (1..MaxRevision) \X {1})
              \cup ({"edit"} \X (1..MaxEdit) \X {1})
MaybeNs == Namespaces \cup {NoNs}
ASSUME NoNsIsNoNamespace == NoNs \notin Namespaces
Keys == [ns: Namespaces, file: Files]
Key(n, f) == [ns |-> n, file |-> f]
Stored(n) == {k \in objects : k.ns = n}
NoArtifacts == [l \in Labels |-> NoNs]

NoCheckpoint == [owner |-> NoNs, input |-> 0, art |-> NoArtifacts,
                 srcOwner |-> NoNs, srcArt |-> NoArtifacts]
EmptyRow == [exists |-> TRUE, active |-> 0, fence |-> 0, input |-> 0, revision |-> 0,
             published |-> NoNs, publishedPdf |-> NoNs,
             overrides |-> NoArtifacts, checkpoint |-> NoCheckpoint]
IdleSweeper == [pc |-> "idle", keys |-> {}, queue |-> <<>>, todo |-> {}]

CleanupInit ==
    /\ objects = {} /\ aged = {}
    /\ bookRow = EmptyRow
    /\ claim = "none"
    /\ edit = <<>>
    /\ sweeper = [s \in Sweepers |-> IdleSweeper]
    /\ cleanupLease = [owner |-> NoOwner, live |-> FALSE]
    /\ budget \in Budgets
    /\ spent = [runs |-> 0, claims |-> 0, revisions |-> 0, edits |-> 0, late |-> 0, faults |-> 0]

----------------------------------------------------------------------------
(* The writers. *)

CurrentNs == Ns("run", bookRow.active, bookRow.fence)
Save(n, f) == objects' = objects \cup {Key(n, f)} /\ aged' = aged \ {n}

\* What a later claim may adopt: the checkpoint's own artifacts over its source's.
EffectiveArtifacts ==
    [l \in Labels |-> IF bookRow.checkpoint.art[l] # NoNs THEN bookRow.checkpoint.art[l]
                                                          ELSE bookRow.checkpoint.srcArt[l]]
Compatible == bookRow.checkpoint.owner # NoNs /\ bookRow.checkpoint.input = bookRow.input

\* generation-execution.checkpoint: the first write of a claim freezes the
\* effective artifacts of the prior owner as its source; later ones merge.
Checkpointed(art) ==
    LET old == bookRow.checkpoint IN
    IF old.owner = CurrentNs
    THEN [old EXCEPT !.art = [l \in Labels |-> IF art[l] # NoNs THEN art[l] ELSE old.art[l]]]
    ELSE [owner |-> CurrentNs, input |-> bookRow.input, art |-> art,
          srcOwner |-> IF Compatible THEN old.owner ELSE NoNs,
          srcArt |-> IF Compatible THEN EffectiveArtifacts ELSE NoArtifacts]

StartRun ==
    /\ bookRow.exists /\ bookRow.active = 0 /\ bookRow.revision = 0
    /\ spent.runs < budget.runs
    /\ \E i \in Inputs :
         bookRow' = [bookRow EXCEPT !.active = spent.runs + 1, !.fence = 0, !.input = i]
    /\ spent' = [spent EXCEPT !.runs = @ + 1]
    /\ UNCHANGED <<objects, aged, claim, edit, sweepVars>>

Released == [bookRow EXCEPT !.active = 0, !.fence = 0, !.input = 0]

\* A delivery claims the run, or a redelivery takes it over under a new fence.
ClaimRun ==
    /\ bookRow.active # 0 /\ bookRow.fence < MaxFence /\ spent.claims < budget.claims
    /\ spent' = [spent EXCEPT !.claims = @ + 1]
    /\ bookRow' = [bookRow EXCEPT !.fence = @ + 1]
    /\ claim' = "claimed"
    /\ UNCHANGED <<objects, aged, edit, sweepVars>>

\* The checkpoint after the character stage.
CheckpointCharacter ==
    /\ claim = "claimed"
    /\ bookRow' = [bookRow EXCEPT !.checkpoint = Checkpointed(NoArtifacts)]
    /\ claim' = "drawing"
    /\ UNCHANGED <<objects, aged, edit, sweepVars, spent>>

Pending(l) == claim = "drawing" /\ bookRow.checkpoint.art[l] = NoNs

\* resolveArtifact: a source of the effective checkpoint that is still stored is
\* copied forward, any other illustration is drawn again; either way the claim's
\* own key is written.
SettleImage(l) ==
    /\ Pending(l) /\ Key(CurrentNs, l) \notin objects
    /\ Save(CurrentNs, l)
    /\ UNCHANGED <<rowVars, sweepVars, spent>>

RecordArtifact(l) ==
    /\ Pending(l) /\ Key(CurrentNs, l) \in objects
    /\ bookRow' = [bookRow EXCEPT !.checkpoint = Checkpointed([NoArtifacts EXCEPT ![l] = CurrentNs])]
    /\ UNCHANGED <<objects, aged, claim, edit, sweepVars, spent>>

StorePreview ==
    /\ claim = "drawing" /\ \A l \in Labels : ~Pending(l)
    /\ Save(CurrentNs, "pdf")
    /\ claim' = "stored"
    /\ UNCHANGED <<bookRow, edit, sweepVars, spent>>

PublishRun ==
    /\ claim = "stored"
    /\ bookRow' = [Released EXCEPT !.published = CurrentNs,
                                  !.publishedPdf = NoNs, !.overrides = NoArtifacts]
    /\ claim' = "none"
    /\ UNCHANGED <<objects, aged, edit, sweepVars, spent>>

\* Any terminal failure, cancellation or abandoned run.
EndRunUnpublished ==
    /\ bookRow.active # 0
    /\ bookRow' = Released
    /\ claim' = "none"
    /\ UNCHANGED <<objects, aged, edit, sweepVars, spent>>

\* A superseded or ended claim's save lands late: saves are not fenced.
LateSave(n, f) ==
    /\ n[1] = "run" /\ n[2] <= spent.runs /\ n # CurrentNs
    /\ n[2] = bookRow.active => n[3] < bookRow.fence
    /\ Stored(n) # {} /\ spent.late < budget.late
    /\ Save(n, f)
    /\ spent' = [spent EXCEPT !.late = @ + 1]
    /\ UNCHANGED <<rowVars, sweepVars>>

Readable == bookRow.exists /\ bookRow.published # NoNs
RevisionNs == Ns("revision", bookRow.revision, 1)
EditNs == Ns("edit", spent.edits, 1)

StartRevision ==
    /\ Readable /\ bookRow.active = 0 /\ bookRow.revision = 0 /\ spent.revisions < budget.revisions
    /\ bookRow' = [bookRow EXCEPT !.revision = spent.revisions + 1]
    /\ spent' = [spent EXCEPT !.revisions = @ + 1]
    /\ UNCHANGED <<objects, aged, claim, edit, sweepVars>>

StoreCandidate(l) ==
    /\ bookRow.revision # 0 /\ Stored(RevisionNs) = {}
    /\ Save(RevisionNs, l)
    /\ UNCHANGED <<rowVars, sweepVars, spent>>

StoreRevisionPdf ==
    /\ bookRow.revision # 0 /\ Stored(RevisionNs) # {} /\ Key(RevisionNs, "pdf") \notin objects
    /\ Save(RevisionNs, "pdf")
    /\ UNCHANGED <<rowVars, sweepVars, spent>>

PublishRevision ==
    /\ bookRow.revision # 0 /\ Key(RevisionNs, "pdf") \in objects
    /\ \E l \in Labels :
         /\ Key(RevisionNs, l) \in objects
         /\ bookRow' = [bookRow EXCEPT !.revision = 0, !.publishedPdf = RevisionNs,
                                       !.overrides[l] = RevisionNs]
    /\ UNCHANGED <<objects, aged, claim, edit, sweepVars, spent>>

FailRevision ==
    /\ bookRow.revision # 0
    /\ bookRow' = [bookRow EXCEPT !.revision = 0]
    /\ UNCHANGED <<objects, aged, claim, edit, sweepVars, spent>>

\* A text edit stores its PDF under a fresh namespace no Book pointer names yet.
StoreEditPdf ==
    /\ Readable /\ bookRow.active = 0 /\ bookRow.revision = 0
    /\ edit = <<>> /\ spent.edits < budget.edits
    /\ edit' = <<bookRow>>
    /\ spent' = [spent EXCEPT !.edits = @ + 1]
    /\ Save(Ns("edit", spent.edits + 1, 1), "pdf")
    /\ UNCHANGED <<bookRow, claim, sweepVars>>

\* Its publication compares the row it read, and keeps the page's own image.
PublishEdit ==
    /\ edit # <<>>
    /\ edit' = <<>>
    /\ \/ /\ edit = <<bookRow>>
          /\ \E l \in Labels :
               bookRow' = [bookRow EXCEPT !.publishedPdf = EditNs,
                   !.overrides[l] = IF @ = NoNs THEN bookRow.published ELSE @]
       \/ UNCHANGED bookRow
    /\ UNCHANGED <<objects, aged, claim, sweepVars, spent>>

\* Permanent deletion erases the book's artifacts and then its row.
EraseBook ==
    /\ bookRow.exists /\ bookRow.active = 0 /\ bookRow.revision = 0 /\ edit = <<>>
    /\ bookRow' = [EmptyRow EXCEPT !.exists = FALSE]
    /\ objects' = {} /\ aged' = {}
    /\ UNCHANGED <<claim, edit, sweepVars, spent>>

\* Time passes the retention.  Retention is hours and a text edit's storage
\* write spans one request, so the namespace of an edit in flight is never old.
Age(n) ==
    /\ Stored(n) # {} /\ n \notin aged
    /\ ~(edit # <<>> /\ n = EditNs)
    /\ aged' = aged \cup {n}
    /\ UNCHANGED <<objects, rowVars, sweepVars, spent>>

Writers ==
    \/ StartRun \/ ClaimRun \/ CheckpointCharacter
    \/ \E l \in Labels : SettleImage(l) \/ RecordArtifact(l) \/ StoreCandidate(l)
    \/ StorePreview \/ PublishRun \/ EndRunUnpublished
    \/ \E n \in Namespaces, f \in Files : LateSave(n, f)
    \/ StartRevision \/ StoreRevisionPdf \/ PublishRevision \/ FailRevision
    \/ StoreEditPdf \/ PublishEdit \/ EraseBook
    \/ \E n \in Namespaces : Age(n)

----------------------------------------------------------------------------
(* The sweeper. *)

\* Mutants of the protection rules: page overrides, the checkpoint's source forgotten.
ProtectedNoOverrides(n) ==
    /\ bookRow.exists
    /\ \/ n \in {bookRow.published, bookRow.publishedPdf}
       \/ n \in {bookRow.checkpoint.owner, bookRow.checkpoint.srcOwner}
       \/ n[1] = "run" /\ n[2] = bookRow.active
       \/ n[1] = "revision" /\ n[2] = bookRow.revision
ProtectedNoSource(n) ==
    /\ bookRow.exists
    /\ \/ n \in {bookRow.published, bookRow.publishedPdf, bookRow.checkpoint.owner}
       \/ n[1] = "run" /\ n[2] = bookRow.active
       \/ n[1] = "revision" /\ n[2] = bookRow.revision
       \/ \E l \in Labels : n = bookRow.overrides[l]

\* classifyProtection without the retention check: what the row still names.
Protected(n) ==
    /\ bookRow.exists
    /\ \/ n \in {bookRow.published, bookRow.publishedPdf}
       \/ n \in {bookRow.checkpoint.owner, bookRow.checkpoint.srcOwner}
       \/ n[1] = "run" /\ n[2] = bookRow.active
       \/ n[1] = "revision" /\ n[2] = bookRow.revision
       \/ \E l \in Labels : n = bookRow.overrides[l]

At(s, pc) == sweeper[s].pc = pc
Goto(s, r) == sweeper' = [sweeper EXCEPT ![s] = r]
Done == [IdleSweeper EXCEPT !.pc = "done"]
HoldsLease(s) == cleanupLease.owner = s /\ cleanupLease.live

AcquireLease(s) ==
    /\ At(s, "idle") /\ s \in budget.sweepers
    /\ cleanupLease.owner = NoOwner \/ ~cleanupLease.live
    /\ cleanupLease' = [owner |-> s, live |-> TRUE]
    /\ Goto(s, [IdleSweeper EXCEPT !.pc = "leading"])
    /\ UNCHANGED <<objects, aged, rowVars, spent, budget>>

NamespacesOf(keys) == {k.ns : k \in keys}

\* Listing order: the namespaces by run and fence, as the drivers sort their keys.
Before(m, n) ==
    LET rank(k) == CASE k = "run" -> 1 [] k = "revision" -> 2 [] OTHER -> 3
    IN  \/ rank(m[1]) < rank(n[1])
        \/ m[1] = n[1] /\ (m[2] < n[2] \/ (m[2] = n[2] /\ m[3] < n[3]))
InOrder(S) == SetToSortSeq(S, Before)
FirstOf(seq) == SubSeq(seq, 1, IF Len(seq) < MaxNamespaces THEN Len(seq) ELSE MaxNamespaces)

\* Keep the queue's namespaces that pass, and their listed keys.
Filtered(r, pc, kept) ==
    LET queue == SelectSeq(r.queue, LAMBDA n : n \in kept)
    IN  IF queue = <<>> THEN Done
        ELSE [IdleSweeper EXCEPT !.pc = pc, !.queue = queue,
                                 !.keys = {k \in r.keys : k.ns \in kept}]

\* isWithinRetention.  Mutant: the age of an artifact is not looked at.
AnyAge(n) == n \in Namespaces
BeyondRetention(n) == n \in aged

\* Both drivers list what they store; the object budget ends discovery as soon as
\* it is reached, and then no group of the pass is looked at.  A group is as young
\* as its youngest object, and one within the retention is never deleted.
ListArtifacts(s) ==
    LET considered == FirstOf(InOrder(NamespacesOf(objects)))
        beyondRetention == {n \in Range(considered) : BeyondRetention(n)}
    IN  /\ At(s, "leading")
        /\ Goto(s, IF Cardinality(objects) >= MaxObjects THEN Done
                   ELSE Filtered([queue |-> considered, keys |-> objects], "listed",
                                 beyondRetention))
        /\ UNCHANGED <<objects, aged, rowVars, cleanupLease, spent, budget>>

\* The bulk snapshot of the Book rows: what it protects is not looked at again.
ReadBooks(s) ==
    LET eligible == {n \in Range(sweeper[s].queue) : ~Protected(n)}
    IN  /\ At(s, "listed")
        /\ Goto(s, Filtered(sweeper[s], "sweeping", eligible))
        /\ UNCHANGED <<objects, aged, rowVars, cleanupLease, spent, budget>>

ReadBooksFails(s) ==
    /\ At(s, "listed") /\ spent.faults < budget.faults
    /\ Goto(s, Done)
    /\ spent' = [spent EXCEPT !.faults = @ + 1]
    /\ UNCHANGED <<objects, aged, rowVars, cleanupLease, budget>>

\* stillHoldsLease before every namespace.
CheckLease(s) ==
    /\ At(s, "sweeping")
    /\ Goto(s, IF sweeper[s].queue # <<>> /\ HoldsLease(s)
               THEN [sweeper[s] EXCEPT !.pc = "held"] ELSE Done)
    /\ UNCHANGED <<objects, aged, rowVars, cleanupLease, spent, budget>>

\* Mutant: the keys still to delete outlive their namespace.
SkipHeadKeepsTodo(s) == [sweeper[s] EXCEPT !.pc = "sweeping", !.queue = Tail(@),
                                           !.keys = {k \in @ : k.ns # Head(sweeper[s].queue)}]
SkipHead(s) == [sweeper[s] EXCEPT !.pc = "sweeping", !.queue = Tail(@), !.todo = {},
                                  !.keys = {k \in @ : k.ns # Head(sweeper[s].queue)}]

\* The fresh read immediately before the deletes.
Revalidate(s) ==
    LET n == Head(sweeper[s].queue) IN
    /\ At(s, "held")
    /\ Goto(s, IF Protected(n) THEN SkipHead(s)
               ELSE [sweeper[s] EXCEPT !.pc = "deleting",
                                       !.todo = {k \in sweeper[s].keys : k.ns = n}])
    /\ UNCHANGED <<objects, aged, rowVars, cleanupLease, spent, budget>>

RevalidateFails(s) ==
    /\ At(s, "held") /\ spent.faults < budget.faults
    /\ Goto(s, SkipHead(s))
    /\ spent' = [spent EXCEPT !.faults = @ + 1]
    /\ UNCHANGED <<objects, aged, rowVars, cleanupLease, budget>>

\* One key's delete: done, already gone, or failed and left for a later pass.
DeleteKey(s, k) ==
    LET rest == sweeper[s].todo \ {k} IN
    /\ At(s, "deleting") /\ k \in sweeper[s].todo
    /\ \/ objects' = objects \ {k} /\ UNCHANGED spent
       \/ /\ spent.faults < budget.faults
          /\ spent' = [spent EXCEPT !.faults = @ + 1]
          /\ UNCHANGED objects
    /\ aged' = {n \in aged : \E o \in objects' : o.ns = n}
    /\ Goto(s, IF rest = {} THEN SkipHead(s) ELSE [sweeper[s] EXCEPT !.todo = rest])
    /\ UNCHANGED <<rowVars, cleanupLease, budget>>

\* Mutant: the pass ends without releasing the lease.
ReleaseForgotten(s) ==
    /\ At(s, "done")
    /\ Goto(s, IdleSweeper)
    /\ UNCHANGED <<objects, aged, rowVars, cleanupLease, spent, budget>>

ReleaseLease(s) ==
    /\ At(s, "done")
    /\ cleanupLease' = IF cleanupLease.owner = s THEN [owner |-> NoOwner, live |-> FALSE]
                       ELSE cleanupLease
    /\ Goto(s, IdleSweeper)
    /\ UNCHANGED <<objects, aged, rowVars, spent, budget>>

\* The process dies in a pass: its restart has a new instanceId.
SweeperCrash(s) ==
    /\ ~At(s, "idle") /\ spent.faults < budget.faults
    /\ Goto(s, IdleSweeper)
    /\ cleanupLease' = IF cleanupLease.owner = s THEN [cleanupLease EXCEPT !.owner = Dead]
                       ELSE cleanupLease
    /\ spent' = [spent EXCEPT !.faults = @ + 1]
    /\ UNCHANGED <<objects, aged, rowVars, budget>>

\* The lease runs out: always for a dead owner, as a fault for a slow pass.
CleanupLeaseExpires ==
    /\ cleanupLease.live
    /\ cleanupLease' = [cleanupLease EXCEPT !.live = FALSE]
    /\ \/ cleanupLease.owner = Dead /\ UNCHANGED spent
       \/ spent.faults < budget.faults /\ spent' = [spent EXCEPT !.faults = @ + 1]
    /\ UNCHANGED <<objects, aged, rowVars, sweeper, budget>>

Pass(s) == \/ AcquireLease(s) \/ ListArtifacts(s) \/ ReadBooks(s) \/ CheckLease(s)
           \/ Revalidate(s) \/ (\E k \in Keys : DeleteKey(s, k)) \/ ReleaseLease(s)

CleanupNext ==
    \/ Writers
    \/ \E s \in Sweepers : Pass(s) \/ ReadBooksFails(s) \/ RevalidateFails(s) \/ SweeperCrash(s)
    \/ CleanupLeaseExpires

\* The interval timer starts a pass again and a pass runs on; a lease runs out.
CleanupFairness == /\ \A s \in Sweepers : WF_cleanupVars(Pass(s))
                   /\ WF_cleanupVars(CleanupLeaseExpires /\ cleanupLease.owner = Dead)

CleanupSpec == CleanupInit /\ [][CleanupNext]_cleanupVars /\ CleanupFairness

----------------------------------------------------------------------------
(* Properties. *)

CleanupTypeOK ==
    /\ objects \subseteq Keys /\ aged \subseteq Namespaces
    /\ bookRow.active \in 0..MaxRun /\ bookRow.fence \in 0..MaxFence
    /\ {bookRow.published, bookRow.publishedPdf, bookRow.checkpoint.owner,
        bookRow.checkpoint.srcOwner} \subseteq MaybeNs
    /\ claim \in {"none", "claimed", "drawing", "stored"}
    /\ \A s \in Sweepers :
         /\ sweeper[s].keys \subseteq Keys /\ sweeper[s].todo \subseteq sweeper[s].keys
         /\ sweeper[s].pc \in {"idle", "leading", "listed", "sweeping", "held",
                               "deleting", "done"}
    /\ cleanupLease.owner \in Sweepers \cup {Dead, NoOwner}

\* The gap between the fresh read and the deletes (and between two sweepers, or a
\* sweeper that lost its lease and the next one) is harmless: at the instant an
\* object is removed, no pointer of the row names its namespace.
DeletedWasGarbage ==
    [][bookRow'.exists => \A k \in objects \ objects' : ~Protected(k.ns)]_cleanupVars

\* Whatever is swept, the illustrations and the PDF a reader is shown are stored,
\* through publications, page image revisions and text edits that move pointers.
ShownNs(l) == IF bookRow.overrides[l] # NoNs THEN bookRow.overrides[l] ELSE bookRow.published
PdfNs == IF bookRow.publishedPdf # NoNs THEN bookRow.publishedPdf ELSE bookRow.published
ReaderArtifactsKept ==
    Readable => /\ \A l \in Labels : Key(ShownNs(l), l) \in objects
                /\ Key(PdfNs, "pdf") \in objects

\* A retry can still adopt what the last two owners of the checkpoint stored: an
\* artifact recorded in the namespace of either is not swept before it is adopted.
ResumableKept ==
    bookRow.exists => \A l \in Labels :
        EffectiveArtifacts[l] \in {bookRow.checkpoint.owner, bookRow.checkpoint.srcOwner} \ {NoNs}
            => Key(EffectiveArtifacts[l], l) \in objects

\* Nothing is leaked: a namespace that stays unreferenced and past the retention
\* does not stay stored, whatever crashed, failed or lost its lease on the way.
OrphansCollected ==
    []<>(\A n \in Namespaces : Stored(n) = {} \/ n \notin aged \/ Protected(n))

\* Sweeping takes nothing that a reader is shown, a retry would adopt or a pointer
\* names, whatever claims, edits and other sweepers do meanwhile.
SweptWasGarbage ==
    /\ [](CleanupTypeOK /\ ReaderArtifactsKept /\ ResumableKept)
    /\ DeletedWasGarbage

=============================================================================
