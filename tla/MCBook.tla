--------------------------------- MODULE MCBook ---------------------------------
(***************************************************************************)
(* One book for TLC: the content of its generation, the page that shows    *)
(* it, the shelf it stands on, the storage of its images and the           *)
(* deployment it is served from.  They share no state, so one part moves   *)
(* in a behaviour and the others rest.                                     *)
(***************************************************************************)
EXTENDS BookPipeline, BookPage, BookShelf, Deployment, ArtifactStorage

VARIABLE part
bookPartVars == <<part, pipelineVars, pageVars, shelfVars, deploymentVars, storageVars>>

----------------------------------------------------------------------------
(* Generation: overlapping claims, faults, lost images; an edit and a      *)
(* cancellation; a fallback profile, and the policy relaxed.               *)

B(i, p, n, o, f, l, e, c, s) ==
    [images |-> i, policy |-> p, claims |-> n, overlaps |-> o, faults |-> f, losses |-> l,
     edits |-> e, cancels |-> c, switches |-> s]
One == {"page_1"}
Two == {"cover", "page_1"}
MCPipelineBudgets ==
    {B(Two, "required", 2, 1, 1, 0, 0, 0, 0), B(Two, "required", 2, 0, 0, 1, 0, 0, 0),
     B(One, "allow_degraded", 3, 0, 1, 0, 0, 0, 0), B(One, "required", 2, 1, 0, 1, 1, 0, 0),
     B(One, "required", 2, 1, 0, 0, 1, 1, 0), B(One, "required", 2, 0, 1, 0, 0, 0, 1)}

\* What EditionsAreOneBook supposes.
ASSUME PolicyOnlyRelaxed == NeverTightened

----------------------------------------------------------------------------
(* The page: a run started, cancelled or started twice, with a fault, a    *)
(* sleeping tab or another tab; edits, revisions and page turns.           *)

G(b, st, ca, sa, te, re, rf, tu, ta, fa, sl) ==
    [first |-> b, starts |-> st, cancels |-> ca, saves |-> sa, texts |-> te, revisions |-> re,
     refreshes |-> rf, turns |-> tu, tabs |-> ta, faults |-> fa, sleeps |-> sl]
MCPageBudgets ==
    {G("created", 1, 1, 0, 0, 0, 0, 0, 0, 1, 0), G("created", 1, 0, 0, 0, 0, 1, 0, 0, 1, 1),
     G("created", 1, 0, 0, 0, 0, 0, 0, 2, 0, 0), G("created", 1, 0, 0, 0, 0, 1, 0, 1, 0, 1),
     G("complete", 0, 0, 0, 0, 1, 0, 1, 1, 0, 0), G("complete", 0, 0, 0, 0, 1, 0, 1, 0, 1, 0),
     G("complete", 0, 0, 1, 0, 1, 0, 1, 0, 0, 0), G("complete", 0, 0, 0, 1, 0, 1, 1, 1, 0, 0),
     G("created", 2, 0, 0, 0, 0, 0, 0, 0, 0, 0), G("complete", 1, 0, 0, 0, 0, 0, 1, 0, 0, 0)}

----------------------------------------------------------------------------
(* The shelf: three books on pages of one; lists, clicks, other tabs, and  *)
(* deletions under way or held up when it opens.                           *)

S(w, l, c, o, s, f, e, k) ==
    [opened |-> w, loads |-> l, clicks |-> c, others |-> o, stalls |-> s, faults |-> f,
     erasing |-> e, cards |-> k]
MCShelfBudgets ==
    {S(FALSE, 2, 0, 0, 0, 1, {}, {}), S(TRUE, 4, 0, 0, 0, 1, {}, {}),
     S(TRUE, 2, 2, 0, 0, 0, {}, {}), S(TRUE, 0, 1, 0, 1, 0, {3}, {}),
     S(TRUE, 0, 0, 0, 1, 1, {2, 3}, {}), S(TRUE, 0, 0, 1, 1, 0, {3}, {}),
     S(FALSE, 0, 0, 0, 1, 1, {3}, {}), S(TRUE, 2, 1, 0, 0, 0, {}, {1, 2, 3}),
     S(FALSE, 0, 1, 0, 0, 0, {2, 3}, {}), S(FALSE, 1, 1, 0, 0, 1, {}, {})}

----------------------------------------------------------------------------
(* The deployment: any two edits before one deploy, any edit between two,  *)
(* the storage settings around a publication; two migrations with a slip.  *)

D(e, s, d, b, l, m) ==
    [edits |-> e, settings |-> s, deploys |-> d, books |-> b, slips |-> l, migrations |-> m]
StorageSettings ==
    {"NODE_ENV", "ENABLE_GENERATION_WORKER", "PDF_STORAGE_DRIVER", "IMAGE_STORAGE_DRIVER",
     "PDF_STORAGE_BUCKET"}
MCDeployBudgets ==
    {D(2, Settings, 1, 0, 0, 0), D(1, Settings \ {"PDF_STORAGE"}, 2, 0, 0, 0),
     D(2, StorageSettings, 3, 1, 0, 0), D(0, {}, 0, 0, 1, 2)}

----------------------------------------------------------------------------
(* The storage: both drivers, an image that is whole, torn, of other       *)
(* content or missing, with a takeover, a fault, readers and removals.     *)

MCFormats == <<"png", "jpg", "webp">>
A(d, s, h, f, w, n, x, t, r, v, k) ==
    [driver |-> d, source |-> s, hash |-> h, format |-> f, draws |-> w, claims |-> n,
     changed |-> x, faults |-> t, reads |-> r, removals |-> v, closed |-> k]
MCStorageBudgets ==
    {A("cloud", "a", "a", "png", {"jpg"}, 2, TRUE, 1, 1, 1, FALSE),
     A("cloud", "a", "a", "png", {"jpg"}, 2, TRUE, 0, 2, 0, FALSE),
     A("cloud", "a", "a", "png", {"jpg"}, 2, FALSE, 0, 2, 1, FALSE),
     A("local", "a", "a", "jpg", {"png"}, 2, FALSE, 1, 1, 1, TRUE),
     A("local", "b", "a", "png", {"jpg"}, 2, FALSE, 0, 0, 1, FALSE),
     A("cloud", "torn", "unknown", "png", {"jpg"}, 2, TRUE, 1, 0, 0, FALSE),
     A("cloud", "none", "none", "png", {"png", "jpg"}, 1, FALSE, 0, 2, 1, FALSE)}

----------------------------------------------------------------------------
(* One part at a time.                                                     *)

PipelineRests == PipelineInit /\ pipelineBudget = B(One, "required", 2, 1, 0, 0, 1, 1, 0)
PageRests == PageInit /\ pageBudget = G("created", 2, 0, 0, 0, 0, 0, 0, 0, 0, 0)
ShelfRests == ShelfInit /\ shelfBudget = S(TRUE, 2, 2, 0, 0, 0, {}, {})
DeploymentRests == DeploymentInit /\ dbudget = D(0, {}, 0, 0, 1, 2)
StorageRests ==
    StorageInit /\ sbudget = A("cloud", "none", "none", "png", {"png", "jpg"}, 1, FALSE, 0, 2, 1, FALSE)

BookInit ==
    /\ part \in {"pipeline", "page", "shelf", "deployment", "storage"}
    /\ IF part = "pipeline" THEN PipelineInit ELSE PipelineRests
    /\ IF part = "page" THEN PageInit ELSE PageRests
    /\ IF part = "shelf" THEN ShelfInit ELSE ShelfRests
    /\ IF part = "deployment" THEN DeploymentInit ELSE DeploymentRests
    /\ IF part = "storage" THEN StorageInit ELSE StorageRests

BookNext ==
    /\ part' = part
    /\ \/ /\ part = "pipeline" /\ PipelineNext
          /\ UNCHANGED <<pageVars, shelfVars, deploymentVars, storageVars>>
       \/ /\ part = "page" /\ PageNext
          /\ UNCHANGED <<pipelineVars, shelfVars, deploymentVars, storageVars>>
       \/ /\ part = "shelf" /\ ShelfNext
          /\ UNCHANGED <<pipelineVars, pageVars, deploymentVars, storageVars>>
       \/ /\ part = "deployment" /\ DeploymentNext
          /\ UNCHANGED <<pipelineVars, pageVars, shelfVars, storageVars>>
       \/ /\ part = "storage" /\ StorageNext
          /\ UNCHANGED <<pipelineVars, pageVars, shelfVars, deploymentVars>>

\* The fairness of every part, of its steps while it is the one that moves.
BookFairness ==
    /\ WF_pipelineVars(part = "pipeline" /\ RecoverRun)
    /\ WF_pipelineVars(part = "pipeline" /\ run.status = "queued" /\ ClaimBook)
    /\ \A c \in Claims : WF_pipelineVars(part = "pipeline" /\ PipelineStep(c))
    /\ WF_pageVars(part = "page" /\ RunMoves) /\ WF_pageVars(part = "page" /\ RevisionMoves)
    /\ WF_pageVars(part = "page" /\ Commit) /\ WF_pageVars(part = "page" /\ LoopStep)
    /\ WF_pageVars(part = "page" /\ Wake) /\ WF_pageVars(part = "page" /\ WatchFires)
    /\ WF_pageVars(part = "page" /\ WatchAnswered)
    /\ \A k \in {"progress", "full", "watch"} : WF_pageVars(part = "page" /\ Serve(k))
    /\ WF_shelfVars(part = "shelf" /\ PollStep)
    /\ \A b \in Books : WF_shelfVars(part = "shelf" /\ Erase(b))

Spec == BookInit /\ [][BookNext]_bookPartVars /\ BookFairness
=============================================================================
