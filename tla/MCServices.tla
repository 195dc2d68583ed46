------------------------------- MODULE MCServices -------------------------------
(***************************************************************************)
(* The services around generation for TLC: the artifact sweeper, login     *)
(* sessions, credit purchases, the image quota and the admission of runs;  *)
(* and with MCStories the interactive stories.  They share no state, so    *)
(* one part moves in a behaviour and the others rest.                      *)
(***************************************************************************)
EXTENDS MCStories, ClaimCleanup, LoginSessions, CreditPurchases, ImageQuota, GenerationAdmission

CONSTANTS s1, s2    \* sweepers

ServiceParts == {"cleanup", "login", "purchase", "quota", "admission"}
servicesVars == <<cleanupVars, loginVars, purchaseVars, quotaVars, admissionVars>>

----------------------------------------------------------------------------
(* Cleanup: claims and edits, a late object, two sweepers with a fault.    *)

C(r, c, v, e, l, f, ss) ==
    [runs |-> r, claims |-> c, revisions |-> v, edits |-> e, late |-> l, faults |-> f,
     sweepers |-> ss]
MCCleanupBudgets ==
    {C(2, 2, 0, 1, 0, 0, {s1}), C(1, 1, 1, 1, 0, 0, {s1}), C(2, 1, 1, 0, 0, 0, {s1}),
     C(2, 2, 0, 0, 0, 1, {s1}), C(1, 2, 0, 0, 1, 0, {s1}), C(1, 1, 0, 0, 1, 1, {s1, s2})}

----------------------------------------------------------------------------
(* Logins: two tabs; expiring tokens, reloads, losses, sign-ins and -outs. *)

S(e, r, f, i, l, p, s) ==
    [expiries |-> e, reloads |-> r, faults |-> f, logins |-> i, logouts |-> l, resets |-> p,
     slow |-> s]
MCLoginBudgets ==
    {S(0, 1, 0, 0, 0, 0, 1), S(0, 0, 1, 1, 0, 0, 0), S(0, 0, 1, 0, 1, 0, 0),
     S(1, 0, 0, 1, 1, 0, 0), S(0, 0, 1, 0, 0, 0, 1), S(2, 0, 0, 0, 0, 0, 0),
     S(0, 0, 0, 1, 0, 1, 0), S(0, 0, 0, 0, 1, 1, 0)}

----------------------------------------------------------------------------
(* Purchases: repeated webhooks, competing charges, crashes, the page.     *)

MCPackages == [starter |-> 2]
P(s, c, r, f, p, n) ==
    [sessions |-> s, charges |-> c, repeats |-> r, crashes |-> f, reprices |-> p, polls |-> n]
MCPurchaseBudgets ==
    {P(1, 1, 1, 1, 0, 0), P(1, 0, 1, 0, 1, 0), P(1, 2, 1, 0, 0, 0), P(1, 0, 0, 1, 0, 2),
     P(2, 0, 1, 0, 0, 0), P(1, 0, 0, 0, 1, 1)}

----------------------------------------------------------------------------
(* The quota: three image calls in two processes and one permit.           *)

MCProcessOf == [c \in QuotaCalls |-> IF c = "c3" THEN "p2" ELSE "p1"]
Q(c, t, a, l, o, r, f, e) ==
    [calls |-> c, retries |-> t, aborts |-> a, lates |-> l, losses |-> o, limits |-> r,
     failures |-> f, expiries |-> e]
AcrossProcesses == {"c1", "c3"}
MCQuotaBudgets ==
    {Q(QuotaCalls, 0, 0, 0, 0, 0, 0, 0), Q(AcrossProcesses, 0, 1, 1, 0, 0, 0, 0),
     Q(AcrossProcesses, 0, 0, 0, 1, 0, 0, 1), Q({"c1", "c2"}, 1, 0, 0, 0, 0, 1, 1),
     Q(AcrossProcesses, 0, 1, 0, 0, 1, 0, 0)}

----------------------------------------------------------------------------
(* One part at a time; the login part rests with the pages restored.       *)

CleanupRests == CleanupInit /\ budget = C(1, 1, 1, 1, 0, 0, {s1})
LoginRests ==
    /\ tokens = [i \in {<<1, 1>>} |-> Fresh] /\ cookie = <<1, 1>>
    /\ account = [password |-> 1, reset |-> Nobody] /\ mails = {} /\ calls = {} /\ lock = Nobody
    /\ pages = [t \in BrowserTabs |-> [NewPage(0) EXCEPT !.status = "authed", !.access = Access(0)]]
    /\ disturbed = FALSE /\ clockTick = 0 /\ loginBudget = S(2, 0, 0, 0, 0, 0, 0)
PurchaseRests == PurchaseInit /\ purchaseBudget = P(1, 0, 0, 0, 1, 1)
AdmissionRests == AdmissionInit /\ shelf = [b \in AdmissionBooks |-> "created"]
QuotaRests == QuotaInit /\ quotaBudget = Q(AcrossProcesses, 0, 1, 1, 0, 0, 0, 0)

ServicesInit ==
    /\ IF part = "cleanup" THEN CleanupInit ELSE CleanupRests
    /\ IF part = "login" THEN LoginInit ELSE LoginRests
    /\ IF part = "purchase" THEN PurchaseInit ELSE PurchaseRests
    /\ IF part = "quota" THEN QuotaInit ELSE QuotaRests
    /\ IF part = "admission" THEN AdmissionInit ELSE AdmissionRests

ServicesNext ==
    \/ /\ part = "cleanup" /\ CleanupNext
       /\ UNCHANGED <<loginVars, purchaseVars, quotaVars, admissionVars>>
    \/ /\ part = "login" /\ LoginNext
       /\ UNCHANGED <<cleanupVars, purchaseVars, quotaVars, admissionVars>>
    \/ /\ part = "purchase" /\ PurchaseNext
       /\ UNCHANGED <<cleanupVars, loginVars, quotaVars, admissionVars>>
    \/ /\ part = "quota" /\ QuotaNext
       /\ UNCHANGED <<cleanupVars, loginVars, purchaseVars, admissionVars>>
    \/ /\ part = "admission" /\ AdmissionNext
       /\ UNCHANGED <<cleanupVars, loginVars, purchaseVars, quotaVars>>

\* The fairness of every part, of its steps while it is the one that moves.
ServicesFairness ==
    /\ \A s \in Sweepers : WF_cleanupVars(part = "cleanup" /\ Pass(s))
    /\ WF_cleanupVars(part = "cleanup" /\ CleanupLeaseExpires /\ cleanupLease.owner = Dead)
    /\ WF_loginVars(part = "login" /\ ServerReplies)
    /\ \A t \in BrowserTabs : WF_loginVars(part = "login" /\ TabActs(t))
    /\ WF_purchaseVars(part = "purchase" /\ (\E w \in workers : WorkerStep(w)))
    /\ WF_purchaseVars(/\ part = "purchase"
                       /\ \E s \in DOMAIN checkouts : ~checkouts[s].acked /\ ~Handled(s) /\ Deliver(s))
    /\ WF_purchaseVars(part = "purchase" /\ Poll) /\ WF_purchaseVars(part = "purchase" /\ PollStep)
    /\ WF_purchaseVars(part = "purchase" /\ DeadlinePasses)
    /\ WF_quotaVars(part = "quota" /\ RedisStep)
    /\ \A c \in QuotaCalls : /\ WF_quotaVars(part = "quota" /\ CallStep(c))
                             /\ WF_quotaVars(part = "quota" /\ Gives(c))
    /\ \A k \in CounterKeys : WF_admissionVars(part = "admission" /\ KeyExpires(k))

Init == part \in StoryParts \cup ServiceParts /\ StoriesInit /\ ServicesInit

Next ==
    /\ part' = part
    /\ \/ StoriesNext /\ UNCHANGED servicesVars
       \/ ServicesNext /\ UNCHANGED storiesVars

Spec == Init /\ [][Next]_<<part, storiesVars, servicesVars>> /\ StoriesFairness /\ ServicesFairness
=============================================================================
