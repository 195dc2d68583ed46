-------------------------- MODULE ScenarioPublication --------------------------
(***************************************************************************)
(* From a candidate scenario to a story being played: the deterministic    *)
(* validation of a candidate, its editorial approval, the publication      *)
(* preflight, the guarded registry a server builds when it starts, and the *)
(* sessions of players, across restarts with a changed source tree.        *)
(*                                                                         *)
(* Definitions are those of StoryRules; the hash of a definition is the    *)
(* definition.  An approval record is [story, hash, decision, complete]:   *)
(* complete stands for a reviewer, a valid timestamp and every checklist   *)
(* item.  The file-format checks (JSON, sizes) are left out: definitions   *)
(* are well-formed JSON of the runtime schema.                             *)
(***************************************************************************)
EXTENDS StoryRules

CONSTANTS DraftHistories,   \* successive contents of the candidate file
          Pinned,           \* the definitions of the legacy baseline
          AuthoringLimits,  \* [scenes, decisions, endings, characters, choices]: <<min, max>> each
          MaxExplored,      \* MAX_EXPLORED_STATES
          MaxPublications   \* bound: changes of the published source, and restarts

ASSUME PublicationBounds == {MaxExplored, MaxPublications} \subseteq Nat

VARIABLES draft,     \* contents still to come; the head is the candidate file
          template,  \* the approval record beside the candidate, or None
          attested,  \* definitions a human completed an approval of
          ready,     \* definitions that passed the publication preflight
          tree,      \* the source tree: definitions, approval records, described identities
          server,    \* the definitions the running registry serves; {} when it is down
          play,      \* one player's stored session, or None
          changes    \* how often the tree or the server changed

publicationVars == <<draft, template, attested, ready, tree, server, play, changes>>
editorVars == <<draft, template, attested, ready>>

----------------------------------------------------------------------------
(* Mechanical validation: the first stage that fails, or "accepted". *)

AllTemplates(d) == UNION {Range(d.scenes[s].narration) : s \in DOMAIN d.scenes}
AllChoices(d) == UNION {Range(ChoicesIn(d, s)) : s \in DOMAIN d.scenes}
IdsUnique(records) ==   \* ids repeat neither in a scene nor across scenes
    /\ \A s \in DOMAIN records : IsInjective(Ids(records[s]))
    /\ \A s, t \in DOMAIN records :
         s # t => Range(Ids(records[s])) \cap Range(Ids(records[t])) = {}

KnownRequirement(d, r) ==
    CASE r[1] = "playerKnows" -> r[2] \in d.facts
      [] r[1] = "hasItem" -> r[2] \in DOMAIN d.oneTime
      [] OTHER -> r[2] \in d.flags
KnownEffect(d, e) ==
    CASE e[1] = "learnFact" -> e[2] \in d.facts
      [] e[1] = "npcLearns" -> e[2] \in Npcs(d) /\ e[3] \in d.facts
      [] e[1] = "giveItem" -> e[2] \in DOMAIN d.oneTime
      [] e[1] = "consumeItem" -> e[2] \in DOMAIN d.oneTime /\ d.oneTime[e[2]]
      [] e[1] = "setFlag" -> e[2] \in d.flags

Linked(d, s) == {c.to : c \in Range(ChoicesIn(d, s))} \cap DOMAIN d.scenes
\* The scenes a path of choices leads to from the scenes of S.
From(d, S) ==
    FoldSet(LAMBDA scene, found : found \cup UNION {Linked(d, s) : s \in found},
            S, DOMAIN d.scenes)
Terminal(d) == {s \in DOMAIN d.scenes : d.scenes[s].ending # None}

\* collectStructuralIssues finds nothing.
StructurallySound(d) ==
    /\ IdsUnique([s \in DOMAIN d.scenes |-> d.scenes[s].narration])
    /\ IdsUnique([s \in DOMAIN d.scenes |-> ChoicesIn(d, s)])
    /\ d.player \in d.characters /\ d.entry \in DOMAIN d.scenes
    /\ d.initial.knows \subseteq d.facts /\ d.initial.holds \subseteq DOMAIN d.oneTime
    /\ \A c \in Npcs(d) : d.initial.npcKnows[c] \subseteq d.facts
    /\ \A t \in AllTemplates(d) :
         /\ \A r \in Range(t.when) : KnownRequirement(d, r)
         /\ t.facts # <<>> => t.speaker # None
         /\ t.speaker # None => t.speaker \in d.characters
         /\ Range(t.facts) \subseteq d.facts
    /\ \A c \in AllChoices(d) :
         /\ c.to \in DOMAIN d.scenes
         /\ \A r \in Range(c.requires) : KnownRequirement(d, r)
         /\ \A e \in Range(c.effects) : KnownEffect(d, e)
    /\ \A s \in DOMAIN d.scenes : (s \in Terminal(d)) <=> (ChoicesIn(d, s) = <<>>)
    /\ {d.scenes[s].ending : s \in Terminal(d)} = d.endings
    /\ From(d, {d.entry}) = DOMAIN d.scenes
    /\ \A s \in DOMAIN d.scenes : From(d, {s}) \cap Terminal(d) # {}

HasCycle(d) == \E s \in DOMAIN d.scenes : s \in From(d, Linked(d, s))
Within(n, bounds) == bounds[1] <= n /\ n <= bounds[2]
\* collectAuthoringIssues finds nothing.
InAuthoringFormat(d) ==
    /\ Within(Cardinality(DOMAIN d.scenes), AuthoringLimits.scenes)
    /\ Within(Cardinality(d.endings), AuthoringLimits.endings)
    /\ Within(Cardinality(d.characters), AuthoringLimits.characters)
    /\ Within(Cardinality({s \in DOMAIN d.scenes : Len(ChoicesIn(d, s)) >= 2}), AuthoringLimits.decisions)
    /\ \A s \in DOMAIN d.scenes : Len(ChoicesIn(d, s)) <= AuthoringLimits.choices[2]
    /\ ~HasCycle(d)

Successors(d, state) == {Chosen(state, c.id, d) : c \in Range(Available(state, d))}
\* Every state play can reach, breadth first, until there are more than
\* MaxExplored of them; the history is part of a state, so no level repeats one.
Reachable(d) ==
    LET explore(found, i) ==
          IF found.level = {} \/ Cardinality(found.all) > MaxExplored THEN found
          ELSE LET next == UNION {Successors(d, state) : state \in found.level}
               IN  [level |-> next, all |-> found.all \cup next]
        start == {InitialState(d)}
    IN  FoldLeft(explore, [level |-> start, all |-> start], [i \in 1..(MaxExplored + 1) |-> i]).all
VoicesOnlyKnown(d, state) ==
    \A u \in Range(Utterances(Selected(d, state))) : SpeakerKnows(state, d, u[1], u[2])

\* Mutant: scenes are taken for dead ends, not states.
PlayableOnPaper(d) ==
    LET states == Reachable(d) IN
    /\ Cardinality(states) <= MaxExplored
    /\ \A state \in states : Selected(d, state) # <<>> /\ VoicesOnlyKnown(d, state)
    /\ {state.ending : state \in states} \ {None} = d.endings
    /\ UNION {Range(Ids(Available(state, d))) : state \in states} = {c.id : c \in AllChoices(d)}
\* Mutant: what the templates assert is not checked against the speaker.
PlayableUnvoiced(d) ==
    LET states == Reachable(d) IN
    /\ Cardinality(states) <= MaxExplored
    /\ \A state \in states : state.ending = None => Available(state, d) # <<>>
    /\ {state.ending : state \in states} \ {None} = d.endings
    /\ UNION {Range(Ids(Available(state, d))) : state \in states} = {c.id : c \in AllChoices(d)}
\* analyzeScenario finds no issue.
Playable(d) ==
    LET states == Reachable(d) IN
    /\ Cardinality(states) <= MaxExplored
    /\ \A state \in states :
         /\ Selected(d, state) # <<>> /\ VoicesOnlyKnown(d, state)
         /\ state.ending = None => Available(state, d) # <<>>
    /\ {state.ending : state \in states} \ {None} = d.endings
    /\ UNION {Range(Ids(Available(state, d))) : state \in states} = {c.id : c \in AllChoices(d)}

\* The log of a play with the given choices (playChoices).
LogOf(d, choices) ==
    LET states[k \in 0..Len(choices)] ==
          IF k = 0 THEN InitialState(d) ELSE Chosen(states[k - 1], choices[k], d)
    IN  [k \in 1..(Len(choices) + 1) |->
           [event |-> IF k = 1 THEN SessionStarted(d) ELSE ChoiceMade(states[k - 2], choices[k - 1]),
            hash |-> states[k - 1]]]
\* searchWitnessRoutes and verifyRoute: every reachable canonical narration is
\* accepted and the shortest route to every ending replays at every prefix.
Witnessed(d) ==
    LET states == Reachable(d)
        shortest(e) == CHOOSE state \in states :
            /\ state.ending = e
            /\ \A other \in states : other.ending = e => state.revision <= other.revision
    IN  /\ \A state \in states : NarrationCheck(Narration(d, state), d, state) = "ok"
        /\ \A log \in {LogOf(d, shortest(e).history) : e \in d.endings} :
             \A k \in DOMAIN log : ReplayIs(SubSeq(log, 1, k), log[k].hash, d)

Validation(d) ==
    IF ~StructurallySound(d) THEN "definition"
    ELSE IF ~InAuthoringFormat(d) THEN "authoring-constraints"
    ELSE IF ~Playable(d) THEN "play-analysis"
    ELSE IF ~Witnessed(d) THEN "witness-routes" ELSE "accepted"

----------------------------------------------------------------------------
(* Approval and the guarded registry. *)

Approval(d, decision, complete) ==
    [story |-> Identity(d), hash |-> d, decision |-> decision, complete |-> complete]
\* Mutant: a record is matched by story identity, whatever its hash.
ApprovalCheckByIdentity(record, d) ==
    IF record.story # Identity(d) THEN "APPROVAL_IDENTITY_MISMATCH"
    ELSE IF record.decision = "pending" THEN "APPROVAL_PENDING"
    ELSE IF record.decision = "rejected" THEN "APPROVAL_REJECTED"
    ELSE IF ~record.complete THEN "APPROVAL_CHECKLIST_INCOMPLETE" ELSE "ok"
\* checkApproval: "ok" or the code of the refusal.
ApprovalCheck(record, d) ==
    IF record.story # Identity(d) THEN "APPROVAL_IDENTITY_MISMATCH"
    ELSE IF record.hash # d THEN "APPROVAL_HASH_MISMATCH"
    ELSE IF record.decision = "pending" THEN "APPROVAL_PENDING"
    ELSE IF record.decision = "rejected" THEN "APPROVAL_REJECTED"
    ELSE IF ~record.complete THEN "APPROVAL_CHECKLIST_INCOMPLETE" ELSE "ok"

Stories(definitions) == {Identity(d) : d \in definitions}
RecordsOf(t, story) == {r \in t.approvals : r.story = story}
\* Mutant: a legacy identity passes with any content.
GuardedByIdentity(t, d) ==
    \/ Identity(d) \in Stories(Pinned)
    \/ \E r \in RecordsOf(t, Identity(d)) : ApprovalCheck(r, d) = "ok"
\* assertPublicationGuard accepts this definition of the tree.
Guarded(t, d) ==
    LET legacy == {p \in Pinned : Identity(p) = Identity(d)} IN
    IF legacy # {} THEN d \in legacy
    ELSE \E r \in RecordsOf(t, Identity(d)) : ApprovalCheck(r, d) = "ok"
Latest(definitions) ==
    {d \in definitions : \A other \in definitions : other.id = d.id => other.version <= d.version}

\* The module load of the server: loadScenario, the guard, createScenarioRegistry.
Loads(t) ==
    /\ \A d \in t.definitions : StructurallySound(d) /\ Playable(d)
    /\ \A r \in t.approvals : RecordsOf(t, r.story) = {r}
    /\ \A d \in t.definitions : Guarded(t, d)
    /\ Cardinality(Stories(t.definitions)) = Cardinality(t.definitions)
    /\ t.described \subseteq Stories(t.definitions)
    /\ Stories(Latest(t.definitions)) \subseteq t.described

\* effectSchema: a list of effects, each of a known kind.
EffectKinds == {"learnFact", "npcLearns", "giveItem", "consumeItem", "setFlag"}
EffectsWellFormed(d) ==
    \A c \in AllChoices(d) :
        c.effects \in Seq(Range(c.effects)) /\ \A e \in Range(c.effects) : e[1] \in EffectKinds

\* What the behaviours start from: a baseline that is served.
ASSUME BaselineIsServed ==
    /\ IsFiniteSet(Pinned)
    /\ Loads([definitions |-> Pinned, approvals |-> {}, described |-> Stories(Pinned)])
    /\ \A d \in Pinned : EffectsWellFormed(d) /\ None \notin InteractiveStates(d)

PublicationInit ==
    /\ draft \in DraftHistories
    /\ template = None /\ attested = {} /\ ready = {}
    /\ tree = [definitions |-> Pinned, approvals |-> {}, described |-> Stories(Pinned)]
    /\ server = Pinned
    /\ play = None /\ changes = 0

Candidate == Head(draft)

\* The authoring pipeline accepted the candidate and wrote its pending template.
AcceptCandidate ==
    /\ template = None /\ Validation(Candidate) = "accepted"
    /\ template' = Approval(Candidate, "pending", FALSE)
    /\ UNCHANGED <<draft, attested, ready, tree, server, play, changes>>

\* A record may also be written by hand, for a candidate nothing accepted.
HandWriteTemplate ==
    /\ template = None /\ Validation(Candidate) # "accepted"
    /\ template' = Approval(Candidate, "pending", FALSE)
    /\ UNCHANGED <<draft, attested, ready, tree, server, play, changes>>

\* Someone rewrites the candidate file; the approval file stays as it is.
EditCandidate ==
    /\ Len(draft) > 1
    /\ draft' = Tail(draft)
    /\ UNCHANGED <<template, attested, ready, tree, server, play, changes>>

Attest(decision, complete) ==
    /\ template # None /\ template.decision = "pending"
    /\ template' = [template EXCEPT !.decision = decision, !.complete = complete]
    /\ attested' = IF decision = "approved" /\ complete
                   THEN attested \cup {template.hash} ELSE attested
    /\ UNCHANGED <<draft, ready, tree, server, play, changes>>

\* Mutant: a published identity passes the preflight.
PreflightAnyIdentity ==
    /\ Candidate \notin ready
    /\ template # None /\ ApprovalCheck(template, Candidate) = "ok"
    /\ Validation(Candidate) = "accepted"
    /\ ready' = ready \cup {Candidate}
    /\ UNCHANGED <<draft, template, attested, tree, server, play, changes>>
\* runPublicationPreflight, over the two files.
Preflight ==
    /\ Candidate \notin ready
    /\ template # None /\ ApprovalCheck(template, Candidate) = "ok"
    /\ Identity(Candidate) \notin Stories(tree.definitions)
    /\ Validation(Candidate) = "accepted"
    /\ ready' = ready \cup {Candidate}
    /\ UNCHANGED <<draft, template, attested, tree, server, play, changes>>

Changed == changes < MaxPublications /\ changes' = changes + 1

\* A commit adds the candidate, or puts it in place of the definition of the same
\* identity; with the approval file, or not.  Nothing enforces a preflight first.
Publish(withApproval) ==
    LET d == Candidate
        kept == {r \in tree.approvals : r.story # Identity(d)}
        next == [definitions |-> {o \in tree.definitions : Identity(o) # Identity(d)} \cup {d},
                 approvals |-> IF withApproval THEN kept \cup {template} ELSE tree.approvals,
                 described |-> tree.described \cup {Identity(d)}]
    IN  /\ Changed
        /\ withApproval => template # None
        /\ next # tree /\ tree' = next
        /\ UNCHANGED <<editorVars, server, play>>

\* A deployment replaces the server; it does not start when the registry throws.
Deploy ==
    /\ Changed
    /\ server' = IF Loads(tree) THEN tree.definitions ELSE {}
    /\ UNCHANGED <<editorVars, tree, play>>

\* createSession and submitChoice, without their races (see InteractiveSession).
StartPlay(d) ==
    /\ play = None
    /\ play' = [definition |-> d, state |-> InitialState(d), log |-> LogOf(d, <<>>)]
    /\ UNCHANGED <<editorVars, tree, server, changes>>

PinnedDefinition == {d \in server : Identity(d) = play.state.story}
Choose(d, id) ==
    /\ Transition(play.state, id, d) = "ok"
    /\ play' = [play EXCEPT
         !.state = Chosen(@, id, d),
         !.log = Append(@, [event |-> ChoiceMade(play.state, id), hash |-> Chosen(play.state, id, d)])]
    /\ UNCHANGED <<editorVars, tree, server, changes>>
Advance == play # None /\ \E d \in PinnedDefinition : \E id \in {c.id : c \in AllChoices(d)} : Choose(d, id)

PublicationNext ==
    \/ AcceptCandidate \/ HandWriteTemplate \/ EditCandidate \/ Preflight \/ Deploy
    \/ Attest("approved", TRUE) \/ Attest("approved", FALSE) \/ Attest("rejected", TRUE)
    \/ \E withApproval \in BOOLEAN : Publish(withApproval)
    \/ \E d \in server : StartPlay(d)
    \/ Advance

\* A player keeps choosing while the server is up.
PublicationFairness == WF_publicationVars(Advance)

PublicationSpec == PublicationInit /\ [][PublicationNext]_publicationVars /\ PublicationFairness

----------------------------------------------------------------------------
(* Properties. *)

\* Editorial control: whatever a running server offers is either exactly a pinned
\* legacy definition or exactly a definition whose approval a human completed,
\* although candidates are edited after approval and published without preflight.
ServedWasApproved == server \subseteq Pinned \cup attested

\* A definition that passed the preflight can be deployed: a tree that publishes it
\* with its approval beside definitions that load does load.
PreflightPredictsDeployment ==
    \A d \in ready :
        LET t == [definitions |-> Pinned \cup {d}, approvals |-> {Approval(d, "approved", TRUE)},
                  described |-> Stories(Pinned \cup {d})]
        IN  Loads(t)

\* A session of pinned content is only ever advanced by the content it was
\* started with: its log replays to its stored state after any redeployment.
PinnedSessionsReplay ==
    play # None /\ play.definition \in Pinned => ReplayIs(play.log, play.state, play.definition)

\* Every story ends: a player who keeps choosing reaches an ending, unless the
\* server goes down or is redeployed with another definition of the story.
EveryStoryEnds ==
    []<>(play # None => play.state.ending # None \/ play.definition \notin server)

\* What is served was approved as it is, deploys as the preflight said, and never
\* changes under a session that is pinned to it.
PublicationIsControlled ==
    ServedWasApproved /\ PreflightPredictsDeployment /\ PinnedSessionsReplay

\* No player is ever stuck or told what a speaker cannot know: in every stored
\* state the pinned definition narrates something, voices only known facts and
\* offers a choice unless the story has ended; and it ends.
StoriesCanBePlayed ==
    /\ [](play # None => \A d \in PinnedDefinition \cap {play.definition} :
             /\ NarrationCheck(Narration(d, play.state), d, play.state) = "ok"
             /\ play.state.ending = None => Available(play.state, d) # <<>>)
    /\ EveryStoryEnds

=============================================================================
