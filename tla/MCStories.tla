------------------------------- MODULE MCStories -------------------------------
(***************************************************************************)
(* The parts of the interactive stories for TLC: the authoring experiment, *)
(* publication with one player, one session read in two tabs, the          *)
(* transcript and artwork of a story, and the library with the start page. *)
(* They share the rules of StoryRules and no state, so one part moves in a *)
(* behaviour and the others rest.  MCServices adds the parts around        *)
(* generation and closes the specification.                                *)
(***************************************************************************)
EXTENDS AuthoringExperiment, ScenarioPublication, InteractiveSession, StoryReading, StoryLibrary

VARIABLE part
StoryParts == {"experiment", "publication", "session", "reading", "library"}
storiesVars == <<experimentVars, publicationVars, sessionVars, readingVars, libraryVars>>

Turn(id, speaker, facts, when) == [id |-> id, speaker |-> speaker, facts |-> facts, when |-> when]
Offer(id, to, requires, effects) ==
    [id |-> id, to |-> to, requires |-> requires, effects |-> effects]
Plain(turn, choices, ending) ==
    [narration |-> <<Turn(turn, None, <<>>, <<>>)>>, choices |-> choices, ending |-> ending]
Finale(e) == Plain("t" \o e, <<>>, e)

\* A tale of two decisions; p varies what the choices require, do and lead to.
TaleOf(id, version, p) ==
    [id |-> id, version |-> version, entry |-> "a", characters |-> {"hero", "npc"},
     player |-> "hero", title |-> "title", facts |-> {"f"}, oneTime |-> [i \in {"i"} |-> TRUE],
     flags |-> {"g", "h"}, endings |-> {"e1", "e2"},
     initial |-> [knows |-> {}, holds |-> {}, npcKnows |-> [n \in {"npc"} |-> {}]],
     scenes |->
       [a |-> Plain("ta", <<Offer("c1", "b", <<>>, p.e1), Offer("c2", p.to2, <<>>, p.e2)>>, None),
        b |-> [narration |-> <<Turn("tb", "npc", <<"f">>, p.when), Turn("tc", None, <<>>, <<>>)>>,
               ending |-> None,
               choices |-> <<Offer("c3", "e2", p.r3, <<>>), Offer("c4", p.to, p.r4, p.e4)>>],
        e1 |-> Finale("e1"), e2 |-> Finale("e2")]]

----------------------------------------------------------------------------
(* Publication: drafts that are good, loop, trap the player or edit history. *)

Learns == <<"npcLearns", "npc", "f">>
Good == [e1 |-> <<Learns, <<"giveItem", "i">>>>, r3 |-> <<<<"hasItem", "i">>>>, to |-> "e1",
         r4 |-> <<>>, e4 |-> <<<<"consumeItem", "i">>>>, when |-> <<>>, to2 |-> "e1", e2 |-> <<>>]
Guarded1 == [Good EXCEPT !.r4 = <<<<"notFlag", "h">>>>]
Loop == [Guarded1 EXCEPT !.to = "a", !.e4 = <<<<"setFlag", "h">>>>]
Trap == [Good EXCEPT !.to2 = "b", !.e2 = <<Learns>>, !.r4 = <<<<"hasItem", "i">>>>]
Edited == [Good EXCEPT !.r3 = <<>>]
Variants ==
    {[Good EXCEPT !.e1 = e1, !.r3 = r3, !.to = to, !.r4 = way[1], !.e4 = way[2]] :
        e1 \in {<<>>, <<<<"setFlag", "g">>>>, Good.e1},
        r3 \in {Good.r3, <<<<"flag", "g">>>>}, to \in {"e1", "a"},
        way \in {<<<<>>, <<>>>>, <<<<>>, Good.e4>>, <<Loop.r4, Loop.e4>>}}
MCHistories ==
    {<<TaleOf("new", 1, p)>> : p \in Variants}
    \cup {<<TaleOf("new", 1, Good), TaleOf("new", 1, p)>> : p \in {Loop, Guarded1}}
    \cup {<<TaleOf("old", 1, Edited)>>, <<TaleOf("new", 1, Trap)>>, <<TaleOf("old", 2, Good)>>,
          <<TaleOf("new", 1, Good), TaleOf("old", 1, Loop)>>}
MCPinned == {TaleOf("old", 1, Good)}
MCLimits == [scenes |-> <<4, 4>>, decisions |-> <<2, 2>>, endings |-> <<2, 2>>,
             characters |-> <<2, 2>>, choices |-> <<1, 2>>]

----------------------------------------------------------------------------
(* One session: a state-dependent choice and line of narration, two tabs. *)

MCStory ==
    [TaleOf("tale", 1, [Good EXCEPT !.e4 = <<>>, !.when = Good.r3]) EXCEPT
        !.scenes["a"].choices = <<Offer("c1", "b", <<>>, Good.e1)>>]
R(tabset, s, f, o, r) == [tabs |-> tabset, sends |-> s, faults |-> f, focus |-> o, removals |-> r]
Both == {"t1", "t2"}
MCReaderBudgets == {R(Both, 2, 1, 0, 1), R(Both, 2, 0, 1, 0), R({"t1"}, 3, 1, 1, 0),
                    R({"t1"}, 2, 2, 0, 0), R({"t1"}, 2, 1, 1, 1)}
\* What the theorems about a session ask of its story.
ASSUME StoryIsSound ==
    StructurallySound(Story) /\ EffectsWellFormed(Story) /\ None \notin InteractiveStates(Story)

----------------------------------------------------------------------------
(* Reading: a tale that returns to its first scene, with damaged events. *)

MCTale ==
    [TaleOf("tale", 1, Good) EXCEPT
        !.scenes = [a |-> Plain("ta", <<Offer("c1", "b", <<>>, <<>>)>>, None),
                    b |-> Plain("tb", <<Offer("c2", "a", <<>>, <<>>), Offer("c3", "e1", <<>>, <<>>)>>,
                                None),
                    e1 |-> Finale("e1")]]
MCRoute == <<"c1", "c2", "c1", "c3">>
D(l, d, f, b, r, p) ==
    [live |-> l, damage |-> d, failures |-> f, rebinds |-> b, removals |-> r, packs |-> p]
Whole == {<<"intact">>}
Damaged == {<<"lost", n>> : n \in {0, 2}} \cup {<<"choice", 1, "c2">>}
           \cup {<<"response", 1, 3>>, <<"response", 2, 0>>, <<"response", 4, 3>>, <<"response", 3, 4>>}
MCReadingBudgets ==
    {D(2, Whole, 1, 0, 0, 0), D(2, Whole, 0, 1, 0, 0), D(1, Whole, 0, 0, 1, 1),
     D(0, Whole \cup Damaged, 0, 0, 0, 0), D(0, Whole, 2, 0, 0, 0), D(0, Whole, 1, 1, 0, 0),
     D(0, Whole, 0, 0, 1, 1)}

----------------------------------------------------------------------------
(* The library: two pages, a cap of three. *)

L(st, c, rt, rm, f, l) ==
    [stored |-> st, clicks |-> c, retries |-> rt, removals |-> rm, faults |-> f, lists |-> l]
MCLibraryBudgets ==
    {L(2, 2, 0, 0, 0, 0), L(2, 1, 1, 0, 1, 0), L(1, 1, 1, 0, 1, 0), L(3, 1, 0, 1, 0, 0),
     L(3, 0, 1, 1, 1, 1), L(2, 1, 0, 1, 0, 1)}

----------------------------------------------------------------------------
(* One part at a time. *)

ExperimentRests == ExperimentInit
PublicationRests ==
    /\ draft = <<>> /\ template = None /\ attested = {} /\ ready = {} /\ server = {} /\ play = None
    /\ tree = [definitions |-> {}, approvals |-> {}, described |-> {}] /\ changes = 0
SessionRests == SessionInit /\ readerBudget = R(Both, 2, 0, 1, 0)
ReadingRests == ReadingInit /\ readingBudget = D(1, Whole, 0, 0, 1, 1) /\ pack = NoPack
\* The library page is not open.
LibraryRests ==
    /\ libraryBudget = L(2, 1, 0, 1, 0, 1) /\ stories = <<>> /\ creations = {} /\ removals = {}
    /\ starters = [p \in Starters |-> IdleStarter] /\ acknowledged = {} /\ known = {} /\ clock = 0
    /\ library = [EmptyLibrary EXCEPT !.refreshing = FALSE, !.request = None]

StoriesInit ==
    /\ IF part = "experiment" THEN ExperimentInit ELSE ExperimentRests
    /\ IF part = "publication" THEN PublicationInit ELSE PublicationRests
    /\ IF part = "session" THEN SessionInit ELSE SessionRests
    /\ IF part = "reading" THEN ReadingInit ELSE ReadingRests
    /\ IF part = "library" THEN LibraryInit ELSE LibraryRests

StoriesNext ==
    \/ /\ part = "experiment" /\ ExperimentNext
       /\ UNCHANGED <<publicationVars, sessionVars, readingVars, libraryVars>>
    \/ /\ part = "publication" /\ PublicationNext
       /\ UNCHANGED <<experimentVars, sessionVars, readingVars, libraryVars>>
    \/ /\ part = "session" /\ SessionNext
       /\ UNCHANGED <<experimentVars, publicationVars, readingVars, libraryVars>>
    \/ /\ part = "reading" /\ ReadingNext
       /\ UNCHANGED <<experimentVars, publicationVars, sessionVars, libraryVars>>
    \/ /\ part = "library" /\ LibraryNext
       /\ UNCHANGED <<experimentVars, publicationVars, sessionVars, readingVars>>

\* The fairness of every part, of its steps while it is the one that moves.
StoriesFairness ==
    /\ WF_experimentVars(part = "experiment" /\ RunnerStep)
    /\ WF_publicationVars(part = "publication" /\ Advance)
    /\ []<>(handlers = {})
    /\ WF_sessionVars(part = "session" /\ (\E t \in readerBudget.tabs : ReaderStep(t)))
    /\ WF_readingVars(/\ part = "reading"
                      /\ \E h \in {"art", "title"} : RunEffect(h) \/ ServeHook(h) \/ SettleHook(h))
    /\ WF_readingVars(part = "reading" /\ (LoadNext \/ ServePage \/ ReceivePage))
    /\ WF_readingVars(part = "reading" /\ (\E i \in DOMAIN pictures : ServeArt(i) \/ FinishArt(i)))
    /\ WF_libraryVars(part = "library" /\ ServerStep)
    /\ WF_libraryVars(part = "library" /\ PageStep)
=============================================================================
