------------------------------ MODULE StoryRules ------------------------------
(***************************************************************************)
(* The pure rules of interactive stories (interactive/domain): what a      *)
(* choice requires and does, the event log and its replay, the narration a *)
(* narrator may return, and the view a player is given.                    *)
(*                                                                         *)
(* A scenario is a record of the fields of ScenarioDefinition; scenes is a *)
(* function from scene ids, and narration, choices, requires and effects   *)
(* are sequences, because the first failure decides.  A requirement is     *)
(* <<kind, id>>, an effect <<kind, id>> or <<"npcLearns", npc, fact>>.     *)
(* The hash of a state is the state: canonicalHash is injective here.  The *)
(* text of a narration is abstracted to the templates it renders.          *)
(***************************************************************************)
EXTENDS Naturals, Sequences, FiniteSets, Functions, SequencesExt

CONSTANT None   \* model value: no ending, no speaker, no event key

Error(code) == [error |-> code]
IsError(result) == "error" \in DOMAIN result

Identity(scenario) == <<scenario.id, scenario.version>>
Npcs(scenario) == scenario.characters \ {scenario.player}

InitialState(scenario) ==
    [story |-> Identity(scenario), revision |-> 0, scene |-> scenario.entry,
     knows |-> scenario.initial.knows,
     npcKnows |-> [c \in Npcs(scenario) |-> scenario.initial.npcKnows[c]],
     holds |-> scenario.initial.holds, consumed |-> {}, flags |-> {},
     history |-> <<>>, ending |-> None]

\* interactiveStateSchema, with the ids of one scenario.
InteractiveStates(scenario) ==
    [story: {Identity(scenario)}, revision: Nat, scene: DOMAIN scenario.scenes,
     knows: SUBSET scenario.facts, npcKnows: [Npcs(scenario) -> SUBSET scenario.facts],
     holds: SUBSET DOMAIN scenario.oneTime, consumed: SUBSET DOMAIN scenario.oneTime,
     flags: SUBSET scenario.flags,
     history: Seq(UNION {{c.id : c \in Range(scene.choices)} : scene \in Range(scenario.scenes)}),
     ending: scenario.endings \cup {None}]

SpeakerKnows(state, scenario, speaker, fact) ==
    IF speaker = scenario.player THEN fact \in state.knows
    ELSE speaker \in Npcs(scenario) /\ fact \in state.npcKnows[speaker]

----------------------------------------------------------------------------
(* Transitions. *)

\* unmetRequirement: "ok", or why the requirement fails.
Requirement(state, r) ==
    CASE r[1] = "playerKnows" -> IF r[2] \in state.knows THEN "ok" ELSE "KNOWLEDGE_NOT_LEARNED"
      [] r[1] = "hasItem" -> IF r[2] \in state.consumed THEN "ITEM_ALREADY_CONSUMED"
                             ELSE IF r[2] \in state.holds THEN "ok" ELSE "ITEM_NOT_HELD"
      [] r[1] = "flag" -> IF r[2] \in state.flags THEN "ok" ELSE "PREREQUISITE_NOT_MET"
      [] r[1] = "notFlag" -> IF r[2] \in state.flags THEN "PREREQUISITE_NOT_MET" ELSE "ok"

Hold(state, requires) == \A r \in Range(requires) : Requirement(state, r) = "ok"

\* What an effect asks of the state before the choice.
EffectAllowed(state, e) ==
    CASE e[1] = "consumeItem" -> Requirement(state, <<"hasItem", e[2]>>)
      [] e[1] = "giveItem" /\ e[2] \in state.consumed -> "ITEM_ALREADY_CONSUMED"
      [] OTHER -> "ok"

FirstFailure(codes) ==
    LET failures == SelectSeq(codes, LAMBDA code : code # "ok")
    IN  IF failures = <<>> THEN "ok" ELSE Head(failures)

ChoicesIn(scenario, scene) == scenario.scenes[scene].choices
ChoiceIds(scenario, scene) == {c.id : c \in Range(ChoicesIn(scenario, scene))}
ChoiceOf(scenario, scene, id) ==
    CHOOSE c \in Range(ChoicesIn(scenario, scene)) : c.id = id

\* validateTransition: "ok" or the code of the refusal.
Transition(state, id, scenario) ==
    IF state.ending # None THEN "SESSION_TERMINAL"
    ELSE IF id \notin ChoiceIds(scenario, state.scene) THEN "UNKNOWN_CHOICE"
    ELSE LET choice == ChoiceOf(scenario, state.scene, id)
             required == [i \in DOMAIN choice.requires |-> Requirement(state, choice.requires[i])]
             allowed == [i \in DOMAIN choice.effects |-> EffectAllowed(state, choice.effects[i])]
         IN  FirstFailure(required \o allowed)

Available(state, scenario) ==
    IF state.ending # None THEN <<>>
    ELSE SelectSeq(ChoicesIn(scenario, state.scene),
                   LAMBDA c : Transition(state, c.id, scenario) = "ok")

ApplyEffect(state, e) ==
    CASE e[1] = "learnFact" -> [state EXCEPT !.knows = @ \cup {e[2]}]
      [] e[1] = "npcLearns" -> [state EXCEPT !.npcKnows[e[2]] = @ \cup {e[3]}]
      [] e[1] = "giveItem" -> [state EXCEPT !.holds = @ \cup {e[2]}]
      [] e[1] = "consumeItem" -> [state EXCEPT !.holds = @ \ {e[2]}, !.consumed = @ \cup {e[2]}]
      [] e[1] = "setFlag" -> [state EXCEPT !.flags = @ \cup {e[2]}]
ApplyEffects(state, effects) == FoldLeft(ApplyEffect, state, effects)

----------------------------------------------------------------------------
(* Events and replay. *)

SessionStarted(scenario) ==
    [seq |-> 0, type |-> "SessionStarted", story |-> Identity(scenario), definition |-> scenario]
ChoiceMade(state, id) ==
    [seq |-> state.revision + 1, type |-> "ChoiceMade", choice |-> id, from |-> state.scene]

\* reduce: the next state, or the error the log is refused with.
Reduced(state, event, scenario) ==
    IF event.type = "SessionStarted"
    THEN IF state # None \/ event.seq # 0 THEN Error("REPLAY_INVALID_EVENT")
         ELSE IF event.story # Identity(scenario) \/ event.definition # scenario
         THEN Error("REPLAY_SCENARIO_MISMATCH")
         ELSE InitialState(scenario)
    ELSE IF state = None THEN Error("REPLAY_MISSING_GENESIS")
    ELSE IF state.story # Identity(scenario) THEN Error("REPLAY_SCENARIO_MISMATCH")
    ELSE IF event.seq # state.revision + 1 THEN Error("REPLAY_SEQUENCE_GAP")
    ELSE IF event.from # state.scene THEN Error("REPLAY_INVALID_EVENT")
    ELSE LET code == Transition(state, event.choice, scenario)
             choice == ChoiceOf(scenario, state.scene, event.choice)
         IN  IF code # "ok" THEN Error(code)
             ELSE [ApplyEffects(state, choice.effects) EXCEPT
                     !.revision = event.seq, !.scene = choice.to,
                     !.history = Append(@, choice.id),
                     !.ending = scenario.scenes[choice.to].ending]

\* applyChoice, for a choice that validateTransition accepts.
Chosen(state, id, scenario) == Reduced(state, ChoiceMade(state, id), scenario)

\* fold: events carry the hash of the state after them.
Folded(events, scenario) ==
    LET step(acc, i) ==
          IF acc # None /\ IsError(acc) THEN acc
          ELSE IF events[i].event.seq # i - 1
          THEN Error(IF \E j \in 1..(i-1) : events[j].event.seq = events[i].event.seq
                     THEN "REPLAY_DUPLICATE_SEQUENCE" ELSE "REPLAY_SEQUENCE_GAP")
          ELSE LET next == Reduced(acc, events[i].event, scenario)
               IN  IF ~IsError(next) /\ events[i].hash # next THEN Error("REPLAY_HASH_MISMATCH")
                   ELSE next
    IN  IF events = <<>> \/ events[1].event.type # "SessionStarted"
        THEN Error("REPLAY_MISSING_GENESIS")
        ELSE FoldLeft(step, None, [i \in DOMAIN events |-> i])

\* verifyReplay.
ReplayIs(events, stored, scenario) ==
    Folded(events, scenario) = stored /\ Last(events).hash = stored

----------------------------------------------------------------------------
(* Narration and the public view. *)

Selected(scenario, state) ==
    SelectSeq(scenario.scenes[state.scene].narration, LAMBDA t : Hold(state, t.when))
Ids(records) == [i \in DOMAIN records |-> records[i].id]
Utterances(templates) ==
    FlattenSeq([i \in DOMAIN templates |->
        [k \in DOMAIN templates[i].facts |-> <<templates[i].speaker, templates[i].facts[k]>>]])

\* buildCanonicalNarration.
Narration(scenario, state) ==
    [story |-> Identity(scenario), scene |-> state.scene, hash |-> state,
     templates |-> Ids(Selected(scenario, state)),
     utterances |-> Utterances(Selected(scenario, state)),
     text |-> Ids(Selected(scenario, state))]

Templates(scenario) ==
    UNION {Range(Ids(scenario.scenes[s].narration)) : s \in DOMAIN scenario.scenes}

\* validateNarration: "ok" or the first reason to reject the output.
NarrationCheck(output, scenario, state) ==
    LET expected == Selected(scenario, state)
        voiced == Range(output.utterances)
    IN  IF output.templates = <<>> THEN "NARRATION_MALFORMED"
        ELSE IF <<output.story, output.scene, output.hash>>
                   # <<Identity(scenario), state.scene, state>> THEN "NARRATION_BINDING_MISMATCH"
        ELSE IF ~(Range(output.templates) \subseteq Templates(scenario)) THEN "NARRATION_UNKNOWN_TEMPLATE"
        ELSE IF \E u \in voiced : u[1] \notin scenario.characters THEN "NARRATION_UNKNOWN_SPEAKER"
        ELSE IF \E u \in voiced : u[2] \notin scenario.facts THEN "NARRATION_UNKNOWN_FACT"
        ELSE IF \E u \in voiced : ~SpeakerKnows(state, scenario, u[1], u[2])
        THEN "NARRATION_KNOWLEDGE_UNAVAILABLE"
        ELSE IF output.templates # Ids(expected) THEN "NARRATION_TEMPLATE_MISMATCH"
        ELSE IF output.utterances # Utterances(expected) THEN "NARRATION_UTTERANCE_MISMATCH"
        ELSE IF output.text # Ids(expected) THEN "NARRATION_TEXT_MISMATCH" ELSE "ok"

\* buildPublicView.
PublicView(session, scenario, state, narration) ==
    [session |-> session, revision |-> state.revision, story |-> Identity(scenario),
     scene |-> state.scene, narration |-> narration.text,
     choices |-> Ids(Available(state, scenario)),
     knowledge |-> scenario.facts \cap state.knows,
     inventory |-> DOMAIN scenario.oneTime \cap state.holds,
     ending |-> state.ending,
     status |-> IF state.ending = None THEN "in_progress" ELSE "ended"]
=============================================================================
