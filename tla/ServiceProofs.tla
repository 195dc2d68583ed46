--------------------------- MODULE ServiceProofs ---------------------------
(***************************************************************************)
(* Of the services around the book: publication is controlled, the         *)
(* cleanup of claims sweeps only garbage, requests pass the caps on        *)
(* generation by no more than they overlap, images are asked for with      *)
(* permits only, a login stays one line of tokens, and the credits bought  *)
(* are granted once and add up; for any drafts, books, requests, tabs, and *)
(* numbers of changes, faults, logins and purchases.                       *)
(***************************************************************************)
EXTENDS ScenarioPublication, ClaimCleanup, GenerationAdmission, ImageQuota, LoginSessions,
        CreditPurchases, FiniteSetTheorems, WellFoundedInduction, TLAPS

-----------------------------------------------------------------------------
(* Folds from the left *)

\* What Folded makes of one more event.
FoldedStep(events, scenario, acc, i) ==
    IF acc # None /\ IsError(acc) THEN acc
    ELSE IF events[i].event.seq # i - 1
    THEN Error(IF \E j \in 1..(i-1) : events[j].event.seq = events[i].event.seq
               THEN "REPLAY_DUPLICATE_SEQUENCE" ELSE "REPLAY_SEQUENCE_GAP")
    ELSE IF ~IsError(Reduced(acc, events[i].event, scenario))
            /\ events[i].hash # Reduced(acc, events[i].event, scenario)
         THEN Error("REPLAY_HASH_MISMATCH")
         ELSE Reduced(acc, events[i].event, scenario)

\* FoldLeft over sets of positions, for effects and for events.
IsEffectFold(g, effects, base, S) ==
    g = [s \in SUBSET S |-> IF s = {} THEN base ELSE ApplyEffect(g[s \ {Max(s)}], effects[Max(s)])]
EffectFold(effects, base, S) == CHOOSE g : IsEffectFold(g, effects, base, S)
IsEventFold(g, events, scenario, S) ==
    g = [s \in SUBSET S |-> IF s = {} THEN None
                            ELSE FoldedStep(events, scenario, g[s \ {Max(s)}], [i \in S |-> i][Max(s)])]
EventFold(events, scenario, S) == CHOOSE g : IsEventFold(g, events, scenario, S)

LEMMA EffectsAreFolded ==
    \A state, effects :
        ApplyEffects(state, effects) = EffectFold(effects, state, DOMAIN effects)[DOMAIN effects]
BY DEF ApplyEffects, FoldLeft, MapThenFoldSet, EffectFold, IsEffectFold

LEMMA EventsAreFolded ==
    \A events, scenario :
        Folded(events, scenario) =
            IF events = <<>> \/ events[1].event.type # "SessionStarted"
            THEN Error("REPLAY_MISSING_GENESIS")
            ELSE EventFold(events, scenario, DOMAIN events)[DOMAIN events]
BY DEF Folded, FoldLeft, MapThenFoldSet, EventFold, IsEventFold, FoldedStep

\* All at once: one step over effects, rows of the credit ledger, or events.
Step(kind, list, scenario, acc, i) ==
    IF kind = "effects" THEN ApplyEffect(acc, list[i])
    ELSE IF kind = "rows" THEN acc + list[i].amount
    ELSE FoldedStep(list, scenario, acc, i)
IsFold(g, kind, list, scenario, base, n) ==
    g = [s \in SUBSET (1..n) |->
           IF s = {} THEN base ELSE Step(kind, list, scenario, g[s \ {Max(s)}], Max(s))]

LEMMA LeastNatural ==
    ASSUME NEW F, F \subseteq Nat, F # {}
    PROVE  \E m \in F : \A k \in F : m <= k
<1>1. PICK m \in F : \A k \in F : <<k, m>> \notin OpToRel(<, Nat)
  BY NatLessThanWellFounded, WFMin
<1>2. ASSUME NEW k \in F PROVE m <= k
  <2>1. k \in Nat /\ m \in Nat
    BY <1>1
  <2>2. ~(k < m)
    BY <1>1, <2>1 DEF OpToRel
  <2> QED
    BY <2>1, <2>2
<1> QED
  BY <1>1, <1>2

\* The greatest of some of the first n positions.
LEMMA GreatestPosition ==
    ASSUME NEW n \in Nat, NEW s \in SUBSET (1..n), s # {}
    PROVE  Max(s) \in s /\ \A i \in s : Max(s) >= i
<1> DEFINE Bounds == {m \in Nat : \A i \in s : i <= m}
<1>1. n \in Bounds
  OBVIOUS
<1>2. PICK m \in Bounds : \A k \in Bounds : m <= k
  <2> HIDE DEF Bounds
  <2>1. Bounds \subseteq Nat
    BY DEF Bounds
  <2> QED
    BY <1>1, <2>1, LeastNatural
<1>3. m \in s
  <2>1. SUFFICES ASSUME m \notin s PROVE FALSE
    OBVIOUS
  <2>2. \A i \in s : i \in Nat /\ i >= 1 /\ i <= m /\ i # m
    BY <1>2, <2>1
  <2>3. m - 1 \in Bounds
    <3>1. PICK i \in s : TRUE
      OBVIOUS
    <3>2. m \in Nat /\ i \in Nat /\ i >= 1 /\ i <= m
      BY <1>2, <2>2, <3>1
    <3> QED
      BY <2>2, <3>2
  <2> QED
    BY <1>2, <2>3
<1>4. \A i \in s : m >= i
  BY <1>2
<1> QED
  BY <1>3, <1>4 DEF Max

LEMMA LastPosition ==
    ASSUME NEW n \in Nat, n # 0, NEW s \in SUBSET (1..n), n \in s
    PROVE  Max(s) = n /\ s \ {n} \in SUBSET (1..(n - 1))
<1>1. Max(s) \in s /\ Max(s) >= n
  BY GreatestPosition
<1>2. Max(s) \in 1..n
  BY <1>1
<1>3. Max(s) = n
  BY <1>1, <1>2
<1> QED
  BY <1>3

\* A fold over n positions exists.
LEMMA FoldExists ==
    ASSUME NEW n \in Nat, NEW kind, NEW list, NEW scenario, NEW base
    PROVE  \E g : IsFold(g, kind, list, scenario, base, n)
<1> DEFINE Fold(g, k) == IsFold(g, kind, list, scenario, base, k)
           St(acc, i) == Step(kind, list, scenario, acc, i)
           F == {k \in Nat : ~ \E g : Fold(g, k)}
<1>1. SUFFICES ASSUME F # {} PROVE FALSE
  BY DEF IsFold
<1>2. PICK m \in F : \A k \in F : m <= k
  <2>1. F \subseteq Nat
    OBVIOUS
  <2> HIDE DEF F
  <2> QED
    BY <1>1, <2>1, LeastNatural
<1>3. m # 0
  <2>1. SUFFICES ASSUME m = 0 PROVE FALSE
    OBVIOUS
  <2> DEFINE g == [s \in SUBSET (1..0) |-> base]
  <2>2. \A s \in SUBSET (1..0) : s = {}
    OBVIOUS
  <2>3. Fold(g, 0)
    BY <2>2 DEF IsFold
  <2> QED
    BY <1>2, <2>1, <2>3
<1>4. m \in Nat /\ m - 1 \in Nat /\ m - 1 \notin F
  BY <1>2, <1>3
<1>5. PICK g : Fold(g, m - 1)
  BY <1>4
<1> DEFINE h == [s \in SUBSET (1..m) |-> IF m \in s THEN St(g[s \ {m}], m) ELSE g[s]]
<1>6. ASSUME NEW s \in SUBSET (1..m)
      PROVE  h[s] = IF s = {} THEN base ELSE St(h[s \ {Max(s)}], Max(s))
  <2>1. CASE m \in s
    <3>1. Max(s) = m /\ s \ {m} \in SUBSET (1..(m - 1))
      BY <1>3, <1>4, <2>1, LastPosition
    <3>2. s \ {m} \in SUBSET (1..m) /\ h[s \ {m}] = g[s \ {m}]
      BY <3>1
    <3>3. h[s] = St(g[s \ {m}], m)
      BY <2>1
    <3> HIDE DEF h, St
    <3> QED
      BY <2>1, <3>1, <3>2, <3>3
  <2>2. CASE m \notin s
    <3>1. s \in SUBSET (1..(m - 1))
      BY <1>4, <2>2
    <3>2. g[s] = IF s = {} THEN base ELSE St(g[s \ {Max(s)}], Max(s))
      BY <1>5, <3>1 DEF IsFold
    <3>3. s \ {Max(s)} \in SUBSET (1..m) /\ m \notin s \ {Max(s)}
      BY <2>2
    <3>4. h[s] = g[s] /\ h[s \ {Max(s)}] = g[s \ {Max(s)}]
      BY <2>2, <3>3
    <3> HIDE DEF h, St
    <3> QED
      BY <3>2, <3>4
  <2> QED
    BY <2>1, <2>2
<1>7. h = [s \in SUBSET (1..m) |-> IF s = {} THEN base ELSE St(h[s \ {Max(s)}], Max(s))]
  <2>1. \E op : h = [s \in SUBSET (1..m) |-> op[s]]
    <3> DEFINE op == [s \in SUBSET (1..m) |-> IF m \in s THEN St(g[s \ {m}], m) ELSE g[s]]
    <3>1. h = [s \in SUBSET (1..m) |-> op[s]]
      OBVIOUS
    <3> QED
      BY <3>1
  <2> HIDE DEF h, St
  <2> QED
    BY <1>6, <2>1
<1>8. Fold(h, m)
  <2> HIDE DEF h
  <2> QED
    BY <1>7 DEF IsFold
<1> QED
  BY <1>2, <1>8
\* What a fold makes of the first positions.
LEMMA FoldSteps ==
    ASSUME NEW n \in Nat, NEW kind, NEW list, NEW scenario, NEW base,
           NEW g, IsFold(g, kind, list, scenario, base, n)
    PROVE  /\ g[{}] = base
           /\ \A k \in 1..n : g[1..k] = Step(kind, list, scenario, g[1..(k - 1)], k)
<1>1. g[{}] = base
  BY DEF IsFold
<1>2. ASSUME NEW k \in 1..n
      PROVE  g[1..k] = Step(kind, list, scenario, g[1..(k - 1)], k)
  <2>1. k \in Nat /\ k # 0 /\ 1..k \in SUBSET (1..n) /\ 1..k # {} /\ k \in 1..k
    OBVIOUS
  <2>2. Max(1..k) = k
    BY <2>1, LastPosition
  <2>3. (1..k) \ {k} = 1..(k - 1)
    BY <2>1
  <2> QED
    BY <2>1, <2>2, <2>3 DEF IsFold
<1> QED
  BY <1>1, <1>2

\* Folding over a sequence of positions is folding over the positions.
LEMMA FoldsExist ==
    ASSUME NEW list, NEW n \in Nat, NEW scenario, NEW base
    PROVE  /\ IsFold(EffectFold(list, base, 1..n), "effects", list, scenario, base, n)
           /\ IsFold(EventFold(list, scenario, 1..n), "events", list, scenario, None, n)
<1>1. \A g : IsEffectFold(g, list, base, 1..n) <=> IsFold(g, "effects", list, scenario, base, n)
  BY DEF IsEffectFold, IsFold, Step
<1>2. ASSUME NEW s \in SUBSET (1..n), s # {} PROVE [i \in 1..n |-> i][Max(s)] = Max(s)
  BY <1>2, GreatestPosition
<1>3. ASSUME NEW g
      PROVE  IsEventFold(g, list, scenario, 1..n) <=> IsFold(g, "events", list, scenario, None, n)
  <2> DEFINE a == [s \in SUBSET (1..n) |-> IF s = {} THEN None
                  ELSE FoldedStep(list, scenario, g[s \ {Max(s)}], [i \in 1..n |-> i][Max(s)])]
             b == [s \in SUBSET (1..n) |-> IF s = {} THEN None
                  ELSE FoldedStep(list, scenario, g[s \ {Max(s)}], Max(s))]
  <2> DEFINE at(s) == IF s = {} THEN None
                  ELSE FoldedStep(list, scenario, g[s \ {Max(s)}], [i \in 1..n |-> i][Max(s)])
             bt(s) == IF s = {} THEN None ELSE FoldedStep(list, scenario, g[s \ {Max(s)}], Max(s))
  <2>1. a = b
    <3>1. \A s \in SUBSET (1..n) : at(s) = bt(s)
      BY <1>2
    <3>2. a = [s \in SUBSET (1..n) |-> at(s)] /\ b = [s \in SUBSET (1..n) |-> bt(s)]
      OBVIOUS
    <3> HIDE DEF a, b, at, bt
    <3> QED
      BY <3>1, <3>2
  <2>2. IsEventFold(g, list, scenario, 1..n) <=> g = a
    BY DEF IsEventFold
  <2>3. IsFold(g, "events", list, scenario, None, n) <=> g = b
    BY DEF IsFold, Step
  <2> QED
    BY <2>1, <2>2, <2>3
<1>4. \E g : IsEffectFold(g, list, base, 1..n)
  BY <1>1, FoldExists
<1>5. \E g : IsEventFold(g, list, scenario, 1..n)
  BY <1>3, FoldExists
<1>6. IsEffectFold(EffectFold(list, base, 1..n), list, base, 1..n)
  BY <1>4 DEF EffectFold
<1>7. IsEventFold(EventFold(list, scenario, 1..n), list, scenario, 1..n)
  BY <1>5 DEF EventFold
<1> QED
  BY <1>1, <1>3, <1>6, <1>7
-----------------------------------------------------------------------------
(* States of a well-formed scenario *)

Sound(d) == StructurallySound(d) /\ EffectsWellFormed(d)

LEMMA SoundScenes ==
    ASSUME NEW d, Sound(d), NEW s \in DOMAIN d.scenes
    PROVE  /\ d.scenes[s].ending \in d.endings \cup {None}
           /\ \A c \in Range(ChoicesIn(d, s)) :
                 /\ c \in AllChoices(d) /\ c.to \in DOMAIN d.scenes
                 /\ c.effects \in Seq(Range(c.effects))
                 /\ \A e \in Range(c.effects) : e[1] \in EffectKinds /\ KnownEffect(d, e)
                 /\ c.id \in UNION {{o.id : o \in Range(scene.choices)} : scene \in Range(d.scenes)}
<1>1. {d.scenes[t].ending : t \in Terminal(d)} = d.endings
  BY DEF Sound, StructurallySound
<1>2. d.scenes[s].ending \in d.endings \cup {None}
  BY <1>1 DEF Terminal
<1>3. ASSUME NEW c \in Range(ChoicesIn(d, s))
      PROVE  /\ c \in AllChoices(d)
             /\ c.id \in UNION {{o.id : o \in Range(scene.choices)} : scene \in Range(d.scenes)}
  <2>1. d.scenes[s] \in Range(d.scenes)
    BY DEF Range
  <2>2. c \in Range(d.scenes[s].choices)
    BY <1>3 DEF ChoicesIn
  <2> QED
    BY <1>3, <2>1, <2>2 DEF AllChoices
<1>4. ASSUME NEW c \in AllChoices(d)
      PROVE  /\ c.to \in DOMAIN d.scenes /\ c.effects \in Seq(Range(c.effects))
             /\ \A e \in Range(c.effects) : e[1] \in EffectKinds /\ KnownEffect(d, e)
  BY DEF Sound, StructurallySound, EffectsWellFormed
<1> QED
  BY <1>2, <1>3, <1>4

LEMMA InitialStateType ==
    ASSUME NEW d, Sound(d) PROVE InitialState(d) \in InteractiveStates(d)
<1>1. /\ d.entry \in DOMAIN d.scenes /\ d.initial.knows \subseteq d.facts
      /\ d.initial.holds \subseteq DOMAIN d.oneTime
      /\ \A c \in Npcs(d) : d.initial.npcKnows[c] \subseteq d.facts
  BY DEF Sound, StructurallySound
<1> QED
  BY <1>1 DEF InitialState, InteractiveStates

\* One effect of a known kind.
LEMMA EffectKeepsType ==
    ASSUME NEW d, NEW state \in InteractiveStates(d), NEW e, e[1] \in EffectKinds, KnownEffect(d, e)
    PROVE  /\ ApplyEffect(state, e) \in InteractiveStates(d)
           /\ ApplyEffect(state, e).revision = state.revision
           /\ ApplyEffect(state, e).history = state.history
<1>1. CASE e[1] = "learnFact"
  <2>1. e[2] \in d.facts /\ ApplyEffect(state, e) = [state EXCEPT !.knows = @ \cup {e[2]}]
    BY <1>1 DEF KnownEffect, ApplyEffect
  <2> QED
    BY <2>1 DEF InteractiveStates
<1>2. CASE e[1] = "npcLearns"
  <2>1. e[2] \in Npcs(d) /\ e[3] \in d.facts
        /\ ApplyEffect(state, e) = [state EXCEPT !.npcKnows[e[2]] = @ \cup {e[3]}]
    BY <1>2 DEF KnownEffect, ApplyEffect
  <2> DEFINE npcs == [state.npcKnows EXCEPT ![e[2]] = @ \cup {e[3]}]
  <2>2. state.npcKnows \in [Npcs(d) -> SUBSET d.facts]
    BY DEF InteractiveStates
  <2>3. npcs \in [Npcs(d) -> SUBSET d.facts]
    BY <2>1, <2>2
  <2>4. ApplyEffect(state, e) = [state EXCEPT !.npcKnows = npcs]
    BY <2>1
  <2> HIDE DEF npcs
  <2> QED
    BY <2>3, <2>4 DEF InteractiveStates
<1>3. CASE e[1] = "giveItem"
  <2>1. e[2] \in DOMAIN d.oneTime /\ ApplyEffect(state, e) = [state EXCEPT !.holds = @ \cup {e[2]}]
    BY <1>3 DEF KnownEffect, ApplyEffect
  <2> QED
    BY <2>1 DEF InteractiveStates
<1>4. CASE e[1] = "consumeItem"
  <2>1. e[2] \in DOMAIN d.oneTime
        /\ ApplyEffect(state, e) = [state EXCEPT !.holds = @ \ {e[2]}, !.consumed = @ \cup {e[2]}]
    BY <1>4 DEF KnownEffect, ApplyEffect
  <2> DEFINE held == state.holds \ {e[2]}
             used == state.consumed \cup {e[2]}
  <2>2. held \in SUBSET DOMAIN d.oneTime /\ used \in SUBSET DOMAIN d.oneTime
    BY <2>1 DEF InteractiveStates
  <2>3. ApplyEffect(state, e) = [state EXCEPT !.holds = held, !.consumed = used]
    BY <2>1
  <2> HIDE DEF held, used
  <2> QED
    BY <2>2, <2>3 DEF InteractiveStates
<1>5. CASE e[1] = "setFlag"
  <2>1. e[2] \in d.flags /\ ApplyEffect(state, e) = [state EXCEPT !.flags = @ \cup {e[2]}]
    BY <1>5 DEF KnownEffect, ApplyEffect
  <2> QED
    BY <2>1 DEF InteractiveStates
<1> QED
  BY <1>1, <1>2, <1>3, <1>4, <1>5 DEF EffectKinds

\* All effects of a choice, in their order.
LEMMA EffectsKeepType ==
    ASSUME NEW d, NEW state \in InteractiveStates(d), NEW effects, effects \in Seq(Range(effects)),
           \A e \in Range(effects) : e[1] \in EffectKinds /\ KnownEffect(d, e)
    PROVE  /\ ApplyEffects(state, effects) \in InteractiveStates(d)
           /\ ApplyEffects(state, effects).revision = state.revision
           /\ ApplyEffects(state, effects).history = state.history
<1> DEFINE n == Len(effects)
           g == EffectFold(effects, state, 1..n)
           Good(x) == /\ x \in InteractiveStates(d)
                      /\ x.revision = state.revision /\ x.history = state.history
           F == {k \in 0..n : ~Good(g[1..k])}
<1>1. n \in Nat /\ DOMAIN effects = 1..n
  OBVIOUS
<1>2. g[{}] = state /\ \A k \in 1..n : g[1..k] = Step("effects", effects, d, g[1..(k - 1)], k)
  <2>1. IsFold(g, "effects", effects, d, state, n)
    BY <1>1, FoldsExist
  <2> HIDE DEF g, n
  <2> QED
    BY <1>1, <2>1, FoldSteps
<1>3. F = {}
  <2>1. SUFFICES ASSUME F # {} PROVE FALSE
    OBVIOUS
  <2>2. PICK k \in F : \A j \in F : k <= j
    <3>1. F \subseteq Nat
      BY <1>1
    <3> HIDE DEF F
    <3> QED
      BY <2>1, <3>1, LeastNatural
  <2>3. k \in 0..n /\ ~Good(g[1..k])
    BY <2>2
  <2>4. k # 0
    <3>1. 1..0 = {}
      OBVIOUS
    <3> HIDE DEF g
    <3> QED
      BY <1>2, <2>3, <3>1
  <2>5. k - 1 \in 0..n /\ k \in 1..n /\ k - 1 < k
    BY <1>1, <2>3, <2>4
  <2>6. k - 1 \notin F
    BY <1>1, <2>2, <2>5
  <2>7. Good(g[1..(k - 1)])
    BY <2>5, <2>6
  <2>8. g[1..k] = ApplyEffect(g[1..(k - 1)], effects[k])
    <3> HIDE DEF g
    <3> QED
      BY <1>2, <2>5 DEF Step
  <2>9. effects[k] \in Range(effects)
    BY <1>1, <2>5 DEF Range
  <2> HIDE DEF g, F
  <2>10. PICK s, e : s = g[1..(k - 1)] /\ e = effects[k]
    OBVIOUS
  <2>11. Good(s) /\ e[1] \in EffectKinds /\ KnownEffect(d, e)
    BY <2>7, <2>9, <2>10
  <2>12. Good(ApplyEffect(s, e))
    BY <2>11, EffectKeepsType
  <2> QED
    BY <2>3, <2>8, <2>10, <2>12
<1>4. Good(g[1..n])
  <2>1. n \in 0..n
    BY <1>1
  <2> HIDE DEF g
  <2> QED
    BY <1>3, <2>1
<1>5. ApplyEffects(state, effects) = g[1..n]
  BY <1>1, EffectsAreFolded
<1> QED
  <2> HIDE DEF g
  <2> QED
    BY <1>4, <1>5
LEMMA StatesAreStates ==
    ASSUME NEW d, NEW state \in InteractiveStates(d)
    PROVE  /\ ~IsError(state) /\ state.revision \in Nat /\ state.scene \in DOMAIN d.scenes
           /\ state.story = Identity(d)
BY DEF InteractiveStates, IsError

\* A choice that may be made leads to a state, one revision further.
LEMMA ChosenType ==
    ASSUME NEW d, Sound(d), None \notin InteractiveStates(d), NEW state \in InteractiveStates(d),
           NEW id, Transition(state, id, d) = "ok"
    PROVE  /\ Chosen(state, id, d) \in InteractiveStates(d)
           /\ Chosen(state, id, d).revision = state.revision + 1
<1> DEFINE c == ChoiceOf(d, state.scene, id)
           after == ApplyEffects(state, c.effects)
           next == [after EXCEPT !.revision = state.revision + 1, !.scene = c.to,
                                 !.history = Append(@, c.id), !.ending = d.scenes[c.to].ending]
           Known == UNION {{o.id : o \in Range(scene.choices)} : scene \in Range(d.scenes)}
<1>1. /\ state.revision \in Nat /\ state.scene \in DOMAIN d.scenes
      /\ state.story = Identity(d) /\ state # None
  BY StatesAreStates
<1>2. id \in ChoiceIds(d, state.scene)
  BY DEF Transition
<1>3. c \in Range(ChoicesIn(d, state.scene))
  BY <1>2 DEF ChoiceIds, ChoiceOf
<1>4. /\ c.to \in DOMAIN d.scenes /\ c.effects \in Seq(Range(c.effects)) /\ c.id \in Known
      /\ \A e \in Range(c.effects) : e[1] \in EffectKinds /\ KnownEffect(d, e)
  BY <1>1, <1>3, SoundScenes
<1>5. d.scenes[c.to].ending \in d.endings \cup {None}
  BY <1>4, SoundScenes
<1>6. after \in InteractiveStates(d) /\ after.revision = state.revision
  <2> HIDE DEF c
  <2> QED
    BY <1>4, EffectsKeepType
<1>7. Chosen(state, id, d) = next
  BY <1>1 DEF Chosen, Reduced, ChoiceMade
<1>8. next \in InteractiveStates(d) /\ next.revision = state.revision + 1
  <2>1. after.history \in Seq(Known)
    BY <1>6 DEF InteractiveStates
  <2>2. Append(after.history, c.id) \in Seq(Known)
    <3> HIDE DEF after, c, Known
    <3> QED
      BY <1>4, <2>1
  <2>3. state.revision + 1 \in Nat /\ d.scenes[c.to].ending \in d.endings \cup {None}
        /\ c.to \in DOMAIN d.scenes /\ after \in InteractiveStates(d)
    BY <1>1, <1>4, <1>5, <1>6
  <2> DEFINE revision == state.revision + 1
             scene == c.to
             history == Append(after.history, c.id)
             ending == d.scenes[c.to].ending
  <2>4. next = [after EXCEPT !.revision = revision, !.scene = scene,
                             !.history = history, !.ending = ending]
    OBVIOUS
  <2> HIDE DEF after, c, Known, next, revision, scene, history, ending
  <2>5. /\ [after EXCEPT !.revision = revision, !.scene = scene,
                         !.history = history, !.ending = ending] \in InteractiveStates(d)
        /\ [after EXCEPT !.revision = revision, !.scene = scene,
                         !.history = history, !.ending = ending].revision = revision
    <3>1. /\ revision \in Nat /\ scene \in DOMAIN d.scenes /\ ending \in d.endings \cup {None}
          /\ history \in Seq(Known) /\ after \in InteractiveStates(d)
      BY <2>2, <2>3 DEF revision, scene, history, ending
    <3> QED
      BY <3>1 DEF InteractiveStates, Known
  <2> QED
    BY <2>4, <2>5 DEF revision
<1> QED
  BY <1>7, <1>8

-----------------------------------------------------------------------------
(* A log that replays *)

AllIds(d) == {c.id : c \in AllChoices(d)}
Events(d) == {SessionStarted(d)} \cup
    [seq: Nat, type: {"ChoiceMade"}, choice: AllIds(d), from: DOMAIN d.scenes]

\* The first event starts the session, and each of the others leads from the state
\* before it to the state whose hash it carries.
GoodLog(log, d) ==
    /\ log \in Seq([event: Events(d), hash: InteractiveStates(d)]) /\ Len(log) >= 1
    /\ log[1] = [event |-> SessionStarted(d), hash |-> InitialState(d)]
    /\ \A k \in 2..Len(log) :
          /\ log[k].event.seq = k - 1
          /\ Reduced(log[k - 1].hash, log[k].event, d) = log[k].hash

\* The events and hashes of a log, whatever else its rows hold.
SameEvents(log, bare) ==
    /\ Len(log) = Len(bare) /\ DOMAIN log = 1..Len(bare)
    /\ \A k \in 1..Len(bare) : log[k].event = bare[k].event /\ log[k].hash = bare[k].hash

LEMMA BareLogReplays ==
    ASSUME NEW d, None \notin InteractiveStates(d), NEW bare, GoodLog(bare, d),
           NEW log, SameEvents(log, bare)
    PROVE  Folded(log, d) = bare[Len(bare)].hash
<1> DEFINE n == Len(log)
           g == EventFold(log, d, 1..n)
           F == {k \in 1..n : g[1..k] # log[k].hash}
<1>0. /\ n = Len(bare) /\ n \in Nat /\ n >= 1 /\ DOMAIN log = 1..n
      /\ \A k \in 1..n : log[k].event = bare[k].event /\ log[k].hash = bare[k].hash
  BY DEF GoodLog, SameEvents
<1>1. n \in Nat /\ DOMAIN log = 1..n /\ n >= 1 /\ log # <<>>
  <2>1. 1 \in 1..n /\ DOMAIN <<>> = 1..0 /\ 1 \notin 1..0
    BY <1>0
  <2> HIDE DEF n
  <2> QED
    BY <1>0, <2>1
<1>2. g[{}] = None /\ \A k \in 1..n : g[1..k] = Step("events", log, d, g[1..(k - 1)], k)
  <2>1. IsFold(g, "events", log, d, None, n)
    BY <1>1, FoldsExist
  <2> HIDE DEF g, n
  <2> QED
    BY <1>1, <2>1, FoldSteps
<1>3. log[1].event.type = "SessionStarted"
  <2>1. log[1].event = bare[1].event
    BY <1>0
  <2> QED
    BY <2>1 DEF GoodLog, SessionStarted
<1>4. ASSUME NEW k \in 1..n PROVE log[k].hash \in InteractiveStates(d)
  <2>1. bare \in Seq([event: Events(d), hash: InteractiveStates(d)]) /\ log[k].hash = bare[k].hash
    BY <1>0 DEF GoodLog
  <2> DEFINE Entries == [event: Events(d), hash: InteractiveStates(d)]
  <2>2. bare[k] \in Entries
    <3>1. bare \in Seq(Entries) /\ k \in 1..Len(bare)
      BY <1>0, <2>1
    <3> HIDE DEF Entries
    <3> QED
      BY <3>1
  <2> QED
    BY <2>1, <2>2
<1>5. F = {}
  <2>1. SUFFICES ASSUME F # {} PROVE FALSE
    OBVIOUS
  <2>2. PICK k \in F : \A j \in F : k <= j
    <3>1. F \subseteq Nat
      BY <1>1
    <3> HIDE DEF F
    <3> QED
      BY <2>1, <3>1, LeastNatural
  <2>3. k \in 1..n /\ k \in Nat /\ g[1..k] # log[k].hash
    BY <1>1, <2>2
  <2>4. g[1..k] = FoldedStep(log, d, g[1..(k - 1)], k)
    <3> HIDE DEF g, n
    <3> QED
      BY <1>2, <2>3 DEF Step
  <2>5. log[k].hash \in InteractiveStates(d) /\ ~IsError(log[k].hash)
    BY <1>4, <2>3, StatesAreStates
  <2>6. CASE k = 1
    <3>1. g[1..0] = None
      <4>1. 1..0 = {}
        OBVIOUS
      <4> HIDE DEF g
      <4> QED
        BY <1>2, <4>1
    <3>2. /\ log[1].event.seq = 0
          /\ Reduced(None, log[1].event, d) = InitialState(d) /\ log[1].hash = InitialState(d)
      <4>1. bare[1] = [event |-> SessionStarted(d), hash |-> InitialState(d)]
        BY DEF GoodLog
      <4>2. log[1].event = SessionStarted(d) /\ log[1].hash = InitialState(d)
        BY <1>0, <4>1
      <4>3. Reduced(None, SessionStarted(d), d) = InitialState(d)
        BY DEF SessionStarted, Reduced
      <4>4. SessionStarted(d).seq = 0
        BY DEF SessionStarted
      <4> QED
        BY <4>1, <4>2, <4>3, <4>4
    <3>3. g[1..1] = FoldedStep(log, d, None, 1)
      <4> HIDE DEF g
      <4> QED
        BY <2>4, <2>6, <3>1
    <3> HIDE DEF g
    <3> QED
      BY <2>3, <2>5, <2>6, <3>2, <3>3 DEF FoldedStep
  <2>7. CASE k # 1
    <3>1. k - 1 \in 1..n /\ k \in 2..n /\ k - 1 < k /\ k - 1 \notin F
      BY <1>1, <2>2, <2>3, <2>7
    <3>2. g[1..(k - 1)] = log[k - 1].hash
      BY <3>1
    <3>3. log[k - 1].hash \in InteractiveStates(d)
      BY <1>4, <3>1
    <3>4. log[k - 1].hash # None /\ ~IsError(log[k - 1].hash)
      BY <3>3, StatesAreStates
    <3>5. log[k].event.seq = k - 1 /\ Reduced(log[k - 1].hash, log[k].event, d) = log[k].hash
      BY <1>0, <3>1 DEF GoodLog
    <3> HIDE DEF g
    <3> QED
      BY <2>3, <2>4, <2>5, <3>2, <3>4, <3>5 DEF FoldedStep
  <2> QED
    BY <2>6, <2>7
<1>6. g[1..n] = log[n].hash
  <2>1. n \in 1..n
    BY <1>1
  <2> HIDE DEF g
  <2> QED
    BY <1>5, <2>1
<1>7. Folded(log, d) = g[1..n]
  BY <1>1, <1>3, EventsAreFolded
<1> QED
  <2>1. log[n].hash = bare[Len(bare)].hash
    BY <1>0
  <2> HIDE DEF g
  <2> QED
    BY <1>6, <1>7, <2>1

LEMMA GoodLogReplays ==
    ASSUME NEW d, None \notin InteractiveStates(d), NEW log, GoodLog(log, d)
    PROVE  Folded(log, d) = log[Len(log)].hash
<1>1. SameEvents(log, log)
  BY DEF GoodLog, SameEvents
<1> QED
  BY <1>1, BareLogReplays

-----------------------------------------------------------------------------
(* The baseline and its identities *)

LEMMA BaselineLoads ==
    /\ \A d \in Pinned : StructurallySound(d) /\ Playable(d) /\ Sound(d)
    /\ Cardinality(Stories(Pinned)) = Cardinality(Pinned) /\ IsFiniteSet(Stories(Pinned))
    /\ \A d, e \in Pinned : Identity(d) = Identity(e) => d = e
<1> DEFINE f == [d \in Pinned |-> Identity(d)]
<1>1. /\ \A d \in Pinned : StructurallySound(d) /\ Playable(d) /\ Sound(d)
      /\ Cardinality(Stories(Pinned)) = Cardinality(Pinned) /\ IsFiniteSet(Pinned)
  BY BaselineIsServed DEF Loads, Sound
<1>2. f \in Surjection(Pinned, Stories(Pinned))
  BY DEF Surjection, Stories
<1>3. IsFiniteSet(Stories(Pinned)) /\ f \in Injection(Pinned, Stories(Pinned))
  <2> HIDE DEF f
  <2> QED
    BY <1>1, <1>2, FS_Surjection
<1>4. \A d, e \in Pinned : f[d] = f[e] => d = e
  BY <1>3 DEF Injection, IsInjective
<1> QED
  BY <1>1, <1>3, <1>4

\* What the preflight found is enough for the registry beside the baseline.
LEMMA NewStoryLoads ==
    ASSUME NEW d, StructurallySound(d), Playable(d), Identity(d) \notin Stories(Pinned)
    PROVE  Loads([definitions |-> Pinned \cup {d}, approvals |-> {Approval(d, "approved", TRUE)},
                  described |-> Stories(Pinned \cup {d})])
<1> DEFINE r == Approval(d, "approved", TRUE)
           t == [definitions |-> Pinned \cup {d}, approvals |-> {r},
                 described |-> Stories(Pinned \cup {d})]
<1>1. \A o \in t.definitions : StructurallySound(o) /\ Playable(o)
  BY BaselineLoads
<1>2. \A a \in t.approvals : RecordsOf(t, a.story) = {a}
  BY DEF RecordsOf
<1>3. ASSUME NEW o \in t.definitions PROVE Guarded(t, o)
  <2>1. CASE o \in Pinned
    BY <2>1 DEF Guarded
  <2>2. CASE o = d
    <3>1. {p \in Pinned : Identity(p) = Identity(o)} = {}
      BY <2>2 DEF Stories
    <3>2. r \in RecordsOf(t, Identity(o))
      BY <2>2 DEF RecordsOf, Approval
    <3>3. ApprovalCheck(r, o) = "ok"
      BY <2>2 DEF ApprovalCheck, Approval
    <3> QED
      BY <3>1, <3>2, <3>3 DEF Guarded
  <2> QED
    BY <2>1, <2>2
<1>4. Cardinality(Stories(t.definitions)) = Cardinality(t.definitions)
  <2>1. d \notin Pinned /\ Stories(Pinned \cup {d}) = Stories(Pinned) \cup {Identity(d)}
    BY DEF Stories
  <2>2. Cardinality(Stories(Pinned) \cup {Identity(d)}) = Cardinality(Stories(Pinned)) + 1
    BY BaselineLoads, FS_AddElement
  <2>3. Cardinality(Pinned \cup {d}) = Cardinality(Pinned) + 1
    BY <2>1, BaselineIsServed, FS_AddElement
  <2> QED
    BY <2>1, <2>2, <2>3, BaselineLoads
<1>5. t.described = Stories(t.definitions) /\ Stories(Latest(t.definitions)) \subseteq t.described
  BY DEF Stories, Latest
<1> QED
  <2>1. t.described \subseteq Stories(t.definitions)
    BY <1>5
  <2> HIDE DEF t
  <2>2. Loads(t)
    BY <1>1, <1>2, <1>3, <1>4, <1>5, <2>1, Zenon DEF Loads
  <2> QED
    BY <2>2 DEF t

-----------------------------------------------------------------------------
(* The inductive invariant *)

\* A record that may let a definition through was completed by a human.
RecordGood(r) ==
    /\ r = [story |-> r.story, hash |-> r.hash, decision |-> r.decision, complete |-> r.complete]
    /\ r.decision \notin {"pending", "rejected"} /\ r.complete => r.hash \in attested

\* A good log that ends in the state.
LeadsTo(log, state, d) ==
    /\ GoodLog(log, d) /\ state \in InteractiveStates(d)
    /\ log[Len(log)].hash = state /\ Len(log) = state.revision + 1
Longer(log, state, id, d) ==
    Append(log, [event |-> ChoiceMade(state, id), hash |-> Chosen(state, id, d)])

\* A session of pinned content: its log replays to its state.
SessionGood ==
    /\ play = [definition |-> play.definition, state |-> play.state, log |-> play.log]
    /\ play.definition \in Pinned => LeadsTo(play.log, play.state, play.definition)

PublicationInv ==
    /\ template # None => RecordGood(template)
    /\ \A r \in tree.approvals : RecordGood(r)
    /\ Stories(Pinned) \subseteq Stories(tree.definitions)
    /\ \A d \in ready : StructurallySound(d) /\ Playable(d) /\ Identity(d) \notin Stories(Pinned)
    /\ \A d \in server : /\ d \in Pinned \cup attested
                         /\ Identity(d) \in Stories(Pinned) => d \in Pinned
    /\ play # None => SessionGood

LEMMA ControlledByInv == PublicationInv => PublicationIsControlled
<1> SUFFICES ASSUME PublicationInv PROVE PublicationIsControlled
  OBVIOUS
<1>1. ServedWasApproved
  BY DEF PublicationInv, ServedWasApproved
<1>2. PreflightPredictsDeployment
  BY NewStoryLoads DEF PublicationInv, PreflightPredictsDeployment
<1>3. ASSUME play # None, play.definition \in Pinned
      PROVE  ReplayIs(play.log, play.state, play.definition)
  <2>1. /\ GoodLog(play.log, play.definition) /\ None \notin InteractiveStates(play.definition)
        /\ play.log[Len(play.log)].hash = play.state
    BY <1>3, BaselineIsServed DEF PublicationInv, SessionGood, LeadsTo
  <2>2. Folded(play.log, play.definition) = play.state
    BY <2>1, GoodLogReplays
  <2> QED
    BY <2>1, <2>2 DEF ReplayIs, Last
<1> QED
  BY <1>1, <1>2, <1>3 DEF PublicationIsControlled, PinnedSessionsReplay

LEMMA PublicationInit_Inv == PublicationInit => PublicationInv
BY DEF PublicationInit, PublicationInv, Stories

\* Records stay good while nothing that was attested is forgotten.
LEMMA RecordsStayGood ==
    ASSUME attested \subseteq attested'
    PROVE  \A r : RecordGood(r) => RecordGood(r)'
BY DEF RecordGood

\* The steps of the editor.
LEMMA EditorSteps ==
    ASSUME PublicationInv,
           AcceptCandidate \/ HandWriteTemplate \/ EditCandidate \/ Preflight
    PROVE  PublicationInv'
<1>1. UNCHANGED <<attested, tree, server, play>>
  BY DEF AcceptCandidate, HandWriteTemplate, EditCandidate, Preflight
<1>2. \A r : RecordGood(r) => RecordGood(r)'
  BY <1>1, RecordsStayGood
<1>3. template' # None => RecordGood(template')
  <2>1. CASE UNCHANGED template
    BY <2>1 DEF PublicationInv
  <2>2. CASE template' = Approval(Candidate, "pending", FALSE)
    BY <2>2 DEF RecordGood, Approval
  <2> QED
    BY <2>1, <2>2 DEF AcceptCandidate, HandWriteTemplate, EditCandidate, Preflight
<1>4. ASSUME NEW d \in ready'
      PROVE  StructurallySound(d) /\ Playable(d) /\ Identity(d) \notin Stories(Pinned)
  <2>1. CASE d \in ready
    BY <2>1 DEF PublicationInv
  <2>2. CASE d \notin ready
    <3>1. Preflight /\ d = Candidate
      BY <2>2 DEF AcceptCandidate, HandWriteTemplate, EditCandidate, Preflight
    <3>2. Validation(d) = "accepted" /\ Identity(d) \notin Stories(tree.definitions)
      BY <3>1 DEF Preflight
    <3> QED
      BY <3>2 DEF Validation, PublicationInv
  <2> QED
    BY <2>1, <2>2
<1>5. (play # None => SessionGood)'
  BY <1>1 DEF PublicationInv, SessionGood
<1>6. \A r \in tree'.approvals : RecordGood(r)'
  BY <1>1, <1>2 DEF PublicationInv
<1>7. template' # None => RecordGood(template)'
  BY <1>1, <1>3 DEF RecordGood
<1> QED
  BY <1>1, <1>4, <1>5, <1>6, <1>7 DEF PublicationInv

LEMMA AttestStep ==
    ASSUME PublicationInv, NEW decision \in {"approved", "rejected"}, NEW complete \in BOOLEAN,
           Attest(decision, complete)
    PROVE  PublicationInv'
<1>1. UNCHANGED <<ready, tree, server, play>> /\ attested \subseteq attested'
  BY DEF Attest
<1>2. \A r : RecordGood(r) => RecordGood(r)'
  BY <1>1, RecordsStayGood
<1>3. template' # None => RecordGood(template)'
  <2>1. RecordGood(template) /\ template' = [template EXCEPT !.decision = decision, !.complete = complete]
    BY DEF Attest, PublicationInv
  <2>2. /\ template' = [story |-> template.story, hash |-> template.hash,
                        decision |-> decision, complete |-> complete]
    BY <2>1 DEF RecordGood
  <2>3. decision = "approved" /\ complete => template.hash \in attested'
    BY DEF Attest
  <2> QED
    BY <2>2, <2>3 DEF RecordGood
<1> QED
  BY <1>1, <1>2, <1>3 DEF PublicationInv, SessionGood
LEMMA PublishStep ==
    ASSUME PublicationInv, NEW withApproval \in BOOLEAN, Publish(withApproval)
    PROVE  PublicationInv'
<1> DEFINE d == Candidate
           kept == {r \in tree.approvals : r.story # Identity(d)}
           definitions == {o \in tree.definitions : Identity(o) # Identity(d)} \cup {d}
           approvals == IF withApproval THEN kept \cup {template} ELSE tree.approvals
<1>1. UNCHANGED <<draft, template, attested, ready, server, play>>
  BY DEF Publish, editorVars
<1>2. /\ tree'.definitions = definitions /\ tree'.approvals = approvals
      /\ withApproval => template # None
  BY DEF Publish
<1>3. \A r : RecordGood(r) => RecordGood(r)'
  BY <1>1, RecordsStayGood
<1>4. \A r \in approvals : RecordGood(r)
  BY <1>2 DEF PublicationInv
<1>5. Stories(tree.definitions) \subseteq Stories(definitions)
  BY DEF Stories
<1>6. (template # None => RecordGood(template))' /\ (\A r \in tree.approvals : RecordGood(r))'
  BY <1>1, <1>2, <1>3, <1>4 DEF PublicationInv
<1> QED
  BY <1>1, <1>2, <1>5, <1>6 DEF PublicationInv, SessionGood

LEMMA DeployStep ==
    ASSUME PublicationInv, Deploy
    PROVE  PublicationInv'
<1>1. UNCHANGED <<draft, template, attested, ready, tree, play>>
  BY DEF Deploy, editorVars
<1>2. ASSUME NEW d \in server'
      PROVE  d \in Pinned \cup attested /\ (Identity(d) \in Stories(Pinned) => d \in Pinned)
  <2> DEFINE legacy == {p \in Pinned : Identity(p) = Identity(d)}
  <2>1. d \in tree.definitions /\ Guarded(tree, d)
    BY <1>2 DEF Deploy, Loads
  <2>2. CASE legacy # {}
    BY <2>1, <2>2 DEF Guarded
  <2>3. CASE legacy = {}
    <3>1. PICK r \in RecordsOf(tree, Identity(d)) : ApprovalCheck(r, d) = "ok"
      BY <2>1, <2>3 DEF Guarded
    <3>2. RecordGood(r)
      BY DEF RecordsOf, PublicationInv
    <3>3. r.hash = d /\ r.decision \notin {"pending", "rejected"} /\ r.complete
      BY <3>1 DEF ApprovalCheck
    <3>4. Identity(d) \notin Stories(Pinned)
      BY <2>3 DEF Stories
    <3> QED
      BY <3>2, <3>3, <3>4 DEF RecordGood
  <2> QED
    BY <2>2, <2>3
<1>3. \A r : RecordGood(r) => RecordGood(r)'
  BY <1>1, RecordsStayGood
<1> QED
  BY <1>1, <1>2, <1>3 DEF PublicationInv, SessionGood

\* A player's step leaves the editor, the tree and the server alone.
LEMMA PlayerSteps ==
    ASSUME PublicationInv, UNCHANGED <<editorVars, tree, server>>, (play # None => SessionGood)'
    PROVE  PublicationInv'
<1>1. UNCHANGED <<template, attested, ready>>
  BY DEF editorVars
<1>2. \A r : RecordGood(r) => RecordGood(r)'
  BY <1>1, RecordsStayGood
<1> QED
  BY <1>1, <1>2 DEF PublicationInv

LEMMA StartPlayStep ==
    ASSUME PublicationInv, NEW d \in server, StartPlay(d)
    PROVE  PublicationInv'
<1>1. play' = [definition |-> d, state |-> InitialState(d), log |-> LogOf(d, <<>>)]
  BY DEF StartPlay
<1>2. LogOf(d, <<>>) = <<[event |-> SessionStarted(d), hash |-> InitialState(d)]>>
  <2> DEFINE IsTable(t) == t = [k \in 0..0 |->
                 IF k = 0 THEN InitialState(d) ELSE Chosen(t[k - 1], <<>>[k], d)]
             table == CHOOSE t : IsTable(t)
             first == [k \in 0..0 |-> InitialState(d)]
  <2>1. IsTable(first)
    OBVIOUS
  <2>2. IsTable(table)
    <3> HIDE DEF IsTable, first
    <3> QED
      BY <2>1
  <2>3. table[0] = InitialState(d)
    BY <2>2
  <2> DEFINE log == [k \in 1..1 |->
                 [event |-> IF k = 1 THEN SessionStarted(d) ELSE ChoiceMade(table[k - 2], <<>>[k - 1]),
                  hash |-> table[k - 1]]]
  <2>4. LogOf(d, <<>>) = log
    BY DEF LogOf
  <2>5. log = <<[event |-> SessionStarted(d), hash |-> InitialState(d)]>>
    <3> HIDE DEF table
    <3> QED
      BY <2>3
  <2> QED
    BY <2>4, <2>5
<1>3. ASSUME d \in Pinned
      PROVE  GoodLog(LogOf(d, <<>>), d) /\ InitialState(d) \in InteractiveStates(d)
  <2>1. InitialState(d) \in InteractiveStates(d)
    BY <1>3, BaselineLoads, InitialStateType
  <2>2. SessionStarted(d) \in Events(d)
    BY DEF Events
  <2> DEFINE entry == [event |-> SessionStarted(d), hash |-> InitialState(d)]
             Entries == [event: Events(d), hash: InteractiveStates(d)]
             log == LogOf(d, <<>>)
  <2>3. entry \in Entries
    BY <2>1, <2>2
  <2>4. log = <<entry>>
    BY <1>2
  <2>5. log \in Seq(Entries) /\ Len(log) = 1 /\ log[1] = entry
    <3> HIDE DEF entry, Entries, log
    <3> QED
      BY <2>3, <2>4
  <2>6. 2..Len(log) = {}
    <3> HIDE DEF log
    <3> QED
      BY <2>5
  <2> HIDE DEF log
  <2>7. GoodLog(log, d)
    BY <2>5, <2>6 DEF GoodLog
  <2> QED
    BY <2>1, <2>7 DEF log
<1>4. SessionGood'
  <2>1. InitialState(d).revision = 0
    BY DEF InitialState
  <2> DEFINE log == LogOf(d, <<>>)
  <2>2. Len(log) = 1 /\ log[1].hash = InitialState(d)
    BY <1>2
  <2> HIDE DEF log
  <2>3. /\ play' = [definition |-> d, state |-> InitialState(d), log |-> log]
        /\ d \in Pinned => GoodLog(log, d) /\ InitialState(d) \in InteractiveStates(d)
    BY <1>1, <1>3 DEF log
  <2>4. /\ play'.definition = d /\ play'.state = InitialState(d) /\ play'.log = log
        /\ play' = [definition |-> play'.definition, state |-> play'.state, log |-> play'.log]
    BY <2>3
  <2>5. /\ Len(play'.log) = play'.state.revision + 1
        /\ play'.log[Len(play'.log)].hash = play'.state
    <3>1. play'.state.revision = 0
      BY <2>1, <2>4
    <3>2. Len(play'.log) = 1 /\ play'.log[1].hash = play'.state
      BY <2>2, <2>4
    <3> QED
      BY <3>1, <3>2
  <2>6. play'.definition \in Pinned => LeadsTo(play'.log, play'.state, play'.definition)
    BY <2>3, <2>4, <2>5 DEF LeadsTo
  <2> QED
    BY <2>4, <2>6 DEF SessionGood
<1> QED
  BY <1>4, PlayerSteps DEF StartPlay

\* One more choice of a story keeps its log replaying.
LEMMA LogGrows ==
    ASSUME NEW d, Sound(d), None \notin InteractiveStates(d), NEW log, NEW state, LeadsTo(log, state, d),
           NEW id \in AllIds(d), Transition(state, id, d) = "ok"
    PROVE  LeadsTo(Longer(log, state, id, d), Chosen(state, id, d), d)
<1> DEFINE next == Chosen(state, id, d)
           longer == Longer(log, state, id, d)
           entry == [event |-> ChoiceMade(state, id), hash |-> next]
           Entries == [event: Events(d), hash: InteractiveStates(d)]
           n == Len(log)
<1>0. /\ GoodLog(log, d) /\ state \in InteractiveStates(d)
      /\ log[n].hash = state /\ n = state.revision + 1
  BY DEF LeadsTo
<1>1. next \in InteractiveStates(d) /\ next.revision = state.revision + 1
  BY <1>0, ChosenType
<1>2. state.revision \in Nat /\ state.scene \in DOMAIN d.scenes
  BY <1>0, StatesAreStates
<1>3. ChoiceMade(state, id) \in Events(d) /\ ChoiceMade(state, id).seq = state.revision + 1
  BY <1>2 DEF ChoiceMade, Events
<1>4. entry \in Entries
  BY <1>1, <1>3
<1>5. log \in Seq(Entries) /\ n \in Nat /\ n >= 1
  BY <1>0 DEF GoodLog
<1>6. /\ longer \in Seq(Entries) /\ Len(longer) = n + 1 /\ longer[n + 1] = entry
      /\ \A k \in 1..n : longer[k] = log[k]
  <2>1. longer = Append(log, entry)
    BY DEF Longer
  <2>2. n = Len(log)
    OBVIOUS
  <2> HIDE DEF Entries, entry, n, longer
  <2> QED
    BY <1>4, <1>5, <2>1, <2>2
<1>7. ASSUME NEW k \in 2..(n + 1)
      PROVE  /\ longer[k].event.seq = k - 1
             /\ Reduced(longer[k - 1].hash, longer[k].event, d) = longer[k].hash
  <2>1. CASE k = n + 1
    <3>1. longer[k - 1] = log[n] /\ longer[k] = entry
      BY <1>5, <1>6, <2>1
    <3>2. Reduced(state, ChoiceMade(state, id), d) = next
      BY DEF Chosen
    <3> QED
      BY <1>0, <1>2, <1>3, <2>1, <3>1, <3>2
  <2>2. CASE k # n + 1
    <3>1. k \in 2..n /\ k - 1 \in 1..n /\ k \in 1..n
      BY <1>5, <2>2
    <3>2. longer[k] = log[k] /\ longer[k - 1] = log[k - 1]
      BY <1>6, <3>1
    <3> QED
      BY <1>0, <3>1, <3>2 DEF GoodLog
  <2> QED
    BY <2>1, <2>2
<1>8. longer[1] = log[1]
  BY <1>5, <1>6
<1>9. GoodLog(longer, d)
  <2>1. log[1] = [event |-> SessionStarted(d), hash |-> InitialState(d)]
    BY <1>0 DEF GoodLog
  <2> HIDE DEF entry, n, longer
  <2> QED
    BY <1>5, <1>6, <1>7, <1>8, <2>1 DEF GoodLog
<1> QED
  <2>1. longer[Len(longer)].hash = next /\ Len(longer) = next.revision + 1
    BY <1>0, <1>1, <1>2, <1>5, <1>6
  <2> HIDE DEF longer, next
  <2>2. LeadsTo(longer, next, d)
    BY <1>1, <1>9, <2>1 DEF LeadsTo
  <2> QED
    BY <2>2 DEF longer, next

LEMMA AdvanceStep ==
    ASSUME PublicationInv, Advance
    PROVE  PublicationInv'
<1>1. PICK d \in PinnedDefinition : \E id \in {c.id : c \in AllChoices(d)} : Choose(d, id)
  BY DEF Advance
<1>2. PICK id \in {c.id : c \in AllChoices(d)} : Choose(d, id)
  BY <1>1
<1>3. play # None /\ SessionGood
  BY DEF Advance, PublicationInv
<1> DEFINE o == play.definition
           next == Chosen(play.state, id, d)
           longer == Longer(play.log, play.state, id, d)
<1>4. play' = [definition |-> o, state |-> next, log |-> longer]
  BY <1>2, <1>3 DEF Choose, SessionGood, Longer
<1>5. ASSUME o \in Pinned PROVE d = o
  <2>1. d \in server /\ Identity(d) = play.state.story
    BY DEF PinnedDefinition
  <2>2. play.state.story = Identity(o)
    BY <1>3, <1>5, StatesAreStates DEF SessionGood, LeadsTo
  <2>3. d \in Pinned
    BY <1>5, <2>1, <2>2 DEF PublicationInv, Stories
  <2> QED
    BY <1>5, <2>1, <2>2, <2>3, BaselineLoads
<1>6. ASSUME o \in Pinned PROVE LeadsTo(longer, next, o)
  <2>1. d = o /\ d \in Pinned
    BY <1>5, <1>6
  <2>2. LeadsTo(play.log, play.state, d)
    BY <1>3, <1>6, <2>1 DEF SessionGood
  <2>3. Transition(play.state, id, d) = "ok" /\ id \in AllIds(d)
    BY <1>2 DEF Choose, AllIds
  <2>4. LeadsTo(longer, next, d)
    BY <2>1, <2>2, <2>3, BaselineLoads, BaselineIsServed, LogGrows
  <2> QED
    BY <2>1, <2>4
<1>7. SessionGood'
  <2> HIDE DEF o, next, longer
  <2> QED
    BY <1>4, <1>6 DEF SessionGood
<1> QED
  BY <1>2, <1>7, PlayerSteps DEF Choose

LEMMA PublicationNext_Inv == PublicationInv /\ [PublicationNext]_publicationVars => PublicationInv'
<1> SUFFICES ASSUME PublicationInv, [PublicationNext]_publicationVars PROVE PublicationInv'
  OBVIOUS
<1>1. CASE AcceptCandidate \/ HandWriteTemplate \/ EditCandidate \/ Preflight
  BY <1>1, EditorSteps
<1>2. CASE Attest("approved", TRUE) \/ Attest("approved", FALSE) \/ Attest("rejected", TRUE)
  BY <1>2, AttestStep
<1>3. CASE \E withApproval \in BOOLEAN : Publish(withApproval)
  BY <1>3, PublishStep
<1>4. CASE Deploy
  BY <1>4, DeployStep
<1>5. CASE \E d \in server : StartPlay(d)
  BY <1>5, StartPlayStep
<1>6. CASE Advance
  BY <1>6, AdvanceStep
<1>7. CASE UNCHANGED publicationVars
  <2>1. UNCHANGED <<editorVars, tree, server, play>>
    BY <1>7 DEF publicationVars, editorVars
  <2>2. (play # None => SessionGood)'
    BY <2>1 DEF PublicationInv, SessionGood
  <2> QED
    BY <2>1, <2>2, PlayerSteps
<1> QED
  BY <1>1, <1>2, <1>3, <1>4, <1>5, <1>6, <1>7 DEF PublicationNext

\* What is served was approved as it is, deploys as the preflight said, and never
\* changes under a session that is pinned to it.
THEOREM PublicationControlled == PublicationSpec => []PublicationIsControlled
<1>1. PublicationInv => PublicationIsControlled
  BY ControlledByInv
<1> QED
  BY <1>1, PublicationInit_Inv, PublicationNext_Inv, PTL DEF PublicationSpec

-----------------------------------------------------------------------------
(* The sweeper takes only garbage *)

ArtifactMaps == [Labels -> MaybeNs]
BookCheckpoints == [owner: MaybeNs, input: Inputs \cup {0}, art: ArtifactMaps,
                    srcOwner: MaybeNs, srcArt: ArtifactMaps]
BookRows == [exists: BOOLEAN, active: 0..MaxRun, fence: 0..MaxFence, input: Inputs \cup {0},
             revision: 0..MaxRevision, published: MaybeNs, publishedPdf: MaybeNs,
             overrides: ArtifactMaps, checkpoint: BookCheckpoints]
Spendings == [runs: Nat, claims: Nat, revisions: Nat, edits: Nat, late: Nat, faults: Nat]

CleanupRowType ==
    /\ bookRow \in BookRows
    /\ budget \in Budgets
    /\ spent \in Spendings
    /\ spent.runs <= MaxRun /\ spent.revisions <= MaxRevision /\ spent.edits <= MaxEdit
    /\ bookRow.active <= spent.runs /\ bookRow.revision <= spent.revisions
    /\ ~bookRow.exists => bookRow = [EmptyRow EXCEPT !.exists = FALSE] /\ edit = <<>>

\* The namespaces that writers have been given so far.
Given(n) ==
    /\ n \in Namespaces
    /\ n[1] = "run" => n[2] <= spent.runs
    /\ n[1] = "revision" => n[2] <= spent.revisions
    /\ n[1] = "edit" => n[2] <= spent.edits

\* ... without the edit in flight; of these, the ones no pointer will ever name again.
LeftBehind(n) == Given(n) /\ ~(edit # <<>> /\ n = EditNs)
Garbage(n) == LeftBehind(n) /\ ~Protected(n)

\* An owner or artifact of the checkpoint is of a claim before the current one.
Earlier(n) == n # NoNs => n[1] = "run" /\ n[2] <= spent.runs
                          /\ (n[2] = bookRow.active => n[3] < bookRow.fence)
EarlierOrOwn(n) == Earlier(n) \/ (n = CurrentNs /\ bookRow.active # 0)

ClaimGood ==
    /\ claim \in {"none", "claimed", "drawing", "stored"}
    /\ claim # "none" => bookRow.active # 0 /\ bookRow.fence # 0
    /\ LET cp == bookRow.checkpoint IN
       /\ EarlierOrOwn(cp.owner) /\ Earlier(cp.srcOwner)
       /\ \A l \in Labels : Earlier(cp.srcArt[l])
       /\ claim = "claimed" => cp.owner # CurrentNs
       /\ claim \in {"drawing", "stored"} => cp.owner = CurrentNs
       /\ claim = "stored" => \A l \in Labels : cp.art[l] # NoNs
    /\ claim = "stored" => Key(CurrentNs, "pdf") \in objects

CheckpointGood ==
    LET cp == bookRow.checkpoint IN
    \A l \in Labels :
        /\ cp.art[l] # NoNs => cp.art[l] = cp.owner /\ Key(cp.owner, l) \in objects
        /\ cp.srcArt[l] # NoNs => cp.srcArt[l] # cp.owner
        /\ cp.srcArt[l] # NoNs /\ cp.srcArt[l] = cp.srcOwner => Key(cp.srcOwner, l) \in objects

ObjectsGood ==
    /\ objects \subseteq Keys /\ aged \subseteq Namespaces
    /\ \A k \in objects : Given(k.ns)
    /\ edit # <<>> => EditNs \notin aged /\ Key(EditNs, "pdf") \in objects

Passes(queues) == [pc: {"idle", "leading", "listed", "sweeping", "held", "deleting", "done"},
                   keys: SUBSET Keys, queue: queues, todo: SUBSET Keys]

\* A sweeper has listed only what is left behind, and sets out to delete only what no
\* pointer will ever name again.
SweeperGood ==
    /\ cleanupLease.owner \in Sweepers \cup {Dead, NoOwner}
    /\ sweeper = [s \in Sweepers |-> sweeper[s]]
    /\ \A s \in Sweepers :
          /\ sweeper[s] \in Passes({sweeper[s].queue})
          /\ sweeper[s].todo \subseteq sweeper[s].keys
          /\ \A k \in sweeper[s].keys : LeftBehind(k.ns)
          /\ \A k \in sweeper[s].todo : Garbage(k.ns)

CleanupInv == /\ CleanupRowType /\ ClaimGood /\ CheckpointGood /\ ObjectsGood
              /\ ReaderArtifactsKept /\ SweeperGood

-----------------------------------------------------------------------------
LEMMA NamespaceParts ==
    /\ \A n \in Namespaces : /\ n[1] \in {"run", "revision", "edit"} /\ n[2] \in Nat /\ n[2] >= 1
                             /\ n[3] \in Nat /\ n = <<n[1], n[2], n[3]>>
                             /\ n[1] = "revision" => n[3] = 1
    /\ \A r \in 1..MaxRun, f \in 1..MaxFence : Ns("run", r, f) \in Namespaces
    /\ \A r \in 1..MaxRevision : Ns("revision", r, 1) \in Namespaces
    /\ \A e \in 1..MaxEdit : Ns("edit", e, 1) \in Namespaces
BY CleanupBounds DEF Namespaces, Ns

LEMMA NoNsHasNoKey == \A n \in Namespaces : n # NoNs
BY NoNsIsNoNamespace

LEMMA CleanupInit_Inv == CleanupInit => CleanupInv
<1> SUFFICES ASSUME CleanupInit PROVE CleanupInv
  OBVIOUS
<1> USE DEF CleanupInit
<1>1. CleanupRowType
  <2>1. \A b \in Budgets : b.runs \in 0..MaxRun /\ b.revisions \in 0..MaxRevision /\ b.edits \in 0..MaxEdit
    BY CleanupBounds
  <2>2. 0 \in 0..MaxRun /\ 0 \in 0..MaxFence /\ 0 \in 0..MaxRevision /\ 0 <= MaxEdit
    BY CleanupBounds
  <2>3. NoArtifacts \in [Labels -> MaybeNs] /\ NoNs \in MaybeNs
    BY DEF NoArtifacts, MaybeNs
  <2>4. EmptyRow.exists = TRUE
    BY DEF EmptyRow
  <2> QED
    BY <2>1, <2>2, <2>3, <2>4 DEF CleanupRowType, EmptyRow, NoCheckpoint, BookRows, Spendings, BookCheckpoints, ArtifactMaps
<1>2. ClaimGood
  BY DEF ClaimGood, EmptyRow, NoCheckpoint, NoArtifacts, EarlierOrOwn, Earlier
<1>3. CheckpointGood
  BY DEF CheckpointGood, EmptyRow, NoCheckpoint, NoArtifacts
<1>4. ObjectsGood
  BY DEF ObjectsGood
<1>5. ReaderArtifactsKept
  BY DEF ReaderArtifactsKept, Readable, EmptyRow
<1>6. SweeperGood
  BY DEF SweeperGood, IdleSweeper, Passes
<1> QED
  BY <1>1, <1>2, <1>3, <1>4, <1>5, <1>6 DEF CleanupInv

\* What a step of a writer must leave as it is for the sweepers.
LEMMA SweepersKept ==
    ASSUME CleanupInv, UNCHANGED sweepVars,
           \A n : LeftBehind(n) => LeftBehind(n)',
           \A n : Garbage(n) => Garbage(n)'
    PROVE  SweeperGood'
BY DEF CleanupInv, SweeperGood, sweepVars

\* What is left behind stays so while the counters grow and no edit starts.
LEMMA LeftBehindStays ==
    ASSUME CleanupInv, UNCHANGED <<spent.runs, spent.revisions, spent.edits>>,
           edit' = edit \/ edit' = <<>>
    PROVE  \A n : /\ LeftBehind(n) => LeftBehind(n)'
                  /\ Given(n) => Given(n)'
BY DEF LeftBehind, Given, EditNs

\* Saving an object of a namespace that has been given.
LEMMA SaveKeeps ==
    ASSUME CleanupInv, NEW n, NEW f \in Files, Given(n), Save(n, f), UNCHANGED rowVars, UNCHANGED sweepVars,
           spent' \in Spendings,
           UNCHANGED <<spent.runs, spent.revisions, spent.edits>>
    PROVE  CleanupInv'
<1>0. objects \subseteq objects' /\ objects' = objects \cup {Key(n, f)} /\ aged' = aged \ {n}
  BY DEF Save
<1>1. CleanupRowType'
  BY DEF CleanupInv, CleanupRowType, rowVars, sweepVars
<1>2. ClaimGood'
  BY <1>0 DEF CleanupInv, ClaimGood, rowVars, CurrentNs, EarlierOrOwn, Earlier
<1>3. CheckpointGood'
  BY <1>0 DEF CleanupInv, CheckpointGood, rowVars
<1>4. ObjectsGood'
  <2>1. Key(n, f) \in Keys
    BY DEF Given, Key, Keys
  <2>2. Key(n, f).ns = n
    BY DEF Key
  <2>3. \A m : Given(m) => Given(m)'
    BY DEF Given
  <2> QED
    BY <1>0, <2>1, <2>2, <2>3 DEF CleanupInv, ObjectsGood, rowVars, EditNs
<1>5. ReaderArtifactsKept'
  BY <1>0 DEF CleanupInv, ReaderArtifactsKept, rowVars, Readable, ShownNs, PdfNs
<1>6. SweeperGood'
  <2>1. \A m : LeftBehind(m) => LeftBehind(m)'
    BY LeftBehindStays DEF rowVars
  <2>2. \A m : Garbage(m) => Garbage(m)'
    BY <2>1 DEF Garbage, Protected, rowVars
  <2> QED
    BY <2>1, <2>2, SweepersKept
<1> QED
  BY <1>1, <1>2, <1>3, <1>4, <1>5, <1>6 DEF CleanupInv

\* The namespaces of the claim and of the revision under way have been given.
LEMMA CurrentGiven ==
    ASSUME CleanupInv
    PROVE  /\ claim # "none" => Given(CurrentNs) /\ CurrentNs[1] = "run" /\ CurrentNs[2] = bookRow.active
                                /\ CurrentNs[3] = bookRow.fence
           /\ bookRow.revision # 0 => Given(RevisionNs)
<1>1. bookRow.active \in Nat /\ bookRow.fence \in Nat /\ bookRow.revision \in Nat
  BY CleanupBounds DEF CleanupInv, CleanupRowType, BookRows, Spendings, BookCheckpoints, ArtifactMaps
<1>2. ASSUME claim # "none" PROVE Given(CurrentNs) /\ CurrentNs[1] = "run" /\ CurrentNs[2] = bookRow.active
                                  /\ CurrentNs[3] = bookRow.fence
  <2>1. bookRow.active \in 1..MaxRun /\ bookRow.fence \in 1..MaxFence /\ bookRow.active <= spent.runs
    BY <1>1, <1>2, CleanupBounds DEF CleanupInv, CleanupRowType, ClaimGood, BookRows, Spendings, BookCheckpoints, ArtifactMaps
  <2>2. CurrentNs \in Namespaces
    BY <2>1, NamespaceParts DEF CurrentNs
  <2>3. CurrentNs = <<"run", bookRow.active, bookRow.fence>>
    BY DEF CurrentNs, Ns
  <2> QED
    BY <2>1, <2>2, <2>3 DEF Given
<1>3. ASSUME bookRow.revision # 0 PROVE Given(RevisionNs)
  <2>1. bookRow.revision \in 1..MaxRevision /\ bookRow.revision <= spent.revisions
    BY <1>1, <1>3, CleanupBounds DEF CleanupInv, CleanupRowType, BookRows, Spendings, BookCheckpoints, ArtifactMaps
  <2>2. RevisionNs \in Namespaces
    BY <2>1, NamespaceParts DEF RevisionNs
  <2>3. RevisionNs = <<"revision", bookRow.revision, 1>>
    BY DEF RevisionNs, Ns
  <2> QED
    BY <2>1, <2>2, <2>3 DEF Given
<1> QED
  BY <1>2, <1>3

LEMMA SaveSteps ==
    ASSUME CleanupInv,
           \/ \E l \in Labels : SettleImage(l) \/ StoreCandidate(l)
           \/ StoreRevisionPdf
           \/ \E n \in Namespaces, f \in Files : LateSave(n, f)
    PROVE  CleanupInv'
<1>0. spent \in Spendings
  BY DEF CleanupInv, CleanupRowType
<1>1. ASSUME NEW l \in Labels, SettleImage(l) PROVE CleanupInv'
  <2>1. Given(CurrentNs) /\ l \in Files
    BY <1>1, CurrentGiven DEF SettleImage, Pending, Files
  <2> QED
    BY <1>0, <1>1, <2>1, SaveKeeps DEF SettleImage
<1>2. ASSUME NEW l \in Labels, StoreCandidate(l) PROVE CleanupInv'
  <2>1. Given(RevisionNs) /\ l \in Files
    BY <1>2, CurrentGiven DEF StoreCandidate, Files
  <2> QED
    BY <1>0, <1>2, <2>1, SaveKeeps DEF StoreCandidate
<1>3. ASSUME StoreRevisionPdf PROVE CleanupInv'
  <2>1. Given(RevisionNs) /\ "pdf" \in Files
    BY <1>3, CurrentGiven DEF StoreRevisionPdf, Files
  <2> QED
    BY <1>0, <1>3, <2>1, SaveKeeps DEF StoreRevisionPdf
<1>4. ASSUME NEW n \in Namespaces, NEW f \in Files, LateSave(n, f) PROVE CleanupInv'
  <2>1. Given(n)
    BY <1>4 DEF LateSave, Given
  <2>2. /\ spent' \in Spendings
        /\ UNCHANGED <<spent.runs, spent.revisions, spent.edits>>
    BY <1>0, <1>4 DEF LateSave, Spendings
  <2> QED
    BY <1>4, <2>1, <2>2, SaveKeeps DEF LateSave
<1> QED
  BY <1>1, <1>2, <1>3, <1>4

\* A step on the row that stores nothing and leaves an edit in flight alone.
LEMMA RowSteps ==
    ASSUME CleanupInv, UNCHANGED <<objects, aged, edit, sweepVars>>, spent'.edits = spent.edits,
           spent'.runs >= spent.runs, spent'.revisions >= spent.revisions,
           CleanupRowType', ClaimGood', CheckpointGood', ReaderArtifactsKept',
           \A n : LeftBehind(n) /\ ~Protected(n) => ~Protected(n)'
    PROVE  CleanupInv'
<1>1. \A n : Given(n) => Given(n)'
  <2> SUFFICES ASSUME NEW n, Given(n) PROVE Given(n)'
    OBVIOUS
  <2>1. n[2] \in Nat
    BY NamespaceParts DEF Given
  <2>2. /\ spent.runs \in Nat /\ spent'.runs \in Nat /\ spent.revisions \in Nat /\ spent'.revisions \in Nat
    BY DEF CleanupInv, CleanupRowType, BookRows, Spendings, BookCheckpoints, ArtifactMaps
  <2> QED
    BY <2>1, <2>2 DEF Given
<1>2. \A n : LeftBehind(n) => LeftBehind(n)'
  BY <1>1 DEF LeftBehind, EditNs
<1>3. ObjectsGood'
  BY <1>1 DEF CleanupInv, ObjectsGood, EditNs
<1>4. SweeperGood'
  BY <1>2, SweepersKept DEF Garbage
<1> QED
  BY <1>3, <1>4 DEF CleanupInv

LEMMA StartRunStep ==
    ASSUME CleanupInv, StartRun
    PROVE  CleanupInv'
<1>0. PICK i \in Inputs : bookRow' = [bookRow EXCEPT !.active = spent.runs + 1, !.fence = 0, !.input = i]
  BY DEF StartRun
<1>1. /\ bookRow.exists /\ bookRow.active = 0 /\ spent.runs < budget.runs
      /\ spent' = [spent EXCEPT !.runs = @ + 1]
      /\ UNCHANGED <<objects, aged, claim, edit, sweepVars>>
  BY DEF StartRun
<1>2. budget.runs \in 0..MaxRun /\ spent.runs \in Nat
  BY CleanupBounds DEF CleanupInv, CleanupRowType, BookRows, Spendings, BookCheckpoints, ArtifactMaps
<1>3. /\ spent'.runs = spent.runs + 1 /\ spent'.edits = spent.edits /\ spent'.revisions = spent.revisions
      /\ spent' \in Spendings
  BY <1>1, <1>2 DEF CleanupInv, CleanupRowType, BookRows, Spendings, BookCheckpoints, ArtifactMaps
<1>4. /\ bookRow'.active = spent.runs + 1 /\ bookRow'.fence = 0 /\ bookRow'.exists
      /\ bookRow'.checkpoint = bookRow.checkpoint /\ bookRow'.published = bookRow.published
      /\ bookRow'.publishedPdf = bookRow.publishedPdf /\ bookRow'.overrides = bookRow.overrides
      /\ bookRow'.revision = bookRow.revision
  BY <1>0, <1>1 DEF CleanupInv, CleanupRowType
<1>5. CleanupRowType'
  <2>1. spent.runs + 1 \in 0..MaxRun /\ 0 \in 0..MaxFence
    BY <1>1, <1>2, CleanupBounds
  <2>2. budget' = budget
    BY <1>1 DEF sweepVars
  <2>3. bookRow' \in BookRows
    BY <1>0, <2>1 DEF CleanupInv, CleanupRowType, BookRows, Spendings, BookCheckpoints, ArtifactMaps
  <2> QED
    BY <1>1, <1>2, <1>3, <1>4, <2>1, <2>2, <2>3 DEF CleanupInv, CleanupRowType
<1>6. claim = "none"
  BY <1>1 DEF CleanupInv, ClaimGood
<1>7. ASSUME NEW n, EarlierOrOwn(n), n \in MaybeNs
      PROVE  Earlier(n)'
  <2>1. n \in Namespaces => n[2] \in Nat
    BY NamespaceParts
  <2>2. n # NoNs => n[1] = "run" /\ n[2] <= spent.runs
    BY <1>1, <1>7 DEF EarlierOrOwn, Earlier
  <2> QED
    BY <1>2, <1>3, <1>4, <1>7, <2>1, <2>2 DEF Earlier, MaybeNs
<1>8. ClaimGood'
  <2>1. \A l \in Labels : bookRow.checkpoint.srcArt[l] \in MaybeNs
    BY DEF CleanupInv, CleanupRowType, BookRows, Spendings, BookCheckpoints, ArtifactMaps
  <2>2. bookRow.checkpoint.owner \in MaybeNs /\ bookRow.checkpoint.srcOwner \in MaybeNs
    BY DEF CleanupInv, CleanupRowType, BookRows, Spendings, BookCheckpoints, ArtifactMaps
  <2>3. claim' = "none"
    BY <1>1, <1>6
  <2>4. \A n : Earlier(n) => EarlierOrOwn(n)
    BY DEF EarlierOrOwn
  <2>5. /\ Earlier(bookRow.checkpoint.owner)' /\ Earlier(bookRow.checkpoint.srcOwner)'
        /\ \A l \in Labels : Earlier(bookRow.checkpoint.srcArt[l])'
    BY <1>4, <1>7, <2>1, <2>2, <2>4 DEF CleanupInv, ClaimGood
  <2> QED
    BY <1>4, <2>3, <2>5 DEF ClaimGood, EarlierOrOwn
<1>9. CheckpointGood'
  BY <1>1, <1>4 DEF CleanupInv, CheckpointGood
<1>10. ReaderArtifactsKept'
  BY <1>1, <1>4 DEF CleanupInv, ReaderArtifactsKept, Readable, ShownNs, PdfNs
<1>11. ASSUME NEW n, LeftBehind(n), ~Protected(n)
       PROVE  ~Protected(n)'
  <2>1. n \in Namespaces /\ n[2] \in Nat /\ (n[1] = "run" => n[2] <= spent.runs)
    BY <1>11, NamespaceParts DEF LeftBehind, Given
  <2> QED
    BY <1>1, <1>2, <1>4, <1>11, <2>1 DEF Protected
<1> QED
  BY <1>1, <1>2, <1>3, <1>5, <1>8, <1>9, <1>10, <1>11, RowSteps DEF Spendings

LEMMA ClaimRunStep ==
    ASSUME CleanupInv, ClaimRun
    PROVE  CleanupInv'
<1>1. /\ bookRow.active # 0 /\ bookRow.fence < MaxFence
      /\ spent' = [spent EXCEPT !.claims = @ + 1]
      /\ bookRow' = [bookRow EXCEPT !.fence = @ + 1]
      /\ claim' = "claimed"
      /\ UNCHANGED <<objects, aged, edit, sweepVars>>
  BY DEF ClaimRun
<1>2. bookRow \in BookRows /\ spent \in Spendings
  BY DEF CleanupInv, CleanupRowType
<1>3. /\ spent' \in Spendings /\ spent'.edits = spent.edits /\ spent'.revisions = spent.revisions
      /\ spent'.runs = spent.runs
  BY <1>1, <1>2 DEF Spendings
<1>4. bookRow.fence \in Nat /\ bookRow.fence + 1 \in 0..MaxFence
  BY <1>1, <1>2, CleanupBounds DEF BookRows
<1>5. /\ bookRow' \in BookRows /\ bookRow'.fence = bookRow.fence + 1
      /\ bookRow'.active = bookRow.active /\ bookRow'.exists = bookRow.exists
      /\ bookRow'.checkpoint = bookRow.checkpoint /\ bookRow'.published = bookRow.published
      /\ bookRow'.publishedPdf = bookRow.publishedPdf /\ bookRow'.overrides = bookRow.overrides
      /\ bookRow'.revision = bookRow.revision
  BY <1>1, <1>2, <1>4 DEF BookRows
<1>6. bookRow.exists
  BY <1>1 DEF CleanupInv, CleanupRowType, EmptyRow
<1>7. CleanupRowType'
  BY <1>1, <1>3, <1>5, <1>6 DEF CleanupInv, CleanupRowType, sweepVars
<1>8. ASSUME NEW n, EarlierOrOwn(n), n \in MaybeNs
      PROVE  Earlier(n)'
  <2>1. n \in Namespaces => n[2] \in Nat /\ n[3] \in Nat
    BY NamespaceParts
  <2>2. n = CurrentNs => n[1] = "run" /\ n[2] = bookRow.active /\ n[3] = bookRow.fence
    BY DEF CurrentNs, Ns
  <2>3. bookRow.active <= spent.runs
    BY DEF CleanupInv, CleanupRowType
  <2> QED
    BY <1>3, <1>4, <1>5, <1>8, <2>1, <2>2, <2>3 DEF EarlierOrOwn, Earlier, MaybeNs
<1>9. ClaimGood'
  <2>1. \A l \in Labels : bookRow.checkpoint.srcArt[l] \in MaybeNs
    BY <1>2 DEF BookRows, BookCheckpoints, ArtifactMaps
  <2>2. bookRow.checkpoint.owner \in MaybeNs /\ bookRow.checkpoint.srcOwner \in MaybeNs
    BY <1>2 DEF BookRows, BookCheckpoints
  <2>3. /\ Earlier(bookRow.checkpoint.owner)' /\ Earlier(bookRow.checkpoint.srcOwner)'
        /\ \A l \in Labels : Earlier(bookRow.checkpoint.srcArt[l])'
    BY <1>5, <1>8, <2>1, <2>2 DEF CleanupInv, ClaimGood, EarlierOrOwn
  <2>4. bookRow'.checkpoint.owner # CurrentNs'
    <3>1. CurrentNs' = <<"run", bookRow.active, bookRow.fence + 1>>
      BY <1>5 DEF CurrentNs, Ns
    <3>2. bookRow.active \in 1..MaxRun /\ bookRow.fence + 1 \in 1..MaxFence
      BY <1>1, <1>2, <1>4, CleanupBounds DEF BookRows
    <3>3. CurrentNs' \in Namespaces
      BY <3>1, <3>2, NamespaceParts DEF Ns
    <3>4. CurrentNs' # NoNs
      BY <3>3, NoNsHasNoKey
    <3> QED
      BY <1>4, <1>5, <2>3, <3>1, <3>4 DEF Earlier
  <2> QED
    BY <1>1, <1>4, <1>5, <2>3, <2>4 DEF ClaimGood, EarlierOrOwn
<1>10. CheckpointGood'
  BY <1>1, <1>5 DEF CleanupInv, CheckpointGood
<1>11. ReaderArtifactsKept'
  BY <1>1, <1>5 DEF CleanupInv, ReaderArtifactsKept, Readable, ShownNs, PdfNs
<1>12. \A n : ~Protected(n) => ~Protected(n)'
  BY <1>5 DEF Protected
<1> QED
  BY <1>1, <1>2, <1>3, <1>7, <1>9, <1>10, <1>11, <1>12, RowSteps DEF Spendings

\* What a write of the current claim makes of the checkpoint.
LEMMA CheckpointWritten ==
    ASSUME CleanupInv, claim # "none", NEW art \in ArtifactMaps
    PROVE  /\ Checkpointed(art) \in BookCheckpoints
           /\ Checkpointed(art).owner = CurrentNs
           /\ CurrentNs \in Namespaces /\ CurrentNs # NoNs
           /\ bookRow.checkpoint.owner = CurrentNs =>
                /\ Checkpointed(art).art = [l \in Labels |-> IF art[l] # NoNs THEN art[l]
                                                             ELSE bookRow.checkpoint.art[l]]
                /\ Checkpointed(art).srcOwner = bookRow.checkpoint.srcOwner
                /\ Checkpointed(art).srcArt = bookRow.checkpoint.srcArt
           /\ bookRow.checkpoint.owner # CurrentNs =>
                /\ Checkpointed(art).art = art
                /\ \/ Checkpointed(art).srcOwner = NoNs /\ Checkpointed(art).srcArt = NoArtifacts
                   \/ /\ Checkpointed(art).srcOwner = bookRow.checkpoint.owner
                      /\ Checkpointed(art).srcArt = EffectiveArtifacts
<1> DEFINE cp == bookRow.checkpoint
<1>1. bookRow \in BookRows /\ cp \in BookCheckpoints
  BY DEF CleanupInv, CleanupRowType, BookRows
<1>2. Given(CurrentNs) /\ CurrentNs \in Namespaces /\ CurrentNs # NoNs
  BY CurrentGiven, NoNsHasNoKey DEF Given
<1>3. NoArtifacts \in ArtifactMaps /\ EffectiveArtifacts \in ArtifactMaps /\ NoNs \in MaybeNs
      /\ CurrentNs \in MaybeNs
  BY <1>1, <1>2 DEF NoArtifacts, EffectiveArtifacts, ArtifactMaps, MaybeNs, BookCheckpoints
<1>4. [l \in Labels |-> IF art[l] # NoNs THEN art[l] ELSE cp.art[l]] \in ArtifactMaps
  BY <1>1 DEF ArtifactMaps, BookCheckpoints
<1>5. CASE cp.owner = CurrentNs
  <2>1. Checkpointed(art) = [cp EXCEPT !.art = [l \in Labels |-> IF art[l] # NoNs THEN art[l] ELSE cp.art[l]]]
    BY <1>5 DEF Checkpointed
  <2> QED
    BY <1>1, <1>2, <1>4, <1>5, <2>1 DEF BookCheckpoints
<1>6. CASE cp.owner # CurrentNs
  <2>1. Checkpointed(art) = [owner |-> CurrentNs, input |-> bookRow.input, art |-> art,
                             srcOwner |-> IF Compatible THEN cp.owner ELSE NoNs,
                             srcArt |-> IF Compatible THEN EffectiveArtifacts ELSE NoArtifacts]
    BY <1>6 DEF Checkpointed
  <2>2. bookRow.input \in Inputs \cup {0} /\ cp.owner \in MaybeNs
    BY <1>1 DEF BookRows, BookCheckpoints
  <2> QED
    BY <1>2, <1>3, <1>6, <2>1, <2>2 DEF BookCheckpoints
<1> QED
  BY <1>5, <1>6

LEMMA CheckpointStep ==
    ASSUME CleanupInv, claim # "none", NEW art \in ArtifactMaps,
           bookRow' = [bookRow EXCEPT !.checkpoint = Checkpointed(art)],
           UNCHANGED <<objects, aged, edit, sweepVars, spent>>, ClaimGood', CheckpointGood'
    PROVE  CleanupInv'
<1>1. bookRow \in BookRows /\ spent \in Spendings
  BY DEF CleanupInv, CleanupRowType
<1>2. Checkpointed(art) \in BookCheckpoints
  BY CheckpointWritten
<1>3. /\ bookRow' \in BookRows /\ bookRow'.checkpoint = Checkpointed(art)
      /\ bookRow'.active = bookRow.active /\ bookRow'.exists = bookRow.exists
      /\ bookRow'.published = bookRow.published /\ bookRow'.publishedPdf = bookRow.publishedPdf
      /\ bookRow'.overrides = bookRow.overrides /\ bookRow'.revision = bookRow.revision
  BY <1>1, <1>2 DEF BookRows
<1>4. bookRow.exists
  BY DEF CleanupInv, CleanupRowType, EmptyRow, ClaimGood
<1>5. CleanupRowType'
  BY <1>1, <1>3, <1>4 DEF CleanupInv, CleanupRowType, sweepVars
<1>6. ReaderArtifactsKept'
  BY <1>3 DEF CleanupInv, ReaderArtifactsKept, Readable, ShownNs, PdfNs
<1>7. ASSUME NEW n, LeftBehind(n), ~Protected(n)
      PROVE  ~Protected(n)'
  <2>1. n # NoNs
    BY <1>7, NoNsHasNoKey DEF LeftBehind, Given
  <2>2. n # CurrentNs
    <3>1. CurrentNs[1] = "run" /\ CurrentNs[2] = bookRow.active
      BY DEF CurrentNs, Ns
    <3> QED
      BY <1>4, <1>7, <3>1 DEF Protected
  <2>3. n # bookRow.checkpoint.owner /\ n # bookRow.checkpoint.srcOwner
    BY <1>4, <1>7 DEF Protected
  <2>4. n # Checkpointed(art).owner /\ n # Checkpointed(art).srcOwner
    BY <2>1, <2>2, <2>3, CheckpointWritten
  <2> QED
    BY <1>3, <1>7, <2>4 DEF Protected
<1> QED
  BY <1>1, <1>5, <1>6, <1>7, RowSteps DEF Spendings

LEMMA CheckpointCharacterStep ==
    ASSUME CleanupInv, CheckpointCharacter
    PROVE  CleanupInv'
<1> DEFINE cp == bookRow.checkpoint
<1>1. /\ claim = "claimed" /\ claim' = "drawing"
      /\ bookRow' = [bookRow EXCEPT !.checkpoint = Checkpointed(NoArtifacts)]
      /\ UNCHANGED <<objects, aged, edit, sweepVars, spent>>
  BY DEF CheckpointCharacter
<1>2. NoArtifacts \in ArtifactMaps
  BY DEF NoArtifacts, ArtifactMaps, MaybeNs
<1>3. bookRow \in BookRows
  BY DEF CleanupInv, CleanupRowType
<1>4. /\ bookRow'.active = bookRow.active /\ bookRow'.fence = bookRow.fence
      /\ bookRow'.checkpoint = Checkpointed(NoArtifacts)
  BY <1>1, <1>3 DEF BookRows
<1>5. cp.owner # CurrentNs /\ bookRow.active # 0 /\ bookRow.fence # 0
  BY <1>1 DEF CleanupInv, ClaimGood
<1>6. CurrentNs' = CurrentNs /\ (\A n : Earlier(n)' <=> Earlier(n))
  BY <1>1, <1>4 DEF CurrentNs, Earlier
<1>7. /\ Checkpointed(NoArtifacts).owner = CurrentNs /\ CurrentNs # NoNs
      /\ Checkpointed(NoArtifacts).art = NoArtifacts
      /\ \/ Checkpointed(NoArtifacts).srcOwner = NoNs /\ Checkpointed(NoArtifacts).srcArt = NoArtifacts
         \/ Checkpointed(NoArtifacts).srcOwner = cp.owner /\ Checkpointed(NoArtifacts).srcArt = EffectiveArtifacts
  BY <1>1, <1>2, <1>5, CheckpointWritten
<1>8. Earlier(cp.owner)
  BY <1>5 DEF CleanupInv, ClaimGood, EarlierOrOwn
<1>9. ASSUME NEW l \in Labels
      PROVE  /\ Earlier(EffectiveArtifacts[l]) /\ Earlier(NoArtifacts[l])
             /\ EffectiveArtifacts[l] # NoNs /\ EffectiveArtifacts[l] = cp.owner => Key(cp.owner, l) \in objects
  <2>1. EffectiveArtifacts[l] = IF cp.art[l] # NoNs THEN cp.art[l] ELSE cp.srcArt[l]
    BY DEF EffectiveArtifacts
  <2>2. NoArtifacts[l] = NoNs
    BY DEF NoArtifacts
  <2> QED
    BY <1>8, <2>1, <2>2 DEF CleanupInv, ClaimGood, CheckpointGood, Earlier
<1>10. ASSUME NEW n, Earlier(n), n # NoNs PROVE n # CurrentNs
  <2>1. bookRow.fence \in Nat
    BY <1>3, CleanupBounds DEF BookRows
  <2>2. CurrentNs[2] = bookRow.active /\ CurrentNs[3] = bookRow.fence
    BY DEF CurrentNs, Ns
  <2> QED
    BY <1>10, <2>1, <2>2 DEF Earlier
<1>11. ClaimGood'
  <2>1. Earlier(NoNs)
    BY DEF Earlier
  <2>2. \A l \in Labels : Earlier(Checkpointed(NoArtifacts).srcArt[l])
    BY <1>7, <1>9
  <2>3. Earlier(Checkpointed(NoArtifacts).srcOwner)
    BY <1>7, <1>8, <2>1
  <2> QED
    BY <1>1, <1>4, <1>5, <1>6, <1>7, <2>2, <2>3 DEF ClaimGood, EarlierOrOwn
<1>12. CheckpointGood'
  <2>1. \A l \in Labels : NoArtifacts[l] = NoNs
    BY DEF NoArtifacts
  <2> QED
    BY <1>1, <1>4, <1>7, <1>9, <1>10, <2>1 DEF CheckpointGood
<1> QED
  BY <1>1, <1>2, <1>11, <1>12, CheckpointStep

LEMMA RecordArtifactStep ==
    ASSUME CleanupInv, NEW l \in Labels, RecordArtifact(l)
    PROVE  CleanupInv'
<1> DEFINE cp == bookRow.checkpoint
           art == [NoArtifacts EXCEPT ![l] = CurrentNs]
<1>1. /\ claim = "drawing" /\ claim' = claim /\ Key(CurrentNs, l) \in objects
      /\ bookRow' = [bookRow EXCEPT !.checkpoint = Checkpointed(art)]
      /\ UNCHANGED <<objects, aged, edit, sweepVars, spent>>
  BY DEF RecordArtifact, Pending
<1>2. art \in ArtifactMaps /\ \A k \in Labels : art[k] = IF k = l THEN CurrentNs ELSE NoNs
  <2>1. CurrentNs \in MaybeNs /\ NoNs \in MaybeNs
    BY <1>1, CurrentGiven DEF Given, MaybeNs
  <2> QED
    BY <2>1 DEF NoArtifacts, ArtifactMaps
<1>3. bookRow \in BookRows
  BY DEF CleanupInv, CleanupRowType
<1> HIDE DEF art
<1>4. /\ bookRow'.active = bookRow.active /\ bookRow'.fence = bookRow.fence
      /\ bookRow'.checkpoint = Checkpointed(art)
  BY <1>1, <1>3 DEF BookRows
<1>5. cp.owner = CurrentNs /\ bookRow.active # 0 /\ bookRow.fence # 0
  BY <1>1 DEF CleanupInv, ClaimGood
<1>6. CurrentNs' = CurrentNs /\ (\A n : Earlier(n)' <=> Earlier(n))
  BY <1>1, <1>4 DEF CurrentNs, Earlier
<1>7. /\ Checkpointed(art).owner = CurrentNs /\ CurrentNs # NoNs
      /\ Checkpointed(art).art = [k \in Labels |-> IF art[k] # NoNs THEN art[k] ELSE cp.art[k]]
      /\ Checkpointed(art).srcOwner = cp.srcOwner /\ Checkpointed(art).srcArt = cp.srcArt
  BY <1>1, <1>2, <1>5, CheckpointWritten
<1>8. ClaimGood'
  BY <1>1, <1>4, <1>5, <1>6, <1>7 DEF CleanupInv, ClaimGood, EarlierOrOwn
<1>9. CheckpointGood'
  BY <1>1, <1>2, <1>4, <1>5, <1>7 DEF CleanupInv, CheckpointGood
<1> QED
  BY <1>1, <1>2, <1>8, <1>9, CheckpointStep

LEMMA StorePreviewStep ==
    ASSUME CleanupInv, StorePreview
    PROVE  CleanupInv'
<1>1. /\ claim = "drawing" /\ claim' = "stored" /\ \A l \in Labels : ~Pending(l)
      /\ objects' = objects \cup {Key(CurrentNs, "pdf")} /\ aged' = aged \ {CurrentNs}
      /\ UNCHANGED <<bookRow, edit, sweepVars, spent>>
  BY DEF StorePreview, Save
<1>2. Given(CurrentNs)
  BY <1>1, CurrentGiven
<1>3. \A n : (LeftBehind(n) => LeftBehind(n)') /\ (Given(n) => Given(n)')
  BY <1>1, LeftBehindStays
<1>4. CleanupRowType'
  BY <1>1 DEF CleanupInv, CleanupRowType, sweepVars
<1>5. ClaimGood'
  <2>1. CurrentNs' = CurrentNs /\ \A n : Earlier(n)' <=> Earlier(n)
    BY <1>1 DEF CurrentNs, Earlier
  <2> QED
    BY <1>1, <2>1 DEF CleanupInv, ClaimGood, EarlierOrOwn, Pending
<1>6. CheckpointGood'
  BY <1>1 DEF CleanupInv, CheckpointGood
<1>7. ObjectsGood'
  <2>1. Key(CurrentNs, "pdf") \in Keys /\ Key(CurrentNs, "pdf").ns = CurrentNs
    BY <1>2 DEF Given, Key, Keys, Files
  <2> QED
    BY <1>1, <1>2, <1>3, <2>1 DEF CleanupInv, ObjectsGood, EditNs
<1>8. ReaderArtifactsKept'
  BY <1>1 DEF CleanupInv, ReaderArtifactsKept, Readable, ShownNs, PdfNs
<1>9. SweeperGood'
  BY <1>1, <1>3, SweepersKept DEF Garbage, Protected
<1> QED
  BY <1>4, <1>5, <1>6, <1>7, <1>8, <1>9 DEF CleanupInv

\* The run is over; the pointers to what is shown may have moved to its artifacts.
LEMMA ReleasedStep ==
    ASSUME CleanupInv, bookRow.active # 0, bookRow' = Released \/ PublishRun,
           claim' = "none", UNCHANGED <<objects, aged, edit, sweepVars, spent>>
    PROVE  CleanupInv'
<1>1. bookRow \in BookRows /\ spent \in Spendings /\ 0 \in 0..MaxRun /\ 0 \in 0..MaxFence
  BY CleanupBounds DEF CleanupInv, CleanupRowType
<1>2. Released \in BookRows /\ Released.active = 0 /\ Released.fence = 0
      /\ Released.exists = bookRow.exists /\ Released.checkpoint = bookRow.checkpoint
      /\ Released.published = bookRow.published /\ Released.publishedPdf = bookRow.publishedPdf
      /\ Released.overrides = bookRow.overrides /\ Released.revision = bookRow.revision
  BY <1>1 DEF Released, BookRows
<1>3. PublishRun => claim = "stored" /\ CurrentNs \in Namespaces
                    /\ bookRow' = [Released EXCEPT !.published = CurrentNs, !.publishedPdf = NoNs,
                                                   !.overrides = NoArtifacts]
  BY CurrentGiven DEF PublishRun, Given
<1>4. PublishRun => /\ bookRow' \in BookRows /\ bookRow'.published = CurrentNs
                    /\ bookRow'.publishedPdf = NoNs /\ bookRow'.overrides = NoArtifacts
  <2>1. NoArtifacts \in ArtifactMaps /\ NoNs \in MaybeNs
    BY DEF MaybeNs, NoArtifacts, ArtifactMaps
  <2>2. PublishRun => CurrentNs \in MaybeNs
    BY <1>3 DEF MaybeNs
  <2> QED
    BY <1>2, <1>3, <2>1, <2>2 DEF BookRows
<1>5. /\ bookRow' \in BookRows /\ bookRow'.active = 0 /\ bookRow'.fence = 0
      /\ bookRow'.exists = bookRow.exists /\ bookRow'.checkpoint = bookRow.checkpoint
      /\ bookRow'.revision = bookRow.revision
  BY <1>2, <1>3, <1>4 DEF BookRows
<1>6. bookRow.exists
  BY DEF CleanupInv, CleanupRowType, EmptyRow
<1>7. CleanupRowType'
  BY <1>1, <1>5, <1>6 DEF CleanupInv, CleanupRowType, sweepVars, Spendings
<1>8. ASSUME NEW n, EarlierOrOwn(n), n \in MaybeNs
      PROVE  Earlier(n)'
  <2>1. n \in Namespaces => n[2] >= 1 /\ n[2] \in Nat
    BY NamespaceParts
  <2>2. n = CurrentNs => n[1] = "run" /\ n[2] = bookRow.active
    BY DEF CurrentNs, Ns
  <2>3. bookRow.active <= spent.runs
    BY DEF CleanupInv, CleanupRowType
  <2> QED
    BY <1>5, <1>8, <2>1, <2>2, <2>3 DEF EarlierOrOwn, Earlier, MaybeNs
<1>9. ClaimGood'
  <2>1. \A l \in Labels : bookRow.checkpoint.srcArt[l] \in MaybeNs
    BY <1>1 DEF BookRows, BookCheckpoints, ArtifactMaps
  <2>2. bookRow.checkpoint.owner \in MaybeNs /\ bookRow.checkpoint.srcOwner \in MaybeNs
    BY <1>1 DEF BookRows, BookCheckpoints
  <2>3. /\ Earlier(bookRow.checkpoint.owner)' /\ Earlier(bookRow.checkpoint.srcOwner)'
        /\ \A l \in Labels : Earlier(bookRow.checkpoint.srcArt[l])'
    BY <1>5, <1>8, <2>1, <2>2 DEF CleanupInv, ClaimGood, EarlierOrOwn
  <2> QED
    BY <1>5, <2>3 DEF ClaimGood, EarlierOrOwn
<1>10. CheckpointGood'
  BY <1>5 DEF CleanupInv, CheckpointGood
<1>11. ReaderArtifactsKept'
  <2>1. CASE bookRow' = Released
    BY <1>2, <2>1 DEF CleanupInv, ReaderArtifactsKept, Readable, ShownNs, PdfNs
  <2>2. CASE PublishRun
    <3>1. \A l \in Labels : NoArtifacts[l] = NoNs
      BY DEF NoArtifacts
    <3>2. \A l \in Labels : Key(CurrentNs, l) \in objects
      BY <1>3, <2>2 DEF CleanupInv, ClaimGood, CheckpointGood
    <3>3. Key(CurrentNs, "pdf") \in objects
      BY <1>3, <2>2 DEF CleanupInv, ClaimGood
    <3> QED
      BY <1>4, <2>2, <3>1, <3>2, <3>3 DEF ReaderArtifactsKept, Readable, ShownNs, PdfNs
  <2> QED
    BY <2>1, <2>2
<1>12. ASSUME NEW n, LeftBehind(n), ~Protected(n)
       PROVE  ~Protected(n)'
  <2>1. n \in Namespaces /\ n # NoNs /\ n[2] >= 1 /\ n[2] \in Nat
    BY <1>12, NamespaceParts, NoNsHasNoKey DEF LeftBehind, Given
  <2>2. n # CurrentNs
    <3>1. CurrentNs[1] = "run" /\ CurrentNs[2] = bookRow.active
      BY DEF CurrentNs, Ns
    <3> QED
      BY <1>6, <1>12, <3>1 DEF Protected
  <2>3. \A l \in Labels : NoArtifacts[l] = NoNs
    BY DEF NoArtifacts
  <2> QED
    BY <1>2, <1>4, <1>5, <1>6, <1>12, <2>1, <2>2, <2>3 DEF Protected
<1> QED
  BY <1>1, <1>7, <1>9, <1>10, <1>11, <1>12, RowSteps DEF Spendings

LEMMA EndOfRunSteps ==
    ASSUME CleanupInv, PublishRun \/ EndRunUnpublished
    PROVE  CleanupInv'
<1>1. CASE PublishRun
  <2>1. bookRow.active # 0
    BY <1>1 DEF PublishRun, CleanupInv, ClaimGood
  <2> QED
    BY <1>1, <2>1, ReleasedStep DEF PublishRun
<1>2. CASE EndRunUnpublished
  BY <1>2, ReleasedStep DEF EndRunUnpublished
<1> QED
  BY <1>1, <1>2

\* The claim and the checkpoint do not notice page image revisions and edits.
LEMMA PointersMove ==
    ASSUME CleanupInv, bookRow.exists, bookRow' \in BookRows,
           UNCHANGED <<claim, objects>>, UNCHANGED spent.runs,
           UNCHANGED <<bookRow.exists, bookRow.active, bookRow.fence, bookRow.checkpoint>>
    PROVE  ClaimGood' /\ CheckpointGood'
<1>1. CurrentNs' = CurrentNs /\ \A n : Earlier(n)' <=> Earlier(n)
  BY DEF CurrentNs, Earlier
<1> QED
  BY <1>1 DEF CleanupInv, ClaimGood, CheckpointGood, EarlierOrOwn

LEMMA StartRevisionStep ==
    ASSUME CleanupInv, StartRevision
    PROVE  CleanupInv'
<1>1. /\ Readable /\ bookRow.revision = 0 /\ spent.revisions < budget.revisions
      /\ bookRow' = [bookRow EXCEPT !.revision = spent.revisions + 1]
      /\ spent' = [spent EXCEPT !.revisions = @ + 1]
      /\ UNCHANGED <<objects, aged, claim, edit, sweepVars>>
  BY DEF StartRevision
<1>2. bookRow \in BookRows /\ spent \in Spendings /\ budget.revisions \in 0..MaxRevision /\ bookRow.exists
  BY <1>1, CleanupBounds DEF CleanupInv, CleanupRowType, Readable
<1>3. spent.revisions \in Nat /\ spent.revisions + 1 \in 0..MaxRevision
  BY <1>1, <1>2, CleanupBounds DEF Spendings
<1>4. /\ spent' \in Spendings /\ spent'.revisions = spent.revisions + 1
      /\ spent'.runs = spent.runs /\ spent'.edits = spent.edits
  BY <1>1, <1>2 DEF Spendings
<1>5. /\ bookRow' \in BookRows /\ bookRow'.revision = spent.revisions + 1
      /\ bookRow'.active = bookRow.active /\ bookRow'.fence = bookRow.fence
      /\ bookRow'.exists = bookRow.exists /\ bookRow'.checkpoint = bookRow.checkpoint
      /\ bookRow'.published = bookRow.published /\ bookRow'.publishedPdf = bookRow.publishedPdf
      /\ bookRow'.overrides = bookRow.overrides
  BY <1>1, <1>2, <1>3 DEF BookRows
<1>6. CleanupRowType'
  BY <1>1, <1>2, <1>3, <1>4, <1>5, CleanupBounds DEF CleanupInv, CleanupRowType, sweepVars
<1>7. ClaimGood' /\ CheckpointGood'
  BY <1>1, <1>2, <1>4, <1>5, PointersMove
<1>8. ReaderArtifactsKept'
  BY <1>1, <1>5 DEF CleanupInv, ReaderArtifactsKept, Readable, ShownNs, PdfNs
<1>9. ASSUME NEW n, LeftBehind(n), ~Protected(n)
      PROVE  ~Protected(n)'
  <2>1. n[2] \in Nat /\ (n[1] = "revision" => n[2] <= spent.revisions)
    BY <1>9, NamespaceParts DEF LeftBehind, Given
  <2> QED
    BY <1>2, <1>3, <1>5, <1>9, <2>1 DEF Protected
<1> QED
  BY <1>1, <1>2, <1>3, <1>4, <1>6, <1>7, <1>8, <1>9, RowSteps DEF Spendings

LEMMA PublishRevisionStep ==
    ASSUME CleanupInv, PublishRevision
    PROVE  CleanupInv'
<1>1. /\ bookRow.revision # 0 /\ Key(RevisionNs, "pdf") \in objects
      /\ UNCHANGED <<objects, aged, claim, edit, sweepVars, spent>>
  BY DEF PublishRevision
<1>2. PICK l \in Labels : /\ Key(RevisionNs, l) \in objects
                          /\ bookRow' = [bookRow EXCEPT !.revision = 0, !.publishedPdf = RevisionNs,
                                                        !.overrides[l] = RevisionNs]
  BY DEF PublishRevision
<1>3. /\ bookRow \in BookRows /\ spent \in Spendings /\ 0 \in 0..MaxRevision
      /\ RevisionNs \in Namespaces /\ RevisionNs \in MaybeNs /\ RevisionNs # NoNs
  BY <1>1, CurrentGiven, CleanupBounds, NoNsHasNoKey DEF CleanupInv, CleanupRowType, Given, MaybeNs
<1>4. bookRow.exists
  BY <1>1 DEF CleanupInv, CleanupRowType, EmptyRow
<1>5. /\ bookRow' \in BookRows /\ bookRow'.revision = 0
      /\ bookRow'.active = bookRow.active /\ bookRow'.fence = bookRow.fence
      /\ bookRow'.exists = bookRow.exists /\ bookRow'.checkpoint = bookRow.checkpoint
      /\ bookRow'.published = bookRow.published /\ bookRow'.publishedPdf = RevisionNs
      /\ \A k \in Labels : bookRow'.overrides[k] = IF k = l THEN RevisionNs ELSE bookRow.overrides[k]
  BY <1>2, <1>3 DEF BookRows, ArtifactMaps
<1>6. CleanupRowType'
  BY <1>1, <1>3, <1>4, <1>5 DEF CleanupInv, CleanupRowType, sweepVars, Spendings
<1>7. ClaimGood' /\ CheckpointGood'
  BY <1>1, <1>4, <1>5, PointersMove
<1>8. ReaderArtifactsKept'
  BY <1>1, <1>2, <1>3, <1>5 DEF CleanupInv, ReaderArtifactsKept, Readable, ShownNs, PdfNs
<1>9. ASSUME NEW n, LeftBehind(n), ~Protected(n)
      PROVE  ~Protected(n)'
  <2>1. n \in Namespaces /\ n[2] >= 1 /\ n[2] \in Nat
    BY <1>9, NamespaceParts DEF LeftBehind, Given
  <2>2. RevisionNs[1] = "revision" /\ RevisionNs[2] = bookRow.revision
    BY DEF RevisionNs, Ns
  <2> QED
    BY <1>4, <1>5, <1>9, <2>1, <2>2 DEF Protected
<1> QED
  BY <1>1, <1>3, <1>6, <1>7, <1>8, <1>9, RowSteps DEF Spendings

LEMMA FailRevisionStep ==
    ASSUME CleanupInv, FailRevision
    PROVE  CleanupInv'
<1>1. /\ bookRow.revision # 0 /\ bookRow' = [bookRow EXCEPT !.revision = 0]
      /\ UNCHANGED <<objects, aged, claim, edit, sweepVars, spent>>
  BY DEF FailRevision
<1>2. bookRow \in BookRows /\ spent \in Spendings /\ 0 \in 0..MaxRevision
  BY CleanupBounds DEF CleanupInv, CleanupRowType
<1>3. bookRow.exists
  BY <1>1 DEF CleanupInv, CleanupRowType, EmptyRow
<1>4. /\ bookRow' \in BookRows /\ bookRow'.revision = 0
      /\ bookRow'.active = bookRow.active /\ bookRow'.fence = bookRow.fence
      /\ bookRow'.exists = bookRow.exists /\ bookRow'.checkpoint = bookRow.checkpoint
      /\ bookRow'.published = bookRow.published /\ bookRow'.publishedPdf = bookRow.publishedPdf
      /\ bookRow'.overrides = bookRow.overrides
  BY <1>1, <1>2 DEF BookRows
<1>5. CleanupRowType'
  BY <1>1, <1>2, <1>3, <1>4 DEF CleanupInv, CleanupRowType, sweepVars, Spendings
<1>6. ClaimGood' /\ CheckpointGood'
  BY <1>1, <1>3, <1>4, PointersMove
<1>7. ReaderArtifactsKept'
  BY <1>1, <1>4 DEF CleanupInv, ReaderArtifactsKept, Readable, ShownNs, PdfNs
<1>8. ASSUME NEW n, LeftBehind(n), ~Protected(n)
      PROVE  ~Protected(n)'
  <2>1. n[2] >= 1 /\ n[2] \in Nat
    BY <1>8, NamespaceParts DEF LeftBehind, Given
  <2> QED
    BY <1>3, <1>4, <1>8, <2>1 DEF Protected
<1> QED
  BY <1>1, <1>2, <1>5, <1>6, <1>7, <1>8, RowSteps DEF Spendings

LEMMA StoreEditPdfStep ==
    ASSUME CleanupInv, StoreEditPdf
    PROVE  CleanupInv'
<1>0. PICK e : e = Ns("edit", spent.edits + 1, 1)
  OBVIOUS
<1>1. /\ Readable /\ edit = <<>> /\ spent.edits < budget.edits /\ edit' = <<bookRow>>
      /\ spent' = [spent EXCEPT !.edits = @ + 1]
      /\ objects' = objects \cup {Key(e, "pdf")} /\ aged' = aged \ {e}
      /\ UNCHANGED <<bookRow, claim, sweepVars>>
  BY <1>0 DEF StoreEditPdf, Save
<1>2. bookRow \in BookRows /\ spent \in Spendings /\ budget.edits \in 0..MaxEdit /\ bookRow.exists
  BY <1>1, CleanupBounds DEF CleanupInv, CleanupRowType, Readable
<1>3. spent.edits \in Nat /\ spent.edits + 1 \in 1..MaxEdit
  BY <1>1, <1>2, CleanupBounds DEF Spendings
<1>4. /\ spent' \in Spendings /\ spent'.edits = spent.edits + 1
      /\ spent'.runs = spent.runs /\ spent'.revisions = spent.revisions
  BY <1>1, <1>2 DEF Spendings
<1>5. e \in Namespaces /\ e = <<"edit", spent.edits + 1, 1>> /\ EditNs' = e
  BY <1>0, <1>3, <1>4, NamespaceParts DEF EditNs, Ns
<1>6. \A n : (Given(n) => Given(n)') /\ (Given(n) => n # e) /\ Given(e)'
  <2> SUFFICES ASSUME NEW n PROVE (Given(n) => Given(n)') /\ (Given(n) => n # e) /\ Given(e)'
    OBVIOUS
  <2>1. n \in Namespaces => n[2] \in Nat
    BY NamespaceParts
  <2>2. Given(e)'
    BY <1>3, <1>4, <1>5 DEF Given
  <2> QED
    BY <1>3, <1>4, <1>5, <2>1, <2>2 DEF Given
<1>7. \A n : LeftBehind(n) => LeftBehind(n)'
  BY <1>1, <1>5, <1>6 DEF LeftBehind
<1>8. CleanupRowType'
  BY <1>1, <1>2, <1>3, <1>4 DEF CleanupInv, CleanupRowType, sweepVars
<1>9. ClaimGood' /\ CheckpointGood'
  <2>1. CurrentNs' = CurrentNs /\ \A n : Earlier(n)' <=> Earlier(n)
    BY <1>1, <1>4 DEF CurrentNs, Earlier
  <2> QED
    BY <1>1, <2>1 DEF CleanupInv, ClaimGood, CheckpointGood, EarlierOrOwn
<1>10. ObjectsGood'
  <2>1. Key(e, "pdf") \in Keys /\ Key(e, "pdf").ns = e
    BY <1>5 DEF Key, Keys, Files
  <2>2. \A k \in objects' : Given(k.ns)'
    BY <1>1, <1>6, <2>1 DEF CleanupInv, ObjectsGood
  <2> QED
    BY <1>1, <1>5, <2>1, <2>2 DEF CleanupInv, ObjectsGood
<1>11. ReaderArtifactsKept'
  BY <1>1 DEF CleanupInv, ReaderArtifactsKept, Readable, ShownNs, PdfNs
<1>12. SweeperGood'
  BY <1>1, <1>7, SweepersKept DEF Garbage, Protected
<1> QED
  BY <1>8, <1>9, <1>10, <1>11, <1>12 DEF CleanupInv

LEMMA PublishEditStep ==
    ASSUME CleanupInv, PublishEdit
    PROVE  CleanupInv'
<1>1. edit # <<>> /\ edit' = <<>> /\ UNCHANGED <<objects, aged, claim, sweepVars, spent>>
  BY DEF PublishEdit
<1>2. bookRow \in BookRows /\ spent \in Spendings /\ bookRow.exists
  BY <1>1 DEF CleanupInv, CleanupRowType
<1>3. Key(EditNs, "pdf") \in objects /\ EditNs \in Namespaces /\ EditNs \in MaybeNs /\ EditNs # NoNs
  <2>1. Key(EditNs, "pdf") \in objects /\ Key(EditNs, "pdf").ns = EditNs
    BY <1>1 DEF CleanupInv, ObjectsGood, Key
  <2>2. EditNs \in Namespaces
    BY <2>1 DEF CleanupInv, ObjectsGood, Given
  <2> QED
    BY <2>1, <2>2, NoNsHasNoKey DEF MaybeNs
<1>4. \A n : (LeftBehind(n) => LeftBehind(n)') /\ (Given(n) => Given(n)')
  BY <1>1, LeftBehindStays
<1>5. ObjectsGood'
  BY <1>1, <1>4 DEF CleanupInv, ObjectsGood
<1>6. CASE UNCHANGED bookRow
  <2>1. CleanupRowType'
    BY <1>1, <1>2, <1>6 DEF CleanupInv, CleanupRowType, sweepVars, Spendings
  <2>2. ClaimGood' /\ CheckpointGood'
    BY <1>1, <1>2, <1>6, PointersMove
  <2>3. ReaderArtifactsKept'
    BY <1>1, <1>6 DEF CleanupInv, ReaderArtifactsKept, Readable, ShownNs, PdfNs
  <2>4. SweeperGood'
    BY <1>1, <1>4, <1>6, SweepersKept DEF Garbage, Protected
  <2> QED
    BY <1>5, <2>1, <2>2, <2>3, <2>4 DEF CleanupInv
<1>7. ASSUME NEW l \in Labels,
             bookRow' = [bookRow EXCEPT !.publishedPdf = EditNs,
                             !.overrides[l] = IF @ = NoNs THEN bookRow.published ELSE @]
      PROVE  CleanupInv'
  <2>1. /\ bookRow' \in BookRows /\ bookRow'.revision = bookRow.revision
        /\ bookRow'.active = bookRow.active /\ bookRow'.fence = bookRow.fence
        /\ bookRow'.exists = bookRow.exists /\ bookRow'.checkpoint = bookRow.checkpoint
        /\ bookRow'.published = bookRow.published /\ bookRow'.publishedPdf = EditNs
        /\ \A k \in Labels : bookRow'.overrides[k] = IF k = l /\ bookRow.overrides[l] = NoNs
                                                     THEN bookRow.published ELSE bookRow.overrides[k]
    <3>1. bookRow.overrides \in ArtifactMaps /\ bookRow.published \in MaybeNs
      BY <1>2 DEF BookRows
    <3> DEFINE o == [bookRow.overrides EXCEPT ![l] = IF @ = NoNs THEN bookRow.published ELSE @]
    <3>2. /\ o \in ArtifactMaps
          /\ \A k \in Labels : o[k] = IF k = l /\ bookRow.overrides[l] = NoNs
                                      THEN bookRow.published ELSE bookRow.overrides[k]
      BY <3>1 DEF ArtifactMaps
    <3>3. bookRow' = [bookRow EXCEPT !.publishedPdf = EditNs, !.overrides = o]
      BY <1>2, <1>7 DEF BookRows
    <3> HIDE DEF o
    <3> QED
      BY <1>2, <1>3, <3>2, <3>3 DEF BookRows
  <2>2. CleanupRowType'
    BY <1>1, <1>2, <2>1 DEF CleanupInv, CleanupRowType, sweepVars, Spendings
  <2>3. ClaimGood' /\ CheckpointGood'
    BY <1>1, <1>2, <2>1, PointersMove
  <2>4. ReaderArtifactsKept'
    BY <1>1, <1>3, <2>1 DEF CleanupInv, ReaderArtifactsKept, Readable, ShownNs, PdfNs
  <2>5. \A n : Garbage(n) => Garbage(n)'
    <3> SUFFICES ASSUME NEW n, Garbage(n) PROVE Garbage(n)'
      OBVIOUS
    <3>1. n # EditNs
      BY <1>1 DEF Garbage, LeftBehind
    <3> QED
      BY <1>2, <1>4, <2>1, <3>1 DEF Garbage, Protected
  <2>6. SweeperGood'
    BY <1>1, <1>4, <2>5, SweepersKept
  <2> QED
    BY <1>5, <2>2, <2>3, <2>4, <2>6 DEF CleanupInv
<1> QED
  BY <1>6, <1>7 DEF PublishEdit

LEMMA EraseBookStep ==
    ASSUME CleanupInv, EraseBook
    PROVE  CleanupInv'
<1>1. /\ bookRow.exists /\ bookRow.active = 0 /\ edit = <<>>
      /\ bookRow' = [EmptyRow EXCEPT !.exists = FALSE]
      /\ objects' = {} /\ aged' = {}
      /\ UNCHANGED <<claim, edit, sweepVars, spent>>
  BY DEF EraseBook
<1>2. /\ bookRow'.exists = FALSE /\ bookRow'.active = 0 /\ bookRow'.fence = 0 /\ bookRow'.revision = 0
      /\ bookRow'.checkpoint = NoCheckpoint /\ bookRow' \in BookRows
  <2>1. NoArtifacts \in ArtifactMaps /\ NoNs \in MaybeNs
    BY DEF NoArtifacts, ArtifactMaps, MaybeNs
  <2>2. NoCheckpoint \in BookCheckpoints
    BY <2>1 DEF NoCheckpoint, BookCheckpoints
  <2>3. 0 \in 0..MaxRun /\ 0 \in 0..MaxFence /\ 0 \in 0..MaxRevision
    BY CleanupBounds
  <2> QED
    BY <1>1, <2>1, <2>2, <2>3 DEF EmptyRow, BookRows
<1>3. CleanupRowType'
  BY <1>1, <1>2 DEF CleanupInv, CleanupRowType, sweepVars, Spendings
<1>4. claim' = "none"
  BY <1>1 DEF CleanupInv, ClaimGood
<1>5. ClaimGood'
  BY <1>2, <1>4 DEF ClaimGood, NoCheckpoint, NoArtifacts, EarlierOrOwn, Earlier
<1>6. CheckpointGood'
  BY <1>2 DEF CheckpointGood, NoCheckpoint, NoArtifacts
<1>7. ObjectsGood'
  BY <1>1 DEF ObjectsGood
<1>8. ReaderArtifactsKept'
  BY <1>2 DEF ReaderArtifactsKept, Readable
<1>9. SweeperGood'
  <2>1. \A n : LeftBehind(n) => LeftBehind(n)'
    BY <1>1, LeftBehindStays
  <2>2. \A n : Garbage(n) => Garbage(n)'
    BY <1>2, <2>1 DEF Garbage, Protected
  <2> QED
    BY <1>1, <2>1, <2>2, SweepersKept
<1> QED
  BY <1>3, <1>5, <1>6, <1>7, <1>8, <1>9 DEF CleanupInv

LEMMA AgeStep ==
    ASSUME CleanupInv, NEW n \in Namespaces, Age(n)
    PROVE  CleanupInv'
<1>1. /\ ~(edit # <<>> /\ n = EditNs) /\ aged' = aged \cup {n}
      /\ UNCHANGED <<objects, rowVars, sweepVars, spent>>
  BY DEF Age
<1>2. \A m : (LeftBehind(m) => LeftBehind(m)') /\ (Given(m) => Given(m)')
  BY <1>1, LeftBehindStays DEF rowVars
<1>3. CleanupRowType'
  BY <1>1 DEF CleanupInv, CleanupRowType, rowVars, sweepVars
<1>4. ClaimGood' /\ CheckpointGood'
  BY <1>1 DEF CleanupInv, ClaimGood, CheckpointGood, rowVars, CurrentNs, EarlierOrOwn, Earlier
<1>5. ObjectsGood'
  BY <1>1, <1>2 DEF CleanupInv, ObjectsGood, rowVars, EditNs
<1>6. ReaderArtifactsKept'
  BY <1>1 DEF CleanupInv, ReaderArtifactsKept, rowVars, Readable, ShownNs, PdfNs
<1>7. SweeperGood'
  BY <1>1, <1>2, SweepersKept DEF Garbage, Protected, rowVars
<1> QED
  BY <1>3, <1>4, <1>5, <1>6, <1>7 DEF CleanupInv

LEMMA WriterSteps ==
    ASSUME CleanupInv, Writers
    PROVE  CleanupInv'
BY SaveSteps, StartRunStep, ClaimRunStep, CheckpointCharacterStep, RecordArtifactStep, StorePreviewStep,
   EndOfRunSteps, StartRevisionStep, PublishRevisionStep, FailRevisionStep, StoreEditPdfStep,
   PublishEditStep, EraseBookStep, AgeStep
DEF Writers

-----------------------------------------------------------------------------
(* The sweeper's own steps *)

\* A step of the sweepers that deletes nothing: they take on only what is left behind,
\* and set out to delete only what a fresh read did not find protected.
LEMMA SweeperOnly ==
    ASSUME CleanupInv, UNCHANGED <<objects, aged, rowVars, budget>>,
           spent' \in Spendings, UNCHANGED <<spent.runs, spent.revisions, spent.edits>>,
           SweeperGood'
    PROVE  CleanupInv'
<1>1. CleanupRowType'
  BY DEF CleanupInv, CleanupRowType, rowVars
<1>2. ClaimGood' /\ CheckpointGood'
  BY DEF CleanupInv, ClaimGood, CheckpointGood, rowVars, CurrentNs, EarlierOrOwn, Earlier
<1>3. ObjectsGood'
  BY DEF CleanupInv, ObjectsGood, rowVars, EditNs, Given
<1>4. ReaderArtifactsKept'
  BY DEF CleanupInv, ReaderArtifactsKept, rowVars, Readable, ShownNs, PdfNs
<1> QED
  BY <1>1, <1>2, <1>3, <1>4 DEF CleanupInv

\* The record of one sweeper after a step of its pass.
PassGood(r) ==
    /\ r \in Passes({r.queue})
    /\ r.todo \subseteq r.keys
    /\ \A k \in r.keys : LeftBehind(k.ns)
    /\ \A k \in r.todo : Garbage(k.ns)

LEMMA PassSteps ==
    ASSUME CleanupInv, UNCHANGED <<objects, aged, rowVars, budget>>,
           spent' \in Spendings, UNCHANGED <<spent.runs, spent.revisions, spent.edits>>,
           NEW s \in Sweepers, NEW r, PassGood(r), Goto(s, r),
           cleanupLease'.owner \in Sweepers \cup {Dead, NoOwner}
    PROVE  CleanupInv'
<1>1. \A n : (LeftBehind(n) <=> LeftBehind(n)') /\ (Garbage(n) <=> Garbage(n)')
  BY DEF LeftBehind, Given, Garbage, Protected, rowVars, EditNs
<1>2. sweeper' = [p \in Sweepers |-> IF p = s THEN r ELSE sweeper[p]]
  BY DEF Goto, CleanupInv, SweeperGood
<1>3. SweeperGood'
  BY <1>1, <1>2 DEF CleanupInv, SweeperGood, PassGood
<1> QED
  BY <1>3, SweeperOnly

\* How the fields of a sweeper's record are replaced.
LEMMA PassFields ==
    ASSUME NEW q, PassGood(q), NEW pc \in {"sweeping", "held", "deleting"}, NEW keys \in SUBSET q.keys,
           NEW left, NEW todo \in SUBSET q.keys
    PROVE  /\ (\A k \in todo : Garbage(k.ns)) => PassGood([q EXCEPT !.pc = pc, !.todo = todo])
           /\ (\A k \in todo : Garbage(k.ns)) => PassGood([q EXCEPT !.todo = todo])
           /\ PassGood([q EXCEPT !.pc = pc, !.queue = left, !.todo = {}, !.keys = keys])
           /\ PassGood([q EXCEPT !.pc = pc])
<1>1. q \in Passes({q.queue}) /\ keys \in SUBSET Keys /\ todo \in SUBSET Keys
  BY DEF PassGood, Passes
<1>2. PICK q1 : q1 = [q EXCEPT !.pc = pc, !.todo = todo]
  OBVIOUS
<1>3. q1 \in Passes({q.queue}) /\ q1.keys = q.keys /\ q1.todo = todo /\ q1.queue = q.queue
  BY <1>1, <1>2 DEF Passes
<1>4. PICK q2 : q2 = [q EXCEPT !.todo = todo]
  OBVIOUS
<1>5. q2 \in Passes({q.queue}) /\ q2.keys = q.keys /\ q2.todo = todo /\ q2.queue = q.queue
  BY <1>1, <1>4 DEF Passes
<1>6. PICK q3 : q3 = [q EXCEPT !.pc = pc, !.queue = left, !.todo = {}, !.keys = keys]
  OBVIOUS
<1>7. q3 \in Passes({left}) /\ q3.keys = keys /\ q3.todo = {} /\ q3.queue = left
  BY <1>1, <1>6 DEF Passes
<1>8. PICK q4 : q4 = [q EXCEPT !.pc = pc]
  OBVIOUS
<1>9. q4 \in Passes({q.queue}) /\ q4.keys = q.keys /\ q4.todo = q.todo /\ q4.queue = q.queue
  BY <1>1, <1>8 DEF Passes
<1> QED
  BY <1>2, <1>3, <1>4, <1>5, <1>6, <1>7, <1>8, <1>9 DEF PassGood

LEMMA PassesAreGood ==
    ASSUME CleanupInv, NEW s \in Sweepers
    PROVE  /\ PassGood(IdleSweeper) /\ PassGood(Done) /\ PassGood([IdleSweeper EXCEPT !.pc = "leading"])
           /\ PassGood(sweeper[s]) /\ PassGood(SkipHead(s)) /\ PassGood([sweeper[s] EXCEPT !.pc = "held"])
<1>1. PassGood(sweeper[s])
  BY DEF CleanupInv, SweeperGood, PassGood
<1>2. SkipHead(s) = [sweeper[s] EXCEPT !.pc = "sweeping", !.queue = Tail(sweeper[s].queue), !.todo = {},
                        !.keys = {k \in sweeper[s].keys : k.ns # Head(sweeper[s].queue)}]
  BY <1>1 DEF SkipHead, PassGood, Passes
<1>3. PassGood(SkipHead(s)) /\ PassGood([sweeper[s] EXCEPT !.pc = "held"])
  <2> DEFINE keys == {k \in sweeper[s].keys : k.ns # Head(sweeper[s].queue)}
             left == Tail(sweeper[s].queue)
  <2>1. keys \in SUBSET sweeper[s].keys
    OBVIOUS
  <2>2. SkipHead(s) = [sweeper[s] EXCEPT !.pc = "sweeping", !.queue = left, !.todo = {}, !.keys = keys]
    BY <1>2
  <2> HIDE DEF keys, left
  <2>3. {} \in SUBSET sweeper[s].keys /\ sweeper[s].keys \in SUBSET sweeper[s].keys
    OBVIOUS
  <2>4. PassGood(SkipHead(s))
    <3>1. PICK q : q = sweeper[s]
      OBVIOUS
    <3>2. PassGood(q) /\ keys \in SUBSET q.keys /\ {} \in SUBSET q.keys
      BY <1>1, <2>1, <3>1
    <3>3. PassGood([q EXCEPT !.pc = "sweeping", !.queue = left, !.todo = {}, !.keys = keys])
      BY <3>2, PassFields
    <3> QED
      BY <2>2, <3>1, <3>3
  <2>5. PassGood([sweeper[s] EXCEPT !.pc = "held"])
    BY <1>1, <2>3, PassFields
  <2> QED
    BY <2>4, <2>5
<1>4. /\ IdleSweeper \in Passes({<<>>}) /\ Done \in Passes({<<>>})
      /\ [IdleSweeper EXCEPT !.pc = "leading"] \in Passes({<<>>})
  BY DEF IdleSweeper, Done, Passes
<1>5. /\ IdleSweeper.keys = {} /\ Done.keys = {} /\ [IdleSweeper EXCEPT !.pc = "leading"].keys = {}
      /\ IdleSweeper.todo = {} /\ Done.todo = {} /\ [IdleSweeper EXCEPT !.pc = "leading"].todo = {}
      /\ IdleSweeper.queue = <<>> /\ Done.queue = <<>> /\ [IdleSweeper EXCEPT !.pc = "leading"].queue = <<>>
  BY DEF IdleSweeper, Done
<1> QED
  BY <1>1, <1>3, <1>4, <1>5 DEF PassGood

LEMMA FilteredGood ==
    ASSUME NEW r, NEW pc \in {"listed", "sweeping"}, NEW kept, r.keys \subseteq Keys,
           \A k \in r.keys : k.ns \in kept => LeftBehind(k.ns)
    PROVE  PassGood(Filtered(r, pc, kept))
<1> DEFINE left == SelectSeq(r.queue, LAMBDA n : n \in kept)
           keys == {k \in r.keys : k.ns \in kept}
           f == [IdleSweeper EXCEPT !.pc = pc, !.queue = left, !.keys = keys]
<1>1. Filtered(r, pc, kept) = IF left = <<>> THEN Done ELSE f
  BY DEF Filtered
<1>2. keys \in SUBSET Keys /\ \A k \in keys : LeftBehind(k.ns)
  OBVIOUS
<1> HIDE DEF left, keys
<1>3. f \in Passes({left}) /\ f.keys = keys /\ f.todo = {} /\ f.queue = left
  BY <1>2 DEF IdleSweeper, Passes
<1> HIDE DEF f
<1>4. PassGood(f)
  BY <1>2, <1>3 DEF PassGood
<1>5. Done \in Passes({<<>>}) /\ Done.keys = {} /\ Done.todo = {} /\ Done.queue = <<>>
  BY DEF Done, IdleSweeper, Passes
<1> QED
  BY <1>1, <1>4, <1>5 DEF PassGood

LEMMA ListStep ==
    ASSUME CleanupInv, NEW s \in Sweepers, ListArtifacts(s)
    PROVE  CleanupInv'
<1>0. spent \in Spendings
  BY DEF CleanupInv, CleanupRowType
<1>1. PICK considered, beyond :
        /\ beyond = {n \in Range(considered) : BeyondRetention(n)}
        /\ Goto(s, IF Cardinality(objects) >= MaxObjects THEN Done
                   ELSE Filtered([queue |-> considered, keys |-> objects], "listed", beyond))
        /\ UNCHANGED <<objects, aged, rowVars, cleanupLease, spent, budget>>
  BY DEF ListArtifacts
<1>2. ASSUME NEW k \in objects, k.ns \in beyond PROVE LeftBehind(k.ns)
  BY <1>1, <1>2 DEF BeyondRetention, CleanupInv, ObjectsGood, LeftBehind
<1>3. PassGood(Filtered([queue |-> considered, keys |-> objects], "listed", beyond))
  BY <1>2, FilteredGood DEF CleanupInv, ObjectsGood
<1> QED
  BY <1>0, <1>1, <1>3, PassesAreGood, PassSteps DEF CleanupInv, SweeperGood, Spendings

LEMMA ReadStep ==
    ASSUME CleanupInv, NEW s \in Sweepers, ReadBooks(s)
    PROVE  CleanupInv'
<1>0. spent \in Spendings
  BY DEF CleanupInv, CleanupRowType
<1>1. PICK kept : /\ Goto(s, Filtered(sweeper[s], "sweeping", kept))
                  /\ UNCHANGED <<objects, aged, rowVars, cleanupLease, spent, budget>>
  BY DEF ReadBooks
<1>2. PassGood(Filtered(sweeper[s], "sweeping", kept))
  BY FilteredGood DEF CleanupInv, SweeperGood, Passes
<1> QED
  BY <1>0, <1>1, <1>2, PassSteps DEF CleanupInv, SweeperGood, Spendings

LEMMA RevalidateStep ==
    ASSUME CleanupInv, NEW s \in Sweepers, Revalidate(s)
    PROVE  CleanupInv'
<1>0. spent \in Spendings
  BY DEF CleanupInv, CleanupRowType
<1> DEFINE n == Head(sweeper[s].queue)
           todo == {k \in sweeper[s].keys : k.ns = n}
           r == [sweeper[s] EXCEPT !.pc = "deleting", !.todo = todo]
<1>1. /\ Goto(s, IF Protected(n) THEN SkipHead(s) ELSE r)
      /\ UNCHANGED <<objects, aged, rowVars, cleanupLease, spent, budget>>
  BY DEF Revalidate
<1>2. PassGood(sweeper[s])
  BY PassesAreGood
<1>3. ASSUME ~Protected(n) PROVE PassGood(r)
  <2>1. \A k \in todo : Garbage(k.ns)
    BY <1>2, <1>3 DEF PassGood, Garbage
  <2>2. todo \in SUBSET sweeper[s].keys
    OBVIOUS
  <2> HIDE DEF todo
  <2> QED
    BY <1>2, <2>1, <2>2, PassFields
<1> HIDE DEF r, n
<1> QED
  BY <1>0, <1>1, <1>3, PassesAreGood, PassSteps DEF CleanupInv, SweeperGood, Spendings

\* Whatever the sweepers are about to delete, nothing that matters lies there.
LEMMA DeleteStep ==
    ASSUME CleanupInv, NEW s \in Sweepers, NEW k \in Keys, DeleteKey(s, k)
    PROVE  CleanupInv' /\ Garbage(k.ns)
<1> DEFINE rest == sweeper[s].todo \ {k}
           r == IF rest = {} THEN SkipHead(s) ELSE [sweeper[s] EXCEPT !.todo = rest]
<1>1. /\ k \in sweeper[s].todo /\ objects \ {k} \subseteq objects' /\ objects' \subseteq objects
      /\ aged' \subseteq aged /\ Goto(s, r)
      /\ spent' = spent \/ spent' = [spent EXCEPT !.faults = @ + 1]
      /\ UNCHANGED <<rowVars, cleanupLease, budget>>
  BY DEF DeleteKey
<1>2. /\ spent \in Spendings /\ spent' \in Spendings /\ UNCHANGED <<spent.runs, spent.revisions, spent.edits>>
  BY <1>1 DEF CleanupInv, CleanupRowType, Spendings
<1>3. PassGood(sweeper[s]) /\ PassGood(r)
  <2>1. PassGood(sweeper[s]) /\ PassGood(SkipHead(s))
    BY PassesAreGood
  <2>2. PassGood([sweeper[s] EXCEPT !.todo = rest])
    <3>1. rest \in SUBSET sweeper[s].keys /\ \A o \in rest : Garbage(o.ns)
      BY <2>1 DEF PassGood
    <3> HIDE DEF rest
    <3> QED
      BY <2>1, <3>1, PassFields
  <2> QED
    BY <2>1, <2>2
<1> HIDE DEF r
<1>4. Garbage(k.ns)
  BY <1>1, <1>3 DEF PassGood
<1>5. \A o \in objects : ~Garbage(o.ns) => o \in objects'
  BY <1>1, <1>4
<1>6. \A n : (LeftBehind(n) <=> LeftBehind(n)') /\ (Garbage(n) <=> Garbage(n)')
  BY <1>1, <1>2 DEF LeftBehind, Given, Garbage, Protected, rowVars, EditNs
<1>7. SweeperGood'
  <2>1. sweeper' = [p \in Sweepers |-> IF p = s THEN r ELSE sweeper[p]]
    BY <1>1 DEF Goto, CleanupInv, SweeperGood
  <2> QED
    BY <1>1, <1>3, <1>6, <2>1 DEF CleanupInv, SweeperGood, PassGood
<1>8. CleanupRowType'
  BY <1>1, <1>2 DEF CleanupInv, CleanupRowType, rowVars
<1>9. \A n, f : Key(n, f).ns = n
  BY DEF Key
<1>10. ClaimGood'
  <2>1. bookRow.exists /\ claim # "none" => Protected(CurrentNs)
    BY DEF Protected, CurrentNs, Ns
  <2>2. claim # "none" => bookRow.exists
    BY DEF CleanupInv, CleanupRowType, ClaimGood, EmptyRow
  <2>3. claim = "stored" => Key(CurrentNs, "pdf") \in objects'
    BY <1>5, <1>9, <2>1, <2>2 DEF CleanupInv, ClaimGood, Garbage
  <2>4. CurrentNs' = CurrentNs /\ (\A n : Earlier(n)' <=> Earlier(n)) /\ claim' = claim /\ bookRow' = bookRow
    BY <1>1, <1>2 DEF CurrentNs, Earlier, rowVars
  <2> QED
    BY <2>3, <2>4 DEF CleanupInv, ClaimGood, EarlierOrOwn
<1>11. bookRow.exists => /\ Protected(bookRow.checkpoint.owner) /\ Protected(bookRow.checkpoint.srcOwner)
                         /\ Protected(bookRow.published) /\ Protected(bookRow.publishedPdf)
                         /\ \A l \in Labels : Protected(bookRow.overrides[l])
  BY DEF Protected
<1>12. CheckpointGood'
  <2>1. CASE bookRow.exists
    BY <1>1, <1>5, <1>9, <1>11, <2>1 DEF CleanupInv, CheckpointGood, Garbage, rowVars
  <2>2. CASE ~bookRow.exists
    <3>1. \A l \in Labels : bookRow.checkpoint.art[l] = NoNs /\ bookRow.checkpoint.srcArt[l] = NoNs
      BY <2>2 DEF CleanupInv, CleanupRowType, EmptyRow, NoCheckpoint, NoArtifacts
    <3> QED
      BY <1>1, <3>1 DEF CheckpointGood, rowVars
  <2> QED
    BY <2>1, <2>2
<1>13. ObjectsGood'
  <2>1. edit # <<>> => Key(EditNs, "pdf") \in objects'
    BY <1>5, <1>9 DEF CleanupInv, ObjectsGood, Garbage, LeftBehind
  <2>2. EditNs' = EditNs /\ edit' = edit /\ \A n : Given(n) => Given(n)'
    BY <1>1, <1>2 DEF EditNs, rowVars, Given
  <2> QED
    BY <1>1, <2>1, <2>2 DEF CleanupInv, ObjectsGood
<1>14. ReaderArtifactsKept'
  <2>1. Readable => (\A l \in Labels : Protected(ShownNs(l))) /\ Protected(PdfNs)
    BY <1>11 DEF Readable, ShownNs, PdfNs
  <2>2. Readable => /\ \A l \in Labels : Key(ShownNs(l), l) \in objects'
                    /\ Key(PdfNs, "pdf") \in objects'
    BY <1>5, <1>9, <2>1 DEF CleanupInv, ReaderArtifactsKept, Garbage
  <2> QED
    BY <1>1, <2>2 DEF ReaderArtifactsKept, Readable, ShownNs, PdfNs, rowVars
<1> QED
  BY <1>4, <1>7, <1>8, <1>10, <1>12, <1>13, <1>14 DEF CleanupInv

LEMMA OtherPassSteps ==
    ASSUME CleanupInv, NEW s \in Sweepers,
           \/ AcquireLease(s) \/ CheckLease(s) \/ ReleaseLease(s) \/ ReadBooksFails(s)
           \/ RevalidateFails(s) \/ SweeperCrash(s)
    PROVE  CleanupInv'
<1>1. spent \in Spendings /\ [spent EXCEPT !.faults = @ + 1] \in Spendings
      /\ cleanupLease.owner \in Sweepers \cup {Dead, NoOwner}
  BY DEF CleanupInv, CleanupRowType, SweeperGood, Spendings
<1>2. /\ [spent EXCEPT !.faults = @ + 1].runs = spent.runs
      /\ [spent EXCEPT !.faults = @ + 1].revisions = spent.revisions
      /\ [spent EXCEPT !.faults = @ + 1].edits = spent.edits
  BY <1>1 DEF Spendings
<1>3. /\ PassGood(IdleSweeper) /\ PassGood(Done) /\ PassGood([IdleSweeper EXCEPT !.pc = "leading"])
      /\ PassGood(SkipHead(s)) /\ PassGood([sweeper[s] EXCEPT !.pc = "held"])
  BY PassesAreGood
<1>4. CASE AcquireLease(s)
  BY <1>1, <1>3, <1>4, PassSteps DEF AcquireLease
<1>5. CASE CheckLease(s)
  BY <1>1, <1>3, <1>5, PassSteps DEF CheckLease
<1>6. CASE ReleaseLease(s)
  <2>1. cleanupLease'.owner \in Sweepers \cup {Dead, NoOwner}
    BY <1>1, <1>6 DEF ReleaseLease
  <2> QED
    BY <1>1, <1>3, <1>6, <2>1, PassSteps DEF ReleaseLease
<1>7. CASE ReadBooksFails(s)
  BY <1>1, <1>2, <1>3, <1>7, PassSteps DEF ReadBooksFails
<1>8. CASE RevalidateFails(s)
  BY <1>1, <1>2, <1>3, <1>8, PassSteps DEF RevalidateFails
<1>9. CASE SweeperCrash(s)
  <2>1. cleanupLease'.owner \in Sweepers \cup {Dead, NoOwner}
    BY <1>1, <1>9 DEF SweeperCrash
  <2> QED
    BY <1>1, <1>2, <1>3, <1>9, <2>1, PassSteps DEF SweeperCrash
<1> QED
  BY <1>4, <1>5, <1>6, <1>7, <1>8, <1>9

LEMMA LeaseExpiresStep ==
    ASSUME CleanupInv, CleanupLeaseExpires
    PROVE  CleanupInv'
<1>1. spent \in Spendings /\ cleanupLease.owner \in Sweepers \cup {Dead, NoOwner}
  BY DEF CleanupInv, CleanupRowType, SweeperGood
<1>2. spent' \in Spendings /\ UNCHANGED <<spent.runs, spent.revisions, spent.edits>>
  BY <1>1 DEF CleanupLeaseExpires, Spendings
<1>3. UNCHANGED <<objects, aged, rowVars, sweeper, budget>>
  BY DEF CleanupLeaseExpires
<1>4. cleanupLease'.owner \in Sweepers \cup {Dead, NoOwner}
  <2>1. cleanupLease' = [cleanupLease EXCEPT !.live = FALSE]
    BY DEF CleanupLeaseExpires
  <2> QED
    BY <1>1, <2>1
<1>5. \A n : (LeftBehind(n) <=> LeftBehind(n)') /\ (Garbage(n) <=> Garbage(n)')
  BY <1>2, <1>3 DEF LeftBehind, Given, Garbage, Protected, rowVars, EditNs
<1>6. SweeperGood'
  BY <1>3, <1>4, <1>5 DEF CleanupInv, SweeperGood
<1> QED
  BY <1>2, <1>3, <1>6, SweeperOnly

LEMMA CleanupStuttered ==
    ASSUME CleanupInv, UNCHANGED cleanupVars
    PROVE  CleanupInv'
<1>1. UNCHANGED <<objects, aged, rowVars, budget, spent, sweeper, cleanupLease>>
  BY DEF cleanupVars, rowVars
<1>2. spent \in Spendings
  BY DEF CleanupInv, CleanupRowType
<1>3. \A n : (LeftBehind(n) <=> LeftBehind(n)') /\ (Garbage(n) <=> Garbage(n)')
  BY <1>1 DEF LeftBehind, Given, Garbage, Protected, rowVars, EditNs
<1>4. SweeperGood'
  BY <1>1, <1>3 DEF CleanupInv, SweeperGood
<1> QED
  BY <1>1, <1>2, <1>4, SweeperOnly

LEMMA CleanupNext_Inv == CleanupInv /\ [CleanupNext]_cleanupVars => CleanupInv'
<1> SUFFICES ASSUME CleanupInv, [CleanupNext]_cleanupVars PROVE CleanupInv'
  OBVIOUS
<1>1. CASE Writers
  BY <1>1, WriterSteps
<1>2. ASSUME NEW s \in Sweepers, Pass(s) \/ ReadBooksFails(s) \/ RevalidateFails(s) \/ SweeperCrash(s)
      PROVE  CleanupInv'
  BY <1>2, ListStep, ReadStep, RevalidateStep, DeleteStep, OtherPassSteps DEF Pass
<1>3. CASE CleanupLeaseExpires
  BY <1>3, LeaseExpiresStep
<1>4. CASE UNCHANGED cleanupVars
  BY <1>4, CleanupStuttered
<1> QED
  BY <1>1, <1>2, <1>3, <1>4 DEF CleanupNext

\* What is removed is removed by the deletion of the book or by a sweeper's delete.
LEMMA DeletesGarbage ==
    CleanupInv /\ [CleanupNext]_cleanupVars
        => [bookRow'.exists => \A k \in objects \ objects' : ~Protected(k.ns)]_cleanupVars
<1> SUFFICES ASSUME CleanupInv, CleanupNext, bookRow'.exists, NEW k \in objects \ objects'
             PROVE  ~Protected(k.ns)
  OBVIOUS
<1>1. CASE Writers
  <2>1. ~EraseBook
    BY DEF EraseBook, EmptyRow
  <2>2. objects \subseteq objects'
    BY <1>1, <2>1
    DEF Writers, Save, StartRun, ClaimRun, CheckpointCharacter, SettleImage, RecordArtifact, StoreCandidate,
        StorePreview, PublishRun, EndRunUnpublished, LateSave, StartRevision, StoreRevisionPdf,
        PublishRevision, FailRevision, StoreEditPdf, PublishEdit, Age
  <2> QED
    BY <2>2
<1>2. ASSUME NEW s \in Sweepers, Pass(s) \/ ReadBooksFails(s) \/ RevalidateFails(s) \/ SweeperCrash(s)
      PROVE  ~Protected(k.ns)
  <2>1. PICK d \in Keys : DeleteKey(s, d)
    BY <1>2 DEF Pass, AcquireLease, ListArtifacts, ReadBooks, CheckLease, Revalidate, ReleaseLease,
                ReadBooksFails, RevalidateFails, SweeperCrash
  <2>2. Garbage(d.ns) /\ d = k
    BY <2>1, DeleteStep DEF DeleteKey
  <2> QED
    BY <2>2 DEF Garbage
<1>3. CASE CleanupLeaseExpires
  BY <1>3 DEF CleanupLeaseExpires
<1> QED
  BY <1>1, <1>2, <1>3 DEF CleanupNext

LEMMA KeptByInv == CleanupInv => CleanupTypeOK /\ ReaderArtifactsKept /\ ResumableKept
<1> SUFFICES ASSUME CleanupInv PROVE CleanupTypeOK /\ ResumableKept
  BY DEF CleanupInv
<1>1. bookRow \in BookRows
  BY DEF CleanupInv, CleanupRowType
<1>2. CleanupTypeOK
  BY <1>1 DEF CleanupInv, ObjectsGood, ClaimGood, SweeperGood, CleanupTypeOK, BookRows, BookCheckpoints, Passes
<1>3. ResumableKept
  BY DEF CleanupInv, CheckpointGood, ResumableKept, EffectiveArtifacts
<1> QED
  BY <1>2, <1>3

\* Sweeping takes nothing that a reader is shown, a retry would adopt or a pointer
\* names, whatever claims, edits and other sweepers do meanwhile.
THEOREM SweptIsGarbage == CleanupSpec => SweptWasGarbage
<1>1. CleanupInv => CleanupTypeOK /\ ReaderArtifactsKept /\ ResumableKept
  BY KeptByInv
<1>2. CleanupSpec => []CleanupInv
  BY CleanupInit_Inv, CleanupNext_Inv, PTL DEF CleanupSpec
<1>3. CleanupSpec => DeletedWasGarbage
  BY <1>2, DeletesGarbage, PTL DEF CleanupSpec, DeletedWasGarbage
<1> QED
  BY <1>1, <1>2, <1>3, PTL DEF SweptWasGarbage

-----------------------------------------------------------------------------
(* Overlapping requests pass the caps by no more than they overlap *)

AskSteps == {"none", "book", "circuit", "active", "window", "schedule"}
AskRecords == [step: AskSteps, book: AdmissionBooks \cup {""}, handler: Handlers \cup {""},
               from: {"", "created"} \cup Ended]
Asking(steps) == {q \in Requests : asks[q].step \in steps}

\* A request on its way has a book, and has read a status that can be started from.
AdmissionTyped ==
    /\ shelf \in [AdmissionBooks -> {"created", "generating"} \cup Ended]
    /\ recent \in Nat
    /\ asks \in [Requests -> AskRecords]
    /\ \A q \in Requests : asks[q].step # "none" => asks[q].book \in AdmissionBooks /\ asks[q].handler \in Handlers
AdmissionInv == AdmissionTyped /\ OverlapBoundsTheCaps

LEMMA AskingFinite ==
    /\ IsFiniteSet(Generating) /\ Cardinality(Generating) \in Nat
    /\ \A steps : IsFiniteSet(Asking(steps)) /\ Cardinality(Asking(steps)) \in Nat
                  /\ Cardinality(Asking(steps)) <= Cardinality(Requests)
    /\ Cardinality(Requests) \in Nat
<1>1. IsFiniteSet(AdmissionBooks) /\ IsFiniteSet(Requests)
  BY AdmissionAssumption
<1>2. Generating \subseteq AdmissionBooks /\ \A steps : Asking(steps) \subseteq Requests
  BY DEF Generating, Asking
<1> QED
  BY <1>1, <1>2, FS_Subset, FS_CardinalityType

LEMMA CapsByAsking ==
    OverlapBoundsTheCaps <=>
        /\ Cardinality(Generating) + Cardinality(Asking({"window", "schedule"}))
              <= MaxConcurrent + Cardinality(Requests) - 1
        /\ recent + Cardinality(Asking({"schedule"})) <= MaxPerWindow + Cardinality(Requests) - 1
BY DEF OverlapBoundsTheCaps, Asking

\* A request that goes on to other steps, while the rest stay where they are.
LEMMA AskMoves ==
    ASSUME AdmissionTyped, NEW q \in Requests, NEW ask, asks' = [asks EXCEPT ![q] = ask], NEW steps
    PROVE  /\ asks[q].step \in steps /\ ask.step \notin steps =>
                Cardinality(Asking(steps)') = Cardinality(Asking(steps)) - 1
           /\ asks[q].step \notin steps /\ ask.step \in steps =>
                /\ Cardinality(Asking(steps)') = Cardinality(Asking(steps)) + 1
                /\ Cardinality(Asking(steps)) + 1 <= Cardinality(Requests)
           /\ (asks[q].step \in steps <=> ask.step \in steps) => Asking(steps)' = Asking(steps)
<1>1. \A r \in Requests : asks'[r] = IF r = q THEN ask ELSE asks[r]
  BY DEF AdmissionTyped
<1>2. ASSUME asks[q].step \in steps, ask.step \notin steps
      PROVE  Cardinality(Asking(steps)') = Cardinality(Asking(steps)) - 1
  <2>1. Asking(steps)' = Asking(steps) \ {q} /\ q \in Asking(steps)
    BY <1>1, <1>2 DEF Asking
  <2> QED
    BY <2>1, AskingFinite, FS_RemoveElement
<1>3. ASSUME asks[q].step \notin steps, ask.step \in steps
      PROVE  /\ Cardinality(Asking(steps)') = Cardinality(Asking(steps)) + 1
             /\ Cardinality(Asking(steps)) + 1 <= Cardinality(Requests)
  <2>1. Asking(steps)' = Asking(steps) \cup {q} /\ q \notin Asking(steps)
    BY <1>1, <1>3 DEF Asking
  <2>2. Cardinality(Asking(steps)') = Cardinality(Asking(steps)) + 1
    BY <2>1, AskingFinite, FS_AddElement
  <2>3. Asking(steps)' \subseteq Requests /\ IsFiniteSet(Requests)
    BY AdmissionAssumption DEF Asking
  <2>4. Cardinality(Asking(steps)') <= Cardinality(Requests)
    BY <2>3, FS_Subset
  <2> QED
    BY <2>2, <2>4
<1>4. ASSUME asks[q].step \in steps <=> ask.step \in steps
      PROVE  Asking(steps)' = Asking(steps)
  BY <1>1, <1>4 DEF Asking
<1> QED
  BY <1>2, <1>3, <1>4

LEMMA NoAskTyped ==
    NoAsk \in AskRecords /\ NoAsk.step = "none"
BY DEF NoAsk, AskSteps, AskRecords

LEMMA AdmissionInit_Inv == AdmissionInit => AdmissionInv
<1> SUFFICES ASSUME AdmissionInit PROVE AdmissionInv
  OBVIOUS
<1>1. AdmissionTyped
  BY NoAskTyped DEF AdmissionInit, AdmissionTyped
<1>2. Generating = {} /\ Asking({"window", "schedule"}) = {} /\ Asking({"schedule"}) = {} /\ recent = 0
  BY NoAskTyped DEF AdmissionInit, Generating, Asking, Ended
<1>3. OverlapBoundsTheCaps
  BY <1>2, CapsByAsking, AskingFinite, FS_EmptySet, AdmissionAssumption
<1> QED
  BY <1>1, <1>3 DEF AdmissionInv

\* A request that ends, or goes on to a step before the caps.
LEMMA AskStaysOut ==
    ASSUME AdmissionInv, NEW q \in Requests, NEW ask,
           ask \in AskRecords,
           ask.step # "none" => ask.book \in AdmissionBooks /\ ask.handler \in Handlers,
           ask.step \notin {"window", "schedule"},
           asks' = [asks EXCEPT ![q] = ask], UNCHANGED <<shelf, recent>>
    PROVE  AdmissionInv'
<1>1. AdmissionTyped'
  BY DEF AdmissionInv, AdmissionTyped
<1>2. /\ IsFiniteSet(Requests)
      /\ \A s : Cardinality(Asking(s)') \in Nat /\ Cardinality(Asking(s)) \in Nat
  <2>1. IsFiniteSet(Requests) /\ \A s : Asking(s)' \subseteq Requests
    BY AdmissionAssumption DEF Asking
  <2> QED
    BY <2>1, AskingFinite, FS_Subset, FS_CardinalityType
<1>3. ASSUME NEW s, s \subseteq {"window", "schedule"}
      PROVE  Cardinality(Asking(s)') <= Cardinality(Asking(s))
  <2>1. ask.step \notin s
    BY <1>3
  <2>2. CASE asks[q].step \in s
    <3>1. Cardinality(Asking(s)') = Cardinality(Asking(s)) - 1
      BY <2>1, <2>2, AskMoves DEF AdmissionInv
    <3> QED
      <4>1. PICK c : c = Cardinality(Asking(s))
        OBVIOUS
      <4>2. c \in Nat /\ c - 1 <= c
        BY <1>2, <4>1
      <4> QED
        BY <3>1, <4>1, <4>2
  <2>3. CASE asks[q].step \notin s
    <3>1. Asking(s)' = Asking(s)
      BY <2>1, <2>3, AskMoves DEF AdmissionInv
    <3> QED
      <4>1. PICK c : c = Cardinality(Asking(s))
        OBVIOUS
      <4>2. c \in Nat /\ c <= c
        BY <1>2, <4>1
      <4> QED
        BY <3>1, <4>1, <4>2
  <2> QED
    BY <2>2, <2>3
<1>4. /\ recent \in Nat /\ MaxConcurrent \in Nat /\ MaxPerWindow \in Nat /\ Cardinality(Requests) \in Nat
      /\ Cardinality(Generating) \in Nat /\ Generating' = Generating
  BY AskingFinite, AdmissionAssumption DEF AdmissionInv, AdmissionTyped, Generating
<1>5. /\ Cardinality(Generating) + Cardinality(Asking({"window", "schedule"})')
              <= MaxConcurrent + Cardinality(Requests) - 1
      /\ recent + Cardinality(Asking({"schedule"})') <= MaxPerWindow + Cardinality(Requests) - 1
  <2>1. PICK w, x, y, z :
          /\ w = Cardinality(Asking({"window", "schedule"})') /\ x = Cardinality(Asking({"window", "schedule"}))
          /\ y = Cardinality(Asking({"schedule"})') /\ z = Cardinality(Asking({"schedule"}))
    OBVIOUS
  <2>2. w \in Nat /\ x \in Nat /\ y \in Nat /\ z \in Nat /\ w <= x /\ y <= z
    BY <1>2, <1>3, <2>1
  <2>3. /\ Cardinality(Generating) + x <= MaxConcurrent + Cardinality(Requests) - 1
        /\ recent + z <= MaxPerWindow + Cardinality(Requests) - 1
    BY <2>1, CapsByAsking DEF AdmissionInv
  <2>4. /\ Cardinality(Generating) + w <= MaxConcurrent + Cardinality(Requests) - 1
        /\ recent + y <= MaxPerWindow + Cardinality(Requests) - 1
    <3>1. PICK g, n : g = Cardinality(Generating) /\ n = Cardinality(Requests)
      OBVIOUS
    <3>2. g \in Nat /\ n \in Nat /\ g + x <= MaxConcurrent + n - 1 /\ recent + z <= MaxPerWindow + n - 1
      BY <1>4, <2>3, <3>1
    <3>3. g + w <= MaxConcurrent + n - 1 /\ recent + y <= MaxPerWindow + n - 1
      BY <1>4, <2>2, <3>2
    <3> QED
      BY <3>1, <3>3
  <2> QED
    BY <2>1, <2>4
<1>6. OverlapBoundsTheCaps'
  BY <1>4, <1>5 DEF OverlapBoundsTheCaps, Asking
<1> QED
  BY <1>1, <1>6 DEF AdmissionInv

\* The caps are looked at before a request goes on, so it has room for itself.
LEMMA CountSteps ==
    ASSUME AdmissionInv, NEW q \in Requests, CountActive(q) \/ CountWindow(q) \/ ScheduleRun(q)
    PROVE  AdmissionInv'
<1> DEFINE n == Cardinality(Requests)
           late == Cardinality(Asking({"window", "schedule"}))
           last == Cardinality(Asking({"schedule"}))
           lateNext == Cardinality(Asking({"window", "schedule"})')
           lastNext == Cardinality(Asking({"schedule"})')
           gen == Cardinality(Generating)
           genNext == Cardinality(Generating')
<1>1. /\ recent \in Nat /\ MaxConcurrent \in Nat /\ MaxPerWindow \in Nat /\ n \in Nat
      /\ gen \in Nat /\ late \in Nat /\ last \in Nat
      /\ gen + late <= MaxConcurrent + n - 1 /\ recent + last <= MaxPerWindow + n - 1
  BY AskingFinite, AdmissionAssumption, CapsByAsking DEF AdmissionInv, AdmissionTyped
<1>2. AdmissionTyped /\ asks[q] \in AskRecords
  BY DEF AdmissionInv, AdmissionTyped
<1>3. SUFFICES AdmissionTyped' /\ genNext + lateNext <= MaxConcurrent + n - 1
               /\ recent' + lastNext <= MaxPerWindow + n - 1
  BY DEF AdmissionInv, OverlapBoundsTheCaps, Asking
<1>4. ASSUME NEW step \in AskSteps, asks' = [asks EXCEPT ![q].step = step], asks[q].step # "none",
             UNCHANGED <<shelf, recent>>
      PROVE  /\ AdmissionTyped' /\ Generating' = Generating
             /\ \E ask : ask.step = step /\ asks' = [asks EXCEPT ![q] = ask]
  <2>1. PICK ask : ask = [asks[q] EXCEPT !.step = step]
    OBVIOUS
  <2>2. /\ ask \in AskRecords
        /\ ask.step = step /\ ask.book = asks[q].book /\ ask.handler = asks[q].handler
    BY <1>2, <2>1 DEF AskRecords
  <2>3. asks' = [asks EXCEPT ![q] = ask]
    BY <1>2, <1>4, <2>1 DEF AdmissionTyped
  <2>4. AdmissionTyped'
    BY <1>4, <2>2, <2>3 DEF AdmissionInv, AdmissionTyped
  <2> QED
    BY <1>4, <2>2, <2>3, <2>4 DEF Generating
<1>5. ASSUME asks' = [asks EXCEPT ![q] = NoAsk], UNCHANGED <<shelf, recent>>
      PROVE  AdmissionInv'
  BY <1>5, NoAskTyped, AskStaysOut
<1>6. CASE CountActive(q)
  <2>1. CASE BelowConcurrency
    <3>1. asks[q].step = "active" /\ asks' = [asks EXCEPT ![q].step = "window"] /\ UNCHANGED <<shelf, recent>>
      BY <1>6, <2>1 DEF CountActive, AskAt, AskGoes
    <3>2. PICK ask : ask.step = "window" /\ asks' = [asks EXCEPT ![q] = ask]
      BY <1>4, <3>1 DEF AskSteps
    <3>3. AdmissionTyped' /\ Generating' = Generating
      BY <1>4, <3>1 DEF AskSteps
    <3>4. lateNext = late + 1 /\ late + 1 <= n
      BY <1>2, <3>1, <3>2, AskMoves
    <3>7. Asking({"schedule"})' = Asking({"schedule"})
      BY <1>2, <3>1, <3>2, AskMoves
    <3>8. lastNext = last
      BY <3>7
    <3>5. gen < MaxConcurrent
      BY <2>1 DEF BelowConcurrency
    <3> HIDE DEF late, last, n, lateNext, lastNext, gen, genNext
    <3>6. genNext = gen /\ recent' = recent
      BY <3>1, <3>3 DEF genNext, gen
    <3> QED
      BY <1>1, <3>3, <3>4, <3>5, <3>6, <3>8
  <2>2. CASE ~BelowConcurrency
    BY <1>5, <1>6, <2>2 DEF CountActive, AskEnds, AdmissionInv, OverlapBoundsTheCaps, Asking
  <2> QED
    BY <2>1, <2>2
<1>7. CASE CountWindow(q)
  <2>1. CASE recent < MaxPerWindow
    <3>1. asks[q].step = "window" /\ asks' = [asks EXCEPT ![q].step = "schedule"] /\ UNCHANGED <<shelf, recent>>
      BY <1>7, <2>1 DEF CountWindow, AskAt, AskGoes
    <3>2. PICK ask : ask.step = "schedule" /\ asks' = [asks EXCEPT ![q] = ask]
      BY <1>4, <3>1 DEF AskSteps
    <3>3. AdmissionTyped' /\ Generating' = Generating
      BY <1>4, <3>1 DEF AskSteps
    <3>4. Asking({"window", "schedule"})' = Asking({"window", "schedule"})
      BY <1>2, <3>1, <3>2, AskMoves
    <3>5. lastNext = last + 1 /\ last + 1 <= n
      BY <1>2, <3>1, <3>2, AskMoves
    <3>6. lateNext = late /\ genNext = gen /\ recent' = recent
      BY <3>1, <3>3, <3>4
    <3> HIDE DEF late, last, n, lateNext, lastNext, gen, genNext
    <3> QED
      BY <1>1, <2>1, <3>3, <3>5, <3>6
  <2>2. CASE ~(recent < MaxPerWindow)
    BY <1>5, <1>7, <2>2 DEF CountWindow, AskEnds, AdmissionInv, OverlapBoundsTheCaps, Asking
  <2> QED
    BY <2>1, <2>2
<1>8. CASE ScheduleRun(q)
  <2>1. /\ asks[q].step = "schedule" /\ asks' = [asks EXCEPT ![q] = NoAsk] /\ recent' = recent + 1
        /\ shelf[asks[q].book] = asks[q].from
        /\ shelf' = [shelf EXCEPT ![asks[q].book] = "generating"]
    BY <1>8 DEF ScheduleRun, AskAt, AskEnds
  <2>2. asks[q].book \in AdmissionBooks /\ asks[q].from # "generating"
    BY <1>2, <2>1 DEF AdmissionTyped, Ended, AskRecords
  <2>3. AdmissionTyped'
    BY <1>2, <2>1, <2>2, NoAskTyped DEF AdmissionTyped
  <2>4. Generating' = Generating \cup {asks[q].book} /\ asks[q].book \notin Generating
    BY <1>2, <2>1, <2>2 DEF Generating, AdmissionTyped
  <2>5. genNext = gen + 1
    BY <2>4, AskingFinite, FS_AddElement
  <2>6. lateNext = late - 1 /\ lastNext = last - 1
    BY <1>2, <2>1, NoAskTyped, AskMoves
  <2> HIDE DEF late, last, n, lateNext, lastNext, gen, genNext
  <2> QED
    BY <1>1, <2>1, <2>3, <2>5, <2>6
<1> QED
  BY <1>6, <1>7, <1>8

LEMMA EarlySteps ==
    ASSUME AdmissionInv, NEW q \in Requests,
           \/ \E b \in AdmissionBooks, h \in Handlers : Arrive(q, b, h)
           \/ ReadBook(q) \/ PassCircuit(q) \/ CircuitFails(q) \/ ScheduleRefused(q)
    PROVE  AdmissionInv'
<1>1. AdmissionTyped /\ asks[q] \in AskRecords /\ NoAsk \in AskRecords
  BY NoAskTyped DEF AdmissionInv, AdmissionTyped
<1>2. ASSUME UNCHANGED <<shelf, recent, asks>> PROVE AdmissionInv'
  BY <1>2 DEF AdmissionInv, AdmissionTyped, OverlapBoundsTheCaps, Generating
<1>3. ASSUME asks' = [asks EXCEPT ![q] = NoAsk], UNCHANGED <<shelf, recent>>
      PROVE  AdmissionInv'
  BY <1>3, NoAskTyped, AskStaysOut
<1>4. ASSUME NEW b \in AdmissionBooks, NEW h \in Handlers, Arrive(q, b, h) PROVE AdmissionInv'
  <2>1. [step |-> "book", book |-> b, handler |-> h, from |-> ""] \in AskRecords
    BY DEF AskSteps, AskRecords
  <2> QED
    BY <1>2, <1>4, <2>1, AskStaysOut DEF Arrive
<1>5. CASE ReadBook(q)
  <2> DEFINE status == shelf[asks[q].book]
  <2>1. CASE status \in StartsFrom(asks[q].handler)
    <3>1. /\ asks[q].step = "book" /\ UNCHANGED <<shelf, recent>>
          /\ asks' = [asks EXCEPT ![q].step = "circuit", ![q].from = status]
      BY <1>5, <2>1 DEF ReadBook, AskAt
    <3>2. asks[q].book \in AdmissionBooks /\ asks[q].handler \in Handlers
      BY <1>1, <3>1 DEF AdmissionTyped
    <3>3. status \in {"created"} \cup Ended
      <4>1. asks[q].handler \in {"generate", "retry", "regenerate"}
        BY <3>2, AdmissionAssumption
      <4> QED
        BY <2>1, <4>1 DEF StartsFrom, Ended
    <3>4. PICK ask : ask = [asks[q] EXCEPT !.step = "circuit", !.from = status]
      OBVIOUS
    <3> HIDE DEF status
    <3>5. ask \in AskRecords /\ ask.step = "circuit" /\ ask.book = asks[q].book /\ ask.handler = asks[q].handler
      BY <1>1, <3>3, <3>4 DEF AskSteps, AskRecords
    <3>6. asks' = [asks EXCEPT ![q] = ask]
      BY <1>1, <3>1, <3>4 DEF AdmissionTyped
    <3> QED
      BY <3>1, <3>2, <3>5, <3>6, AskStaysOut
  <2>2. CASE status \notin StartsFrom(asks[q].handler)
    BY <1>3, <1>5, <2>2 DEF ReadBook, AskEnds
  <2> QED
    BY <2>1, <2>2
<1>6. CASE PassCircuit(q)
  <2>1. CASE AskEnds(q)
    BY <1>3, <1>6, <2>1 DEF PassCircuit, AskEnds
  <2>2. CASE AskGoes(q, "active")
    <3>1. asks[q].step = "circuit" /\ asks' = [asks EXCEPT ![q].step = "active"] /\ UNCHANGED <<shelf, recent>>
      BY <1>6, <2>2 DEF PassCircuit, AskGoes, AskAt
    <3>2. PICK ask : ask = [asks[q] EXCEPT !.step = "active"]
      OBVIOUS
    <3>3. ask \in AskRecords /\ ask.step = "active" /\ ask.book = asks[q].book /\ ask.handler = asks[q].handler
      BY <1>1, <3>2 DEF AskSteps, AskRecords
    <3>4. asks' = [asks EXCEPT ![q] = ask]
      BY <1>1, <3>1, <3>2 DEF AdmissionTyped
    <3>5. ask.book \in AdmissionBooks /\ ask.handler \in Handlers
      BY <1>1, <3>1, <3>3 DEF AdmissionTyped
    <3> QED
      BY <3>1, <3>3, <3>4, <3>5, AskStaysOut
  <2> QED
    BY <1>6, <2>1, <2>2 DEF PassCircuit
<1>7. CASE CircuitFails(q) \/ ScheduleRefused(q)
  BY <1>3, <1>7 DEF CircuitFails, ScheduleRefused, AskEnds
<1> QED
  BY <1>4, <1>5, <1>6, <1>7

LEMMA WorldSteps ==
    ASSUME AdmissionInv,
           \/ OthersAsk \/ RunAges \/ (\E b \in AdmissionBooks : RunEnds(b))
           \/ (\E k \in CounterKeys : KeyExpires(k)) \/ UNCHANGED admissionVars
    PROVE  AdmissionInv'
<1>1. CASE OthersAsk \/ (\E k \in CounterKeys : KeyExpires(k)) \/ UNCHANGED admissionVars
  <2>1. UNCHANGED <<shelf, recent, asks>>
    BY <1>1 DEF OthersAsk, KeyExpires, admissionVars
  <2> QED
    BY <2>1 DEF AdmissionInv, AdmissionTyped, OverlapBoundsTheCaps, Generating
<1>2. CASE RunAges
  <2>1. recent > 0 /\ recent' = recent - 1 /\ UNCHANGED <<shelf, asks>> /\ recent \in Nat
    BY <1>2 DEF RunAges, AdmissionInv, AdmissionTyped
  <2>2. AdmissionTyped'
    BY <2>1 DEF AdmissionInv, AdmissionTyped
  <2>3. OverlapBoundsTheCaps'
    <3>1. PICK p, n : p = Cardinality(Asking({"schedule"})) /\ n = Cardinality(Requests)
      OBVIOUS
    <3>2. p \in Nat /\ n \in Nat /\ MaxPerWindow \in Nat /\ recent + p <= MaxPerWindow + n - 1
      BY <3>1, AskingFinite, AdmissionAssumption, CapsByAsking DEF AdmissionInv
    <3>3. recent' + p <= MaxPerWindow + n - 1
      BY <2>1, <3>2
    <3> QED
      BY <2>1, <3>1, <3>3 DEF AdmissionInv, OverlapBoundsTheCaps, Asking, Generating
  <2> QED
    BY <2>2, <2>3 DEF AdmissionInv
<1>3. ASSUME NEW b \in AdmissionBooks, RunEnds(b) PROVE AdmissionInv'
  <2>1. PICK status \in Ended : shelf[b] = "generating" /\ shelf' = [shelf EXCEPT ![b] = status]
                                /\ UNCHANGED <<recent, asks>>
    BY <1>3 DEF RunEnds
  <2>2. AdmissionTyped'
    BY <2>1 DEF AdmissionInv, AdmissionTyped
  <2>3. Generating' = Generating \ {b} /\ b \in Generating
    BY <2>1 DEF Generating, AdmissionInv, AdmissionTyped, Ended
  <2>4. Cardinality(Generating') = Cardinality(Generating) - 1
    BY <2>3, AskingFinite, FS_RemoveElement
  <2>5. PICK p, n : p = Cardinality(Asking({"window", "schedule"})) /\ n = Cardinality(Requests)
    OBVIOUS
  <2>6. /\ p \in Nat /\ n \in Nat /\ MaxConcurrent \in Nat /\ Cardinality(Generating) \in Nat
        /\ Cardinality(Generating) + p <= MaxConcurrent + n - 1
    BY <2>5, AskingFinite, AdmissionAssumption, CapsByAsking DEF AdmissionInv
  <2>7. Cardinality(Generating') + p <= MaxConcurrent + n - 1
    BY <2>4, <2>6
  <2>8. OverlapBoundsTheCaps'
    BY <2>1, <2>5, <2>7 DEF AdmissionInv, OverlapBoundsTheCaps, Asking
  <2> QED
    BY <2>2, <2>8 DEF AdmissionInv
<1> QED
  BY <1>1, <1>2, <1>3

\* The caps are counted outside the transaction that schedules, so requests that
\* overlap pass them together, but by no more than the requests that overlap.
THEOREM OverlapBounded == AdmissionSpec => []OverlapBoundsTheCaps
<1>1. AdmissionInv /\ [AdmissionNext]_admissionVars => AdmissionInv'
  BY CountSteps, EarlySteps, WorldSteps DEF AdmissionNext
<1> QED
  BY <1>1, AdmissionInit_Inv, PTL DEF AdmissionSpec, AdmissionInv

-----------------------------------------------------------------------------
(* Permits: who has asked for one, and who may be using it *)

PermitSet == QuotaCalls \X Nat
CommandSet == [kind: {"acquire", "release"}, permit: PermitSet, answer: {"none", "granted", "wait"}]
RequestSet ==
    [stage: {"idle", "queued", "asking", "sleeping", "inflight", "consuming", "returning", "closing",
             "backoff", "done"},
     gone: BOOLEAN, asked: Nat, waits: Nat, limited: Nat, retries: Nat, next: {"done", "idle", "backoff"}]

QuotaTyped ==
    /\ request \in [QuotaCalls -> RequestSet]
    /\ holders \subseteq PermitSet /\ commands \subseteq CommandSet
    /\ IsFiniteSet(holders) /\ Cardinality(holders) <= Permits

\* A command is about a permit that was asked for.  An acquire is alone with its
\* permit, which is not used before its answer is read; what it was granted is still
\* there.  A release finds its permit given up.
Using == {"inflight", "consuming"}
Returned == {"returning", "closing"}
CommandGood(x) ==
    LET r == request[x.permit[1]] IN
    /\ x.permit[2] <= r.asked
    /\ x.kind = "acquire" =>
          /\ x.permit[2] = r.asked => r.stage \notin Using \cup Returned
          /\ x.answer = "granted" => x.permit \in holders \cup expired
    /\ x.kind = "release" /\ x.permit[2] = r.asked => r.stage \notin Using \cup {"asking"}
AcquireAlone == \A x, y \in commands : x.kind = "acquire" /\ y.permit = x.permit => y = x

\* What the limiter has under way for a cancelled call is only its end.
GoneEnds == \A c \in QuotaCalls : request[c].gone => Stage(c) \in {"queued", "done"} \cup Returned

QuotaInv ==
    /\ QuotaTyped
    /\ \A x \in commands : CommandGood(x)
    /\ AcquireAlone
    /\ RequestsArePermitted
    /\ GoneEnds

LEMMA QuotaInit_Inv == QuotaInit => QuotaInv
<1> SUFFICES ASSUME QuotaInit PROVE QuotaInv
  OBVIOUS
<1>1. QuotaTyped
  BY FS_EmptySet, QuotaAssumption DEF QuotaInit, QuotaTyped, RequestSet
<1>2. RequestsArePermitted /\ GoneEnds
  BY DEF QuotaInit, RequestsArePermitted, UnderWay, Stage, GoneEnds
<1> QED
  BY <1>1, <1>2 DEF QuotaInit, QuotaInv, AcquireAlone

\* A call goes on without asking, sending or giving anything back.
LEMMA CallGoesOn ==
    ASSUME QuotaInv, NEW c \in QuotaCalls, NEW r \in RequestSet, request' = [request EXCEPT ![c] = r],
           r.asked = request[c].asked, commands' \subseteq commands,
           r.stage \in Using => Stage(c) \in Using,
           r.stage \notin Returned \cup {"asking"} \/ r.stage = Stage(c),
           r.gone => r.stage \in {"queued", "done"} \cup Returned,
           UNCHANGED <<holders, expired>>
    PROVE  QuotaInv'
<1>1. /\ request'[c] = r /\ \A d \in QuotaCalls : d # c => request'[d] = request[d]
      /\ request' \in [QuotaCalls -> RequestSet]
  BY DEF QuotaInv, QuotaTyped
<1>2. QuotaTyped'
  BY <1>1 DEF QuotaInv, QuotaTyped
<1>3. ASSUME NEW x \in commands' PROVE CommandGood(x)'
  <2>1. CommandGood(x) /\ x.permit[1] \in QuotaCalls
    BY <1>3 DEF QuotaInv, QuotaTyped, CommandSet, PermitSet
  <2>2. CASE x.permit[1] = c
    BY <1>1, <2>1, <2>2 DEF CommandGood, Using, Returned, Stage
  <2>3. CASE x.permit[1] # c
    BY <1>1, <2>1, <2>3 DEF CommandGood
  <2> QED
    BY <2>2, <2>3
<1>4. AcquireAlone'
  BY DEF QuotaInv, AcquireAlone
<1>5. RequestsArePermitted' /\ GoneEnds'
  BY <1>1 DEF QuotaInv, RequestsArePermitted, UnderWay, Using, Stage, Permit, GoneEnds
<1> QED
  BY <1>2, <1>3, <1>4, <1>5 DEF QuotaInv

\* A call that was sent gives its permit back.
LEMMA CallGivesBack ==
    ASSUME QuotaInv, NEW c \in QuotaCalls, NEW r \in RequestSet, request' = [request EXCEPT ![c] = r],
           r.asked = request[c].asked, Stage(c) \in Using, r.stage \in Returned, Release(c),
           UNCHANGED <<holders, expired>>
    PROVE  QuotaInv'
<1>1. /\ request'[c] = r /\ \A d \in QuotaCalls : d # c => request'[d] = request[d]
      /\ request' \in [QuotaCalls -> RequestSet]
  BY DEF QuotaInv, QuotaTyped
<1>2. PICK new : new = Command("release", Permit(c))
  OBVIOUS
<1>3. /\ new \in CommandSet /\ new.kind = "release" /\ new.permit[1] = c
      /\ new.permit[2] = r.asked /\ new.permit = Permit(c) /\ commands' = commands \cup {new}
  BY <1>2 DEF Command, Permit, CommandSet, PermitSet, RequestSet, Release
<1>4. QuotaTyped'
  BY <1>1, <1>3 DEF QuotaInv, QuotaTyped
<1>5. CommandGood(new)'
  BY <1>1, <1>3 DEF CommandGood, Returned, Using, RequestSet
<1>6. ASSUME NEW x \in commands PROVE CommandGood(x)' /\ ~(x.kind = "acquire" /\ x.permit = Permit(c))
  <2>1. CommandGood(x) /\ x.permit[1] \in QuotaCalls /\ x.permit[2] \in Nat
    BY <1>6 DEF QuotaInv, QuotaTyped, CommandSet, PermitSet
  <2>2. CASE x.permit[1] = c
    <3>1. x.kind = "acquire" => x.permit[2] # request[c].asked
      BY <2>1, <2>2 DEF CommandGood, Stage
    <3> QED
      BY <1>1, <2>1, <2>2, <3>1 DEF CommandGood, Using, Returned, Permit
  <2>3. CASE x.permit[1] # c
    BY <1>1, <2>1, <2>3 DEF CommandGood, Permit
  <2> QED
    BY <2>2, <2>3
<1>7. AcquireAlone'
  BY <1>3, <1>6 DEF QuotaInv, AcquireAlone
<1>8. RequestsArePermitted' /\ GoneEnds'
  BY <1>1 DEF QuotaInv, RequestsArePermitted, UnderWay, Using, Returned, Stage, Permit, GoneEnds
<1> QED
  BY <1>3, <1>4, <1>5, <1>6, <1>7, <1>8 DEF QuotaInv

\* A call asks under a permit of its own, that no command knows of yet.
LEMMA CallAsks ==
    ASSUME QuotaInv, NEW c \in QuotaCalls, NEW waits \in Nat, Ask(c, waits), ~request[c].gone,
           UNCHANGED <<holders, expired>>
    PROVE  QuotaInv'
<1>1. PICK r : r = [request[c] EXCEPT !.stage = "asking", !.asked = @ + 1, !.waits = waits]
  OBVIOUS
<1>2. request[c] \in RequestSet
  BY DEF QuotaInv, QuotaTyped
<1>3. /\ r \in RequestSet /\ r.stage = "asking" /\ r.asked = request[c].asked + 1 /\ ~r.gone
      /\ request[c].asked \in Nat
  <2>1. request[c].asked \in Nat /\ request[c].asked + 1 \in Nat
    BY <1>2 DEF RequestSet
  <2>2. PICK n : n = request[c].asked + 1
    OBVIOUS
  <2>3. r = [request[c] EXCEPT !.stage = "asking", !.asked = n, !.waits = waits] /\ n \in Nat
    BY <1>1, <2>1, <2>2
  <2>4. r \in RequestSet /\ r.stage = "asking" /\ r.asked = n /\ r.gone = request[c].gone
    BY <1>2, <2>3 DEF RequestSet
  <2> QED
    BY <2>1, <2>2, <2>4
<1>4. request' = [request EXCEPT ![c] = r]
  BY <1>1 DEF Ask, QuotaInv, QuotaTyped
<1>5. /\ request'[c] = r /\ \A d \in QuotaCalls : d # c => request'[d] = request[d]
      /\ request' \in [QuotaCalls -> RequestSet]
  BY <1>3, <1>4 DEF QuotaInv, QuotaTyped
<1>6. PICK new : new = Command("acquire", <<c, request[c].asked + 1>>)
  OBVIOUS
<1>7. /\ new \in CommandSet /\ new.kind = "acquire" /\ new.permit[1] = c /\ new.answer = "none"
      /\ new.permit[2] = r.asked /\ commands' = commands \cup {new}
  BY <1>3, <1>6 DEF Command, CommandSet, PermitSet, Ask
<1>8. QuotaTyped'
  BY <1>5, <1>7 DEF QuotaInv, QuotaTyped
<1>9. CommandGood(new)'
  BY <1>3, <1>5, <1>7 DEF CommandGood, Returned, Using
<1>10. ASSUME NEW x \in commands PROVE CommandGood(x)' /\ x.permit # new.permit
  <2>1. CommandGood(x) /\ x.permit[1] \in QuotaCalls /\ x.permit[2] \in Nat
    BY <1>10 DEF QuotaInv, QuotaTyped, CommandSet, PermitSet
  <2>2. CASE x.permit[1] = c
    <3>1. x.permit[2] <= request[c].asked /\ x.permit[2] # r.asked /\ x.permit[2] <= r.asked
      BY <1>3, <2>1, <2>2 DEF CommandGood
    <3> QED
      BY <1>5, <1>7, <2>1, <2>2, <3>1 DEF CommandGood
  <2>3. CASE x.permit[1] # c
    BY <1>5, <1>7, <2>1, <2>3 DEF CommandGood
  <2> QED
    BY <2>2, <2>3
<1>11. AcquireAlone'
  BY <1>7, <1>10 DEF QuotaInv, AcquireAlone
<1>12. RequestsArePermitted' /\ GoneEnds'
  BY <1>3, <1>5 DEF QuotaInv, RequestsArePermitted, UnderWay, Stage, Permit, GoneEnds
<1> QED
  BY <1>7, <1>8, <1>9, <1>10, <1>11, <1>12 DEF QuotaInv

\* The answer a call waits for comes, and the permit is granted.
LEMMA CallIsSent ==
    ASSUME QuotaInv, NEW c \in QuotaCalls, NEW cmd \in commands, Mine(c, cmd), cmd.answer = "granted",
           To(c, "inflight"), commands' = commands \ {cmd}, UNCHANGED <<holders, expired>>
    PROVE  /\ QuotaInv'
           /\ ~request[c].gone /\ Permit(c) \in holders \cup expired
<1>1. PICK r : r = [request[c] EXCEPT !.stage = "inflight"]
  OBVIOUS
<1>2. request[c] \in RequestSet /\ Stage(c) = "asking" /\ ~request[c].gone
  BY DEF QuotaInv, QuotaTyped, Mine, GoneEnds, Returned, Stage, RequestSet
<1>3. r \in RequestSet /\ r.stage = "inflight" /\ r.asked = request[c].asked /\ ~r.gone
  BY <1>1, <1>2 DEF RequestSet
<1>4. /\ request'[c] = r /\ \A d \in QuotaCalls : d # c => request'[d] = request[d]
      /\ request' \in [QuotaCalls -> RequestSet]
  BY <1>1, <1>3 DEF QuotaInv, QuotaTyped, To
<1>5. Permit(c) \in holders \cup expired
  BY DEF QuotaInv, CommandGood, Mine
<1>6. QuotaTyped'
  BY <1>4 DEF QuotaInv, QuotaTyped
<1>7. ASSUME NEW x \in commands' PROVE CommandGood(x)'
  <2>1. CommandGood(x) /\ x.permit[1] \in QuotaCalls /\ x.permit = <<x.permit[1], x.permit[2]>>
    BY <1>7 DEF QuotaInv, QuotaTyped, CommandSet, PermitSet
  <2>2. x.permit # Permit(c)
    BY <1>7 DEF QuotaInv, AcquireAlone, Mine
  <2>3. CASE x.permit[1] = c
    <3>1. x.permit[2] # r.asked
      BY <1>3, <2>1, <2>2, <2>3 DEF Permit
    <3> QED
      BY <1>3, <1>4, <2>1, <2>3, <3>1 DEF CommandGood
  <2>4. CASE x.permit[1] # c
    BY <1>4, <2>1, <2>4 DEF CommandGood
  <2> QED
    BY <2>3, <2>4
<1>8. AcquireAlone'
  BY DEF QuotaInv, AcquireAlone
<1>9. RequestsArePermitted' /\ GoneEnds'
  BY <1>3, <1>4, <1>5 DEF QuotaInv, RequestsArePermitted, UnderWay, Stage, Permit, GoneEnds
<1> QED
  BY <1>2, <1>5, <1>6, <1>7, <1>8, <1>9 DEF QuotaInv

\* Redis grants a permit while there are fewer than the scope has.
LEMMA RedisAcquires ==
    ASSUME QuotaInv, NEW cmd \in commands, AcquireScript(cmd)
    PROVE  QuotaInv'
<1>1. PICK answer, new :
        /\ answer \in {"granted", "wait"} /\ new = [cmd EXCEPT !.answer = answer]
        /\ commands' = (commands \ {cmd}) \cup {new}
        /\ IF answer = "granted" THEN Cardinality(holders) < Permits /\ holders' = holders \cup {cmd.permit}
                                 ELSE holders' = holders
  <2>1. CASE Cardinality(holders) < Permits /\ spaced
    <3>1. holders' = holders \cup {cmd.permit} /\ Answer(cmd, "granted")
      BY <2>1 DEF AcquireScript
    <3> QED
      BY <2>1, <3>1 DEF Answer
  <2>2. CASE ~(Cardinality(holders) < Permits /\ spaced)
    <3>1. holders' = holders /\ Answer(cmd, "wait")
      BY <2>2 DEF AcquireScript
    <3>2. PICK new : new = [cmd EXCEPT !.answer = "wait"]
      OBVIOUS
    <3>3. commands' = (commands \ {cmd}) \cup {new}
      BY <3>1, <3>2 DEF Answer
    <3> QED
      BY <3>1, <3>2, <3>3
  <2> QED
    BY <2>1, <2>2
<1>2. /\ cmd.kind = "acquire" /\ cmd.answer = "none" /\ UNCHANGED <<request, expired>>
      /\ cmd \in CommandSet /\ cmd.permit \in PermitSet
  BY DEF AcquireScript, QuotaInv, QuotaTyped, CommandSet
<1>3. new \in CommandSet /\ new.kind = "acquire" /\ new.permit = cmd.permit /\ new.answer = answer
  BY <1>1, <1>2 DEF CommandSet
<1>4. holders \subseteq holders' /\ (answer = "granted" => cmd.permit \in holders')
  BY <1>1
<1>5. IsFiniteSet(holders') /\ Cardinality(holders') <= Permits
  <2>1. IsFiniteSet(holders) /\ Cardinality(holders) \in Nat /\ Cardinality(holders) <= Permits /\ Permits \in Nat
    BY FS_CardinalityType, QuotaAssumption DEF QuotaInv, QuotaTyped
  <2>2. CASE answer = "granted"
    <3>1. /\ IsFiniteSet(holders')
          /\ Cardinality(holders') = Cardinality(holders) \/ Cardinality(holders') = Cardinality(holders) + 1
      BY <1>1, <2>1, <2>2, FS_AddElement
    <3>2. PICK n : n = Cardinality(holders)
      OBVIOUS
    <3>3. n < Permits /\ n \in Nat /\ n + 1 <= Permits
      BY <1>1, <2>1, <2>2, <3>2
    <3> QED
      BY <2>1, <3>1, <3>2, <3>3
  <2>3. CASE answer # "granted"
    BY <1>1, <2>1, <2>3
  <2> QED
    BY <2>2, <2>3
<1>6. QuotaTyped'
  BY <1>1, <1>2, <1>3, <1>5 DEF QuotaInv, QuotaTyped
<1>7. CommandGood(new)'
  BY <1>2, <1>3, <1>4 DEF QuotaInv, CommandGood
<1>8. ASSUME NEW x \in commands PROVE CommandGood(x)'
  BY <1>2, <1>4, <1>8 DEF QuotaInv, CommandGood
<1>9. AcquireAlone'
  <2>1. \A y \in commands : y.permit = cmd.permit => y = cmd
    BY <1>2 DEF QuotaInv, AcquireAlone
  <2>2. ASSUME NEW x \in commands', NEW y \in commands', x.kind = "acquire", y.permit = x.permit
        PROVE  y = x
    <3>1. CASE x.permit = cmd.permit
      BY <1>1, <2>1, <2>2, <3>1
    <3>2. CASE x.permit # cmd.permit
      BY <1>1, <1>3, <2>2, <3>2 DEF QuotaInv, AcquireAlone
    <3> QED
      BY <3>1, <3>2
  <2> QED
    BY <2>2 DEF AcquireAlone
<1>10. RequestsArePermitted' /\ GoneEnds'
  BY <1>2, <1>4 DEF QuotaInv, RequestsArePermitted, UnderWay, Stage, Permit, GoneEnds
<1> QED
  BY <1>1, <1>6, <1>7, <1>8, <1>9, <1>10 DEF QuotaInv

\* A permit that is released, or whose answer nobody waits for, is not in use.
LEMMA RedisReleases ==
    ASSUME QuotaInv, NEW cmd \in commands, ReleaseScript(cmd) \/ LateAnswer(cmd)
    PROVE  QuotaInv'
<1> USE DEF QuotaInv
<1>1. CASE ReleaseScript(cmd)
  <2>1. /\ cmd.kind = "release" /\ holders' = holders \ {cmd.permit} /\ commands' = commands \ {cmd}
        /\ UNCHANGED <<request, expired>> /\ cmd.permit \in PermitSet
    BY <1>1 DEF ReleaseScript, QuotaTyped, CommandSet
  <2>2. IsFiniteSet(holders') /\ Cardinality(holders') <= Permits
    <3>1. /\ IsFiniteSet(holders') /\ Cardinality(holders') <= Cardinality(holders)
          /\ Cardinality(holders') \in Nat /\ Cardinality(holders) \in Nat /\ Cardinality(holders) <= Permits
      BY <2>1, FS_Subset, FS_CardinalityType DEF QuotaTyped
    <3>2. PICK m, n : m = Cardinality(holders') /\ n = Cardinality(holders)
      OBVIOUS
    <3>3. m <= Permits
      BY <3>1, <3>2, QuotaAssumption
    <3> QED
      BY <3>1, <3>2, <3>3
  <2>3. QuotaTyped'
    BY <2>1, <2>2 DEF QuotaTyped
  <2>4. ASSUME NEW x \in commands' PROVE CommandGood(x)'
    <3>1. CommandGood(x) /\ (x.kind = "acquire" => x.permit # cmd.permit)
      BY <2>1, <2>4 DEF AcquireAlone
    <3> QED
      BY <2>1, <3>1 DEF CommandGood
  <2>5. ASSUME NEW c \in QuotaCalls, UnderWay(c) PROVE Permit(c) # cmd.permit
    <3>1. CommandGood(cmd)
      OBVIOUS
    <3> QED
      BY <2>1, <2>5, <3>1 DEF CommandGood, UnderWay, Permit, Using, Stage
  <2>6. RequestsArePermitted' /\ GoneEnds' /\ AcquireAlone'
    BY <2>1, <2>5 DEF RequestsArePermitted, UnderWay, Stage, Permit, GoneEnds, AcquireAlone
  <2> QED
    BY <2>3, <2>4, <2>6
<1>2. CASE LateAnswer(cmd)
  <2>1. /\ cmd.kind = "acquire" /\ UNCHANGED <<holders, request, expired>> /\ cmd \in CommandSet
        /\ cmd.permit \in PermitSet /\ \A c \in QuotaCalls : ~Mine(c, cmd)
    <3>1. cmd \in CommandSet
      BY DEF QuotaTyped
    <3> QED
      BY <1>2, <3>1 DEF LateAnswer, CommandSet, redisVars
  <2>2. PICK new : new = Command("release", cmd.permit)
    OBVIOUS
  <2>3. /\ new.kind = "release" /\ new.permit = cmd.permit /\ new \in CommandSet
        /\ commands' = (commands \ {cmd}) \cup {new} \/ commands' = commands \ {cmd}
    BY <1>2, <2>1, <2>2 DEF LateAnswer, Command, CommandSet
  <2>4. QuotaTyped'
    BY <2>1, <2>3 DEF QuotaTyped
  <2>5. CommandGood(new)'
    <3>1. PICK c \in QuotaCalls : c = cmd.permit[1]
      BY <2>1 DEF PermitSet
    <3>2. CommandGood(cmd)
      OBVIOUS
    <3>3. cmd.permit[2] = request[c].asked => Stage(c) # "asking"
      BY <2>1, <3>1 DEF Mine, Permit, PermitSet
    <3> QED
      BY <2>1, <2>3, <3>1, <3>2, <3>3 DEF CommandGood, Stage, Using, Returned
  <2>6. ASSUME NEW x \in commands PROVE CommandGood(x)'
    BY <2>1, <2>6 DEF CommandGood
  <2>7. AcquireAlone'
    BY <2>1, <2>3 DEF AcquireAlone
  <2>8. RequestsArePermitted' /\ GoneEnds'
    BY <2>1 DEF RequestsArePermitted, UnderWay, Stage, Permit, GoneEnds
  <2> QED
    BY <2>3, <2>4, <2>5, <2>6, <2>7, <2>8
<1> QED
  BY <1>1, <1>2

LEMMA RedisForgets ==
    ASSUME QuotaInv,
           \/ IntervalPasses \/ UNCHANGED quotaVars
           \/ \E cmd \in commands : LoseCommand(cmd)
           \/ \E permit \in holders : LeaseExpires(permit)
    PROVE  QuotaInv'
<1> USE DEF QuotaInv
<1>1. CASE IntervalPasses \/ UNCHANGED quotaVars \/ \E cmd \in commands : LoseCommand(cmd)
  <2>1. commands' \subseteq commands /\ UNCHANGED <<holders, expired, request>>
    BY <1>1 DEF IntervalPasses, quotaVars, LoseCommand, redisVars
  <2>2. QuotaTyped' /\ AcquireAlone' /\ RequestsArePermitted' /\ GoneEnds'
    BY <2>1 DEF QuotaTyped, AcquireAlone, RequestsArePermitted, UnderWay, Stage, Permit, GoneEnds
  <2>3. \A x \in commands' : CommandGood(x)'
    BY <2>1 DEF CommandGood
  <2> QED
    BY <2>2, <2>3
<1>2. ASSUME NEW permit \in holders, LeaseExpires(permit) PROVE QuotaInv'
  <2>1. /\ holders' = holders \ {permit} /\ expired' = expired \cup {permit} /\ UNCHANGED <<commands, request>>
    BY <1>2 DEF LeaseExpires
  <2>2. holders' \cup expired' = holders \cup expired
    BY <2>1
  <2>3. IsFiniteSet(holders') /\ Cardinality(holders') <= Permits
    <3>1. /\ IsFiniteSet(holders') /\ Cardinality(holders') <= Cardinality(holders)
          /\ Cardinality(holders') \in Nat /\ Cardinality(holders) \in Nat /\ Cardinality(holders) <= Permits
      BY <2>1, FS_Subset, FS_CardinalityType DEF QuotaTyped
    <3>2. PICK m, n : m = Cardinality(holders') /\ n = Cardinality(holders)
      OBVIOUS
    <3>3. m <= Permits
      BY <3>1, <3>2, QuotaAssumption
    <3> QED
      BY <3>1, <3>2, <3>3
  <2>4. QuotaTyped' /\ AcquireAlone'
    BY <2>1, <2>3 DEF QuotaTyped, AcquireAlone
  <2>5. \A x \in commands' : CommandGood(x)'
    BY <2>1, <2>2 DEF CommandGood
  <2>6. RequestsArePermitted' /\ GoneEnds'
    BY <2>1, <2>2 DEF RequestsArePermitted, UnderWay, Stage, Permit, GoneEnds
  <2> QED
    BY <2>4, <2>5, <2>6
<1> QED
  BY <1>1, <1>2

-----------------------------------------------------------------------------
(* The steps of a call *)

LEMMA RequestTyped ==
    \A c \in QuotaCalls : QuotaInv =>
        /\ request[c] \in RequestSet
        /\ request[c].retries + 1 \in Nat /\ request[c].waits + 1 \in Nat /\ request[c].limited + 1 \in Nat
BY DEF QuotaInv, QuotaTyped, RequestSet

LEMMA FailedTyped ==
    ASSUME QuotaInv, NEW c \in QuotaCalls, NEW stage \in {"idle", "done", "returning", "closing"},
           NEW r, r = Failed(request[c], stage)
    PROVE  r \in RequestSet /\ r.stage = stage /\ r.asked = request[c].asked /\ r.gone = request[c].gone
<1>1. PICK n : n = request[c].retries + 1
  OBVIOUS
<1>2. n \in Nat /\ request[c] \in RequestSet
  BY <1>1, RequestTyped
<1>3. r = [request[c] EXCEPT !.stage = stage, !.retries = n, !.waits = 0, !.limited = 0]
  BY <1>1 DEF Failed
<1>4. PICK q : q = [request[c] EXCEPT !.stage = stage, !.retries = n]
  OBVIOUS
<1>5. q \in RequestSet /\ q.stage = stage /\ q.asked = request[c].asked /\ q.gone = request[c].gone
  BY <1>2, <1>4 DEF RequestSet
<1>6. PICK w : w = [q EXCEPT !.waits = 0]
  OBVIOUS
<1>7. w \in RequestSet /\ w.stage = stage /\ w.asked = request[c].asked /\ w.gone = request[c].gone
  BY <1>5, <1>6 DEF RequestSet
<1>8. r = [w EXCEPT !.limited = 0]
  BY <1>3, <1>4, <1>6
<1> QED
  BY <1>7, <1>8 DEF RequestSet

LEMMA AfterFailureTyped ==
    \A c \in QuotaCalls : AfterFailure(c) \in {"done", "idle"} /\ (request[c].gone => AfterFailure(c) = "done")
BY DEF AfterFailure

\* A call that only moves to another stage.
LEMMA CallMoves ==
    ASSUME QuotaInv, NEW c \in QuotaCalls, NEW stage, To(c, stage),
           stage \in {"idle", "queued", "backoff", "done"} \/ (stage = "consuming" /\ Stage(c) = "inflight"),
           request[c].gone => stage \in {"queued", "done"},
           commands' \subseteq commands, UNCHANGED <<holders, expired>>
    PROVE  QuotaInv'
<1>1. PICK r : r = [request[c] EXCEPT !.stage = stage]
  OBVIOUS
<1>2. /\ r \in RequestSet /\ r.stage = stage /\ r.asked = request[c].asked /\ r.gone = request[c].gone
  BY <1>1, RequestTyped DEF RequestSet
<1>3. request' = [request EXCEPT ![c] = r]
  BY <1>1 DEF To, QuotaInv, QuotaTyped
<1> QED
  BY <1>2, <1>3, CallGoesOn DEF Using, Returned

LEMMA QueueSteps ==
    ASSUME QuotaInv, NEW c \in QuotaCalls,
           Schedule(c) \/ StartSlot(c) \/ Wake(c) \/ FinalResponse(c) \/ PermitReleased(c)
    PROVE  QuotaInv'
<1>1. CASE Schedule(c)
  <2>1. To(c, "queued") /\ UNCHANGED <<commands, holders, expired>>
    BY <1>1 DEF Schedule, redisVars
  <2> QED
    BY <2>1, CallMoves
<1>2. CASE StartSlot(c)
  <2>1. CASE request[c].gone
    <3>1. To(c, "done") /\ UNCHANGED <<commands, holders, expired>>
      BY <1>2, <2>1 DEF StartSlot, redisVars
    <3> QED
      BY <3>1, CallMoves
  <2>2. CASE ~request[c].gone
    <3>1. Ask(c, 0) /\ UNCHANGED <<holders, expired>>
      BY <1>2, <2>2 DEF StartSlot, redisVars
    <3> QED
      BY <2>2, <3>1, CallAsks
  <2> QED
    BY <2>1, <2>2
<1>3. CASE Wake(c)
  <2>1. PICK waits \in Nat : Ask(c, waits)
    BY <1>3, RequestTyped DEF Wake, RequestSet
  <2>2. ~request[c].gone /\ UNCHANGED <<holders, expired>>
    BY <1>3 DEF Wake, redisVars, QuotaInv, GoneEnds, Returned
  <2> QED
    BY <2>1, <2>2, CallAsks
<1>4. CASE FinalResponse(c)
  <2>1. /\ Stage(c) = "inflight" /\ To(c, "consuming") /\ UNCHANGED <<commands, holders, expired>>
        /\ ~request[c].gone
    BY <1>4 DEF FinalResponse, redisVars, QuotaInv, GoneEnds, Returned
  <2> QED
    BY <2>1, CallMoves
<1>5. CASE PermitReleased(c)
  <2>1. PICK stage : stage = IF request[c].gone THEN "done" ELSE request[c].next
    OBVIOUS
  <2>2. To(c, stage) /\ UNCHANGED <<commands, holders, expired>>
    BY <1>5, <2>1 DEF PermitReleased, redisVars
  <2>3. stage \in {"done", "idle", "backoff"} /\ (request[c].gone => stage = "done")
    BY <2>1, RequestTyped DEF RequestSet
  <2> QED
    BY <2>2, <2>3, CallMoves
<1> QED
  BY <1>1, <1>2, <1>3, <1>4, <1>5

LEMMA AcquireSteps ==
    ASSUME QuotaInv, NEW c \in QuotaCalls, AcquireFails(c) \/ \E cmd \in commands : Acquired(c, cmd)
    PROVE  QuotaInv'
<1>1. ASSUME Stage(c) = "asking", commands' \subseteq commands, UNCHANGED <<holders, expired>>,
             request' = [request EXCEPT ![c] = Failed(@, AfterFailure(c))]
      PROVE  QuotaInv'
  <2>1. PICK stage, r : stage = AfterFailure(c) /\ r = Failed(request[c], stage)
    OBVIOUS
  <2>2. r \in RequestSet /\ r.stage = AfterFailure(c) /\ r.asked = request[c].asked /\ r.gone = request[c].gone
    BY <2>1, FailedTyped, AfterFailureTyped
  <2>3. request' = [request EXCEPT ![c] = r]
    BY <1>1, <2>1 DEF QuotaInv, QuotaTyped
  <2> QED
    BY <1>1, <2>2, <2>3, AfterFailureTyped, CallGoesOn DEF Using, Returned
<1>2. CASE AcquireFails(c)
  BY <1>1, <1>2 DEF AcquireFails, redisVars
<1>3. ASSUME NEW cmd \in commands, Acquired(c, cmd) PROVE QuotaInv'
  <2>1. /\ Mine(c, cmd) /\ Stage(c) = "asking" /\ commands' = commands \ {cmd} /\ UNCHANGED <<holders, expired>>
    BY <1>3 DEF Acquired, Mine, redisVars
  <2>2. CASE cmd.answer = "granted"
    BY <1>3, <2>1, <2>2, CallIsSent DEF Acquired
  <2>3. CASE cmd.answer # "granted" /\ request[c].waits < MaxWaits
    <3>1. PICK n, r : n = request[c].waits + 1 /\ r = [request[c] EXCEPT !.stage = "sleeping", !.waits = n]
      OBVIOUS
    <3>2. request' = [request EXCEPT ![c] = r]
      BY <1>3, <2>3, <3>1 DEF Acquired, QuotaInv, QuotaTyped
    <3>3. r \in RequestSet /\ r.stage = "sleeping" /\ r.asked = request[c].asked /\ r.gone = request[c].gone
      <4>1. n \in Nat /\ request[c] \in RequestSet
        BY <3>1, RequestTyped
      <4> QED
        BY <3>1, <4>1 DEF RequestSet
    <3>4. ~request[c].gone
      BY <2>1 DEF QuotaInv, GoneEnds, Returned
    <3> QED
      BY <2>1, <3>2, <3>3, <3>4, CallGoesOn DEF Using, Returned
  <2>4. CASE cmd.answer # "granted" /\ ~(request[c].waits < MaxWaits)
    BY <1>1, <1>3, <2>1, <2>4 DEF Acquired
  <2> QED
    BY <2>2, <2>3, <2>4
<1> QED
  BY <1>2, <1>3

LEMMA ReturnedTyped ==
    ASSUME QuotaInv, NEW c \in QuotaCalls,
           RateLimitedResponse(c) \/ DispatchFails(c) \/ BodyConsumed(c) \/ AbortUnderWay(c)
    PROVE  \E r \in RequestSet : /\ request' = [request EXCEPT ![c] = r]
                                  /\ r.asked = request[c].asked /\ r.stage \in Returned
<1>1. request[c] \in RequestSet
  BY RequestTyped
<1>2. CASE RateLimitedResponse(c)
  <2>1. PICK n, r : /\ n = request[c].limited + 1
                    /\ r = [request[c] EXCEPT !.stage = "returning", !.limited = n, !.next = "backoff"]
    OBVIOUS
  <2>2. n \in Nat
    BY <2>1, RequestTyped
  <2>3. r \in RequestSet /\ r.asked = request[c].asked /\ r.stage \in Returned
    BY <1>1, <2>1, <2>2 DEF RequestSet, Returned
  <2>4. request' = [request EXCEPT ![c] = r]
    BY <1>2, <2>1 DEF RateLimitedResponse, QuotaInv, QuotaTyped
  <2> QED
    BY <2>3, <2>4
<1>3. ASSUME NEW stage \in Returned,
             request' = [request EXCEPT ![c] = [Failed(@, stage) EXCEPT !.next = AfterFailure(c)]]
      PROVE  \E r \in RequestSet : /\ request' = [request EXCEPT ![c] = r]
                                    /\ r.asked = request[c].asked /\ r.stage \in Returned
  <2>1. PICK next, f, r : /\ next = AfterFailure(c) /\ f = Failed(request[c], stage)
                          /\ r = [f EXCEPT !.next = next]
    OBVIOUS
  <2>2. next \in {"done", "idle"} /\ f \in RequestSet /\ f.stage = stage /\ f.asked = request[c].asked
    BY <2>1, FailedTyped, AfterFailureTyped DEF Returned
  <2>4. r \in RequestSet /\ r.stage = stage /\ r.asked = request[c].asked
    BY <2>1, <2>2 DEF RequestSet
  <2>3. request' = [request EXCEPT ![c] = r]
    BY <1>3, <2>1 DEF QuotaInv, QuotaTyped
  <2> QED
    BY <2>3, <2>4
<1>4. CASE DispatchFails(c)
  BY <1>3, <1>4 DEF DispatchFails, Returned
<1>5. CASE BodyConsumed(c)
  <2>1. CASE request' = [request EXCEPT ![c].stage = "closing", ![c].next = "done"]
    <3>1. PICK r : r = [request[c] EXCEPT !.stage = "closing", !.next = "done"]
      OBVIOUS
    <3>2. r \in RequestSet /\ r.asked = request[c].asked /\ r.stage \in Returned
      BY <1>1, <3>1 DEF RequestSet, Returned
    <3>3. request' = [request EXCEPT ![c] = r]
      BY <2>1, <3>1 DEF QuotaInv, QuotaTyped
    <3> QED
      BY <3>2, <3>3
  <2>2. CASE request' = [request EXCEPT ![c] = [Failed(@, "closing") EXCEPT !.next = AfterFailure(c)]]
    BY <1>3, <2>2 DEF Returned
  <2> QED
    BY <1>5, <2>1, <2>2 DEF BodyConsumed
<1>6. CASE AbortUnderWay(c)
  <2>1. PICK stage, r : /\ stage = IF request[c].stage = "inflight" THEN "returning" ELSE "closing"
                        /\ r = [request[c] EXCEPT !.gone = TRUE, !.stage = stage, !.next = "done"]
    OBVIOUS
  <2>2. stage \in Returned
    BY <2>1 DEF Returned
  <2>3. r \in RequestSet /\ r.asked = request[c].asked /\ r.stage = stage
    BY <1>1, <2>1, <2>2 DEF RequestSet, Returned
  <2>4. request' = [request EXCEPT ![c] = r]
    BY <1>6, <2>1 DEF AbortUnderWay, QuotaInv, QuotaTyped
  <2> QED
    BY <2>2, <2>3, <2>4
<1> QED
  BY <1>2, <1>4, <1>5, <1>6

LEMMA ReturnSteps ==
    ASSUME QuotaInv, NEW c \in QuotaCalls,
           RateLimitedResponse(c) \/ DispatchFails(c) \/ BodyConsumed(c) \/ AbortUnderWay(c)
    PROVE  QuotaInv'
<1>1. Stage(c) \in Using /\ Release(c) /\ UNCHANGED <<holders, expired>>
  BY DEF RateLimitedResponse, DispatchFails, BodyConsumed, AbortUnderWay, redisVars, Using
<1> QED
  BY <1>1, ReturnedTyped, CallGivesBack

LEMMA AbortSteps ==
    ASSUME QuotaInv, NEW c \in QuotaCalls, AbortInQueue(c) \/ AbortWaiting(c)
    PROVE  QuotaInv'
<1>1. request[c] \in RequestSet
  BY RequestTyped
<1>2. PICK r \in RequestSet : /\ request' = [request EXCEPT ![c] = r]
                              /\ r.asked = request[c].asked /\ r.stage \in {"queued", "done"}
  <2>1. CASE AbortInQueue(c)
    <3>1. PICK r : r = [request[c] EXCEPT !.gone = TRUE]
      OBVIOUS
    <3>2. request[c].stage = "queued" /\ request' = [request EXCEPT ![c] = r]
      BY <2>1, <3>1 DEF AbortInQueue, Stage, QuotaInv, QuotaTyped
    <3>3. r \in RequestSet /\ r.asked = request[c].asked /\ r.stage = "queued"
      BY <1>1, <3>1, <3>2 DEF RequestSet
    <3> QED
      BY <3>2, <3>3
  <2>2. CASE AbortWaiting(c)
    <3>1. PICK r : r = [request[c] EXCEPT !.gone = TRUE, !.stage = "done"]
      OBVIOUS
    <3>2. request' = [request EXCEPT ![c] = r]
      BY <2>2, <3>1 DEF AbortWaiting, QuotaInv, QuotaTyped
    <3>3. r \in RequestSet /\ r.asked = request[c].asked /\ r.stage = "done"
      BY <1>1, <3>1 DEF RequestSet
    <3> QED
      BY <3>2, <3>3
  <2> QED
    BY <2>1, <2>2
<1>3. UNCHANGED <<commands, holders, expired>>
  BY DEF AbortInQueue, AbortWaiting, redisVars
<1> QED
  BY <1>2, <1>3, CallGoesOn DEF Using, Returned

LEMMA QuotaNext_Inv == QuotaInv /\ [QuotaNext]_quotaVars => QuotaInv'
BY RedisAcquires, RedisReleases, RedisForgets, QueueSteps, AcquireSteps, ReturnSteps, AbortSteps
   DEF QuotaNext, RedisStep, CallStep

LEMMA QuotaSafe == QuotaSpec => []QuotaInv
BY QuotaInit_Inv, QuotaNext_Inv, PTL DEF QuotaSpec

\* Every request on its way, and every body being read, has a permit of its own
\* behind it, unless its lease ran out.
THEOREM RequestsPermitted == QuotaSpec => []RequestsArePermitted
<1>1. QuotaInv => RequestsArePermitted
  BY DEF QuotaInv
<1> QED
  BY <1>1, QuotaSafe, PTL

\* All processes together have no more requests under way than the scope allows:
\* each has a permit of its own among the holders.
THEOREM ConcurrencyKept == QuotaSpec => []ConcurrencyRespected
<1>1. ASSUME QuotaInv PROVE ConcurrencyRespected
  <2>1. PICK sent : sent = {c \in QuotaCalls : UnderWay(c) /\ Permit(c) \notin expired}
    OBVIOUS
  <2>2. PICK permit : permit = [c \in sent |-> Permit(c)]
    OBVIOUS
  <2>3. permit \in Injection(sent, holders)
    <3>1. permit \in [sent -> holders]
      BY <1>1, <2>1, <2>2 DEF QuotaInv, RequestsArePermitted
    <3>2. \A c, d \in sent : permit[c] = permit[d] => c = d
      BY <2>2 DEF Permit
    <3> QED
      BY <3>1, <3>2 DEF Injection, IsInjective
  <2>4. IsFiniteSet(holders) /\ Cardinality(holders) <= Permits /\ Cardinality(holders) \in Nat
    BY <1>1, FS_CardinalityType DEF QuotaInv, QuotaTyped
  <2>5. IsFiniteSet(sent) /\ Cardinality(sent) <= Cardinality(holders) /\ Cardinality(sent) \in Nat
    BY <2>3, <2>4, FS_Injection, FS_CardinalityType
  <2>6. PICK m, n : m = Cardinality(sent) /\ n = Cardinality(holders)
    OBVIOUS
  <2>7. m <= Permits
    BY <2>4, <2>5, <2>6, QuotaAssumption
  <2> QED
    BY <2>1, <2>6, <2>7 DEF ConcurrencyRespected
<1> QED
  BY <1>1, QuotaSafe, PTL

\* Only an answer to its acquire sends a call.
LEMMA NotSent ==
    ASSUME QuotaInv, QuotaNext, NEW c \in QuotaCalls, Stage(c) # "inflight",
           ~\E cmd \in commands : Acquired(c, cmd)
    PROVE  request'[c].stage # "inflight"
<1>1. CASE UNCHANGED request
  BY <1>1 DEF Stage
<1>2. ASSUME NEW d \in QuotaCalls, NEW stage, To(d, stage), stage # "inflight"
      PROVE  request'[c].stage # "inflight"
  BY <1>2 DEF To, QuotaInv, QuotaTyped, RequestSet, Stage
<1>3. ASSUME NEW d \in QuotaCalls, Schedule(d) \/ StartSlot(d) \/ Wake(d) \/ FinalResponse(d) \/ PermitReleased(d)
      PROVE  request'[c].stage # "inflight"
  <2>1. CASE Schedule(d) \/ FinalResponse(d)
    BY <1>2, <2>1 DEF Schedule, FinalResponse
  <2>2. CASE StartSlot(d) /\ request[d].gone
    BY <1>2, <2>2 DEF StartSlot
  <2>3. CASE Wake(d) \/ (StartSlot(d) /\ ~request[d].gone)
    <3>1. PICK waits : Ask(d, waits)
      BY <2>3 DEF Wake, StartSlot
    <3> QED
      BY <3>1 DEF Ask, QuotaInv, QuotaTyped, RequestSet, Stage
  <2>4. CASE PermitReleased(d)
    <3>1. To(d, IF request[d].gone THEN "done" ELSE request[d].next)
      BY <2>4 DEF PermitReleased
    <3>2. request[d].next \in {"done", "idle", "backoff"}
      BY RequestTyped DEF RequestSet
    <3>3. PICK stage : stage = IF request[d].gone THEN "done" ELSE request[d].next
      OBVIOUS
    <3> QED
      BY <1>2, <3>1, <3>2, <3>3
  <2> QED
    BY <1>3, <2>1, <2>2, <2>3, <2>4
<1>4. ASSUME NEW d \in QuotaCalls, AcquireFails(d) \/ \E cmd \in commands : Acquired(d, cmd)
      PROVE  request'[c].stage # "inflight"
  <2>1. CASE d # c
    BY <1>4, <2>1 DEF AcquireFails, Acquired, To, QuotaInv, QuotaTyped, Stage
  <2>2. CASE d = c
    <3>1. PICK stage, r : stage = AfterFailure(c) /\ r = Failed(request[c], stage)
      OBVIOUS
    <3>2. r.stage # "inflight"
      BY <3>1, FailedTyped, AfterFailureTyped
    <3>3. request' = [request EXCEPT ![c] = r]
      BY <1>4, <2>2, <3>1 DEF AcquireFails, QuotaInv, QuotaTyped
    <3> QED
      BY <3>2, <3>3 DEF QuotaInv, QuotaTyped
  <2> QED
    BY <2>1, <2>2
<1>5. ASSUME NEW d \in QuotaCalls,
             RateLimitedResponse(d) \/ DispatchFails(d) \/ BodyConsumed(d) \/ AbortUnderWay(d)
      PROVE  request'[c].stage # "inflight"
  <2>1. PICK r \in RequestSet : request' = [request EXCEPT ![d] = r] /\ r.stage \in Returned
    BY <1>5, ReturnedTyped
  <2> QED
    BY <2>1 DEF QuotaInv, QuotaTyped, Returned, Stage
<1>6. ASSUME NEW d \in QuotaCalls, AbortInQueue(d) \/ AbortWaiting(d)
      PROVE  request'[c].stage # "inflight"
  BY <1>6 DEF AbortInQueue, AbortWaiting, QuotaInv, QuotaTyped, RequestSet, Stage
<1>7. ASSUME \/ RedisStep \/ (\E cmd \in commands : LoseCommand(cmd))
             \/ (\E permit \in holders : LeaseExpires(permit))
      PROVE  UNCHANGED request
  BY <1>7 DEF RedisStep, IntervalPasses, AcquireScript, ReleaseScript, LateAnswer, LoseCommand, LeaseExpires
<1> QED
  BY <1>1, <1>3, <1>4, <1>5, <1>6, <1>7 DEF QuotaNext, CallStep

\* A cancelled call is not sent any more: what is sent is a call that is still wanted,
\* under the permit it was just granted.
THEOREM CancelledUnsent == QuotaSpec => CancelledNeverSent
<1>1. ASSUME QuotaInv, QuotaNext, NEW c \in QuotaCalls, Stage(c) # "inflight", request'[c].stage = "inflight"
      PROVE  ~request[c].gone /\ Permit(c) \in holders \cup expired
  <2>1. CASE \E cmd \in commands : Acquired(c, cmd)
    <3>1. PICK cmd \in commands : Acquired(c, cmd)
      BY <2>1
    <3>2. CASE cmd.answer = "granted"
      BY <1>1, <3>1, <3>2, CallIsSent DEF Acquired, redisVars
    <3>3. CASE cmd.answer # "granted"
      <4>1. CASE request' = [request EXCEPT ![c].stage = "sleeping", ![c].waits = @ + 1]
        BY <1>1, <4>1 DEF QuotaInv, QuotaTyped, RequestSet
      <4>2. CASE request' = [request EXCEPT ![c] = Failed(@, AfterFailure(c))]
        <5>1. PICK stage, r : stage = AfterFailure(c) /\ r = Failed(request[c], stage)
          OBVIOUS
        <5>2. r.stage # "inflight"
          BY <1>1, <5>1, FailedTyped, AfterFailureTyped
        <5> QED
          BY <1>1, <4>2, <5>1, <5>2 DEF QuotaInv, QuotaTyped
      <4> QED
        BY <3>1, <3>3, <4>1, <4>2 DEF Acquired
    <3> QED
      BY <3>2, <3>3
  <2>2. CASE ~\E cmd \in commands : Acquired(c, cmd)
    BY <1>1, <2>2, NotSent
  <2> QED
    BY <2>1, <2>2
<1>2. QuotaInv /\ [QuotaNext]_quotaVars =>
      [\A c \in QuotaCalls : Stage(c) # "inflight" /\ request'[c].stage = "inflight" =>
          ~request[c].gone /\ Permit(c) \in holders \cup expired]_quotaVars
  BY <1>1
<1> QED
  BY <1>2, QuotaSafe, PTL DEF CancelledNeverSent, QuotaSpec

-----------------------------------------------------------------------------
(* The tokens in the database *)

TokenIds == Nat \X Nat
TokenSet == [status: {"live", "rotation"} \cup Ending, grace: BOOLEAN, expired: BOOLEAN]

\* Logins are numbered; a rotated token has its child; the newest token of a login is
\* the only one alive, and none is once the login has ended.
LoginStoreInv ==
    /\ DOMAIN tokens \subseteq TokenIds /\ \A i \in DOMAIN tokens : tokens[i] \in TokenSet /\ i[2] >= 1
    /\ tokens = [i \in DOMAIN tokens |-> tokens[i]]
    /\ \E n \in Nat : Families = 1..n
    /\ \A i \in DOMAIN tokens : tokens[i].status = "rotation" => Child(i) \in DOMAIN tokens
    /\ OneLiveTokenPerLogin
    /\ \A i, j \in DOMAIN tokens : i[1] = j[1] /\ tokens[i].status \in Ending => tokens[j].status # "live"

\* What no step undoes.
StoreKept ==
    /\ LoginStoreInv' /\ DOMAIN tokens \subseteq DOMAIN tokens'
    /\ \A i \in DOMAIN tokens : tokens[i].status # "live" => tokens'[i].status = tokens[i].status

LEMMA TokensRetire ==
    ASSUME LoginStoreInv, DOMAIN tokens' = DOMAIN tokens, tokens' = [i \in DOMAIN tokens |-> tokens'[i]],
           \A i \in DOMAIN tokens :
              /\ tokens'[i] \in TokenSet
              /\ \/ tokens'[i].status = tokens[i].status
                 \/ tokens[i].status = "live" /\ tokens'[i].status \in Ending
    PROVE  StoreKept
<1>1. Families' = Families
  BY DEF Families
<1>2. "live" \notin Ending /\ "rotation" \notin Ending
  BY DEF Ending
<1>3. OneLiveTokenPerLogin'
  BY <1>2 DEF LoginStoreInv, OneLiveTokenPerLogin
<1>4. ASSUME NEW i \in DOMAIN tokens, NEW j \in DOMAIN tokens, i[1] = j[1], tokens'[i].status \in Ending,
             tokens'[j].status = "live"
      PROVE  FALSE
  <2>1. tokens[j].status = "live"
    BY <1>2, <1>4
  <2>2. CASE tokens[i].status \in Ending
    BY <1>4, <2>1, <2>2 DEF LoginStoreInv
  <2>3. CASE tokens[i].status = "live"
    <3>1. i \in TokenIds /\ j \in TokenIds /\ j[2] <= i[2] /\ i[2] <= j[2]
      BY <1>4, <2>1, <2>3 DEF LoginStoreInv, OneLiveTokenPerLogin
    <3>2. i = j
      BY <1>4, <3>1 DEF TokenIds
    <3> QED
      BY <1>2, <1>4, <3>2
  <2> QED
    BY <1>4, <2>2, <2>3
<1>5. \A i \in DOMAIN tokens' : tokens'[i].status = "rotation" => Child(i) \in DOMAIN tokens'
  BY <1>2 DEF LoginStoreInv
<1> QED
  BY <1>1, <1>3, <1>4, <1>5 DEF LoginStoreInv, StoreKept

LEMMA FamilyRevoked ==
    ASSUME LoginStoreInv, NEW family, NEW reason \in Ending, tokens' = RevokeFamily(tokens, family, reason)
    PROVE  /\ StoreKept /\ DOMAIN tokens' = DOMAIN tokens
           /\ \A i \in DOMAIN tokens : /\ tokens'[i].grace = tokens[i].grace
                                       /\ tokens'[i].status \in {tokens[i].status, reason}
<1>1. DOMAIN tokens' = DOMAIN tokens
  BY DEF RevokeFamily
<1>2. tokens' = [i \in DOMAIN tokens |-> tokens'[i]]
  BY DEF RevokeFamily
<1>3. ASSUME NEW i \in DOMAIN tokens
      PROVE  /\ tokens'[i] \in TokenSet /\ tokens'[i].grace = tokens[i].grace
             /\ \/ tokens'[i].status = tokens[i].status
                \/ tokens[i].status = "live" /\ tokens'[i].status = reason
  BY DEF RevokeFamily, LoginStoreInv, TokenSet
<1> QED
  BY <1>1, <1>2, <1>3, TokensRetire

LEMMA TokenRotates ==
    ASSUME LoginStoreInv, NEW id \in DOMAIN tokens, tokens[id].status = "live", tokens' = RotatedOut(id)
    PROVE  /\ StoreKept
           /\ Child(id) \notin DOMAIN tokens /\ DOMAIN tokens' = DOMAIN tokens \cup {Child(id)}
           /\ tokens'[Child(id)].status = "live"
           /\ tokens'[id].status = "rotation" /\ tokens'[id].grace
           /\ \A i \in DOMAIN tokens \ {id} : tokens'[i] = tokens[i]
<1>1. /\ id \in TokenIds /\ Child(id) \in TokenIds /\ Child(id)[1] = id[1] /\ Child(id)[2] = id[2] + 1
      /\ id[2] \in Nat /\ id[2] >= 1
  BY DEF LoginStoreInv, TokenIds, Child
<1>2. Child(id) \notin DOMAIN tokens
  BY <1>1 DEF LoginStoreInv, OneLiveTokenPerLogin
<1>3. /\ DOMAIN tokens' = DOMAIN tokens \cup {Child(id)} /\ tokens'[Child(id)] = Fresh
      /\ tokens' = [i \in DOMAIN tokens' |-> tokens'[i]]
      /\ \A i \in DOMAIN tokens \ {id} : tokens'[i] = tokens[i]
      /\ tokens'[id] = [tokens[id] EXCEPT !.status = "rotation", !.grace = TRUE]
  BY <1>1, <1>2 DEF RotatedOut, WithToken
<1>4. /\ Fresh \in TokenSet /\ Fresh.status = "live"
      /\ tokens'[id] \in TokenSet /\ tokens'[id].status = "rotation" /\ tokens'[id].grace
  <2>1. tokens[id] \in TokenSet
    BY DEF LoginStoreInv
  <2> QED
    BY <1>3, <2>1 DEF Fresh, TokenSet
<1>5. Families' = Families
  BY <1>1, <1>3 DEF Families
<1>6. \A j \in DOMAIN tokens : j[1] = id[1] /\ tokens[j].status = "live" => j = id
  <2>1. ASSUME NEW j \in DOMAIN tokens, j[1] = id[1], tokens[j].status = "live" PROVE j = id
    <3>1. j \in TokenIds /\ j[2] <= id[2] /\ id[2] <= j[2]
      BY <2>1 DEF LoginStoreInv, OneLiveTokenPerLogin
    <3> QED
      BY <1>1, <2>1, <3>1 DEF TokenIds
  <2> QED
    BY <2>1
<1>7. OneLiveTokenPerLogin'
  <2>1. ASSUME NEW i \in DOMAIN tokens', NEW j \in DOMAIN tokens', i[1] = j[1], tokens'[i].status = "live"
        PROVE  j[2] <= i[2]
    <3>1. i # id
      BY <1>4, <2>1
    <3>2. CASE i = Child(id)
      <4>1. CASE j = Child(id)
        BY <1>1, <3>2, <4>1
      <4>2. CASE j \in DOMAIN tokens
        <5>1. j[2] <= id[2] /\ j \in TokenIds
          BY <1>1, <2>1, <3>2, <4>2 DEF LoginStoreInv, OneLiveTokenPerLogin
        <5> QED
          BY <1>1, <3>2, <5>1 DEF TokenIds
      <4> QED
        BY <1>3, <4>1, <4>2
    <3>3. CASE i \in DOMAIN tokens
      <4>1. tokens[i].status = "live"
        BY <1>3, <2>1, <3>1, <3>3
      <4>2. i[1] # id[1]
        BY <1>6, <3>1, <3>3, <4>1
      <4>3. j \in DOMAIN tokens
        BY <1>1, <1>3, <2>1, <4>2
      <4> QED
        BY <2>1, <3>3, <4>1, <4>3 DEF LoginStoreInv, OneLiveTokenPerLogin
    <3> QED
      BY <1>3, <3>2, <3>3
  <2> QED
    BY <2>1 DEF OneLiveTokenPerLogin
<1>8. ASSUME NEW i \in DOMAIN tokens', NEW j \in DOMAIN tokens', i[1] = j[1], tokens'[i].status \in Ending
      PROVE  tokens'[j].status # "live"
  <2>1. i \in DOMAIN tokens /\ i # id /\ tokens[i].status \in Ending
    BY <1>3, <1>4, <1>8 DEF Ending
  <2>2. i[1] # id[1]
    BY <2>1 DEF LoginStoreInv
  <2>3. j \in DOMAIN tokens \ {id}
    BY <1>1, <1>3, <1>8, <2>2
  <2> QED
    BY <1>3, <1>8, <2>1, <2>3 DEF LoginStoreInv
<1>9. \A i \in DOMAIN tokens' : tokens'[i].status = "rotation" => Child(i) \in DOMAIN tokens'
  BY <1>3, <1>4 DEF LoginStoreInv
<1>10. \A i \in DOMAIN tokens' : i \in TokenIds /\ tokens'[i] \in TokenSet /\ i[2] >= 1
  <2>1. Child(id)[2] >= 1
    BY <1>1
  <2> QED
    BY <1>1, <1>3, <1>4, <2>1 DEF LoginStoreInv
<1>11. LoginStoreInv'
  BY <1>3, <1>5, <1>7, <1>8, <1>9, <1>10 DEF LoginStoreInv
<1>12. \A i \in DOMAIN tokens : tokens[i].status # "live" => tokens'[i].status = tokens[i].status
  BY <1>3
<1> QED
  BY <1>2, <1>3, <1>4, <1>11, <1>12 DEF StoreKept

LEMMA LoginIssued ==
    ASSUME LoginStoreInv, tokens' = WithToken(tokens, NewFamily)
    PROVE  /\ StoreKept
           /\ NewFamily \in TokenIds \ DOMAIN tokens /\ DOMAIN tokens' = DOMAIN tokens \cup {NewFamily}
           /\ NewFamily[2] = 1 /\ tokens'[NewFamily].status = "live"
           /\ \A i \in DOMAIN tokens : tokens'[i] = tokens[i]
<1>1. PICK n \in Nat : Families = 1..n
  BY DEF LoginStoreInv
<1>2. Cardinality(Families) = n
  BY <1>1, FS_Interval
<1>3. NewFamily = <<n + 1, 1>> /\ n + 1 \in Nat
  BY <1>2 DEF NewFamily
<1>4. \A i \in DOMAIN tokens : i[1] # n + 1
  BY <1>1 DEF Families
<1>5. /\ NewFamily \in TokenIds \ DOMAIN tokens
      /\ DOMAIN tokens' = DOMAIN tokens \cup {NewFamily} /\ tokens'[NewFamily] = Fresh
      /\ \A i \in DOMAIN tokens : tokens'[i] = tokens[i]
      /\ tokens' = [i \in DOMAIN tokens' |-> tokens'[i]]
  BY <1>3, <1>4 DEF WithToken, TokenIds
<1>6. NewFamily[1] = n + 1 /\ NewFamily[2] = 1 /\ NewFamily[2] >= 1
  BY <1>3
<1>7. Fresh \in TokenSet /\ Fresh.status = "live"
  BY DEF Fresh, TokenSet
<1>8. Families' = 1..(n + 1)
  <2>1. Families' = Families \cup {n + 1}
    BY <1>5, <1>6 DEF Families
  <2> QED
    BY <1>1, <2>1
<1>9. OneLiveTokenPerLogin'
  <2>1. ASSUME NEW i \in DOMAIN tokens', NEW j \in DOMAIN tokens', i[1] = j[1], tokens'[i].status = "live"
        PROVE  j[2] <= i[2]
    <3>1. CASE i = NewFamily \/ j = NewFamily
      <4>1. i = NewFamily /\ j = NewFamily
        BY <1>4, <1>5, <1>6, <2>1, <3>1
      <4> QED
        BY <1>6, <4>1
    <3>2. CASE i \in DOMAIN tokens /\ j \in DOMAIN tokens
      BY <1>5, <2>1, <3>2 DEF LoginStoreInv, OneLiveTokenPerLogin
    <3> QED
      BY <1>5, <3>1, <3>2
  <2> QED
    BY <2>1 DEF OneLiveTokenPerLogin
<1>10. ASSUME NEW i \in DOMAIN tokens', NEW j \in DOMAIN tokens', i[1] = j[1], tokens'[i].status \in Ending
       PROVE  tokens'[j].status # "live"
  <2>1. i \in DOMAIN tokens
    BY <1>5, <1>7, <1>10 DEF Ending
  <2>2. j \in DOMAIN tokens
    BY <1>4, <1>5, <1>6, <1>10, <2>1
  <2> QED
    BY <1>5, <1>10, <2>1, <2>2 DEF LoginStoreInv
<1>11. \A i \in DOMAIN tokens' : tokens'[i].status = "rotation" => Child(i) \in DOMAIN tokens'
  BY <1>5, <1>7 DEF LoginStoreInv
<1>12. \A i \in DOMAIN tokens' : i \in TokenIds /\ tokens'[i] \in TokenSet /\ i[2] >= 1
  BY <1>5, <1>6, <1>7 DEF LoginStoreInv
<1>13. LoginStoreInv'
  BY <1>3, <1>5, <1>8, <1>9, <1>10, <1>11, <1>12 DEF LoginStoreInv
<1> QED
  BY <1>5, <1>6, <1>7, <1>13 DEF StoreKept

-----------------------------------------------------------------------------
(* The calls under way, and what their answers bring *)

AnswerSet == [ok: {TRUE}, token: TokenIds \cup {Nobody}] \cup [ok: {FALSE}, code: {401, 503}]
LoginCallSet ==
    [id: Nat, kind: {"refresh", "login", "logout"}, tab: BrowserTabs, epoch: Nat, flight: Nat,
     presented: Nat \cup TokenIds \cup {Nobody}, checked: BOOLEAN, answer: AnswerSet \cup {Nobody}]
Succeeded(c) == c.answer # Nobody /\ c.answer.ok

\* A refresh brings the child of what it presented, a login a first token, and a logout
\* takes the cookie away.
LoginCallGood(c) ==
    /\ c \in LoginCallSet /\ c.id <= clockTick
    /\ c.kind = "refresh" =>
          /\ c.presented \in DOMAIN tokens \cup {Nobody}
          /\ Succeeded(c) => /\ c.presented \in DOMAIN tokens
                             /\ c.answer.token = Child(c.presented) /\ c.answer.token \in DOMAIN tokens
    /\ c.kind = "login" /\ Succeeded(c) => c.answer.token \in DOMAIN tokens /\ c.answer.token[2] = 1
    /\ c.kind = "logout" /\ Succeeded(c) => c.answer.token = Nobody
LoginCallsInv ==
    /\ clockTick \in Nat
    /\ \A c \in calls : LoginCallGood(c)
    /\ \A c, d \in calls : c.id = d.id => c = d
CookieGood == cookie \in DOMAIN tokens \cup {Nobody}

\* The answers of a step: an answered call brings what it may.
LEMMA CallAnswered ==
    ASSUME LoginStoreInv, LoginCallsInv, StoreKept, NEW c \in calls, NEW answer \in AnswerSet,
           NEW d, d = [c EXCEPT !.answer = answer], calls' = (calls \ {c}) \cup {d}, UNCHANGED clockTick,
           answer.ok =>
              /\ c.kind = "refresh" => /\ c.presented \in DOMAIN tokens /\ answer.token = Child(c.presented)
                                       /\ answer.token \in DOMAIN tokens'
              /\ c.kind = "login" => answer.token \in DOMAIN tokens' /\ answer.token[2] = 1
              /\ c.kind = "logout" => answer.token = Nobody
    PROVE  /\ LoginCallsInv'
           /\ d.kind = c.kind /\ d.presented = c.presented /\ d.answer = answer /\ d.id = c.id
<1>1. c \in LoginCallSet /\ LoginCallGood(c)
  BY DEF LoginCallsInv, LoginCallGood
<1>2. /\ d \in LoginCallSet /\ d.answer = answer
      /\ d.kind = c.kind /\ d.presented = c.presented /\ d.id = c.id
  BY <1>1 DEF LoginCallSet
<1>3. DOMAIN tokens \subseteq DOMAIN tokens'
  BY DEF StoreKept
<1>4. LoginCallGood(d)'
  BY <1>1, <1>2, <1>3 DEF LoginCallGood, Succeeded, Child
<1>5. ASSUME NEW e \in calls PROVE LoginCallGood(e)'
  <2>1. LoginCallGood(e)
    BY DEF LoginCallsInv
  <2> QED
    BY <1>3, <2>1 DEF LoginCallGood, Succeeded, Child
<1>6. \A x, y \in calls' : x.id = y.id => x = y
  <2>1. \A e \in calls \ {c} : e.id # d.id
    BY <1>2 DEF LoginCallsInv
  <2>2. \A x, y \in calls \ {c} : x.id = y.id => x = y
    BY DEF LoginCallsInv
  <2> QED
    BY <2>1, <2>2
<1> QED
  BY <1>2, <1>4, <1>5, <1>6 DEF LoginCallsInv

\* A call is made, under a number of its own.
LEMMA CallMade ==
    ASSUME LoginCallsInv, UNCHANGED tokens, Tick,
           NEW kind \in {"refresh", "login", "logout"}, NEW t \in BrowserTabs, NEW epoch \in Nat, NEW flight \in Nat,
           NEW presented \in Nat \cup TokenIds \cup {Nobody},
           kind = "refresh" => presented \in DOMAIN tokens \cup {Nobody},
           NEW d, d = Call(kind, t, epoch, flight, presented), calls' = calls \cup {d}
    PROVE  /\ LoginCallsInv'
           /\ d.kind = kind /\ d.presented = presented /\ d.answer = Nobody
<1>1. /\ clockTick \in Nat /\ clockTick' = clockTick + 1
  BY DEF LoginCallsInv, Tick
<1>2. /\ d \in LoginCallSet /\ d.id = clockTick + 1
      /\ d.kind = kind /\ d.presented = presented /\ d.answer = Nobody
  BY <1>1 DEF Call, LoginCallSet
<1>3. LoginCallGood(d)'
  BY <1>1, <1>2 DEF LoginCallGood, Succeeded
<1>4. ASSUME NEW e \in calls PROVE LoginCallGood(e)' /\ e.id # d.id
  <2>1. LoginCallGood(e) /\ e.id \in Nat /\ e.id <= clockTick
    BY DEF LoginCallsInv, LoginCallGood, LoginCallSet
  <2>2. e.id <= clockTick' /\ e.id # clockTick + 1
    BY <1>1, <2>1
  <2> QED
    BY <1>2, <2>1, <2>2 DEF LoginCallGood, Succeeded, Child
<1>5. \A x, y \in calls' : x.id = y.id => x = y
  BY <1>4 DEF LoginCallsInv
<1> QED
  BY <1>1, <1>2, <1>3, <1>4, <1>5 DEF LoginCallsInv

LEMMA CallsLeft ==
    ASSUME LoginCallsInv, DOMAIN tokens \subseteq DOMAIN tokens', calls' \subseteq calls,
           UNCHANGED clockTick \/ Tick
    PROVE  LoginCallsInv'
<1>1. clockTick \in Nat /\ clockTick' \in Nat /\ clockTick <= clockTick'
  BY DEF LoginCallsInv, Tick
<1>2. ASSUME NEW e \in calls' PROVE LoginCallGood(e)'
  <2>1. LoginCallGood(e) /\ e.id \in Nat /\ e.id <= clockTick
    BY DEF LoginCallsInv, LoginCallGood, LoginCallSet
  <2>2. e.id <= clockTick'
    BY <1>1, <2>1
  <2> QED
    BY <2>1, <2>2 DEF LoginCallGood, Succeeded, Child
<1> QED
  BY <1>1, <1>2 DEF LoginCallsInv

-----------------------------------------------------------------------------
(* No false alarm: while nothing was lost, overtaken or too slow, a token that was  *)
(* rotated is presented within its grace, for its child is on the way to the cookie *)

Rotated(id) == id \in DOMAIN tokens /\ tokens[id].status = "rotation"
Signed(c) == c.kind = "login" /\ Succeeded(c)
ChildUnderWay == \E c \in calls : c.kind = "refresh" /\ c.presented = cookie /\ Succeeded(c)
AlarmInv ==
    /\ NoFalseAlarm
    /\ ~disturbed =>
          /\ \A c \in calls : c.kind = "refresh" /\ Rotated(c.presented) => tokens[c.presented].grace
          /\ Rotated(cookie) => tokens[cookie].grace /\ ChildUnderWay
    /\ \A c \in calls : Signed(c) =>
          /\ cookie # c.answer.token /\ ~Rotated(c.answer.token)
          /\ \A d \in calls : d.kind = "refresh" => d.presented # c.answer.token
    /\ \A c, d \in calls : Signed(c) /\ Signed(d) /\ c.answer.token = d.answer.token => c = d

LoginSafe == LoginStoreInv /\ LoginCallsInv /\ CookieGood /\ AlarmInv

\* A step that rotates nothing and leaves the cookie alone.
LEMMA AlarmKept ==
    ASSUME AlarmInv,
           \A id : Rotated(id)' => Rotated(id) /\ tokens'[id].grace = tokens[id].grace,
           (\E i \in DOMAIN tokens' : tokens'[i].status = "compromise")
              => disturbed' \/ \E i \in DOMAIN tokens : tokens[i].status = "compromise",
           disturbed => disturbed', UNCHANGED cookie,
           \A d \in calls' : d.kind = "refresh" =>
              d.presented = cookie \/ \E c \in calls : c.kind = "refresh" /\ c.presented = d.presented,
           \A d \in calls' : Signed(d) => d \in calls,
           ~disturbed' => \A c \in calls : c.kind = "refresh" /\ Succeeded(c) => c \in calls'
    PROVE  AlarmInv'
<1>1. NoFalseAlarm'
  BY DEF AlarmInv, NoFalseAlarm
<1>2. ASSUME ~disturbed'
      PROVE  /\ \A c \in calls' : c.kind = "refresh" /\ Rotated(c.presented)' => tokens'[c.presented].grace
             /\ Rotated(cookie)' => tokens'[cookie].grace /\ ChildUnderWay'
  <2>1. /\ \A c \in calls : c.kind = "refresh" /\ Rotated(c.presented) => tokens[c.presented].grace
        /\ Rotated(cookie) => tokens[cookie].grace /\ ChildUnderWay
    BY <1>2 DEF AlarmInv
  <2>2. ChildUnderWay => ChildUnderWay'
    BY <1>2 DEF ChildUnderWay, Succeeded
  <2>3. \A id : Rotated(id)' => Rotated(id) /\ tokens'[id].grace = tokens[id].grace
    OBVIOUS
  <2> HIDE DEF Rotated
  <2>4. ASSUME NEW d \in calls', d.kind = "refresh", Rotated(d.presented)' PROVE tokens'[d.presented].grace
    <3>1. Rotated(d.presented) /\ tokens'[d.presented].grace = tokens[d.presented].grace
      BY <2>3, <2>4
    <3>2. tokens[d.presented].grace
      BY <2>1, <2>4, <3>1
    <3> QED
      BY <3>1, <3>2
  <2>5. ASSUME Rotated(cookie)' PROVE tokens'[cookie].grace
    <3>1. Rotated(cookie) /\ tokens'[cookie].grace = tokens[cookie].grace
      BY <2>3, <2>5
    <3> QED
      BY <2>1, <3>1
  <2>6. Rotated(cookie)' => Rotated(cookie)
    BY <2>3
  <2> QED
    BY <2>1, <2>2, <2>4, <2>5, <2>6
<1>3. ASSUME NEW c \in calls', Signed(c)'
      PROVE  /\ cookie' # c.answer.token /\ ~Rotated(c.answer.token)'
             /\ \A d \in calls' : d.kind = "refresh" => d.presented # c.answer.token
  <2>1. c \in calls /\ Signed(c)
    BY <1>3 DEF Signed, Succeeded
  <2>2. /\ cookie # c.answer.token /\ ~Rotated(c.answer.token)
        /\ \A d \in calls : d.kind = "refresh" => d.presented # c.answer.token
    BY <2>1 DEF AlarmInv
  <2> QED
    BY <2>2
<1>4. \A c, d \in calls' : Signed(c)' /\ Signed(d)' /\ c.answer.token = d.answer.token => c = d
  BY DEF AlarmInv, Signed, Succeeded
<1> QED
  BY <1>1, <1>2, <1>3, <1>4 DEF AlarmInv

-----------------------------------------------------------------------------
(* The server's steps *)

\* What a step has a call bring is alive.
GrantsAreLive ==
    \A c \in calls' :
        c \notin calls /\ Succeeded(c) /\ c.answer.token \in DOMAIN tokens'
            => tokens'[c.answer.token].status = "live"

LEMMA NobodyIsNoToken == LoginStoreInv => Nobody \notin DOMAIN tokens /\ Nobody \notin TokenIds
BY NobodyIsNone DEF LoginStoreInv, TokenIds

LEMMA StoreSame == LoginStoreInv /\ UNCHANGED tokens => StoreKept
BY DEF LoginStoreInv, StoreKept, Families, Child, OneLiveTokenPerLogin

LEMMA Refreshes ==
    ASSUME LoginSafe, NEW c \in calls, ServeRefresh(c)
    PROVE  StoreKept /\ LoginCallsInv' /\ AlarmInv' /\ GrantsAreLive
<1>1. PICK result : /\ result = Refreshed(c.presented) /\ tokens' = result.rows /\ Answered(c, result.answer)
  BY DEF ServeRefresh
<1>2. /\ c.kind = "refresh" /\ c.answer = Nobody /\ UNCHANGED <<cookie, disturbed, clockTick>>
      /\ LoginCallGood(c) /\ c \in LoginCallSet
  BY DEF ServeRefresh, browserVars, LoginSafe, LoginCallsInv, LoginCallGood
<1>3. PICK d : d = [c EXCEPT !.answer = result.answer]
  OBVIOUS
<1>4. calls' = (calls \ {c}) \cup {d}
  BY <1>1, <1>3 DEF Answered
<1>5. ASSUME tokens' = tokens, result.answer \in AnswerSet,
             result.answer.ok => /\ c.presented \in DOMAIN tokens /\ result.answer.token = Child(c.presented)
                                 /\ result.answer.token \in DOMAIN tokens
                                 /\ tokens[result.answer.token].status = "live"
      PROVE  StoreKept /\ LoginCallsInv' /\ AlarmInv' /\ GrantsAreLive
  <2>1. StoreKept
    BY <1>5, StoreSame DEF LoginSafe
  <2>2. /\ LoginCallsInv' /\ d.kind = "refresh" /\ d.presented = c.presented /\ d.answer = result.answer
    BY <1>2, <1>3, <1>4, <1>5, <2>1, CallAnswered DEF LoginSafe
  <2>3. AlarmInv'
    <3>1. \A id : Rotated(id)' => Rotated(id) /\ tokens'[id].grace = tokens[id].grace
      BY <1>5 DEF Rotated
    <3>2. \A e \in calls' : e.kind = "refresh" =>
             e.presented = cookie \/ \E b \in calls : b.kind = "refresh" /\ b.presented = e.presented
      BY <1>2, <1>4, <2>2
    <3>3. \A e \in calls' : Signed(e) => e \in calls
      BY <1>4, <2>2 DEF Signed
    <3>4. \A e \in calls : e.kind = "refresh" /\ Succeeded(e) => e \in calls'
      BY <1>2, <1>4 DEF Succeeded
    <3> QED
      BY <1>2, <1>5, <3>1, <3>2, <3>3, <3>4, AlarmKept DEF LoginSafe
  <2>4. GrantsAreLive
    BY <1>4, <1>5, <2>2 DEF GrantsAreLive, Succeeded
  <2> QED
    BY <2>1, <2>2, <2>3, <2>4
<1>6. ASSUME result = Result(Refused(401), tokens)
      PROVE  StoreKept /\ LoginCallsInv' /\ AlarmInv' /\ GrantsAreLive
  <2>1. result.answer \in AnswerSet /\ ~result.answer.ok /\ tokens' = tokens
    BY <1>1, <1>6 DEF Result, Refused, AnswerSet
  <2> QED
    BY <1>5, <2>1
<1>7. CASE c.presented \notin DOMAIN tokens \/ tokens[c.presented].expired
  BY <1>1, <1>6, <1>7 DEF Refreshed
<1> DEFINE id == c.presented
<1>8. CASE id \in DOMAIN tokens /\ ~tokens[id].expired /\ tokens[id].status = "live"
  <2>1. result = Result(Granted(Child(id)), RotatedOut(id))
    BY <1>1, <1>8 DEF Refreshed
  <2>2. /\ result.answer = Granted(Child(id)) /\ tokens' = RotatedOut(id)
    BY <1>1, <2>1 DEF Result
  <2>3. /\ StoreKept /\ Child(id) \notin DOMAIN tokens /\ DOMAIN tokens' = DOMAIN tokens \cup {Child(id)}
        /\ tokens'[Child(id)].status = "live" /\ tokens'[id].status = "rotation" /\ tokens'[id].grace
        /\ \A i \in DOMAIN tokens \ {id} : tokens'[i] = tokens[i]
    BY <1>8, <2>2, TokenRotates DEF LoginSafe
  <2>4. Child(id) \in TokenIds
    BY <2>3 DEF StoreKept, LoginStoreInv
  <2>5. result.answer \in AnswerSet /\ result.answer.ok /\ result.answer.token = Child(id)
    BY <2>2, <2>4 DEF Granted, AnswerSet
  <2>6. /\ LoginCallsInv' /\ d.kind = "refresh" /\ d.presented = id /\ d.answer = result.answer
    BY <1>2, <1>3, <1>4, <1>8, <2>3, <2>5, CallAnswered DEF LoginSafe
  <2>7. GrantsAreLive
    BY <1>4, <2>3, <2>5, <2>6 DEF GrantsAreLive, Succeeded
  <2>8. \A i : Rotated(i)' => i = id \/ (Rotated(i) /\ tokens'[i] = tokens[i])
    BY <2>3 DEF Rotated
  <2>9. NoFalseAlarm'
    <3>1. ASSUME NEW i \in DOMAIN tokens', tokens'[i].status = "compromise" PROVE disturbed'
      <4>1. i \in DOMAIN tokens /\ tokens[i].status = "compromise"
        BY <2>3, <3>1
      <4> QED
        BY <1>2, <4>1 DEF LoginSafe, AlarmInv, NoFalseAlarm
    <3> QED
      BY <3>1 DEF NoFalseAlarm
  <2>10. ASSUME ~disturbed'
         PROVE  /\ \A e \in calls' : e.kind = "refresh" /\ Rotated(e.presented)' => tokens'[e.presented].grace
                /\ Rotated(cookie)' => tokens'[cookie].grace /\ ChildUnderWay'
    <3>1. /\ \A e \in calls : e.kind = "refresh" /\ Rotated(e.presented) => tokens[e.presented].grace
          /\ Rotated(cookie) => tokens[cookie].grace /\ ChildUnderWay
      BY <1>2, <2>10 DEF LoginSafe, AlarmInv
    <3>2. ASSUME NEW e \in calls', e.kind = "refresh", Rotated(e.presented)' PROVE tokens'[e.presented].grace
      <4>1. CASE e.presented = id
        BY <2>3, <4>1
      <4>2. CASE e.presented # id
        <5>1. e \in calls /\ Rotated(e.presented) /\ tokens'[e.presented] = tokens[e.presented]
          BY <1>4, <2>6, <2>8, <3>2, <4>2
        <5> QED
          BY <3>1, <3>2, <5>1
      <4> QED
        BY <4>1, <4>2
    <3>3. ASSUME Rotated(cookie)' PROVE tokens'[cookie].grace /\ ChildUnderWay'
      <4>1. CASE cookie = id
        <5>1. Succeeded(d)
          <6>1. result.answer \in [ok: {TRUE}, token: TokenIds]
            BY <2>2, <2>4 DEF Granted
          <6> QED
            BY <2>5, <2>6, <6>1, NobodyIsNone DEF Succeeded, TokenIds
        <5> QED
          BY <1>2, <1>4, <2>3, <2>6, <4>1, <5>1 DEF ChildUnderWay, Succeeded
      <4>2. CASE cookie # id
        <5>1. Rotated(cookie) /\ tokens'[cookie] = tokens[cookie]
          BY <1>2, <2>8, <3>3, <4>2
        <5>2. PICK w \in calls : w.kind = "refresh" /\ w.presented = cookie /\ Succeeded(w)
          BY <3>1, <5>1 DEF ChildUnderWay
        <5>3. w \in calls'
          BY <1>2, <1>4, <5>2 DEF Succeeded
        <5> QED
          BY <1>2, <3>1, <5>1, <5>2, <5>3 DEF ChildUnderWay, Succeeded
      <4> QED
        BY <4>1, <4>2
    <3>4. UNCHANGED cookie
      BY <1>2
    <3> QED
      BY <3>2, <3>3, <3>4
  <2>11. ASSUME NEW e \in calls', Signed(e)'
         PROVE  /\ cookie' # e.answer.token /\ ~Rotated(e.answer.token)'
                /\ \A b \in calls' : b.kind = "refresh" => b.presented # e.answer.token
    <3>1. e \in calls /\ Signed(e)
      BY <1>4, <2>6, <2>11 DEF Signed, Succeeded
    <3>2. /\ cookie # e.answer.token /\ ~Rotated(e.answer.token)
          /\ \A b \in calls : b.kind = "refresh" => b.presented # e.answer.token
      BY <2>11, <3>1 DEF LoginSafe, AlarmInv
    <3>3. e.answer.token # id
      BY <1>2, <3>2
    <3> QED
      BY <1>2, <1>4, <2>6, <2>8, <3>2, <3>3
  <2>12. \A e, b \in calls' : Signed(e)' /\ Signed(b)' /\ e.answer.token = b.answer.token => e = b
    <3>1. \A e \in calls' : Signed(e)' => e \in calls /\ Signed(e)
      BY <1>4, <2>6 DEF Signed, Succeeded
    <3> QED
      BY <3>1 DEF LoginSafe, AlarmInv
  <2>13. AlarmInv'
    BY <1>2, <2>9, <2>10, <2>11, <2>12 DEF AlarmInv
  <2> QED
    BY <2>3, <2>6, <2>7, <2>13
<1>9. CASE id \in DOMAIN tokens /\ ~tokens[id].expired /\ tokens[id].status \notin {"live", "rotation"}
  BY <1>1, <1>6, <1>9 DEF Refreshed
<1>10. CASE id \in DOMAIN tokens /\ ~tokens[id].expired /\ tokens[id].status = "rotation" /\ ~tokens[id].grace
  <2>1. result = Result(Refused(401), RevokeFamily(tokens, id[1], "compromise"))
    BY <1>1, <1>10 DEF Refreshed
  <2>2. result.answer = Refused(401) /\ tokens' = RevokeFamily(tokens, id[1], "compromise")
    BY <1>1, <2>1 DEF Result
  <2>3. result.answer \in AnswerSet /\ ~result.answer.ok
    BY <2>2 DEF Refused, AnswerSet
  <2>4. /\ StoreKept /\ DOMAIN tokens' = DOMAIN tokens
        /\ \A i \in DOMAIN tokens : /\ tokens'[i].grace = tokens[i].grace
                                    /\ tokens'[i].status \in {tokens[i].status, "compromise"}
    BY <2>2, FamilyRevoked DEF LoginSafe, Ending
  <2>5. /\ LoginCallsInv' /\ d.kind = "refresh" /\ d.presented = id /\ d.answer = result.answer
    BY <1>2, <1>3, <1>4, <2>3, <2>4, CallAnswered DEF LoginSafe
  <2>6. disturbed
    BY <1>2, <1>10 DEF LoginSafe, AlarmInv, Rotated
  <2>7. AlarmInv'
    <3>1. \A i : Rotated(i)' => Rotated(i) /\ tokens'[i].grace = tokens[i].grace
      BY <2>4 DEF Rotated
    <3>2. \A e \in calls' : e.kind = "refresh" =>
             e.presented = cookie \/ \E b \in calls : b.kind = "refresh" /\ b.presented = e.presented
      BY <1>2, <1>4, <2>5
    <3>3. \A e \in calls' : Signed(e) => e \in calls
      BY <1>4, <2>5 DEF Signed
    <3> QED
      BY <1>2, <2>6, <3>1, <3>2, <3>3, AlarmKept DEF LoginSafe
  <2>8. GrantsAreLive
    BY <1>4, <2>3, <2>5 DEF GrantsAreLive, Succeeded
  <2> QED
    BY <2>4, <2>5, <2>7, <2>8
<1>11. CASE id \in DOMAIN tokens /\ ~tokens[id].expired /\ tokens[id].status = "rotation" /\ tokens[id].grace
  <2>1. CASE tokens[Child(id)].status # "live" \/ tokens[Child(id)].expired
    BY <1>1, <1>6, <1>11, <2>1 DEF Refreshed
  <2>2. CASE tokens[Child(id)].status = "live" /\ ~tokens[Child(id)].expired
    <3>1. result = Result(Granted(Child(id)), tokens)
      BY <1>1, <1>11, <2>2 DEF Refreshed
    <3>2. tokens' = tokens /\ result.answer = Granted(Child(id))
      BY <1>1, <3>1 DEF Result
    <3>3. Child(id) \in DOMAIN tokens /\ Child(id) \in TokenIds
      BY <1>11 DEF LoginSafe, LoginStoreInv
    <3>4. result.answer \in AnswerSet /\ result.answer.ok /\ result.answer.token = Child(id)
      BY <3>2, <3>3 DEF Granted, AnswerSet
    <3> QED
      BY <1>5, <1>11, <2>2, <3>2, <3>3, <3>4
  <2> QED
    BY <2>1, <2>2
<1> QED
  BY <1>7, <1>8, <1>9, <1>10, <1>11

\* A call is answered without a token: it ends its login, or is refused.
LEMMA PlainAnswer ==
    ASSUME LoginSafe, StoreKept, NEW c \in calls, c.answer = Nobody, NEW answer \in AnswerSet, Answered(c, answer),
           answer.ok => c.kind = "logout" /\ answer.token = Nobody,
           \A id : Rotated(id)' => Rotated(id) /\ tokens'[id].grace = tokens[id].grace,
           (\E i \in DOMAIN tokens' : tokens'[i].status = "compromise")
              => \E i \in DOMAIN tokens : tokens[i].status = "compromise",
           UNCHANGED <<cookie, disturbed, clockTick>>
    PROVE  LoginCallsInv' /\ AlarmInv' /\ GrantsAreLive
<1>1. PICK d : d = [c EXCEPT !.answer = answer]
  OBVIOUS
<1>2. calls' = (calls \ {c}) \cup {d} /\ UNCHANGED clockTick
  BY <1>1 DEF Answered
<1>3. LoginCallsInv' /\ d.kind = c.kind /\ d.presented = c.presented /\ d.answer = answer
  BY <1>1, <1>2, CallAnswered DEF LoginSafe
<1>4. GrantsAreLive
  <2>1. Nobody \notin DOMAIN tokens'
    BY NobodyIsNone DEF StoreKept, LoginStoreInv, TokenIds
  <2> QED
    BY <1>2, <1>3, <2>1 DEF GrantsAreLive, Succeeded
<1>5. \A e \in calls' : e.kind = "refresh" =>
         e.presented = cookie \/ \E b \in calls : b.kind = "refresh" /\ b.presented = e.presented
  BY <1>2, <1>3
<1>6. \A e \in calls' : Signed(e) => e \in calls
  BY <1>2, <1>3 DEF Signed, Succeeded
<1>7. \A e \in calls : e.kind = "refresh" /\ Succeeded(e) => e \in calls'
  BY <1>2 DEF Succeeded
<1>8. AlarmInv /\ (disturbed => disturbed') /\ UNCHANGED cookie
  BY DEF LoginSafe
<1>9. AlarmInv'
  <2> HIDE DEF Rotated
  <2> QED
    BY <1>5, <1>6, <1>7, <1>8, AlarmKept
<1> QED
  BY <1>3, <1>4, <1>9

LEMMA RefusalTyped ==
    /\ \A code \in {401, 503} : Refused(code) \in AnswerSet /\ ~Refused(code).ok
    /\ Granted(Nobody) \in AnswerSet /\ Granted(Nobody).token = Nobody
BY DEF Refused, Granted, AnswerSet

LEMMA TokensSame ==
    UNCHANGED tokens => /\ \A id : Rotated(id)' => Rotated(id) /\ tokens'[id].grace = tokens[id].grace
                        /\ (\E i \in DOMAIN tokens' : tokens'[i].status = "compromise")
                             => \E i \in DOMAIN tokens : tokens[i].status = "compromise"
BY DEF Rotated

LEMMA Answers ==
    ASSUME LoginSafe, NEW c \in calls, ServeLogout(c) \/ CheckPassword(c) \/ RefuseCall(c)
    PROVE  StoreKept /\ LoginCallsInv' /\ AlarmInv' /\ GrantsAreLive
<1>1. CASE ServeLogout(c)
  <2>1. /\ c.kind = "logout" /\ c.answer = Nobody /\ Answered(c, Granted(Nobody))
        /\ UNCHANGED <<cookie, disturbed, clockTick>>
        /\ tokens' = IF c.presented \in DOMAIN tokens
                     THEN RevokeFamily(tokens, c.presented[1], "logout") ELSE tokens
    BY <1>1 DEF ServeLogout, browserVars
  <2>2. /\ StoreKept
        /\ \A id : Rotated(id)' => Rotated(id) /\ tokens'[id].grace = tokens[id].grace
        /\ (\E i \in DOMAIN tokens' : tokens'[i].status = "compromise")
             => \E i \in DOMAIN tokens : tokens[i].status = "compromise"
    <3>1. CASE c.presented \in DOMAIN tokens
      <4>1. /\ StoreKept /\ DOMAIN tokens' = DOMAIN tokens
            /\ \A i \in DOMAIN tokens : /\ tokens'[i].grace = tokens[i].grace
                                        /\ tokens'[i].status \in {tokens[i].status, "logout"}
        BY <2>1, <3>1, FamilyRevoked DEF LoginSafe, Ending
      <4> QED
        BY <4>1 DEF Rotated
    <3>2. CASE c.presented \notin DOMAIN tokens
      BY <2>1, <3>2, StoreSame, TokensSame DEF LoginSafe
    <3> QED
      BY <3>1, <3>2
  <2> QED
    BY <2>1, <2>2, RefusalTyped, PlainAnswer
<1>2. ASSUME NEW code \in {401, 503}, c.answer = Nobody, Answered(c, Refused(code)),
             UNCHANGED <<tokens, cookie, disturbed, clockTick>>
      PROVE  StoreKept /\ LoginCallsInv' /\ AlarmInv' /\ GrantsAreLive
  <2>1. StoreKept
    BY <1>2, StoreSame DEF LoginSafe
  <2> QED
    BY <1>2, <2>1, RefusalTyped, TokensSame, PlainAnswer
<1>3. CASE RefuseCall(c)
  BY <1>2, <1>3 DEF RefuseCall, storeVars, browserVars
<1>4. CASE CheckPassword(c)
  <2>1. CASE c.presented # account.password
    BY <1>2, <1>4, <2>1 DEF CheckPassword, storeVars, browserVars
  <2>2. CASE c.presented = account.password
    <3>1. PICK d : d = [c EXCEPT !.checked = TRUE]
      OBVIOUS
    <3>2. /\ c.kind = "login" /\ c.answer = Nobody /\ calls' = (calls \ {c}) \cup {d}
          /\ UNCHANGED <<tokens, cookie, disturbed, clockTick>>
      BY <1>4, <2>2, <3>1 DEF CheckPassword, storeVars, browserVars
    <3>3. c \in LoginCallSet /\ c.id <= clockTick
      BY DEF LoginSafe, LoginCallsInv, LoginCallGood
    <3>4. d \in LoginCallSet /\ d.kind = "login" /\ d.answer = Nobody /\ d.id = c.id
      BY <3>1, <3>2, <3>3 DEF LoginCallSet
    <3>5. LoginCallsInv'
      <4>1. \A e \in calls : LoginCallGood(e)'
        BY <3>2 DEF LoginSafe, LoginCallsInv, LoginCallGood, Succeeded, Child
      <4>2. LoginCallGood(d)'
        BY <3>2, <3>3, <3>4 DEF LoginCallGood, Succeeded
      <4>3. \A x, y \in calls' : x.id = y.id => x = y
        <5>1. \A e \in calls \ {c} : e.id # d.id
          BY <3>4 DEF LoginSafe, LoginCallsInv
        <5>2. \A x, y \in calls \ {c} : x.id = y.id => x = y
          BY DEF LoginSafe, LoginCallsInv
        <5> QED
          BY <3>2, <5>1, <5>2
      <4> QED
        BY <3>2, <4>1, <4>2, <4>3 DEF LoginSafe, LoginCallsInv
    <3>6. AlarmInv'
      <4>1. \A e \in calls' : e.kind = "refresh" =>
               e.presented = cookie \/ \E b \in calls : b.kind = "refresh" /\ b.presented = e.presented
        BY <3>2, <3>4
      <4>2. \A e \in calls' : Signed(e) => e \in calls
        BY <3>2, <3>4 DEF Signed, Succeeded
      <4>3. \A e \in calls : e.kind = "refresh" /\ Succeeded(e) => e \in calls'
        BY <3>2 DEF Succeeded
      <4> QED
        BY <3>2, <4>1, <4>2, <4>3, TokensSame, AlarmKept DEF LoginSafe
    <3>7. GrantsAreLive
      BY <3>2, <3>4 DEF GrantsAreLive, Succeeded
    <3> QED
      BY <3>2, <3>5, <3>6, <3>7, StoreSame DEF LoginSafe
  <2> QED
    BY <2>1, <2>2
<1> QED
  BY <1>1, <1>3, <1>4

LEMMA Issues ==
    ASSUME LoginSafe, NEW c \in calls, IssueTokenPair(c)
    PROVE  StoreKept /\ LoginCallsInv' /\ AlarmInv' /\ GrantsAreLive
<1>1. /\ c.kind = "login" /\ c.answer = Nobody /\ Answered(c, Granted(NewFamily))
      /\ tokens' = WithToken(tokens, NewFamily) /\ UNCHANGED <<cookie, disturbed, clockTick>>
  BY DEF IssueTokenPair, browserVars
<1>2. PICK new : new = NewFamily
  OBVIOUS
<1>3. /\ StoreKept /\ new \in TokenIds \ DOMAIN tokens /\ DOMAIN tokens' = DOMAIN tokens \cup {new}
      /\ new[2] = 1 /\ tokens'[new].status = "live" /\ \A i \in DOMAIN tokens : tokens'[i] = tokens[i]
  BY <1>1, <1>2, LoginIssued DEF LoginSafe
<1>4. PICK d : d = [c EXCEPT !.answer = Granted(new)]
  OBVIOUS
<1>5. calls' = (calls \ {c}) \cup {d}
  BY <1>1, <1>2, <1>4 DEF Answered
<1>6. Granted(new) \in AnswerSet /\ Granted(new).ok /\ Granted(new).token = new
  BY <1>3 DEF Granted, AnswerSet
<1>7. LoginCallsInv' /\ d.kind = "login" /\ d.presented = c.presented /\ d.answer = Granted(new)
  BY <1>1, <1>3, <1>4, <1>5, <1>6, CallAnswered DEF LoginSafe
<1>8. GrantsAreLive
  BY <1>3, <1>5, <1>6, <1>7 DEF GrantsAreLive, Succeeded
<1>9. \A id : Rotated(id)' => Rotated(id) /\ tokens'[id] = tokens[id] /\ id # new
  BY <1>3 DEF Rotated
<1>10. NoFalseAlarm'
  BY <1>1, <1>3 DEF LoginSafe, AlarmInv, NoFalseAlarm
<1>11. /\ \A e \in calls' : e = d \/ e \in calls
       /\ \A e \in calls : e.kind = "refresh" => e \in calls'
       /\ \A e \in calls' : e.kind = "refresh" => e \in calls
  BY <1>1, <1>5, <1>7
<1>12. ASSUME ~disturbed'
       PROVE  /\ \A e \in calls' : e.kind = "refresh" /\ Rotated(e.presented)' => tokens'[e.presented].grace
              /\ Rotated(cookie)' => tokens'[cookie].grace /\ ChildUnderWay'
  <2>1. /\ \A e \in calls : e.kind = "refresh" /\ Rotated(e.presented) => tokens[e.presented].grace
        /\ Rotated(cookie) => tokens[cookie].grace /\ ChildUnderWay
    BY <1>1, <1>12 DEF LoginSafe, AlarmInv
  <2>2. ChildUnderWay => ChildUnderWay'
    BY <1>1, <1>11 DEF ChildUnderWay, Succeeded
  <2>3. \A e \in calls' : e.kind = "refresh" /\ Rotated(e.presented)' => tokens'[e.presented].grace
    BY <1>9, <1>11, <2>1
  <2>4. Rotated(cookie)' => Rotated(cookie) /\ tokens'[cookie] = tokens[cookie]
    BY <1>1, <1>9
  <2> QED
    BY <2>1, <2>2, <2>3, <2>4
<1>13. ASSUME NEW e \in calls', Signed(e)'
       PROVE  /\ cookie' # e.answer.token /\ ~Rotated(e.answer.token)'
              /\ \A b \in calls' : b.kind = "refresh" => b.presented # e.answer.token
  <2>1. CASE e = d
    <3>1. e.answer.token = new /\ new \notin DOMAIN tokens \cup {Nobody}
      BY <1>3, <1>6, <1>7, <2>1, NobodyIsNoToken DEF LoginSafe
    <3>2. cookie # new /\ \A b \in calls : b.kind = "refresh" => b.presented # new
      BY <3>1 DEF LoginSafe, CookieGood, LoginCallsInv, LoginCallGood
    <3> QED
      BY <1>1, <1>9, <1>11, <3>1, <3>2
  <2>2. CASE e \in calls
    <3>1. Signed(e)
      BY <1>13 DEF Signed, Succeeded
    <3>2. /\ cookie # e.answer.token /\ ~Rotated(e.answer.token)
          /\ \A b \in calls : b.kind = "refresh" => b.presented # e.answer.token
      BY <2>2, <3>1 DEF LoginSafe, AlarmInv
    <3> QED
      BY <1>1, <1>9, <1>11, <3>2
  <2> QED
    BY <1>11, <1>13, <2>1, <2>2
<1>14. ASSUME NEW e \in calls', NEW b \in calls', Signed(e)', Signed(b)', e.answer.token = b.answer.token
       PROVE  e = b
  <2>1. \A x \in calls : Signed(x) => x.answer.token \in DOMAIN tokens
    BY DEF LoginSafe, LoginCallsInv, LoginCallGood, Signed
  <2>2. d.answer.token = new
    BY <1>6, <1>7
  <2>3. Signed(e) /\ Signed(b)
    BY <1>14 DEF Signed, Succeeded
  <2> QED
    BY <1>3, <1>11, <1>14, <2>1, <2>2, <2>3 DEF LoginSafe, AlarmInv
<1>15. AlarmInv'
  BY <1>1, <1>10, <1>12, <1>13, <1>14 DEF AlarmInv
<1> QED
  BY <1>3, <1>7, <1>8, <1>15

\* What a step keeps of all this.
LoginStep == LoginSafe' /\ StoreKept /\ GrantsAreLive

LEMMA ServerSteps ==
    ASSUME LoginSafe, NEW c \in calls,
           ServeRefresh(c) \/ ServeLogout(c) \/ CheckPassword(c) \/ IssueTokenPair(c) \/ RefuseCall(c)
    PROVE  LoginStep
<1>1. StoreKept /\ LoginCallsInv' /\ AlarmInv' /\ GrantsAreLive
  BY Refreshes, Answers, Issues
<1>2. UNCHANGED cookie
  BY DEF ServeRefresh, ServeLogout, CheckPassword, IssueTokenPair, RefuseCall, browserVars
<1>3. CookieGood'
  BY <1>1, <1>2 DEF LoginSafe, CookieGood, StoreKept
<1> QED
  BY <1>1, <1>3 DEF LoginStep, LoginSafe, StoreKept

\* A step that makes no call and no answer, and leaves the tokens alone.
LEMMA CallsOnlyLeave ==
    ASSUME LoginSafe, UNCHANGED <<tokens, cookie>>, calls' \subseteq calls, UNCHANGED clockTick \/ Tick,
           disturbed => disturbed',
           ~disturbed' => \A c \in calls : c.kind = "refresh" /\ Succeeded(c) => c \in calls'
    PROVE  LoginStep
<1>1. StoreKept
  BY StoreSame DEF LoginSafe
<1>2. LoginCallsInv'
  BY CallsLeft DEF LoginSafe
<1>3. AlarmInv'
  <2>1. \A d \in calls' : Signed(d) => d \in calls
    OBVIOUS
  <2>2. (\E i \in DOMAIN tokens' : tokens'[i].status = "compromise")
          => disturbed' \/ \E i \in DOMAIN tokens : tokens[i].status = "compromise"
    OBVIOUS
  <2> QED
    BY <2>1, <2>2, TokensSame, AlarmKept DEF LoginSafe
<1>4. CookieGood'
  BY DEF LoginSafe, CookieGood
<1>5. GrantsAreLive
  BY DEF GrantsAreLive
<1> QED
  BY <1>1, <1>2, <1>3, <1>4, <1>5 DEF LoginStep, LoginSafe, StoreKept

\* The tokens grow old, or are revoked together.
LEMMA TokenSteps ==
    ASSUME LoginSafe,
           \/ \E token \in mails : ResetPassword(token)
           \/ \E id \in DOMAIN tokens : GraceEnds(id) \/ TokenExpires(id)
    PROVE  LoginStep
<1>1. UNCHANGED <<cookie, calls, clockTick>>
  BY DEF ResetPassword, GraceEnds, TokenExpires, browserVars
<1>2. ASSUME StoreKept, AlarmInv' PROVE LoginStep
  <2>1. LoginCallsInv'
    BY <1>1, <1>2, CallsLeft DEF LoginSafe, StoreKept
  <2>2. CookieGood'
    BY <1>1, <1>2 DEF LoginSafe, CookieGood, StoreKept
  <2> QED
    BY <1>1, <1>2, <2>1, <2>2 DEF LoginStep, LoginSafe, StoreKept, GrantsAreLive
<1>3. ASSUME \A id : Rotated(id)' => Rotated(id) /\ tokens'[id].grace = tokens[id].grace,
             DOMAIN tokens' = DOMAIN tokens, UNCHANGED disturbed,
             \A i \in DOMAIN tokens : tokens'[i].status # "compromise" \/ tokens[i].status = "compromise"
      PROVE  AlarmInv'
  <2>1. (\E i \in DOMAIN tokens' : tokens'[i].status = "compromise")
          => disturbed' \/ \E i \in DOMAIN tokens : tokens[i].status = "compromise"
    BY <1>3
  <2>2. /\ \A d \in calls' : Signed(d) => d \in calls
        /\ \A d \in calls' : d.kind = "refresh" =>
              d.presented = cookie \/ \E c \in calls : c.kind = "refresh" /\ c.presented = d.presented
        /\ \A c \in calls : c.kind = "refresh" /\ Succeeded(c) => c \in calls'
    BY <1>1
  <2> QED
    BY <1>1, <1>3, <2>1, <2>2, AlarmKept DEF LoginSafe
<1>4. ASSUME NEW token \in mails, ResetPassword(token) PROVE LoginStep
  <2>1. /\ tokens' = [i \in DOMAIN tokens |-> IF tokens[i].status = "live"
                      THEN [tokens[i] EXCEPT !.status = "password_reset"] ELSE tokens[i]]
        /\ UNCHANGED disturbed
    BY <1>4 DEF ResetPassword
  <2>2. /\ DOMAIN tokens' = DOMAIN tokens /\ tokens' = [i \in DOMAIN tokens |-> tokens'[i]]
    BY <2>1
  <2>3. ASSUME NEW i \in DOMAIN tokens
        PROVE  /\ tokens'[i] \in TokenSet /\ tokens'[i].grace = tokens[i].grace
               /\ \/ tokens'[i].status = tokens[i].status
                  \/ tokens[i].status = "live" /\ tokens'[i].status = "password_reset"
    BY <2>1 DEF LoginSafe, LoginStoreInv, TokenSet, Ending
  <2>4. StoreKept
    BY <2>2, <2>3, TokensRetire DEF LoginSafe, Ending
  <2>5. \A id : Rotated(id)' => Rotated(id) /\ tokens'[id].grace = tokens[id].grace
    BY <2>2, <2>3 DEF Rotated
  <2> QED
    BY <1>2, <1>3, <2>1, <2>2, <2>3, <2>4, <2>5
<1>5. ASSUME NEW id \in DOMAIN tokens, TokenExpires(id) PROVE LoginStep
  <2>1. tokens' = [tokens EXCEPT ![id].expired = TRUE] /\ UNCHANGED disturbed
    BY <1>5 DEF TokenExpires
  <2>2. DOMAIN tokens' = DOMAIN tokens /\ tokens' = [i \in DOMAIN tokens |-> tokens'[i]]
    BY <2>1
  <2>3. ASSUME NEW i \in DOMAIN tokens
        PROVE  /\ tokens'[i] \in TokenSet /\ tokens'[i].grace = tokens[i].grace
               /\ tokens'[i].status = tokens[i].status
    BY <2>1 DEF LoginSafe, LoginStoreInv, TokenSet
  <2>4. StoreKept
    BY <2>2, <2>3, TokensRetire DEF LoginSafe
  <2>5. \A i : Rotated(i)' => Rotated(i) /\ tokens'[i].grace = tokens[i].grace
    BY <2>2, <2>3 DEF Rotated
  <2> QED
    BY <1>2, <1>3, <2>1, <2>2, <2>3, <2>4, <2>5
<1>6. ASSUME NEW id \in DOMAIN tokens, GraceEnds(id) PROVE LoginStep
  <2>1. /\ tokens' = [tokens EXCEPT ![id].grace = FALSE] /\ tokens[id].status = "rotation"
        /\ IF \E c \in calls : c.kind = "refresh" /\ c.presented = id
           THEN disturbed' ELSE UNCHANGED disturbed
    BY <1>6 DEF GraceEnds
  <2>2. DOMAIN tokens' = DOMAIN tokens /\ tokens' = [i \in DOMAIN tokens |-> tokens'[i]]
    BY <2>1
  <2>3. ASSUME NEW i \in DOMAIN tokens
        PROVE  /\ tokens'[i] \in TokenSet /\ tokens'[i].status = tokens[i].status
               /\ i # id => tokens'[i] = tokens[i]
    BY <2>1 DEF LoginSafe, LoginStoreInv, TokenSet
  <2>4. StoreKept
    BY <2>2, <2>3, TokensRetire DEF LoginSafe
  <2>5. \A i : Rotated(i)' => Rotated(i) /\ (i # id => tokens'[i] = tokens[i])
    BY <2>2, <2>3 DEF Rotated
  <2>6. disturbed => disturbed'
    BY <2>1
  <2>7. ASSUME ~disturbed'
        PROVE  /\ \A e \in calls' : e.kind = "refresh" /\ Rotated(e.presented)' => tokens'[e.presented].grace
               /\ Rotated(cookie)' => tokens'[cookie].grace /\ ChildUnderWay'
    <3>1. /\ \A e \in calls : e.kind = "refresh" /\ Rotated(e.presented) => tokens[e.presented].grace
          /\ Rotated(cookie) => tokens[cookie].grace /\ ChildUnderWay
      BY <2>6, <2>7 DEF LoginSafe, AlarmInv
    <3>2. \A e \in calls : e.kind = "refresh" => e.presented # id
      BY <2>1, <2>7
    <3>3. \A e \in calls' : e.kind = "refresh" /\ Rotated(e.presented)' => tokens'[e.presented].grace
      BY <1>1, <2>5, <3>1, <3>2
    <3>4. Rotated(cookie)' => Rotated(cookie) /\ cookie # id
      BY <1>1, <2>5, <3>1, <3>2 DEF ChildUnderWay
    <3>5. Rotated(cookie)' => tokens'[cookie] = tokens[cookie]
      BY <1>1, <2>5, <3>4
    <3>6. ChildUnderWay => ChildUnderWay'
      BY <1>1 DEF ChildUnderWay, Succeeded
    <3> QED
      BY <3>1, <3>3, <3>4, <3>5, <3>6
  <2>8. ASSUME NEW e \in calls', Signed(e)'
        PROVE  /\ cookie' # e.answer.token /\ ~Rotated(e.answer.token)'
               /\ \A b \in calls' : b.kind = "refresh" => b.presented # e.answer.token
    <3>1. e \in calls /\ Signed(e)
      BY <1>1, <2>8 DEF Signed, Succeeded
    <3> QED
      BY <1>1, <2>5, <3>1 DEF LoginSafe, AlarmInv
  <2>9. \A e, b \in calls' : Signed(e)' /\ Signed(b)' /\ e.answer.token = b.answer.token => e = b
    BY <1>1 DEF LoginSafe, AlarmInv, Signed, Succeeded
  <2>10. NoFalseAlarm'
    BY <2>2, <2>3, <2>6 DEF LoginSafe, AlarmInv, NoFalseAlarm
  <2>11. AlarmInv'
    BY <1>1, <2>7, <2>8, <2>9, <2>10 DEF AlarmInv
  <2> QED
    BY <1>2, <2>4, <2>11
<1> QED
  BY <1>4, <1>5, <1>6

-----------------------------------------------------------------------------
(* What the tabs do to the cookie and the calls *)

LEMMA CookieArrives ==
    ASSUME LoginSafe, UNCHANGED <<tokens, clockTick>>, NEW c \in calls, calls' = calls \ {c},
           NEW x \in DOMAIN tokens \cup {Nobody}, cookie' = x, disturbed => disturbed',
           ~disturbed' /\ Rotated(x) => x = cookie /\ c.presented # x,
           \A e \in calls \ {c} : Signed(e) => e.answer.token # x
    PROVE  LoginStep
<1>1. StoreKept
  BY StoreSame DEF LoginSafe
<1>2. LoginCallsInv'
  BY CallsLeft DEF LoginSafe
<1>3. CookieGood'
  BY DEF CookieGood
<1>4. \A id : Rotated(id)' <=> Rotated(id)
  BY DEF Rotated
<1>5. NoFalseAlarm'
  BY DEF LoginSafe, AlarmInv, NoFalseAlarm
<1>6. ASSUME ~disturbed'
      PROVE  /\ \A e \in calls' : e.kind = "refresh" /\ Rotated(e.presented)' => tokens'[e.presented].grace
             /\ Rotated(x) => tokens[x].grace /\ ChildUnderWay'
  <2>1. /\ \A e \in calls : e.kind = "refresh" /\ Rotated(e.presented) => tokens[e.presented].grace
        /\ Rotated(cookie) => tokens[cookie].grace /\ ChildUnderWay
    BY <1>6 DEF LoginSafe, AlarmInv
  <2>2. \A e \in calls' : e.kind = "refresh" /\ Rotated(e.presented)' => tokens'[e.presented].grace
    <3> HIDE DEF Rotated
    <3> QED
      BY <1>4, <2>1
  <2>3. ASSUME Rotated(x) PROVE tokens[x].grace /\ ChildUnderWay'
    <3>1. x = cookie /\ c.presented # x /\ Rotated(cookie)
      BY <1>6, <2>3
    <3>2. PICK w \in calls : w.kind = "refresh" /\ w.presented = cookie /\ Succeeded(w)
      BY <2>1, <3>1 DEF ChildUnderWay
    <3>3. w \in calls'
      BY <3>1, <3>2
    <3> QED
      BY <2>1, <3>1, <3>2, <3>3 DEF ChildUnderWay, Succeeded
  <2> QED
    BY <2>2, <2>3
<1>7. ASSUME NEW e \in calls', Signed(e)'
      PROVE  /\ x # e.answer.token /\ ~Rotated(e.answer.token)'
             /\ \A b \in calls' : b.kind = "refresh" => b.presented # e.answer.token
  <2>1. e \in calls \ {c} /\ Signed(e)
    BY <1>7 DEF Signed, Succeeded
  <2> QED
    BY <1>4, <2>1 DEF LoginSafe, AlarmInv
<1>8. \A e, b \in calls' : Signed(e)' /\ Signed(b)' /\ e.answer.token = b.answer.token => e = b
  BY DEF LoginSafe, AlarmInv, Signed, Succeeded
<1>9. Rotated(cookie)' <=> Rotated(x)
  BY DEF Rotated
<1>10. AlarmInv'
  BY <1>5, <1>6, <1>7, <1>8, <1>9 DEF AlarmInv
<1> QED
  BY <1>1, <1>2, <1>3, <1>10 DEF LoginStep, LoginSafe, StoreKept, GrantsAreLive

LEMMA Receipts ==
    ASSUME LoginSafe, NEW c \in calls, ReceiveRefresh(c) \/ ReceiveLogin(c) \/ ReceiveLogout(c)
    PROVE  LoginStep
<1>1. /\ c.answer # Nobody /\ UNCHANGED <<tokens, clockTick>> /\ calls' = calls \ {c} /\ LoginCallGood(c)
      /\ disturbed => disturbed'
  <2>1. /\ c.answer # Nobody /\ UNCHANGED <<tokens, clockTick>> /\ calls' = calls \ {c} /\ LoginCallGood(c)
    BY DEF ReceiveRefresh, ReceiveLogin, ReceiveLogout, storeVars, LoginSafe, LoginCallsInv
  <2>2. ReceiveRefresh(c) => (disturbed => disturbed')
    BY Zenon DEF ReceiveRefresh
  <2>3. ReceiveLogin(c) \/ ReceiveLogout(c) => disturbed' = disturbed
    BY DEF ReceiveLogin, ReceiveLogout
  <2> QED
    BY <2>1, <2>2, <2>3
<1>2. CASE ~c.answer.ok
  <2>1. UNCHANGED <<tokens, cookie, clockTick>> /\ calls' \subseteq calls
    BY <1>1, <1>2 DEF ReceiveRefresh, ReceiveLogin, ReceiveLogout, storeVars
  <2>2. \A e \in calls : Succeeded(e) => e \in calls'
    BY <1>1, <1>2 DEF Succeeded
  <2> QED
    BY <1>1, <2>1, <2>2, CallsOnlyLeave
<1>3. CASE c.answer.ok /\ c.kind = "refresh"
  <2>1. ReceiveRefresh(c)
    BY <1>3 DEF ReceiveLogin, ReceiveLogout
  <2>2. PICK x : x = c.answer.token
    OBVIOUS
  <2>3. cookie' = x /\ (~disturbed' => cookie = x \/ ~Rotated(x))
    <3>1. Overtaken(x) <=> cookie # x /\ Rotated(x)
      BY DEF Overtaken, Rotated
    <3> QED
      BY <1>3, <2>1, <2>2, <3>1 DEF ReceiveRefresh
  <2>4. c.presented \in DOMAIN tokens /\ x = Child(c.presented) /\ x \in DOMAIN tokens
    BY <1>1, <1>3, <2>2 DEF LoginCallGood, Succeeded
  <2>5. c.presented \in TokenIds /\ c.presented[2] >= 1 /\ x[2] = c.presented[2] + 1
    BY <2>4 DEF LoginSafe, LoginStoreInv, Child
  <2>6. c.presented # x /\ x[2] # 1
    BY <2>5 DEF TokenIds
  <2>7. \A e \in calls \ {c} : Signed(e) => e.answer.token # x
    BY <2>6 DEF LoginSafe, LoginCallsInv, LoginCallGood, Signed
  <2>8. ~disturbed' /\ Rotated(x) => x = cookie
    BY <2>3
  <2> QED
    BY <1>1, <2>3, <2>4, <2>6, <2>7, <2>8, CookieArrives
<1>4. CASE c.answer.ok /\ c.kind = "login"
  <2>1. ReceiveLogin(c) /\ Signed(c)
    BY <1>1, <1>4 DEF ReceiveLogin, ReceiveRefresh, ReceiveLogout, Signed, Succeeded
  <2>2. PICK x : x = c.answer.token
    OBVIOUS
  <2>3. cookie' = x /\ x \in DOMAIN tokens
    BY <1>1, <1>4, <2>1, <2>2 DEF ReceiveLogin, LoginCallGood, Signed
  <2>4. ~Rotated(x)
    BY <2>1, <2>2 DEF LoginSafe, AlarmInv
  <2>5. \A e \in calls \ {c} : Signed(e) => e.answer.token # x
    BY <2>1, <2>2 DEF LoginSafe, AlarmInv
  <2> QED
    BY <1>1, <2>3, <2>4, <2>5, CookieArrives
<1>5. CASE c.answer.ok /\ c.kind = "logout"
  <2>1. cookie' = Nobody
    BY <1>5 DEF ReceiveLogin, ReceiveRefresh, ReceiveLogout
  <2>2. Nobody \notin DOMAIN tokens
    BY NobodyIsNoToken DEF LoginSafe
  <2>3. ~Rotated(Nobody)
    BY <2>2 DEF Rotated
  <2>4. \A e \in calls \ {c} : Signed(e) => e.answer.token # Nobody
    BY <2>2 DEF LoginSafe, LoginCallsInv, LoginCallGood, Signed
  <2> QED
    BY <1>1, <2>1, <2>3, <2>4, CookieArrives
<1> QED
  BY <1>2, <1>3, <1>4, <1>5 DEF ReceiveRefresh, ReceiveLogin, ReceiveLogout

LEMMA CallSteps ==
    ASSUME LoginSafe, UNCHANGED <<tokens, cookie, disturbed>>, Tick,
           NEW kind \in {"refresh", "login", "logout"}, NEW t \in BrowserTabs, NEW epoch \in Nat, NEW flight \in Nat,
           NEW presented \in Nat \cup TokenIds \cup {Nobody}, kind = "refresh" => presented = cookie,
           calls' = calls \cup {Call(kind, t, epoch, flight, presented)}
    PROVE  LoginStep
<1>1. PICK d : d = Call(kind, t, epoch, flight, presented)
  OBVIOUS
<1>2. calls' = calls \cup {d}
  BY <1>1
<1>3. LoginCallsInv' /\ d.kind = kind /\ d.presented = presented /\ d.answer = Nobody
  BY <1>1, <1>2, CallMade DEF LoginSafe, CookieGood
<1>4. AlarmInv'
  <2>1. \A e \in calls' : e.kind = "refresh" =>
           e.presented = cookie \/ \E b \in calls : b.kind = "refresh" /\ b.presented = e.presented
    BY <1>2, <1>3
  <2>2. \A e \in calls' : Signed(e) => e \in calls
    BY <1>2, <1>3 DEF Signed, Succeeded
  <2>3. \A e \in calls : e \in calls'
    BY <1>2
  <2> QED
    BY <2>1, <2>2, <2>3, TokensSame, AlarmKept DEF LoginSafe
<1>5. StoreKept
  BY StoreSame DEF LoginSafe
<1>6. CookieGood'
  BY DEF LoginSafe, CookieGood
<1>7. GrantsAreLive
  BY <1>2, <1>3 DEF GrantsAreLive, Succeeded
<1> QED
  BY <1>3, <1>4, <1>5, <1>6, <1>7 DEF LoginStep, LoginSafe, StoreKept

-----------------------------------------------------------------------------
(* The account, and what each tab shows *)

LoginAccountInv ==
    /\ account \in [password: Nat, reset: Nat \cup {Nobody}]
    /\ \A m \in mails : m \in Nat /\ m <= clockTick /\ (account.reset # Nobody => m <= account.reset)

AccessSet == [epoch: Nat, valid: BOOLEAN]
FlightSet == [epoch: Nat, stage: {"waits", "sends", "sent"}, lock: Nat \cup {Nobody}]
PageSet ==
    [epoch: Nat, status: {"loading", "authed", "anon", "error"}, access: AccessSet \cup {Nobody},
     refreshing: SUBSET FlightSet, rejected: BOOLEAN]

\* A signed-in tab has a token of its own login, and a signed-out one was rejected.
PageGood(p) ==
    /\ p \in PageSet
    /\ p.status = "authed" /\ p.access # Nobody => p.access.epoch = p.epoch
    /\ p.status = "anon" => p.rejected
LoginPagesInv ==
    /\ pages = [t \in BrowserTabs |-> pages[t]] /\ \A t \in BrowserTabs : PageGood(pages[t])
    /\ lock \in {Nobody} \cup [id: Nat, fresh: BOOLEAN]

LoginInv == LoginSafe /\ LoginAccountInv /\ LoginPagesInv

\* A tab that moves a refresh of its own on.
LEMMA MovedGood ==
    ASSUME NEW page, PageGood(page), NEW r \in page.refreshing, NEW stage \in {"waits", "sends", "sent"}
    PROVE  PageGood(Moved(page, r, stage))
<1>1. PICK moved : moved = Staged(r, stage)
  OBVIOUS
<1>2. moved \in FlightSet
  BY <1>1 DEF Staged, FlightSet, PageGood, PageSet
<1>3. PICK fs : fs = (page.refreshing \ {r}) \cup {moved}
  OBVIOUS
<1>4. fs \in SUBSET FlightSet
  BY <1>2, <1>3 DEF PageGood, PageSet
<1>5. Moved(page, r, stage) = [page EXCEPT !.refreshing = fs]
  BY <1>1, <1>3 DEF Moved
<1>6. PageGood([page EXCEPT !.refreshing = fs])
  BY <1>4 DEF PageGood, PageSet
<1> QED
  BY <1>5, <1>6

\* A tab that is given a token of its present login.
LEMMA TokenTaken ==
    ASSUME NEW page, PageGood(page), NEW fs \in SUBSET page.refreshing,
           NEW took, took = [page EXCEPT !.access = Access(page.epoch), !.refreshing = fs]
    PROVE  PageGood(Restored(took))
<1>1. Access(page.epoch) \in AccessSet /\ Access(page.epoch).epoch = page.epoch
  BY DEF Access, AccessSet, PageGood, PageSet
<1>2. PICK access : access = Access(page.epoch)
  OBVIOUS
<1>3. took = [page EXCEPT !.access = access, !.refreshing = fs] /\ access \in AccessSet /\ access.epoch = page.epoch
  BY <1>1, <1>2
<1>4. /\ took \in PageSet /\ took.access = access /\ took.epoch = page.epoch /\ took.status = page.status
      /\ took.rejected = page.rejected
  BY <1>3 DEF PageGood, PageSet
<1>5. PICK status : status = IF took.status = "loading" THEN "authed" ELSE took.status
  OBVIOUS
<1>6. Restored(took) = [took EXCEPT !.status = status]
  BY <1>5 DEF Restored
<1>7. status \in {"authed", "anon", "error"} /\ (status = "anon" => page.rejected)
  BY <1>4, <1>5 DEF PageGood, PageSet
<1>8. PageGood([took EXCEPT !.status = status])
  BY <1>3, <1>4, <1>7 DEF PageGood, PageSet
<1> QED
  BY <1>6, <1>8

LEMMA HeardGood ==
    ASSUME NEW ps, \A t \in BrowserTabs : PageGood(ps[t]), NEW lockId, NEW granted
    PROVE  \A t \in BrowserTabs : PageGood(Heard(ps, lockId, granted)[t])
<1> SUFFICES ASSUME NEW t \in BrowserTabs PROVE PageGood(Heard(ps, lockId, granted)[t])
  OBVIOUS
<1>1. PICK waiting : waiting = {r \in ps[t].refreshing : r.stage = "waits" /\ r.lock = lockId}
  OBVIOUS
<1>2. Heard(ps, lockId, granted)[t] =
        IF waiting = {} THEN ps[t] ELSE HeardBy(ps[t], CHOOSE r \in waiting : TRUE, granted)
  BY <1>1 DEF Heard
<1>3. PageGood(ps[t])
  OBVIOUS
<1>4. ASSUME waiting # {} PROVE PageGood(HeardBy(ps[t], CHOOSE r \in waiting : TRUE, granted))
  <2>1. PICK r : r = CHOOSE x \in waiting : TRUE
    OBVIOUS
  <2>2. r \in ps[t].refreshing
    BY <1>1, <1>4, <2>1
  <2>3. PICK page : page = ps[t]
    OBVIOUS
  <2>4. CASE granted /\ r.epoch = page.epoch
    <3>1. PICK fs, took : fs = page.refreshing \ {r} /\ took = [page EXCEPT !.access = Access(page.epoch), !.refreshing = fs]
      OBVIOUS
    <3>2. PageGood(Restored(took))
      BY <1>3, <2>3, <3>1, TokenTaken
    <3>3. HeardBy(page, r, granted) = Restored(took)
      BY <2>4, <3>1 DEF HeardBy
    <3> QED
      BY <2>1, <2>3, <3>2, <3>3
  <2>5. CASE ~(granted /\ r.epoch = page.epoch)
    <3>1. PageGood(Moved(page, r, "sends"))
      BY <1>3, <2>2, <2>3, MovedGood
    <3>2. HeardBy(page, r, granted) = Moved(page, r, "sends")
      BY <2>5 DEF HeardBy
    <3> QED
      BY <2>1, <2>3, <3>1, <3>2
  <2> QED
    BY <2>4, <2>5
<1> QED
  BY <1>2, <1>3, <1>4

LEMMA AfterRefreshGood ==
    ASSUME NEW page, PageGood(page), NEW c, c.epoch \in Nat
    PROVE  PageGood(AfterRefresh(page, c))
<1>1. PICK fs : fs = {r \in page.refreshing : r.epoch # c.flight}
  OBVIOUS
<1>2. PICK done : done = [page EXCEPT !.refreshing = fs]
  OBVIOUS
<1>3. done = Finished(page, c) /\ fs \in SUBSET page.refreshing
  BY <1>1, <1>2 DEF Finished
<1>4. /\ PageGood(done) /\ done.epoch = page.epoch /\ done.status = page.status /\ done.refreshing = fs
      /\ done.rejected = page.rejected
  BY <1>2, <1>3 DEF PageGood, PageSet
<1>5. CASE c.answer.ok /\ page.epoch = c.epoch
  <2>1. PICK took : took = [page EXCEPT !.access = Access(page.epoch), !.refreshing = fs]
    OBVIOUS
  <2>2. TakeToken(done, Access(c.epoch), c.epoch) = took
    BY <1>2, <1>4, <1>5, <2>1 DEF TakeToken, PageGood, PageSet
  <2>3. AfterRefresh(page, c) = Restored(took)
    BY <1>3, <1>5, <2>2 DEF AfterRefresh
  <2>4. PageGood(Restored(took))
    BY <1>3, <2>1, TokenTaken
  <2> QED
    BY <2>3, <2>4
<1>6. CASE c.answer.ok /\ page.epoch # c.epoch
  <2>1. AfterRefresh(page, c) = done
    BY <1>3, <1>4, <1>6 DEF AfterRefresh, TakeToken
  <2> QED
    BY <1>4, <2>1
<1>7. CASE ~c.answer.ok /\ page.epoch # c.epoch
  <2>1. AfterRefresh(page, c) = done
    BY <1>3, <1>7 DEF AfterRefresh
  <2> QED
    BY <1>4, <2>1
<1>8. CASE ~c.answer.ok /\ page.epoch = c.epoch /\ c.answer.code = 401
  <2>1. PICK out : out = [done EXCEPT !.access = Nobody]
    OBVIOUS
  <2>2. PICK gone : gone = [out EXCEPT !.status = "anon", !.rejected = TRUE]
    OBVIOUS
  <2>3. AfterRefresh(page, c) = gone
    BY <1>3, <1>4, <1>8, <2>1, <2>2 DEF AfterRefresh, TakeToken
  <2>4. out \in PageSet
    BY <1>4, <2>1 DEF PageGood, PageSet
  <2>5. PageGood(gone)
    BY <2>2, <2>4 DEF PageGood, PageSet
  <2> QED
    BY <2>3, <2>5
<1>9. CASE ~c.answer.ok /\ page.epoch = c.epoch /\ c.answer.code # 401
  <2>1. PICK status : status = IF done.status = "loading" THEN "error" ELSE done.status
    OBVIOUS
  <2>2. AfterRefresh(page, c) = [done EXCEPT !.status = status]
    BY <1>3, <1>9, <2>1 DEF AfterRefresh
  <2>3. /\ status \in {"authed", "anon", "error"}
        /\ (status = "anon" => done.status = "anon") /\ (status = "authed" => done.status = "authed")
    BY <1>4, <2>1 DEF PageGood, PageSet
  <2>4. PageGood([done EXCEPT !.status = status])
    BY <1>4, <2>3 DEF PageGood, PageSet
  <2> QED
    BY <2>2, <2>4
<1> QED
  BY <1>5, <1>6, <1>7, <1>8, <1>9

LEMMA PageReplaced ==
    ASSUME LoginPagesInv, NEW t \in BrowserTabs, NEW page, PageGood(page), pages' = [pages EXCEPT ![t] = page],
           lock' \in {Nobody} \cup [id: Nat, fresh: BOOLEAN]
    PROVE  LoginPagesInv'
<1>1. pages' = [u \in BrowserTabs |-> pages'[u]]
  BY DEF LoginPagesInv
<1>2. \A u \in BrowserTabs : PageGood(pages'[u])
  BY DEF LoginPagesInv
<1> QED
  BY <1>1, <1>2 DEF LoginPagesInv, PageGood

LEMMA PagesHear ==
    ASSUME LoginPagesInv, NEW t \in BrowserTabs, NEW c, c.epoch \in Nat, NEW lockId, NEW granted,
           pages' = Heard([pages EXCEPT ![t] = AfterRefresh(@, c)], lockId, granted), lock' = Nobody
    PROVE  LoginPagesInv'
<1>1. PICK ps : ps = [pages EXCEPT ![t] = AfterRefresh(@, c)]
  OBVIOUS
<1>2. \A u \in BrowserTabs : ps[u] = IF u = t THEN AfterRefresh(pages[t], c) ELSE pages[u]
  BY <1>1 DEF LoginPagesInv
<1>3. \A u \in BrowserTabs : PageGood(ps[u])
  BY <1>2, AfterRefreshGood DEF LoginPagesInv
<1>4. pages' = Heard(ps, lockId, granted)
  BY <1>1
<1>5. \A u \in BrowserTabs : PageGood(pages'[u])
  BY <1>3, <1>4, HeardGood
<1>6. pages' = [u \in BrowserTabs |-> pages'[u]]
  BY <1>4 DEF Heard
<1> QED
  BY <1>5, <1>6 DEF LoginPagesInv, PageGood

LEMMA PageTyped ==
    ASSUME LoginPagesInv, NEW t \in BrowserTabs
    PROVE  pages[t] \in PageSet /\ PageGood(pages[t]) /\ pages[t].epoch \in Nat
BY DEF LoginPagesInv, PageGood, PageSet

\* The steps in which a tab only changes what it shows, or the lock its freshness.
LEMMA QuietSteps ==
    ASSUME LoginInv,
           \/ LockGoesStale
           \/ \E t \in BrowserTabs : RefreshOnce(t) \/ WaitTimesOut(t) \/ AccessExpires(t) \/ RetrySession(t)
    PROVE  LoginStep /\ LoginPagesInv' /\ UNCHANGED <<account, mails, clockTick>>
<1>1. UNCHANGED <<tokens, account, mails, cookie, calls, disturbed, clockTick>>
  BY DEF LockGoesStale, RefreshOnce, WaitTimesOut, AccessExpires, RetrySession, storeVars
<1>2. LoginStep
  BY <1>1, CallsOnlyLeave DEF LoginInv
<1>3. lock \in {Nobody} \cup [id: Nat, fresh: BOOLEAN] /\ LoginPagesInv
  BY DEF LoginInv, LoginPagesInv
<1>4. CASE LockGoesStale
  <2>1. lock' \in [id: Nat, fresh: BOOLEAN] /\ pages' = pages
    BY <1>3, <1>4 DEF LockGoesStale
  <2> QED
    BY <1>1, <1>2, <1>3, <2>1 DEF LoginPagesInv, PageGood
<1>5. ASSUME NEW t \in BrowserTabs, RefreshOnce(t) PROVE LoginPagesInv'
  <2>1. PICK f : /\ f = IF lock # Nobody /\ lock.fresh THEN Flight(pages[t].epoch, "waits", lock.id)
                         ELSE Flight(pages[t].epoch, "sends", Nobody)
    OBVIOUS
  <2>2. pages' = [pages EXCEPT ![t].refreshing = @ \cup {f}] /\ lock' = lock
    BY <1>5, <2>1 DEF RefreshOnce
  <2>3. f \in FlightSet
    BY <1>3, <2>1, PageTyped DEF Flight, FlightSet
  <2>4. PICK fs, page : fs = pages[t].refreshing \cup {f} /\ page = [pages[t] EXCEPT !.refreshing = fs]
    OBVIOUS
  <2>5. fs \in SUBSET FlightSet
    BY <1>3, <2>3, <2>4, PageTyped DEF PageSet
  <2>6. PageGood(page)
    BY <1>3, <2>4, <2>5, PageTyped DEF PageGood, PageSet
  <2>7. pages' = [pages EXCEPT ![t] = page]
    BY <1>3, <2>2, <2>4 DEF LoginPagesInv
  <2> QED
    BY <1>3, <2>2, <2>6, <2>7, PageReplaced
<1>6. ASSUME NEW t \in BrowserTabs, WaitTimesOut(t) PROVE LoginPagesInv'
  <2>1. PICK r \in pages[t].refreshing : pages' = [pages EXCEPT ![t] = Moved(@, r, "sends")] /\ lock' = lock
    BY <1>6 DEF WaitTimesOut
  <2>2. PICK page : page = Moved(pages[t], r, "sends")
    OBVIOUS
  <2>3. PageGood(page)
    BY <1>3, <2>2, PageTyped, MovedGood
  <2>4. pages' = [pages EXCEPT ![t] = page]
    BY <1>3, <2>1, <2>2 DEF LoginPagesInv
  <2> QED
    BY <1>3, <2>1, <2>3, <2>4, PageReplaced
<1>7. ASSUME NEW t \in BrowserTabs, AccessExpires(t) PROVE LoginPagesInv'
  <2>1. /\ pages' = [pages EXCEPT ![t].access.valid = FALSE] /\ lock' = lock
        /\ pages[t].access # Nobody
    BY <1>7 DEF AccessExpires
  <2>2. PICK access : access = [pages[t].access EXCEPT !.valid = FALSE]
    OBVIOUS
  <2>3. pages[t].access \in AccessSet
    BY <1>3, <2>1, PageTyped DEF PageSet
  <2>4. access \in AccessSet /\ access.epoch = pages[t].access.epoch
    BY <2>2, <2>3 DEF AccessSet
  <2>5. PICK page : page = [pages[t] EXCEPT !.access = access]
    OBVIOUS
  <2>6. PageGood(page)
    BY <1>3, <2>1, <2>4, <2>5, PageTyped DEF PageGood, PageSet
  <2>7. pages' = [pages EXCEPT ![t] = page]
    BY <1>3, <2>1, <2>2, <2>5 DEF LoginPagesInv
  <2> QED
    BY <1>3, <2>1, <2>6, <2>7, PageReplaced
<1>8. ASSUME NEW t \in BrowserTabs, RetrySession(t) PROVE LoginPagesInv'
  <2>1. pages' = [pages EXCEPT ![t].status = "loading"] /\ lock' = lock
    BY <1>8 DEF RetrySession
  <2>2. PICK page : page = [pages[t] EXCEPT !.status = "loading"]
    OBVIOUS
  <2>3. PageGood(page)
    BY <1>3, <2>2, PageTyped DEF PageGood, PageSet
  <2>4. pages' = [pages EXCEPT ![t] = page]
    BY <1>3, <2>1, <2>2 DEF LoginPagesInv
  <2> QED
    BY <1>3, <2>1, <2>3, <2>4, PageReplaced
<1> QED
  BY <1>1, <1>2, <1>4, <1>5, <1>6, <1>7, <1>8

LEMMA SendingSteps ==
    ASSUME LoginInv, NEW t \in BrowserTabs, PerformOwnRefresh(t) \/ Login(t) \/ Logout(t) \/ Reload(t)
    PROVE  LoginStep /\ LoginPagesInv' /\ UNCHANGED <<account, mails>> /\ Tick
<1>1. UNCHANGED <<tokens, account, mails, cookie>> /\ Tick /\ clockTick + 1 \in Nat /\ clockTick \in Nat
  BY DEF PerformOwnRefresh, Login, Logout, Reload, storeVars, LoginInv, LoginSafe, LoginCallsInv
<1>2. /\ lock \in {Nobody} \cup [id: Nat, fresh: BOOLEAN] /\ LoginPagesInv /\ LoginSafe
      /\ pages[t] \in PageSet /\ PageGood(pages[t]) /\ pages[t].epoch \in Nat
  BY PageTyped DEF LoginInv, LoginPagesInv
<1>3. cookie \in Nat \cup TokenIds \cup {Nobody}
  BY <1>2 DEF LoginSafe, CookieGood, LoginStoreInv
<1>4. CASE PerformOwnRefresh(t)
  <2>1. PICK r \in pages[t].refreshing :
          /\ lock' = [id |-> clockTick + 1, fresh |-> TRUE] /\ UNCHANGED disturbed
          /\ calls' = calls \cup {Call("refresh", t, pages[t].epoch, r.epoch, cookie)}
          /\ pages' = [pages EXCEPT ![t] = Moved(@, r, "sent")]
    BY <1>4 DEF PerformOwnRefresh
  <2>2. r.epoch \in Nat
    BY <1>2 DEF PageSet, FlightSet
  <2>3. LoginStep
    BY <1>1, <1>2, <1>3, <2>1, <2>2, CallSteps
  <2>4. PICK page : page = Moved(pages[t], r, "sent")
    OBVIOUS
  <2>5. PageGood(page)
    BY <1>2, <2>4, MovedGood
  <2>6. pages' = [pages EXCEPT ![t] = page] /\ lock' \in [id: Nat, fresh: BOOLEAN]
    BY <1>1, <1>2, <2>1, <2>4 DEF LoginPagesInv
  <2> QED
    BY <1>1, <1>2, <2>3, <2>5, <2>6, PageReplaced
<1>5. PICK epoch : epoch = clockTick + 1 /\ epoch \in Nat
  BY <1>1
<1>6. CASE Login(t)
  <2>1. /\ pages' = [pages EXCEPT ![t].epoch = epoch] /\ UNCHANGED <<disturbed, lock>>
        /\ calls' = calls \cup {Call("login", t, epoch, 0, account.password)} /\ pages[t].status = "anon"
    BY <1>5, <1>6 DEF Login
  <2>2. account.password \in Nat
    BY DEF LoginInv, LoginAccountInv
  <2>3. LoginStep
    BY <1>1, <1>2, <1>5, <2>1, <2>2, CallSteps
  <2>4. PICK page : page = [pages[t] EXCEPT !.epoch = epoch]
    OBVIOUS
  <2>5. PageGood(page)
    BY <1>2, <1>5, <2>1, <2>4 DEF PageGood, PageSet
  <2>6. pages' = [pages EXCEPT ![t] = page]
    BY <1>2, <2>1, <2>4 DEF LoginPagesInv
  <2> QED
    BY <1>1, <1>2, <2>1, <2>3, <2>5, <2>6, PageReplaced
<1>7. CASE Logout(t)
  <2>1. /\ pages' = [pages EXCEPT ![t].epoch = epoch, ![t].access = Nobody,
                                  ![t].status = "anon", ![t].rejected = TRUE]
        /\ calls' = calls \cup {Call("logout", t, epoch, 0, cookie)} /\ UNCHANGED <<disturbed, lock>>
    BY <1>5, <1>7 DEF Logout
  <2>2. LoginStep
    BY <1>1, <1>2, <1>3, <1>5, <2>1, CallSteps
  <2>3. PICK out : out = [pages[t] EXCEPT !.epoch = epoch, !.access = Nobody]
    OBVIOUS
  <2>4. out \in PageSet
    BY <1>2, <1>5, <2>3 DEF PageSet
  <2>5. PICK page : page = [out EXCEPT !.status = "anon", !.rejected = TRUE]
    OBVIOUS
  <2>6. PageGood(page)
    BY <2>4, <2>5 DEF PageGood, PageSet
  <2>7. pages' = [pages EXCEPT ![t] = page]
    BY <1>2, <2>1, <2>3, <2>5 DEF LoginPagesInv
  <2> QED
    BY <1>1, <1>2, <2>1, <2>2, <2>6, <2>7, PageReplaced
<1>8. CASE Reload(t)
  <2>1. /\ pages' = [pages EXCEPT ![t] = NewPage(epoch)] /\ lock' = lock
        /\ calls' = {c \in calls : c.tab # t}
    BY <1>5, <1>8 DEF Reload
  <2>2. /\ disturbed => disturbed'
        /\ ~disturbed' => \A c \in calls : c.tab # t
    BY <1>8, Zenon DEF Reload
  <2>3. LoginStep
    BY <1>1, <1>2, <2>1, <2>2, CallsOnlyLeave
  <2>4. PageGood(NewPage(epoch))
    BY <1>5 DEF NewPage, PageGood, PageSet
  <2> QED
    BY <1>1, <1>2, <2>1, <2>3, <2>4, PageReplaced
<1> QED
  BY <1>4, <1>6, <1>7, <1>8

LEMMA ReceivingSteps ==
    ASSUME LoginInv, NEW c \in calls,
           ReceiveRefresh(c) \/ ReceiveLogin(c) \/ ReceiveLogout(c) \/ LoseAnswer(c)
    PROVE  LoginStep /\ LoginPagesInv' /\ UNCHANGED <<account, mails, clockTick>>
<1>1. UNCHANGED <<account, mails, clockTick>>
  BY DEF ReceiveRefresh, ReceiveLogin, ReceiveLogout, LoseAnswer, storeVars
<1>2. /\ c \in LoginCallSet /\ c.tab \in BrowserTabs /\ c.epoch \in Nat /\ LoginPagesInv /\ LoginSafe
      /\ lock \in {Nobody} \cup [id: Nat, fresh: BOOLEAN]
  BY DEF LoginInv, LoginSafe, LoginCallsInv, LoginCallGood, LoginCallSet, LoginPagesInv
<1>3. LoginStep
  <2>1. CASE LoseAnswer(c)
    <3>1. UNCHANGED <<tokens, cookie, clockTick>> /\ disturbed' /\ calls' = calls \ {c}
      BY <2>1 DEF LoseAnswer, storeVars
    <3> QED
      BY <1>2, <3>1, CallsOnlyLeave
  <2> QED
    BY <1>2, <2>1, Receipts
<1>4. CASE ReceiveRefresh(c)
  <2>1. /\ lock' = Nobody
        /\ LET took == c.answer.ok /\ pages[c.tab].epoch = c.epoch
           IN  pages' = Heard([pages EXCEPT ![c.tab] = AfterRefresh(@, c)], c.id, took)
    BY <1>4 DEF ReceiveRefresh
  <2> QED
    BY <1>1, <1>2, <1>3, <2>1, PagesHear
<1>5. CASE LoseAnswer(c)
  <2>1. CASE c.kind = "refresh"
    <3>1. PICK d : d = [c EXCEPT !.answer = Refused(503)]
      OBVIOUS
    <3>2. /\ pages' = Heard([pages EXCEPT ![c.tab] = AfterRefresh(@, d)], c.id, FALSE)
          /\ lock' = Nobody
      BY <1>5, <2>1, <3>1 DEF LoseAnswer
    <3>3. d.epoch \in Nat
      BY <1>2, <3>1 DEF LoginCallSet
    <3> QED
      BY <1>1, <1>2, <1>3, <3>2, <3>3, PagesHear
  <2>2. CASE c.kind # "refresh"
    BY <1>1, <1>2, <1>3, <1>5, <2>2 DEF LoseAnswer, LoginPagesInv, PageGood
  <2> QED
    BY <2>1, <2>2
<1>6. CASE ReceiveLogin(c)
  <2>1. CASE c.answer.ok /\ pages[c.tab].epoch = c.epoch
    <3>1. PICK access : access = Access(c.epoch)
      OBVIOUS
    <3>2. access \in AccessSet /\ access.epoch = c.epoch
      BY <1>2, <3>1 DEF Access, AccessSet
    <3>3. PICK took : took = [pages[c.tab] EXCEPT !.access = access]
      OBVIOUS
    <3>4. took \in PageSet /\ took.access = access /\ took.epoch = c.epoch
      BY <1>2, <2>1, <3>2, <3>3, PageTyped DEF PageSet
    <3>5. PICK page : page = [took EXCEPT !.status = "authed", !.rejected = FALSE]
      OBVIOUS
    <3>6. PageGood(page)
      BY <3>2, <3>4, <3>5 DEF PageGood, PageSet
    <3>7. pages' = [pages EXCEPT ![c.tab] = page] /\ lock' = lock
      BY <1>2, <1>6, <2>1, <3>1, <3>3, <3>5 DEF ReceiveLogin, TakeToken, LoginPagesInv
    <3> QED
      BY <1>1, <1>2, <1>3, <3>6, <3>7, PageReplaced
  <2>2. CASE ~(c.answer.ok /\ pages[c.tab].epoch = c.epoch)
    BY <1>1, <1>2, <1>3, <1>6, <2>2 DEF ReceiveLogin, LoginPagesInv, PageGood
  <2> QED
    BY <2>1, <2>2
<1>7. CASE ReceiveLogout(c)
  BY <1>1, <1>2, <1>3, <1>7 DEF ReceiveLogout, LoginPagesInv, PageGood
<1> QED
  BY <1>4, <1>5, <1>6, <1>7

-----------------------------------------------------------------------------
(* All steps, and the theorems *)

\* A step that only a password reset makes otherwise.
ResetOnce == account'.password # account.password => account'.reset = Nobody /\ \A m \in mails : m <= account.reset

LEMMA AccountKept ==
    ASSUME LoginSafe, LoginAccountInv, UNCHANGED <<account, mails>>, UNCHANGED clockTick \/ Tick
    PROVE  LoginAccountInv' /\ ResetOnce
<1>1. clockTick \in Nat /\ clockTick' \in Nat /\ clockTick <= clockTick'
  BY DEF LoginSafe, LoginCallsInv, Tick
<1>2. \A m \in mails : m \in Nat /\ m <= clockTick'
  BY <1>1 DEF LoginAccountInv
<1> QED
  BY <1>2 DEF LoginAccountInv, ResetOnce

LEMMA PagesLeft == LoginPagesInv /\ UNCHANGED <<pages, lock>> => LoginPagesInv'
BY DEF LoginPagesInv, PageGood

LEMMA AccountSteps ==
    ASSUME LoginInv, RequestPasswordReset \/ \E token \in mails : ResetPassword(token)
    PROVE  LoginStep /\ LoginAccountInv' /\ ResetOnce /\ UNCHANGED <<pages, lock>>
<1>1. LoginSafe /\ LoginAccountInv /\ clockTick \in Nat /\ Nobody \notin Nat
  BY NobodyIsNone DEF LoginInv, LoginSafe, LoginCallsInv
<1>2. CASE RequestPasswordReset
  <2>1. /\ UNCHANGED <<tokens, cookie, calls, disturbed, pages, lock>> /\ Tick /\ clockTick' = clockTick + 1
        /\ account' = [account EXCEPT !.reset = clockTick + 1] /\ mails' = mails \cup {clockTick + 1}
    BY <1>2 DEF RequestPasswordReset, browserVars, Tick
  <2>2. LoginStep
    BY <1>1, <2>1, CallsOnlyLeave
  <2>3. account' \in [password: Nat, reset: Nat \cup {Nobody}] /\ account'.reset = clockTick + 1
    BY <1>1, <2>1 DEF LoginAccountInv
  <2>4. \A m \in mails' : m \in Nat /\ m <= clockTick + 1
    BY <1>1, <2>1 DEF LoginAccountInv
  <2>5. account'.password = account.password
    BY <1>1, <2>1 DEF LoginAccountInv
  <2> QED
    BY <2>1, <2>2, <2>3, <2>4, <2>5 DEF LoginAccountInv, ResetOnce
<1>3. CASE \E token \in mails : ResetPassword(token)
  <2>1. PICK token \in mails :
          /\ account.reset = token /\ account' = [password |-> account.password + 1, reset |-> Nobody]
          /\ UNCHANGED <<mails, clockTick, pages, lock>>
    BY <1>3 DEF ResetPassword, browserVars
  <2>2. LoginStep
    BY <1>1, <1>3, TokenSteps
  <2>3. account.reset # Nobody
    BY <1>1, <2>1 DEF LoginAccountInv
  <2>4. account' \in [password: Nat, reset: Nat \cup {Nobody}] /\ account'.reset = Nobody
    BY <1>1, <2>1 DEF LoginAccountInv
  <2> QED
    BY <1>1, <2>1, <2>2, <2>3, <2>4 DEF LoginAccountInv, ResetOnce
<1> QED
  BY <1>2, <1>3

LEMMA LoginSteps ==
    LoginInv /\ [LoginNext]_loginVars => LoginInv' /\ StoreKept /\ GrantsAreLive /\ ResetOnce
<1> SUFFICES ASSUME LoginInv, [LoginNext]_loginVars
             PROVE  LoginStep /\ LoginAccountInv' /\ LoginPagesInv' /\ ResetOnce
  BY DEF LoginInv, LoginStep
<1>1. LoginSafe /\ LoginAccountInv /\ LoginPagesInv
  BY DEF LoginInv
<1>2. CASE UNCHANGED loginVars
  <2>1. UNCHANGED <<tokens, account, mails, cookie, calls, lock, pages, disturbed, clockTick>>
    BY <1>2 DEF loginVars
  <2> QED
    BY <1>1, <2>1, CallsOnlyLeave, AccountKept, PagesLeft
<1>3. ASSUME NEW c \in calls,
             ServeRefresh(c) \/ ServeLogout(c) \/ CheckPassword(c) \/ IssueTokenPair(c) \/ RefuseCall(c)
      PROVE  LoginStep /\ LoginAccountInv' /\ LoginPagesInv' /\ ResetOnce
  <2>1. UNCHANGED <<account, mails, clockTick, pages, lock>>
    BY <1>3 DEF ServeRefresh, ServeLogout, CheckPassword, IssueTokenPair, RefuseCall, storeVars, browserVars
  <2> QED
    BY <1>1, <1>3, <2>1, ServerSteps, AccountKept, PagesLeft
<1>4. CASE RequestPasswordReset \/ \E token \in mails : ResetPassword(token)
  BY <1>1, <1>4, AccountSteps, PagesLeft
<1>5. CASE \E id \in DOMAIN tokens : GraceEnds(id) \/ TokenExpires(id)
  <2>1. UNCHANGED <<account, mails, clockTick, pages, lock>>
    BY <1>5 DEF GraceEnds, TokenExpires, browserVars
  <2> QED
    BY <1>1, <1>5, <2>1, TokenSteps, AccountKept, PagesLeft
<1>6. CASE \/ LockGoesStale
           \/ \E t \in BrowserTabs : RefreshOnce(t) \/ WaitTimesOut(t) \/ AccessExpires(t) \/ RetrySession(t)
  BY <1>1, <1>6, QuietSteps, AccountKept
<1>7. ASSUME NEW t \in BrowserTabs, PerformOwnRefresh(t) \/ Login(t) \/ Logout(t) \/ Reload(t)
      PROVE  LoginStep /\ LoginAccountInv' /\ LoginPagesInv' /\ ResetOnce
  BY <1>1, <1>7, SendingSteps, AccountKept
<1>8. ASSUME NEW c \in calls, ReceiveRefresh(c) \/ ReceiveLogin(c) \/ ReceiveLogout(c) \/ LoseAnswer(c)
      PROVE  LoginStep /\ LoginAccountInv' /\ LoginPagesInv' /\ ResetOnce
  BY <1>1, <1>8, ReceivingSteps, AccountKept
<1>9. CASE LoginNext
  <2>1. CASE ServerReplies \/ \E c \in calls : RefuseCall(c) \/ LoseAnswer(c)
    BY <1>3, <1>8, <2>1 DEF ServerReplies
  <2>2. ASSUME NEW t \in BrowserTabs,
               TabActs(t) \/ AccessExpires(t) \/ RetrySession(t) \/ Reload(t) \/ Login(t) \/ Logout(t)
        PROVE  LoginStep /\ LoginAccountInv' /\ LoginPagesInv' /\ ResetOnce
    BY <1>6, <1>7, <1>8, <2>2 DEF TabActs
  <2> QED
    BY <1>4, <1>5, <1>6, <1>9, <2>1, <2>2 DEF LoginNext
<1> QED
  BY <1>2, <1>9

LEMMA LoginStarts == LoginInit => LoginInv
<1> SUFFICES ASSUME LoginInit PROVE LoginInv
  OBVIOUS
<1>1. PICK one : one = <<1, 1>>
  OBVIOUS
<1>2. one \in TokenIds /\ one[1] = 1 /\ one[2] = 1 /\ one[2] >= 1
  BY <1>1 DEF TokenIds
<1>3. /\ DOMAIN tokens = {one} /\ tokens[one] = Fresh /\ tokens = [i \in DOMAIN tokens |-> tokens[i]]
      /\ cookie = one /\ calls = {} /\ clockTick = 0 /\ mails = {} /\ lock = Nobody
      /\ account = [password |-> 1, reset |-> Nobody] /\ pages = [t \in BrowserTabs |-> NewPage(0)]
  BY <1>1 DEF LoginInit
<1>4. Fresh \in TokenSet /\ Fresh.status = "live"
  BY DEF Fresh, TokenSet
<1>5. Families = 1..1
  BY <1>2, <1>3 DEF Families
<1>6. LoginStoreInv
  <2>1. OneLiveTokenPerLogin
    BY <1>2, <1>3 DEF OneLiveTokenPerLogin
  <2>2. "live" \notin Ending
    BY DEF Ending
  <2> QED
    BY <1>2, <1>3, <1>4, <1>5, <2>1, <2>2 DEF LoginStoreInv
<1>7. LoginCallsInv /\ CookieGood
  BY <1>3 DEF LoginCallsInv, CookieGood
<1>8. AlarmInv
  BY <1>3, <1>4 DEF AlarmInv, NoFalseAlarm, Rotated
<1>9. LoginAccountInv
  BY <1>3 DEF LoginAccountInv
<1>10. LoginPagesInv
  <2>1. PageGood(NewPage(0))
    BY DEF NewPage, PageGood, PageSet
  <2> QED
    BY <1>3, <2>1 DEF LoginPagesInv
<1> QED
  BY <1>6, <1>7, <1>8, <1>9, <1>10 DEF LoginInv, LoginSafe

LEMMA LoginInvHolds == LoginSpec => []LoginInv
<1>1. LoginInv /\ [LoginNext]_loginVars => LoginInv'
  BY LoginSteps
<1> QED
  BY <1>1, LoginStarts, PTL DEF LoginSpec

\* Stored tokens have a known state, the cookie names one of them, and calls are told
\* apart (auth.service.ts, auth-context.tsx).
THEOREM LoginTyped == LoginSpec => []LoginTypeOK
<1>1. LoginInv => LoginTypeOK
  <2> SUFFICES ASSUME LoginInv PROVE LoginTypeOK
    OBVIOUS
  <2>1. \A i \in DOMAIN tokens : tokens[i].status \in {"live", "rotation"} \cup Ending
    BY DEF LoginInv, LoginSafe, LoginStoreInv, TokenSet
  <2>2. \A t \in BrowserTabs : pages[t].status \in {"loading", "authed", "anon", "error"}
    BY DEF LoginInv, LoginPagesInv, PageGood, PageSet
  <2> QED
    BY <2>1, <2>2 DEF LoginInv, LoginSafe, LoginCallsInv, CookieGood, LoginTypeOK
<1> QED
  BY <1>1, LoginInvHolds, PTL

\* Of a login at most one token can still be rotated, its newest, however many tabs
\* refresh at once: a rotation takes its token out of use in the transaction that adds
\* the child (refreshTransaction).
THEOREM OneLiveToken == LoginSpec => []OneLiveTokenPerLogin
<1>1. LoginInv => OneLiveTokenPerLogin
  BY DEF LoginInv, LoginSafe, LoginStoreInv
<1> QED
  BY <1>1, LoginInvHolds, PTL

\* A login ended by a logout, a password reset or reuse has no live token afterwards,
\* and no answer given then brings one of its tokens (revoke, refreshTransaction).
THEOREM EndedStaysEnded == LoginSpec => EndedLoginsStayEnded
<1>1. LoginInv /\ [LoginNext]_loginVars =>
        [\A i \in DOMAIN tokens : tokens[i].status \in Ending =>
            \A j \in DOMAIN tokens' : j[1] = i[1] =>
               /\ tokens'[j].status # "live"
               /\ \A c \in calls' : (c \notin calls /\ c.answer # Nobody /\ c.answer.ok)
                                       => c.answer.token # j]_loginVars
  <2> SUFFICES ASSUME LoginInv, [LoginNext]_loginVars,
                      NEW i \in DOMAIN tokens, tokens[i].status \in Ending,
                      NEW j \in DOMAIN tokens', j[1] = i[1]
               PROVE  /\ tokens'[j].status # "live"
                      /\ \A c \in calls' : (c \notin calls /\ c.answer # Nobody /\ c.answer.ok)
                                              => c.answer.token # j
    OBVIOUS
  <2>1. StoreKept /\ GrantsAreLive
    BY LoginSteps
  <2>2. i \in DOMAIN tokens' /\ tokens'[i].status \in Ending
    BY <2>1 DEF StoreKept, Ending
  <2>3. tokens'[j].status # "live"
    BY <2>1, <2>2 DEF StoreKept, LoginStoreInv
  <2> QED
    BY <2>1, <2>3 DEF GrantsAreLive, Succeeded
<1> QED
  BY <1>1, LoginInvHolds, PTL DEF LoginSpec, EndedLoginsStayEnded

\* Racing tabs are never taken for theft: a login is revoked for reuse only once an
\* answer was lost, overtaken or slower than the ten seconds of grace.
THEOREM NoAlarmWithoutCause == LoginSpec => []NoFalseAlarm
<1>1. LoginInv => NoFalseAlarm
  BY DEF LoginInv, LoginSafe, AlarmInv
<1> QED
  BY <1>1, LoginInvHolds, PTL

\* A late answer never gives a signed-in tab the token of an earlier login
\* (setAccessTokenForEpoch).
THEOREM NoLateToken == LoginSpec => []TokenOfThisLogin
<1>1. LoginInv => TokenOfThisLogin
  BY DEF LoginInv, LoginPagesInv, PageGood, TokenOfThisLogin
<1> QED
  BY <1>1, LoginInvHolds, PTL

\* A tab is signed out by the user or by a definitive rejection alone (auth-context.tsx).
THEOREM SignedOutForCause == LoginSpec => []OnlyRejectionSignsOut
<1>1. LoginInv => OnlyRejectionSignsOut
  BY DEF LoginInv, LoginPagesInv, PageGood, OnlyRejectionSignsOut
<1> QED
  BY <1>1, LoginInvHolds, PTL

\* A reset token works once, and not after a newer one was sent (resetPasswordTransaction).
THEOREM ResetWorksOnce == LoginSpec => ResetTokenWorksOnce
<1>1. LoginInv /\ [LoginNext]_loginVars =>
        [account'.password # account.password =>
            account'.reset = Nobody /\ \A m \in mails : m <= account.reset]_loginVars
  BY LoginSteps DEF ResetOnce
<1> QED
  BY <1>1, LoginInvHolds, PTL DEF LoginSpec, ResetTokenWorksOnce

-----------------------------------------------------------------------------
(* The rows of the credit ledger add up *)

RowKeys == {"checkout", "charge"} \X Nat
RowSet == [key: RowKeys, amount: Int, after: Int]

IsRowFold(g, rows, S) ==
    g = [s \in SUBSET S |-> IF s = {} THEN OpeningCredits ELSE g[s \ {Max(s)}] + rows[Max(s)].amount]
RowFold(rows, S) == CHOOSE g : IsRowFold(g, rows, S)

LEMMA RowsAreFolded == \A rows : Total(rows) = RowFold(rows, DOMAIN rows)[DOMAIN rows]
BY DEF Total, FoldLeft, MapThenFoldSet, RowFold, IsRowFold

LEMMA RowFoldSteps ==
    ASSUME NEW rows, NEW n \in Nat
    PROVE  /\ RowFold(rows, 1..n)[{}] = OpeningCredits
           /\ \A k \in 1..n : RowFold(rows, 1..n)[1..k] = RowFold(rows, 1..n)[1..(k - 1)] + rows[k].amount
<1>1. \A g : IsRowFold(g, rows, 1..n) <=> IsFold(g, "rows", rows, None, OpeningCredits, n)
  BY DEF IsRowFold, IsFold, Step
<1>2. \E g : IsRowFold(g, rows, 1..n)
  BY <1>1, FoldExists
<1>3. PICK g : g = RowFold(rows, 1..n)
  OBVIOUS
<1>4. IsRowFold(g, rows, 1..n)
  BY <1>2, <1>3 DEF RowFold
<1>5. /\ g[{}] = OpeningCredits
      /\ \A k \in 1..n : g[1..k] = Step("rows", rows, None, g[1..(k - 1)], k)
  BY <1>1, <1>4, FoldSteps
<1> QED
  BY <1>3, <1>5 DEF Step

\* A row adds its amount to the total.
LEMMA TotalOfRows ==
    /\ Total(<<>>) = OpeningCredits
    /\ \A rows \in Seq(RowSet), x \in RowSet : Total(Append(rows, x)) = Total(rows) + x.amount
<1>1. Total(<<>>) = OpeningCredits
  <2>1. DOMAIN <<>> = 1..0 /\ 1..0 = {}
    OBVIOUS
  <2> QED
    BY <2>1, RowsAreFolded, RowFoldSteps
<1>2. ASSUME NEW rows \in Seq(RowSet), NEW x \in RowSet
      PROVE  Total(Append(rows, x)) = Total(rows) + x.amount
  <2>1. PICK n \in Nat : n = Len(rows)
    OBVIOUS
  <2>2. PICK more : more = Append(rows, x)
    OBVIOUS
  <2>3. /\ DOMAIN rows = 1..n /\ DOMAIN more = 1..(n + 1) /\ more[n + 1] = x
        /\ \A k \in 1..n : more[k] = rows[k]
    BY <2>1, <2>2
  <2>4. PICK f, g : f = RowFold(rows, 1..n) /\ g = RowFold(more, 1..(n + 1))
    OBVIOUS
  <2>5. f[{}] = OpeningCredits /\ \A k \in 1..n : f[1..k] = f[1..(k - 1)] + rows[k].amount
    BY <2>4, RowFoldSteps
  <2>6. /\ g[{}] = OpeningCredits
        /\ \A k \in 1..(n + 1) : g[1..k] = g[1..(k - 1)] + more[k].amount
    BY <2>4, RowFoldSteps
  <2> DEFINE F == {k \in 0..n : f[1..k] # g[1..k]}
  <2>7. F = {}
    <3>1. SUFFICES ASSUME F # {} PROVE FALSE
      OBVIOUS
    <3>2. PICK k \in F : \A j \in F : k <= j
      <4>1. F \subseteq Nat
        OBVIOUS
      <4> HIDE DEF F
      <4> QED
        BY <3>1, <4>1, LeastNatural
    <3>3. k \in 0..n /\ f[1..k] # g[1..k]
      BY <3>2
    <3>4. k # 0
      <4>1. 1..0 = {}
        OBVIOUS
      <4> QED
        BY <2>5, <2>6, <3>3, <4>1
    <3>5. k - 1 \in 0..n /\ k \in 1..n /\ k \in 1..(n + 1) /\ k - 1 < k
      BY <3>3, <3>4
    <3>6. k - 1 \notin F
      BY <3>2, <3>5
    <3>7. f[1..(k - 1)] = g[1..(k - 1)]
      BY <3>5, <3>6
    <3> QED
      BY <2>3, <2>5, <2>6, <3>3, <3>5, <3>7
  <2>8. f[1..n] = g[1..n]
    <3>1. n \in 0..n
      OBVIOUS
    <3> QED
      BY <2>7, <3>1
  <2>9. g[1..(n + 1)] = f[1..n] + x.amount
    <3>1. n + 1 \in 1..(n + 1) /\ (n + 1) - 1 = n
      OBVIOUS
    <3> QED
      BY <2>3, <2>6, <2>8, <3>1
  <2> QED
    BY <2>2, <2>3, <2>4, <2>9, RowsAreFolded
<1> QED
  BY <1>1, <1>2
-----------------------------------------------------------------------------
(* A paid session is granted once, and the balance is what the rows say *)

CheckoutSet == [pkg: DOMAIN Packages, price: Nat, state: {"open", "paid", "unpaid"}, acked: BOOLEAN]
PurchaseWorkerSet ==
    [id: Nat, session: Nat, key: RowKeys, amount: Int, stage: {"verify", "lookup", "update", "insert"}]
OpenSet == [worker: Nat, balance: Nat]
PollSet == [id: Nat, answer: {Closed} \cup [credited: BOOLEAN, granted: Int, balance: Nat]]
SuccessSet ==
    [session: Nat, kind: {"away", "pending", "credited", "timeout", "error"}, shown: Int,
     timing: BOOLEAN, late: BOOLEAN, polls: SUBSET PollSet]
PaidFor(s) == s \in DOMAIN checkouts /\ checkouts[s].state = "paid"

StripeGood == checkouts \in Seq(CheckoutSet) /\ price \in Nat /\ purchaseBudget \in PurchaseBudgetSet

\* Keys are unique, and a grant is of a paid session.
RowsGood ==
    /\ balance \in Nat /\ ledger \in Seq(RowSet)
    /\ \A i, j \in DOMAIN ledger : ledger[i].key = ledger[j].key => i = j
    /\ \A i \in DOMAIN ledger : ledger[i].key[1] = "checkout" => PaidFor(ledger[i].key[2])

\* A delivery past its verification is of a paid session.  The row is locked by the one
\* worker that is about to insert, with the balance its row will lead to.
PurchaseWorkerGood(w) ==
    /\ w \in PurchaseWorkerSet
    /\ IF w.session > 0
       THEN /\ w.key = GrantKey(w.session) /\ w.session \in DOMAIN checkouts
            /\ w.stage # "verify" => PaidFor(w.session)
       ELSE w.key[1] = "charge" /\ w.stage \in {"update", "insert"}
RowLocked ==
    /\ open \in {Closed} \cup OpenSet
    /\ open # Closed => \E w \in workers : /\ w.stage = "insert" /\ w.id = open.worker
                                           /\ open.balance = balance + w.amount
    /\ \A w \in workers : w.stage = "insert" => open # Closed /\ open.worker = w.id
PurchaseWorkersInv ==
    /\ IsFiniteSet(workers) /\ \A w \in workers : PurchaseWorkerGood(w)
    /\ \A v, w \in workers : v.id = w.id => v = w
    /\ RowLocked

\* What an answer on its way confirms is on the ledger.
SuccessInv ==
    /\ success \in SuccessSet /\ IsFiniteSet(success.polls)
    /\ ConfirmedIsGranted
    /\ \A p \in success.polls : p.answer # Closed /\ p.answer.credited =>
          \E i \in RowsOf(GrantKey(success.session)) : ledger[i].amount = p.answer.granted

PurchaseInv == StripeGood /\ RowsGood /\ LedgerExplainsBalance /\ PurchaseWorkersInv /\ SuccessInv

LEMMA UnusedIsFree ==
    ASSUME NEW S, IsFiniteSet(S)
    PROVE  Unused(S) \in Nat /\ \A x \in S : x.id # Unused(S)
<1>1. PICK n : n = Cardinality(S) /\ n \in Nat
  BY FS_CardinalityType
<1>2. PICK f : f = [x \in S |-> x.id]
  OBVIOUS
<1>3. PICK ids : ids = {f[x] : x \in S}
  OBVIOUS
<1>4. IsFiniteSet(ids) /\ Cardinality(ids) <= n
  <2>1. f \in Surjection(S, ids)
    BY <1>2, <1>3 DEF Surjection
  <2> QED
    BY <1>1, <2>1, FS_Surjection
<1>5. \E k \in 1..(n + 1) : k \notin ids
  <2>1. SUFFICES ASSUME 1..(n + 1) \subseteq ids PROVE FALSE
    OBVIOUS
  <2>2. Cardinality(1..(n + 1)) <= Cardinality(ids)
    BY <1>4, <2>1, FS_Subset
  <2>3. Cardinality(1..(n + 1)) = n + 1
    BY <1>1, FS_Interval
  <2>4. Cardinality(ids) \in Nat
    BY <1>4, FS_CardinalityType
  <2> QED
    BY <1>1, <1>4, <2>2, <2>3, <2>4
<1>6. \E k \in 1..(n + 1) : \A x \in S : x.id # k
  BY <1>2, <1>3, <1>5
<1>7. Unused(S) \in 1..(n + 1) /\ \A x \in S : x.id # Unused(S)
  BY <1>1, <1>6 DEF Unused
<1> QED
  BY <1>1, <1>7

\* What Stripe knows only grows, and what was paid stays paid.
SessionsKept == \A s \in DOMAIN checkouts : s \in DOMAIN checkouts' /\ (PaidFor(s) => PaidFor(s)')

LEMMA WorkerKept ==
    ASSUME SessionsKept, NEW w, PurchaseWorkerGood(w) PROVE PurchaseWorkerGood(w)'
BY DEF SessionsKept, PurchaseWorkerGood, PaidFor

LEMMA RowsKept ==
    ASSUME RowsGood, LedgerExplainsBalance, SessionsKept, UNCHANGED <<balance, ledger>>
    PROVE  RowsGood' /\ LedgerExplainsBalance'
<1>1. \A s : PaidFor(s) => PaidFor(s)'
  BY DEF SessionsKept, PaidFor
<1>2. LedgerExplainsBalance'
  BY DEF LedgerExplainsBalance
<1> QED
  BY <1>1, <1>2 DEF RowsGood

LEMMA SuccessKept ==
    ASSUME SuccessInv, UNCHANGED success,
           \A i \in DOMAIN ledger : i \in DOMAIN ledger' /\ ledger'[i] = ledger[i]
    PROVE  SuccessInv'
BY DEF SuccessInv, ConfirmedIsGranted, RowsOf

LEMMA SessionChanged ==
    ASSUME StripeGood, NEW s \in DOMAIN checkouts, NEW c \in CheckoutSet, c.state = checkouts[s].state \/ checkouts[s].state = "open",
           checkouts' = [checkouts EXCEPT ![s] = c]
    PROVE  checkouts' \in Seq(CheckoutSet) /\ SessionsKept
<1>1. checkouts' \in Seq(CheckoutSet) /\ DOMAIN checkouts' = DOMAIN checkouts
  BY DEF StripeGood
<1>2. \A x \in DOMAIN checkouts : checkouts'[x] = IF x = s THEN c ELSE checkouts[x]
  OBVIOUS
<1> QED
  BY <1>1, <1>2 DEF SessionsKept, PaidFor

LEMMA SessionsSame == StripeGood /\ UNCHANGED checkouts => SessionsKept
BY DEF SessionsKept, PaidFor

LEMMA WorkerLeaves ==
    ASSUME PurchaseWorkersInv, SessionsKept, NEW w \in workers, workers' = workers \ {w},
           \/ w.stage # "insert" /\ UNCHANGED <<open, balance>>
           \/ w.stage = "insert" /\ open' = Closed
    PROVE  PurchaseWorkersInv'
<1>1. IsFiniteSet(workers')
  BY FS_RemoveElement DEF PurchaseWorkersInv
<1>2. \A v \in workers' : PurchaseWorkerGood(v)'
  BY WorkerKept DEF PurchaseWorkersInv
<1>3. RowLocked'
  BY DEF PurchaseWorkersInv, RowLocked
<1> QED
  BY <1>1, <1>2, <1>3 DEF PurchaseWorkersInv

LEMMA WorkerMoves ==
    ASSUME PurchaseWorkersInv, SessionsKept, NEW w \in workers, NEW stage \in {"lookup", "update", "insert"},
           Became(w, stage), w.stage = "verify" => PaidFor(w.session), stage = "lookup" => w.session > 0,
           UNCHANGED balance,
           \/ w.stage # "insert" /\ stage # "insert" /\ UNCHANGED open
           \/ w.stage = "insert" /\ stage # "insert" /\ open' = Closed
           \/ /\ w.stage # "insert" /\ stage = "insert" /\ open = Closed /\ open' \in OpenSet
              /\ open'.worker = w.id /\ open'.balance = balance + w.amount
    PROVE  PurchaseWorkersInv'
<1>1. PICK d : d = [w EXCEPT !.stage = stage]
  OBVIOUS
<1>2. workers' = (workers \ {w}) \cup {d}
  BY <1>1 DEF Became
<1>3. PurchaseWorkerGood(w) /\ w \in PurchaseWorkerSet
  BY DEF PurchaseWorkersInv, PurchaseWorkerGood
<1>4. /\ d \in PurchaseWorkerSet /\ d.stage = stage /\ d.id = w.id /\ d.session = w.session
      /\ d.key = w.key /\ d.amount = w.amount
  BY <1>1, <1>3 DEF PurchaseWorkerSet
<1>5. PurchaseWorkerGood(d)
  BY <1>3, <1>4 DEF PurchaseWorkerGood
<1>6. IsFiniteSet(workers')
  BY <1>2, FS_RemoveElement, FS_AddElement DEF PurchaseWorkersInv
<1>7. \A v \in workers' : PurchaseWorkerGood(v)'
  BY <1>2, <1>5, WorkerKept DEF PurchaseWorkersInv
<1>8. \A u, v \in workers' : u.id = v.id => u = v
  BY <1>2, <1>4 DEF PurchaseWorkersInv
<1>9. Closed \notin OpenSet
  BY PurchaseAssumption DEF OpenSet
<1>10. RowLocked'
  <2>1. CASE w.stage # "insert" /\ stage # "insert" /\ UNCHANGED open
    BY <1>2, <1>4, <2>1 DEF PurchaseWorkersInv, RowLocked
  <2>2. CASE w.stage = "insert" /\ stage # "insert" /\ open' = Closed
    BY <1>2, <1>4, <2>2 DEF PurchaseWorkersInv, RowLocked
  <2>3. CASE /\ w.stage # "insert" /\ stage = "insert" /\ open = Closed /\ open' \in OpenSet
             /\ open'.worker = w.id /\ open'.balance = balance + w.amount
    <3>1. \A v \in workers : v.stage # "insert"
      BY <2>3 DEF PurchaseWorkersInv, RowLocked
    <3> QED
      BY <1>2, <1>4, <1>9, <2>3, <3>1 DEF RowLocked
  <2> QED
    BY <2>1, <2>2, <2>3
<1> QED
  BY <1>6, <1>7, <1>8, <1>10 DEF PurchaseWorkersInv

LEMMA WorkerArrives ==
    ASSUME PurchaseWorkersInv, UNCHANGED <<checkouts, open, balance>>, NEW w, w.id = Unused(workers),
           w.id \in Nat => PurchaseWorkerGood(w), w.stage # "insert", workers' = workers \cup {w}
    PROVE  PurchaseWorkersInv'
<1>1. w.id \in Nat /\ \A v \in workers : v.id # w.id
  BY UnusedIsFree DEF PurchaseWorkersInv
<1>2. IsFiniteSet(workers')
  BY FS_AddElement DEF PurchaseWorkersInv
<1>3. \A v \in workers' : PurchaseWorkerGood(v)'
  BY <1>1 DEF PurchaseWorkersInv, PurchaseWorkerGood, PaidFor
<1>4. \A u, v \in workers' : u.id = v.id => u = v
  BY <1>1 DEF PurchaseWorkersInv
<1>5. RowLocked'
  BY DEF PurchaseWorkersInv, RowLocked
<1> QED
  BY <1>2, <1>3, <1>4, <1>5 DEF PurchaseWorkersInv

LEMMA WorkersStay ==
    ASSUME PurchaseWorkersInv, SessionsKept, UNCHANGED <<workers, open, balance>>
    PROVE  PurchaseWorkersInv'
<1>1. \A v \in workers' : PurchaseWorkerGood(v)'
  BY WorkerKept DEF PurchaseWorkersInv
<1>2. RowLocked'
  BY DEF PurchaseWorkersInv, RowLocked
<1> QED
  BY <1>1, <1>2 DEF PurchaseWorkersInv

LEMMA PurchaseBudgetKept ==
    ASSUME purchaseBudget \in PurchaseBudgetSet,
           NEW what \in {"sessions", "charges", "repeats", "crashes", "reprices", "polls"}, SpendPurchase(what)
    PROVE  purchaseBudget' \in PurchaseBudgetSet
BY DEF SpendPurchase, PurchaseBudgetSet

LEMMA PurchaseInvInit == PurchaseInit => PurchaseInv
<1> SUFFICES ASSUME PurchaseInit PROVE PurchaseInv
  OBVIOUS
<1> USE DEF PurchaseInit
<1>1. StripeGood
  BY PurchaseAssumption DEF StripeGood
<1>2. RowsGood
  BY PurchaseAssumption DEF RowsGood
<1>3. LedgerExplainsBalance
  BY TotalOfRows DEF LedgerExplainsBalance
<1>4. PurchaseWorkersInv
  BY FS_EmptySet DEF PurchaseWorkersInv, RowLocked
<1>5. SuccessInv
  BY FS_EmptySet DEF SuccessInv, SuccessSet, Away, ConfirmedIsGranted
<1> QED
  BY <1>1, <1>2, <1>3, <1>4, <1>5 DEF PurchaseInv

\* The success page's own steps, but for its answers, touch nothing else.
LEMMA PageKeeps ==
    ASSUME PurchaseInv, UNCHANGED <<accountVars, stripeVars, workers>>,
           purchaseBudget' \in PurchaseBudgetSet, SuccessInv'
    PROVE  PurchaseInv'
<1>1. UNCHANGED <<balance, ledger, open, price, checkouts, workers>>
  BY DEF accountVars, stripeVars
<1>2. SessionsKept
  BY <1>1, SessionsSame DEF PurchaseInv
<1>3. StripeGood'
  BY <1>1 DEF PurchaseInv, StripeGood
<1>4. RowsGood' /\ LedgerExplainsBalance'
  BY <1>1, <1>2, RowsKept DEF PurchaseInv
<1>5. PurchaseWorkersInv'
  BY <1>1, <1>2, WorkersStay DEF PurchaseInv
<1> QED
  BY <1>3, <1>4, <1>5 DEF PurchaseInv

LEMMA PollKeeps ==
    ASSUME PurchaseInv, Poll PROVE PurchaseInv'
<1>1. PICK p : p = [id |-> Unused(success.polls), answer |-> Closed]
  OBVIOUS
<1>2. PICK more : more = success.polls \cup {p}
  OBVIOUS
<1>3. success \in SuccessSet /\ IsFiniteSet(success.polls)
  BY DEF PurchaseInv, SuccessInv
<1>4. p \in PollSet
  BY <1>1, <1>3, UnusedIsFree DEF PollSet
<1>5. success' = [success EXCEPT !.polls = more]
  BY <1>1, <1>2 DEF Poll
<1>6. /\ success' \in SuccessSet /\ success'.polls = more /\ success'.kind = success.kind
      /\ success'.session = success.session /\ success'.shown = success.shown
  BY <1>2, <1>3, <1>4, <1>5 DEF SuccessSet
<1>7. UNCHANGED ledger /\ purchaseBudget' \in PurchaseBudgetSet
  BY PurchaseBudgetKept DEF Poll, accountVars, PurchaseInv, StripeGood
<1>8. SuccessInv'
  <2>1. IsFiniteSet(more)
    BY <1>2, <1>3, FS_AddElement
  <2> QED
    BY <1>1, <1>2, <1>6, <1>7, <2>1 DEF PurchaseInv, SuccessInv, ConfirmedIsGranted, RowsOf
<1> QED
  BY <1>7, <1>8, PageKeeps DEF Poll

LEMMA ServePollKeeps ==
    ASSUME PurchaseInv, NEW p \in success.polls, ServePoll(p) PROVE PurchaseInv'
<1>1. PICK a : a = GetCheckoutStatus(success.session)
  OBVIOUS
<1>2. PICK q : q = [p EXCEPT !.answer = a]
  OBVIOUS
<1>3. PICK more : more = (success.polls \ {p}) \cup {q}
  OBVIOUS
<1>4. /\ success \in SuccessSet /\ IsFiniteSet(success.polls) /\ p \in PollSet
      /\ ledger \in Seq(RowSet) /\ balance \in Nat
  BY DEF PurchaseInv, SuccessInv, SuccessSet, RowsGood
<1>5. /\ a \in [credited: BOOLEAN, granted: Int, balance: Nat]
      /\ a.credited => \E i \in RowsOf(GrantKey(success.session)) : ledger[i].amount = a.granted
  <2>1. CASE RowsOf(GrantKey(success.session)) # {}
    <3>1. PICK i : i = CHOOSE j \in RowsOf(GrantKey(success.session)) : TRUE
      OBVIOUS
    <3>2. i \in RowsOf(GrantKey(success.session)) /\ i \in DOMAIN ledger
      BY <2>1, <3>1 DEF RowsOf
    <3>3. ledger[i].amount \in Int
      <4>1. ledger[i] \in RowSet
        BY <1>4, <3>2
      <4> QED
        BY <4>1 DEF RowSet
    <3>4. a = [credited |-> TRUE, granted |-> ledger[i].amount, balance |-> balance]
      BY <1>1, <2>1, <3>1 DEF GetCheckoutStatus
    <3> QED
      BY <1>4, <3>2, <3>3, <3>4
  <2>2. CASE RowsOf(GrantKey(success.session)) = {}
    BY <1>1, <2>2 DEF GetCheckoutStatus
  <2> QED
    BY <2>1, <2>2
<1>6. q \in PollSet /\ q.answer = a
  BY <1>2, <1>4, <1>5 DEF PollSet
<1>7. success' = [success EXCEPT !.polls = more]
  BY <1>1, <1>2, <1>3 DEF ServePoll
<1>8. /\ success' \in SuccessSet /\ success'.polls = more /\ success'.kind = success.kind
      /\ success'.session = success.session /\ success'.shown = success.shown
  BY <1>3, <1>4, <1>6, <1>7 DEF SuccessSet
<1>9. UNCHANGED ledger /\ purchaseBudget' \in PurchaseBudgetSet
  BY DEF ServePoll, accountVars, PurchaseInv, StripeGood
<1>10. SuccessInv'
  <2>1. IsFiniteSet(more)
    BY <1>3, <1>4, FS_AddElement, FS_RemoveElement
  <2> QED
    BY <1>3, <1>5, <1>6, <1>8, <1>9, <2>1 DEF PurchaseInv, SuccessInv, ConfirmedIsGranted, RowsOf
<1> QED
  BY <1>9, <1>10, PageKeeps DEF ServePoll

LEMMA PollAnsweredKeeps ==
    ASSUME PurchaseInv, NEW p \in success.polls, PollAnswered(p) PROVE PurchaseInv'
<1>1. PICK less : less = success.polls \ {p}
  OBVIOUS
<1>2. PICK page : page = [success EXCEPT !.polls = less]
  OBVIOUS
<1>3. /\ success \in SuccessSet /\ IsFiniteSet(less) /\ p \in PollSet /\ p.answer # Closed
  BY <1>1, FS_RemoveElement DEF PollAnswered, PurchaseInv, SuccessInv, SuccessSet
<1>4. /\ page \in SuccessSet /\ page.polls = less /\ page.session = success.session
      /\ page.kind = success.kind /\ page.shown = success.shown
  BY <1>1, <1>2, <1>3 DEF SuccessSet
<1>5. success' = IF p.answer.credited
                 THEN [page EXCEPT !.kind = "credited", !.shown = p.answer.granted, !.timing = FALSE]
                 ELSE StillPending(page)
  BY <1>1, <1>2 DEF PollAnswered
<1>6. UNCHANGED ledger /\ purchaseBudget' \in PurchaseBudgetSet
  BY DEF PollAnswered, accountVars, PurchaseInv, StripeGood
<1>7. \A q \in less : q.answer # Closed /\ q.answer.credited =>
          \E i \in RowsOf(GrantKey(success.session)) : ledger[i].amount = q.answer.granted
  BY <1>1 DEF PurchaseInv, SuccessInv
<1>8. /\ success' \in SuccessSet /\ success'.polls = less /\ success'.session = success.session
      /\ success'.kind = "credited" =>
            \E i \in RowsOf(GrantKey(success.session)) : ledger[i].amount = success'.shown
  <2>1. CASE p.answer.credited
    <3>1. PICK g : g = p.answer.granted
      OBVIOUS
    <3>2. g \in Int
      BY <1>3, <3>1 DEF PollSet
    <3>3. success' = [page EXCEPT !.kind = "credited", !.shown = g, !.timing = FALSE]
      BY <1>5, <2>1, <3>1
    <3>4. /\ success' \in SuccessSet /\ success'.polls = less /\ success'.session = success.session
          /\ success'.shown = g
      BY <1>4, <3>2, <3>3 DEF SuccessSet
    <3>5. \E i \in RowsOf(GrantKey(success.session)) : ledger[i].amount = g
      BY <1>3, <2>1, <3>1 DEF PurchaseInv, SuccessInv
    <3> QED
      BY <3>4, <3>5
  <2>2. CASE ~p.answer.credited
    <3>1. success' = IF page.late THEN [page EXCEPT !.kind = "timeout", !.timing = FALSE]
                     ELSE [page EXCEPT !.kind = "pending"]
      BY <1>5, <2>2 DEF StillPending
    <3> QED
      BY <1>4, <3>1 DEF SuccessSet
  <2> QED
    BY <2>1, <2>2
<1>9. SuccessInv'
  BY <1>3, <1>6, <1>7, <1>8 DEF SuccessInv, ConfirmedIsGranted, RowsOf
<1> QED
  BY <1>6, <1>9, PageKeeps DEF PollAnswered

LEMMA PageRestKeeps ==
    ASSUME PurchaseInv,
           (\E p \in success.polls : PollFails(p)) \/ DeadlinePasses \/ CheckAgain
    PROVE  PurchaseInv'
<1>1. success \in SuccessSet /\ IsFiniteSet(success.polls)
  BY DEF PurchaseInv, SuccessInv
<1>2. CASE \E p \in success.polls : PollFails(p)
  <2>1. PICK p \in success.polls : PollFails(p)
    BY <1>2
  <2>2. PICK less : less = success.polls \ {p} /\ IsFiniteSet(less)
    BY <1>1, FS_RemoveElement
  <2>3. success' = [success EXCEPT !.polls = less, !.kind = "error", !.timing = FALSE]
    BY <2>1, <2>2 DEF PollFails
  <2>4. /\ success' \in SuccessSet /\ success'.polls = less /\ success'.kind = "error"
        /\ success'.session = success.session
    BY <1>1, <2>2, <2>3 DEF SuccessSet
  <2>5. UNCHANGED ledger /\ purchaseBudget' \in PurchaseBudgetSet
    BY <2>1, PurchaseBudgetKept DEF PollFails, accountVars, PurchaseInv, StripeGood
  <2>6. SuccessInv'
    BY <2>2, <2>4, <2>5 DEF PurchaseInv, SuccessInv, ConfirmedIsGranted, RowsOf
  <2> QED
    BY <2>1, <2>5, <2>6, PageKeeps DEF PollFails
<1>3. CASE DeadlinePasses
  <2>1. /\ success' \in SuccessSet /\ success'.polls = success.polls /\ success'.kind = success.kind
        /\ success'.session = success.session /\ success'.shown = success.shown
    BY <1>1, <1>3 DEF DeadlinePasses, SuccessSet
  <2>2. UNCHANGED ledger /\ purchaseBudget' \in PurchaseBudgetSet
    BY <1>3 DEF DeadlinePasses, accountVars, PurchaseInv, StripeGood
  <2>3. SuccessInv'
    BY <2>1, <2>2 DEF PurchaseInv, SuccessInv, ConfirmedIsGranted, RowsOf
  <2> QED
    BY <1>3, <2>2, <2>3, PageKeeps DEF DeadlinePasses
<1>4. CASE CheckAgain
  <2>1. /\ success' \in SuccessSet /\ success'.polls = {} /\ success'.kind = success.kind
        /\ success'.session = success.session /\ success'.shown = success.shown
    BY <1>1, <1>4 DEF CheckAgain, SuccessSet
  <2>2. UNCHANGED ledger /\ purchaseBudget' \in PurchaseBudgetSet
    BY <1>4, PurchaseBudgetKept DEF CheckAgain, accountVars, PurchaseInv, StripeGood
  <2>3. SuccessInv'
    BY <2>1, <2>2, FS_EmptySet DEF PurchaseInv, SuccessInv, ConfirmedIsGranted, RowsOf
  <2> QED
    BY <1>4, <2>2, <2>3, PageKeeps DEF CheckAgain
<1> QED
  BY <1>2, <1>3, <1>4

LEMMA StripeKeeps ==
    ASSUME PurchaseInv, UNCHANGED <<accountVars, workers>>, StripeGood', SessionsKept, SuccessInv'
    PROVE  PurchaseInv'
<1>1. UNCHANGED <<balance, ledger, open>>
  BY DEF accountVars
<1>2. RowsGood' /\ LedgerExplainsBalance'
  BY <1>1, RowsKept DEF PurchaseInv
<1>3. PurchaseWorkersInv'
  BY <1>1, WorkersStay DEF PurchaseInv
<1> QED
  BY <1>2, <1>3 DEF PurchaseInv

LEMMA CreateKeeps ==
    ASSUME PurchaseInv, NEW pkg \in DOMAIN Packages, CreateCheckoutSession(pkg) PROVE PurchaseInv'
<1>1. PICK c : c = [pkg |-> pkg, price |-> price, state |-> "open", acked |-> FALSE]
  OBVIOUS
<1>2. checkouts' = Append(checkouts, c) /\ c \in CheckoutSet /\ checkouts \in Seq(CheckoutSet)
  BY <1>1 DEF CreateCheckoutSession, PurchaseInv, StripeGood, CheckoutSet
<1>3. /\ checkouts' \in Seq(CheckoutSet)
      /\ \A s \in DOMAIN checkouts : s \in DOMAIN checkouts' /\ checkouts'[s] = checkouts[s]
  BY <1>2
<1>4. SessionsKept
  BY <1>3 DEF SessionsKept, PaidFor
<1>5. StripeGood'
  BY <1>3, PurchaseBudgetKept DEF CreateCheckoutSession, PurchaseInv, StripeGood
<1>6. SuccessInv'
  BY SuccessKept DEF CreateCheckoutSession, PurchaseInv, accountVars
<1> QED
  BY <1>4, <1>5, <1>6, StripeKeeps DEF CreateCheckoutSession

LEMMA CompleteKeeps ==
    ASSUME PurchaseInv, NEW s \in DOMAIN checkouts, Complete(s) PROVE PurchaseInv'
<1>1. PICK state \in {"paid", "unpaid"} : checkouts' = [checkouts EXCEPT ![s].state = state]
  BY DEF Complete
<1>2. PICK c : c = [checkouts[s] EXCEPT !.state = state]
  OBVIOUS
<1>3. checkouts' = [checkouts EXCEPT ![s] = c] /\ checkouts \in Seq(CheckoutSet)
  BY <1>1, <1>2 DEF PurchaseInv, StripeGood
<1>4. checkouts[s] \in CheckoutSet /\ s \in Nat
  BY <1>3
<1>5. c \in CheckoutSet
  BY <1>2, <1>4 DEF CheckoutSet
<1>6. checkouts' \in Seq(CheckoutSet) /\ SessionsKept
  BY <1>3, <1>5, SessionChanged DEF Complete, PurchaseInv
<1>7. StripeGood'
  BY <1>6 DEF Complete, PurchaseInv, StripeGood
<1>8. SuccessInv'
  <2>1. UNCHANGED ledger
    BY DEF Complete, accountVars
  <2>2. CASE success' = success
    BY <2>1, <2>2, SuccessKept DEF PurchaseInv
  <2>3. CASE success' = [Away EXCEPT !.session = s, !.kind = "pending", !.timing = TRUE]
    <3>1. success' = [session |-> s, kind |-> "pending", shown |-> 0, timing |-> TRUE,
                      late |-> FALSE, polls |-> {}]
      BY <2>3 DEF Away
    <3>2. /\ success' \in SuccessSet /\ success'.polls = {} /\ success'.kind = "pending"
      BY <1>4, <3>1 DEF SuccessSet
    <3> QED
      BY <3>2, FS_EmptySet DEF SuccessInv, ConfirmedIsGranted
  <2> QED
    BY <2>2, <2>3 DEF Complete
<1> QED
  BY <1>6, <1>7, <1>8, StripeKeeps DEF Complete

LEMMA RepriceKeeps ==
    ASSUME PurchaseInv, Reprice PROVE PurchaseInv'
<1>1. SessionsKept
  BY SessionsSame DEF Reprice, PurchaseInv
<1>2. StripeGood'
  BY PurchaseBudgetKept DEF Reprice, PurchaseInv, StripeGood
<1>3. SuccessInv'
  BY SuccessKept DEF Reprice, PurchaseInv, accountVars
<1> QED
  BY <1>1, <1>2, <1>3, StripeKeeps DEF Reprice

\* Steps of the workers that commit nothing to the account.
LEMMA WorkersKeep ==
    ASSUME PurchaseInv, UNCHANGED <<balance, ledger, price, success>>,
           purchaseBudget' \in PurchaseBudgetSet, checkouts' \in Seq(CheckoutSet), SessionsKept,
           PurchaseWorkersInv'
    PROVE  PurchaseInv'
<1>1. StripeGood'
  BY DEF PurchaseInv, StripeGood
<1>2. RowsGood' /\ LedgerExplainsBalance'
  BY RowsKept DEF PurchaseInv
<1>3. SuccessInv'
  BY SuccessKept DEF PurchaseInv
<1> QED
  BY <1>1, <1>2, <1>3 DEF PurchaseInv

LEMMA SomeoneArrives ==
    ASSUME PurchaseInv, StartCharge \/ (\E s \in DOMAIN checkouts : Deliver(s)) PROVE PurchaseInv'
<1> USE DEF accountVars, stripeVars
<1>1. CASE StartCharge
  <2>1. PICK w : w = [id |-> Unused(workers), session |-> 0,
                      key |-> <<"charge", purchaseBudget.charges>>, amount |-> -1, stage |-> "update"]
    OBVIOUS
  <2>2. purchaseBudget \in PurchaseBudgetSet /\ purchaseBudget' \in PurchaseBudgetSet
    BY <1>1, PurchaseBudgetKept DEF StartCharge, PurchaseInv, StripeGood
  <2>3. w.id \in Nat => PurchaseWorkerGood(w)
    BY <2>1, <2>2 DEF PurchaseWorkerGood, PurchaseWorkerSet, RowKeys, PurchaseBudgetSet
  <2>4. PurchaseWorkersInv'
    BY <1>1, <2>1, <2>3, WorkerArrives DEF StartCharge, PurchaseInv
  <2>5. SessionsKept
    BY <1>1, SessionsSame DEF StartCharge, PurchaseInv
  <2> QED
    BY <1>1, <2>2, <2>4, <2>5, WorkersKeep DEF StartCharge, PurchaseInv, StripeGood
<1>2. CASE \E s \in DOMAIN checkouts : Deliver(s)
  <2>1. PICK s \in DOMAIN checkouts : Deliver(s)
    BY <1>2
  <2>2. PICK w : w = [id |-> Unused(workers), session |-> s, key |-> GrantKey(s),
                      amount |-> Packages[checkouts[s].pkg], stage |-> "verify"]
    OBVIOUS
  <2>3. checkouts \in Seq(CheckoutSet) /\ purchaseBudget \in PurchaseBudgetSet
    BY DEF PurchaseInv, StripeGood
  <2>4. s \in Nat /\ s > 0 /\ checkouts[s] \in CheckoutSet
    BY <2>3
  <2>5. Packages[checkouts[s].pkg] \in Nat
    BY <2>4, PurchaseAssumption DEF CheckoutSet
  <2>6. w.id \in Nat => PurchaseWorkerGood(w)
    BY <2>2, <2>4, <2>5 DEF PurchaseWorkerGood, PurchaseWorkerSet, RowKeys, GrantKey
  <2>7. purchaseBudget' \in PurchaseBudgetSet
    BY <2>1, <2>3, PurchaseBudgetKept DEF Deliver
  <2>8. PurchaseWorkersInv'
    BY <2>1, <2>2, <2>6, WorkerArrives DEF Deliver, PurchaseInv
  <2>9. SessionsKept
    BY <2>1, SessionsSame DEF Deliver, PurchaseInv
  <2> QED
    BY <2>1, <2>3, <2>7, <2>8, <2>9, WorkersKeep DEF Deliver
<1> QED
  BY <1>1, <1>2

\* An acknowledgement changes no session's state.
LEMMA AckedKeeps ==
    ASSUME PurchaseInv, NEW w \in workers, w.session > 0, Acked(w)
    PROVE  checkouts' \in Seq(CheckoutSet) /\ SessionsKept
<1>1. PICK s : s = w.session
  OBVIOUS
<1>2. PICK c : c = [checkouts[s] EXCEPT !.acked = TRUE]
  OBVIOUS
<1>3. s \in DOMAIN checkouts
  BY <1>1 DEF PurchaseInv, PurchaseWorkersInv, PurchaseWorkerGood
<1>4. checkouts' = [checkouts EXCEPT ![s] = c] /\ checkouts \in Seq(CheckoutSet)
  BY <1>1, <1>2 DEF Acked, PurchaseInv, StripeGood
<1>5. checkouts[s] \in CheckoutSet
  BY <1>3, <1>4
<1>6. c \in CheckoutSet /\ c.state = checkouts[s].state
  BY <1>2, <1>5 DEF CheckoutSet
<1> QED
  BY <1>3, <1>4, <1>6, SessionChanged DEF PurchaseInv

LEMMA SomeoneLeaves ==
    ASSUME PurchaseInv, NEW w \in workers, Insufficient(w) \/ WorkerFails(w) \/ RetrieveFails(w)
    PROVE  PurchaseInv'
<1> USE DEF accountVars, stripeVars, Gone
<1>1. SessionsKept
  BY SessionsSame DEF Insufficient, WorkerFails, RetrieveFails, PurchaseInv
<1>2. purchaseBudget' \in PurchaseBudgetSet /\ checkouts' \in Seq(CheckoutSet)
  BY PurchaseBudgetKept DEF Insufficient, WorkerFails, RetrieveFails, PurchaseInv, StripeGood
<1>3. UNCHANGED <<balance, ledger, price, success>> /\ workers' = workers \ {w}
  BY DEF Insufficient, WorkerFails, RetrieveFails
<1>4. \/ w.stage # "insert" /\ UNCHANGED <<open, balance>>
      \/ w.stage = "insert" /\ open' = Closed
  <2>1. CASE Insufficient(w) \/ RetrieveFails(w)
    BY <2>1 DEF Insufficient, RetrieveFails
  <2>2. CASE WorkerFails(w)
    <3>1. w.stage = "insert" => open # Closed /\ open.worker = w.id
      BY DEF PurchaseInv, PurchaseWorkersInv, RowLocked
    <3>2. open # Closed /\ open.worker = w.id => w.stage = "insert"
      BY DEF PurchaseInv, PurchaseWorkersInv, RowLocked
    <3> QED
      BY <1>3, <2>2, <3>1, <3>2 DEF WorkerFails
  <2> QED
    BY <2>1, <2>2
<1>5. PurchaseWorkersInv'
  BY <1>1, <1>3, <1>4, WorkerLeaves DEF PurchaseInv
<1> QED
  BY <1>1, <1>2, <1>3, <1>5, WorkersKeep

LEMMA VerifyOrLookupKeeps ==
    ASSUME PurchaseInv, NEW w \in workers, Lookup(w) \/ (w.session > 0 /\ Verify(w))
    PROVE  PurchaseInv'
<1> USE DEF accountVars, stripeVars
<1>1. PurchaseWorkerGood(w) /\ w.session \in Nat
  BY DEF PurchaseInv, PurchaseWorkersInv, PurchaseWorkerGood, PurchaseWorkerSet
<1>2. w.session > 0 /\ w.stage \in {"verify", "lookup"}
  BY <1>1 DEF Lookup, Verify, PurchaseWorkerGood
<1>3. UNCHANGED <<balance, ledger, open, price, success, purchaseBudget>>
  BY DEF Lookup, Verify
<1>4. purchaseBudget' \in PurchaseBudgetSet
  BY <1>3 DEF PurchaseInv, StripeGood
<1>5. CASE Acked(w)
  <2>1. checkouts' \in Seq(CheckoutSet) /\ SessionsKept
    BY <1>2, <1>5, AckedKeeps
  <2>2. PurchaseWorkersInv'
    BY <1>2, <1>3, <1>5, <2>1, WorkerLeaves DEF Acked, Gone, PurchaseInv
  <2> QED
    BY <1>3, <1>4, <2>1, <2>2, WorkersKeep
<1>6. CASE ~Acked(w)
  <2>1. UNCHANGED checkouts
    BY <1>6 DEF Lookup, Verify
  <2>2. checkouts' \in Seq(CheckoutSet) /\ SessionsKept
    BY <2>1, SessionsSame DEF PurchaseInv, StripeGood
  <2>3. PICK stage \in {"lookup", "update"} :
            Became(w, stage) /\ (w.stage = "verify" => PaidFor(w.session))
    BY <1>1, <1>2, <1>6 DEF Lookup, Verify, Verified, PaidFor, PurchaseWorkerGood
  <2>4. PurchaseWorkersInv'
    BY <1>2, <1>3, <2>2, <2>3, WorkerMoves DEF PurchaseInv
  <2> QED
    BY <1>3, <1>4, <2>2, <2>4, WorkersKeep
<1> QED
  BY <1>5, <1>6

LEMMA UpdateKeeps ==
    ASSUME PurchaseInv, NEW w \in workers, Update(w) PROVE PurchaseInv'
<1> USE DEF accountVars, stripeVars
<1>1. w \in PurchaseWorkerSet /\ balance \in Nat
  BY DEF PurchaseInv, PurchaseWorkersInv, PurchaseWorkerGood, RowsGood
<1>2. /\ UNCHANGED <<balance, ledger, price, checkouts, success, purchaseBudget>>
      /\ w.stage = "update" /\ open = Closed /\ balance + w.amount >= 0
      /\ open' = [worker |-> w.id, balance |-> balance + w.amount] /\ Became(w, "insert")
  BY DEF Update, TakeRow
<1>3. w.id \in Nat /\ w.amount \in Int
  BY <1>1 DEF PurchaseWorkerSet
<1>4. open' \in OpenSet /\ open'.worker = w.id /\ open'.balance = balance + w.amount
  BY <1>1, <1>2, <1>3 DEF OpenSet
<1>5. SessionsKept /\ checkouts' \in Seq(CheckoutSet) /\ purchaseBudget' \in PurchaseBudgetSet
  BY <1>2, SessionsSame DEF PurchaseInv, StripeGood
<1>6. PurchaseWorkersInv'
  BY <1>2, <1>4, <1>5, WorkerMoves DEF PurchaseInv
<1> QED
  BY <1>2, <1>5, <1>6, WorkersKeep

LEMMA ConflictKeeps ==
    ASSUME PurchaseInv, NEW w \in workers, Conflict(w) PROVE PurchaseInv'
<1> USE DEF accountVars, stripeVars
<1>1. /\ UNCHANGED <<balance, ledger, price, checkouts, success, purchaseBudget>>
      /\ w.stage = "insert" /\ open' = Closed
      /\ IF w.session > 0 THEN Became(w, "lookup") ELSE Gone(w)
  BY DEF Conflict
<1>2. SessionsKept /\ checkouts' \in Seq(CheckoutSet) /\ purchaseBudget' \in PurchaseBudgetSet
  BY <1>1, SessionsSame DEF PurchaseInv, StripeGood
<1>3. PurchaseWorkersInv'
  <2>1. CASE w.session > 0
    BY <1>1, <1>2, <2>1, WorkerMoves DEF PurchaseInv
  <2>2. CASE ~(w.session > 0)
    BY <1>1, <1>2, <2>2, WorkerLeaves DEF PurchaseInv, Gone
  <2> QED
    BY <2>1, <2>2
<1> QED
  BY <1>1, <1>2, <1>3, WorkersKeep

LEMMA InsertKeeps ==
    ASSUME PurchaseInv, NEW w \in workers, Insert(w) PROVE PurchaseInv'
<1>1. /\ UNCHANGED <<price, success, purchaseBudget>> /\ w.stage = "insert" /\ RowsOf(w.key) = {}
      /\ balance' = open.balance /\ open' = Closed
      /\ ledger' = Append(ledger, [key |-> w.key, amount |-> w.amount, after |-> open.balance])
      /\ IF w.session > 0 THEN Acked(w) ELSE Gone(w) /\ UNCHANGED checkouts
  BY DEF Insert, Unique
<1>2. /\ PurchaseWorkerGood(w) /\ w \in PurchaseWorkerSet /\ balance \in Nat /\ ledger \in Seq(RowSet)
      /\ balance = Total(ledger)
  BY DEF PurchaseInv, PurchaseWorkersInv, PurchaseWorkerGood, RowsGood, LedgerExplainsBalance
<1>3. w.key \in RowKeys /\ w.amount \in Int /\ w.session \in Nat
  BY <1>2 DEF PurchaseWorkerSet
<1>4. open \in OpenSet /\ open.balance = balance + w.amount
  BY <1>1 DEF PurchaseInv, PurchaseWorkersInv, RowLocked
<1>5. open.balance \in Nat
  BY <1>4 DEF OpenSet
<1>6. PICK x : x = [key |-> w.key, amount |-> w.amount, after |-> open.balance]
  OBVIOUS
<1>7. x \in RowSet /\ x.key = w.key /\ x.amount = w.amount /\ x.after = open.balance
  BY <1>3, <1>5, <1>6 DEF RowSet
<1>8. PICK n \in Nat : n = Len(ledger)
  BY <1>2
<1>9. /\ ledger' = Append(ledger, x) /\ ledger' \in Seq(RowSet) /\ DOMAIN ledger = 1..n
      /\ DOMAIN ledger' = 1..(n + 1) /\ ledger'[n + 1] = x /\ \A i \in 1..n : ledger'[i] = ledger[i]
  BY <1>1, <1>2, <1>6, <1>7, <1>8
<1>10. checkouts' \in Seq(CheckoutSet) /\ SessionsKept
  <2>1. CASE w.session > 0
    BY <1>1, <2>1, AckedKeeps
  <2>2. CASE ~(w.session > 0)
    BY <1>1, <2>2, SessionsSame DEF PurchaseInv, StripeGood
  <2> QED
    BY <2>1, <2>2
<1>11. workers' = workers \ {w}
  BY <1>1 DEF Acked, Gone
<1>12. StripeGood'
  BY <1>1, <1>10 DEF PurchaseInv, StripeGood
<1>13. PurchaseWorkersInv'
  BY <1>1, <1>10, <1>11, WorkerLeaves DEF PurchaseInv
<1>14. SuccessInv'
  <2>1. \A i \in DOMAIN ledger : i \in DOMAIN ledger' /\ ledger'[i] = ledger[i]
    BY <1>9
  <2> QED
    BY <1>1, <2>1, SuccessKept DEF PurchaseInv
<1>15. LedgerExplainsBalance'
  <2>1. Total(ledger') = balance'
    BY <1>1, <1>2, <1>4, <1>7, <1>9, TotalOfRows
  <2>2. \A i \in 1..n : ledger'[i].after = Total(SubSeq(ledger', 1, i))
    <3>1. TAKE i \in 1..n
    <3>2. SubSeq(ledger', 1, i) = SubSeq(ledger, 1, i)
      BY <1>2, <1>7, <1>8, <1>9
    <3> QED
      BY <1>9, <3>2 DEF PurchaseInv, LedgerExplainsBalance
  <2>3. SubSeq(ledger', 1, n + 1) = ledger'
    BY <1>9
  <2>4. ledger'[n + 1].after = Total(SubSeq(ledger', 1, n + 1))
    BY <1>1, <1>7, <1>9, <2>1, <2>3
  <2>5. \A i \in DOMAIN ledger' : i \in 1..n \/ i = n + 1
    BY <1>9
  <2> QED
    BY <2>1, <2>2, <2>4, <2>5 DEF LedgerExplainsBalance
<1>16. RowsGood'
  <2>1. \A s : PaidFor(s) => PaidFor(s)'
    BY <1>10 DEF SessionsKept, PaidFor
  <2>2. x.key[1] = "checkout" => PaidFor(x.key[2])
    BY <1>1, <1>2, <1>3, <1>7 DEF PurchaseWorkerGood, GrantKey
  <2>3. \A i \in 1..n : ledger[i].key # x.key
    BY <1>1, <1>7, <1>9 DEF RowsOf
  <2>4. \A i, j \in DOMAIN ledger' : ledger'[i].key = ledger'[j].key => i = j
    BY <1>9, <2>3 DEF PurchaseInv, RowsGood
  <2>5. ASSUME NEW i \in DOMAIN ledger', ledger'[i].key[1] = "checkout"
        PROVE  \E s : s = ledger'[i].key[2] /\ PaidFor(s)'
    <3>1. CASE i \in 1..n
      <4>1. PaidFor(ledger[i].key[2])
        BY <1>9, <2>5, <3>1 DEF PurchaseInv, RowsGood
      <4> QED
        BY <1>9, <2>1, <3>1, <4>1
    <3>2. CASE i = n + 1
      BY <1>9, <2>1, <2>2, <2>5, <3>2
    <3> QED
      BY <1>9, <3>1, <3>2
  <2>6. \A i \in DOMAIN ledger' : ledger'[i].key[1] = "checkout" =>
            ledger'[i].key[2] \in DOMAIN checkouts' /\ checkouts'[ledger'[i].key[2]].state = "paid"
    BY <2>5 DEF PaidFor
  <2>7. balance' \in Nat
    BY <1>1, <1>5
  <2> QED
    BY <1>9, <2>4, <2>6, <2>7 DEF RowsGood, PaidFor
<1> QED
  BY <1>12, <1>13, <1>14, <1>15, <1>16 DEF PurchaseInv

LEMMA PurchaseInvNext == PurchaseInv /\ [PurchaseNext]_purchaseVars => PurchaseInv'
<1> SUFFICES ASSUME PurchaseInv, [PurchaseNext]_purchaseVars PROVE PurchaseInv'
  OBVIOUS
<1>1. CASE PurchaseNext
  <2>1. CASE StartCharge
    BY <2>1, SomeoneArrives
  <2>2. CASE Reprice
    BY <2>2, RepriceKeeps
  <2>3. CASE Poll
    BY <2>3, PollKeeps
  <2>4. CASE DeadlinePasses \/ CheckAgain \/ \E p \in success.polls : PollFails(p)
    BY <2>4, PageRestKeeps
  <2>5. CASE PollStep
    BY <2>5, ServePollKeeps, PollAnsweredKeeps DEF PollStep
  <2>6. CASE \E pkg \in DOMAIN Packages : CreateCheckoutSession(pkg)
    BY <2>6, CreateKeeps
  <2>7. CASE \E s \in DOMAIN checkouts : Complete(s) \/ Deliver(s)
    BY <2>7, CompleteKeeps, SomeoneArrives
  <2>8. CASE \E w \in workers : WorkerStep(w) \/ WorkerFails(w) \/ RetrieveFails(w)
    <3>1. PICK w \in workers : WorkerStep(w) \/ WorkerFails(w) \/ RetrieveFails(w)
      BY <2>8
    <3>2. CASE Insufficient(w) \/ WorkerFails(w) \/ RetrieveFails(w)
      BY <3>2, SomeoneLeaves
    <3>3. CASE Lookup(w) \/ (w.session > 0 /\ Verify(w))
      BY <3>3, VerifyOrLookupKeeps
    <3>4. CASE Update(w) \/ Insert(w) \/ Conflict(w)
      BY <3>4, UpdateKeeps, InsertKeeps, ConflictKeeps
    <3> QED
      BY <3>1, <3>2, <3>3, <3>4 DEF WorkerStep
  <2> QED
    BY <1>1, <2>1, <2>2, <2>3, <2>4, <2>5, <2>6, <2>7, <2>8 DEF PurchaseNext
<1>2. CASE UNCHANGED purchaseVars
  <2>1. UNCHANGED <<accountVars, stripeVars, workers, success, ledger, purchaseBudget>>
    BY <1>2 DEF purchaseVars, accountVars, stripeVars
  <2>2. SuccessInv'
    BY <2>1, SuccessKept DEF PurchaseInv
  <2>3. purchaseBudget' \in PurchaseBudgetSet
    BY <2>1 DEF PurchaseInv, StripeGood
  <2> QED
    BY <2>1, <2>2, <2>3, PageKeeps
<1> QED
  BY <1>1, <1>2

LEMMA PurchaseInvHolds == PurchaseSpec => []PurchaseInv
BY PurchaseInvInit, PurchaseInvNext, PTL DEF PurchaseSpec

\* PurchaseTypeOK: no debit, however many race, takes the balance of mutateCore below zero,
\* and whoever holds the row is about to write its ledger row.
THEOREM NeverOverdrawn == PurchaseSpec => []PurchaseTypeOK
<1>1. PurchaseInv => PurchaseTypeOK
  BY DEF PurchaseInv, RowsGood, PurchaseWorkersInv, RowLocked, SuccessInv, SuccessSet, PurchaseTypeOK
<1> QED
  BY <1>1, PurchaseInvHolds, PTL

\* LedgerExplainsBalance: the committed balance is the opening balance and the committed
\* rows, and every row's balanceAfter is what it led to, through every conflict and crash
\* between the UPDATE and the INSERT.
THEOREM BalanceExplained == PurchaseSpec => []LedgerExplainsBalance
<1>1. PurchaseInv => LedgerExplainsBalance
  BY DEF PurchaseInv
<1> QED
  BY <1>1, PurchaseInvHolds, PTL

\* GrantedOnce: a checkout session grants its package at most once, however often, and
\* by however many processes at a time, its event is handled.
THEOREM SessionGrantedOnce == PurchaseSpec => []GrantedOnce
<1>1. ASSUME PurchaseInv, NEW s \in DOMAIN checkouts PROVE Cardinality(RowsOf(GrantKey(s))) <= 1
  <2>1. \A i, j \in RowsOf(GrantKey(s)) : i = j
    BY <1>1 DEF PurchaseInv, RowsGood, RowsOf
  <2>2. CASE RowsOf(GrantKey(s)) = {}
    BY <2>2, FS_EmptySet
  <2>3. CASE RowsOf(GrantKey(s)) # {}
    <3>1. PICK i : RowsOf(GrantKey(s)) = {i}
      BY <2>1, <2>3
    <3> QED
      BY <3>1, FS_Singleton
  <2> QED
    BY <2>2, <2>3
<1>2. PurchaseInv => GrantedOnce
  BY <1>1 DEF GrantedOnce
<1> QED
  BY <1>2, PurchaseInvHolds, PTL

\* OnlyPaidIsGranted: nothing is granted for a session that was not paid.
THEOREM GrantsArePaid == PurchaseSpec => []OnlyPaidIsGranted
<1>1. PurchaseInv => OnlyPaidIsGranted
  <2>1. SUFFICES ASSUME PurchaseInv, NEW s \in DOMAIN checkouts, NEW i \in RowsOf(GrantKey(s))
                 PROVE  checkouts[s].state = "paid"
    BY DEF OnlyPaidIsGranted
  <2>2. i \in DOMAIN ledger /\ ledger[i].key[1] = "checkout" /\ ledger[i].key[2] = s
    BY DEF RowsOf, GrantKey
  <2> QED
    BY <2>1, <2>2 DEF PurchaseInv, RowsGood, PaidFor
<1> QED
  BY <1>1, PurchaseInvHolds, PTL

\* ConfirmedIsGranted: the success page never confirms credits that are not on the ledger,
\* whichever of its overlapping polls answers last.
THEOREM ConfirmationsAreTrue == PurchaseSpec => []ConfirmedIsGranted
<1>1. PurchaseInv => ConfirmedIsGranted
  BY DEF PurchaseInv, SuccessInv
<1> QED
  BY <1>1, PurchaseInvHolds, PTL

=============================================================================
