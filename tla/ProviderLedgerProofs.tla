------------------------- MODULE ProviderLedgerProofs -------------------------
(***************************************************************************)
(* Proofs about ProviderLedger, for every set of assets, every number of   *)
(* claims and every setup: what holds record by record, and for the sums   *)
(* that make up the budget.                                                *)
(***************************************************************************)
EXTENDS ProviderLedger, FiniteSetTheorems, SequenceTheorems, WellFoundedInduction, TLAPS

-----------------------------------------------------------------------------
(* The laws of sums over finite sets, for the ledgers that MapThenSumSet adds up.  *)
(* MapThenSumSet is a recursive function over subsets; that one exists, and what   *)
(* it computes, is shown from a smallest set for which it would fail.              *)

\* The element that MapThenSumSet takes from a set next.
Taken(s) == CHOOSE x \in s : TRUE

IsSum(g, f, S) ==
    g = [s \in SUBSET S |-> IF s = {} THEN 0 ELSE f[Taken(s)] + g[s \ {Taken(s)}]]
SumTable(f, S) == CHOOSE g : IsSum(g, f, S)
SumOf(f, S) == SumTable(f, S)[S]

LEMMA SumOfMap == \A f, S : MapThenSumSet(LAMBDA x : f[x], S) = SumOf(f, S)
BY DEF MapThenSumSet, MapThenFoldSet, SumOf, SumTable, IsSum, Taken

\* A set of subsets of a finite set that has some member without all of its
\* proper subsets has a smallest one outside.
LEMMA SmallestSubset ==
    ASSUME NEW S, IsFiniteSet(S), NEW F, NEW T \in SUBSET S, T \notin F
    PROVE  \E U \in SUBSET S : U \notin F /\ \A V \in SUBSET U : V # U => V \in F
<1> DEFINE Outside == {U \in SUBSET S : U \notin F}
<1>1. Outside \subseteq FiniteSubsetsOf(S) /\ Outside # {}
  BY FS_Subset DEF FiniteSubsetsOf
<1>2. IsWellFoundedOn(StrictSubsetOrdering(S), FiniteSubsetsOf(S))
  BY FS_StrictSubsetOrderingWellFounded
<1>3. PICK U \in Outside : \A V \in Outside : <<V, U>> \notin StrictSubsetOrdering(S)
  <2> HIDE DEF Outside
  <2> QED
    BY <1>1, <1>2, WFMin
<1>4. ASSUME NEW V \in SUBSET U, V # U PROVE V \in F
  <2>1. V \in SUBSET S /\ U \in SUBSET S
    BY <1>3
  <2>2. <<V, U>> \in StrictSubsetOrdering(S)
    BY <1>4, <2>1 DEF StrictSubsetOrdering
  <2> QED
    BY <1>3, <2>1, <2>2
<1> QED
  BY <1>3, <1>4

LEMMA TakenFrom == ASSUME NEW S, S # {} PROVE Taken(S) \in S
BY DEF Taken

\* Two tables agree where both are defined.
LEMMA TablesAgree ==
    ASSUME NEW S, NEW T, IsFiniteSet(S), NEW f, NEW g, NEW h,
           IsSum(g, f, S), IsSum(h, f, T), NEW R \in SUBSET S, R \in SUBSET T
    PROVE  g[R] = h[R]
<1> DEFINE F == {U \in SUBSET S : U \in SUBSET T => g[U] = h[U]}
<1>1. SUFFICES ASSUME R \notin F PROVE FALSE
  OBVIOUS
<1>2. PICK U \in SUBSET S : U \notin F /\ \A V \in SUBSET U : V # U => V \in F
  <2> HIDE DEF F
  <2> QED
    BY <1>1, SmallestSubset
<1>3. U \in SUBSET T /\ g[U] # h[U]
  BY <1>2
<1>4. g[U] = IF U = {} THEN 0 ELSE f[Taken(U)] + g[U \ {Taken(U)}]
  BY DEF IsSum
<1>5. h[U] = IF U = {} THEN 0 ELSE f[Taken(U)] + h[U \ {Taken(U)}]
  BY <1>3 DEF IsSum
<1>6. U # {}
  BY <1>3, <1>4, <1>5
<1>7. U \ {Taken(U)} \in SUBSET U /\ U \ {Taken(U)} # U
  BY <1>6, TakenFrom
<1>8. U \ {Taken(U)} \in F
  BY <1>2, <1>7
<1>9. g[U \ {Taken(U)}] = h[U \ {Taken(U)}]
  BY <1>3, <1>8
<1> QED
  BY <1>3, <1>4, <1>5, <1>6, <1>9

LEMMA TableExists ==
    ASSUME NEW S, IsFiniteSet(S), NEW f
    PROVE  IsSum(SumTable(f, S), f, S)
<1> DEFINE F == {U \in SUBSET S : IsSum(SumTable(f, U), f, U)}
<1>1. SUFFICES ASSUME S \notin F PROVE FALSE
  OBVIOUS
<1>2. PICK U \in SUBSET S : U \notin F /\ \A V \in SUBSET U : V # U => V \in F
  <2> HIDE DEF F
  <2> QED
    BY <1>1, SmallestSubset
<1>3. \A V \in SUBSET U : V # U => IsSum(SumTable(f, V), f, V)
  BY <1>2
<1> DEFINE Value(s) == IF s = {} THEN 0 ELSE f[Taken(s)] + SumOf(f, s \ {Taken(s)})
           table == [s \in SUBSET U |-> Value(s)]
<1>4. ASSUME NEW V \in SUBSET U, V # U PROVE SumOf(f, V) = Value(V)
  <2>1. IsSum(SumTable(f, V), f, V)
    BY <1>3, <1>4
  <2>2. SumOf(f, V) = IF V = {} THEN 0
                      ELSE f[Taken(V)] + SumTable(f, V)[V \ {Taken(V)}]
    BY <2>1 DEF IsSum, SumOf
  <2>3. CASE V = {}
    BY <2>2, <2>3
  <2>4. CASE V # {}
    <3> DEFINE W == V \ {Taken(V)}
    <3>1. W \in SUBSET V /\ W \in SUBSET U /\ W # U
      BY <2>4, TakenFrom
    <3>2. IsSum(SumTable(f, W), f, W) /\ W \in SUBSET W
      BY <1>3, <3>1
    <3>3. IsFiniteSet(V) /\ W \in SUBSET V
      BY FS_Subset
    <3>4. SumTable(f, V)[W] = SumTable(f, W)[W]
      BY <2>1, <3>2, <3>3, TablesAgree
    <3> QED
      BY <2>2, <2>4, <3>4 DEF SumOf
  <2> QED
    BY <2>3, <2>4
<1>5. IsSum(table, f, U)
  <2>1. ASSUME NEW s \in SUBSET U
        PROVE  Value(s) = IF s = {} THEN 0 ELSE f[Taken(s)] + table[s \ {Taken(s)}]
    <3>1. CASE s = {}
      BY <3>1
    <3>2. CASE s # {}
      <4> DEFINE V == s \ {Taken(s)}
      <4>1. V \in SUBSET U /\ V # U
        BY <3>2, TakenFrom
      <4>2. table[V] = Value(V) /\ SumOf(f, V) = Value(V)
        BY <1>4, <4>1
      <4> HIDE DEF table
      <4> QED
        BY <3>2, <4>2
    <3> QED
      BY <3>1, <3>2
  <2>2. table = [s \in SUBSET U |-> IF s = {} THEN 0 ELSE f[Taken(s)] + table[s \ {Taken(s)}]]
    <3> HIDE DEF Value
    <3>1. table = [s \in SUBSET U |-> Value(s)]
      OBVIOUS
    <3> HIDE DEF table
    <3> QED
      BY <2>1, <3>1
  <2> HIDE DEF table
  <2> QED
    BY <2>2 DEF IsSum
<1>6. IsSum(SumTable(f, U), f, U)
  <2> HIDE DEF table
  <2> QED
    BY <1>5 DEF SumTable
<1> QED
  BY <1>2, <1>6

LEMMA SumOfEmpty == \A f : SumOf(f, {}) = 0
<1>1. ASSUME NEW f PROVE SumOf(f, {}) = 0
  <2>1. IsSum(SumTable(f, {}), f, {})
    BY FS_EmptySet, TableExists
  <2> QED
    BY <2>1 DEF IsSum, SumOf
<1> QED
  BY <1>1

LEMMA SumOfTaken ==
    ASSUME NEW S, IsFiniteSet(S), S # {}, NEW f
    PROVE  SumOf(f, S) = f[Taken(S)] + SumOf(f, S \ {Taken(S)})
<1> DEFINE W == S \ {Taken(S)}
<1>1. IsSum(SumTable(f, S), f, S)
  BY TableExists
<1>2. SumOf(f, S) = f[Taken(S)] + SumTable(f, S)[W]
  BY <1>1 DEF IsSum, SumOf
<1>3. IsFiniteSet(W) /\ W \in SUBSET S /\ W \in SUBSET W
  BY FS_Subset
<1>4. IsSum(SumTable(f, W), f, W)
  BY <1>3, TableExists
<1>5. SumTable(f, S)[W] = SumTable(f, W)[W]
  BY <1>1, <1>3, <1>4, TablesAgree
<1> QED
  BY <1>2, <1>5 DEF SumOf

LEMMA SumIsNat ==
    ASSUME NEW S, IsFiniteSet(S), NEW f, \A x \in S : f[x] \in Nat
    PROVE  SumOf(f, S) \in Nat
<1> DEFINE F == {U \in SUBSET S : SumOf(f, U) \in Nat}
<1>1. SUFFICES ASSUME S \notin F PROVE FALSE
  OBVIOUS
<1>2. PICK U \in SUBSET S : U \notin F /\ \A V \in SUBSET U : V # U => V \in F
  <2> HIDE DEF F
  <2> QED
    BY <1>1, SmallestSubset
<1>3. U # {}
  <2>1. U = {} => SumOf(f, U) = 0
    BY SumOfEmpty
  <2> QED
    BY <1>2, <2>1
<1>4. Taken(U) \in U
  BY <1>3, TakenFrom
<1>5. SumOf(f, U \ {Taken(U)}) \in Nat
  <2>1. U \ {Taken(U)} \in SUBSET U /\ U \ {Taken(U)} # U
    BY <1>4
  <2> QED
    BY <1>2, <2>1
<1>6. IsFiniteSet(U)
  BY FS_Subset
<1>7. SumOf(f, U) = f[Taken(U)] + SumOf(f, U \ {Taken(U)})
  BY <1>3, <1>6, SumOfTaken
<1>8. f[Taken(U)] \in Nat
  BY <1>4
<1>9. SumOf(f, U) \in Nat
  BY <1>5, <1>7, <1>8
<1> QED
  BY <1>2, <1>9

\* Any element may be taken first.
LEMMA SumOfRemove ==
    ASSUME NEW S, IsFiniteSet(S), NEW f, \A x \in S : f[x] \in Nat, NEW a \in S
    PROVE  SumOf(f, S) = f[a] + SumOf(f, S \ {a})
<1> DEFINE F == {U \in SUBSET S : \A x \in U : SumOf(f, U) = f[x] + SumOf(f, U \ {x})}
<1>1. SUFFICES ASSUME S \notin F PROVE FALSE
  OBVIOUS
<1>2. PICK U \in SUBSET S : U \notin F /\ \A V \in SUBSET U : V # U => V \in F
  <2> HIDE DEF F
  <2> QED
    BY <1>1, SmallestSubset
<1>3. PICK x \in U : SumOf(f, U) # f[x] + SumOf(f, U \ {x})
  BY <1>2
<1> DEFINE c == Taken(U)
<1>4. c \in U /\ IsFiniteSet(U)
  BY <1>3, TakenFrom, FS_Subset
<1>5. SumOf(f, U) = f[c] + SumOf(f, U \ {c})
  BY <1>3, <1>4, SumOfTaken
<1>6. x # c
  BY <1>3, <1>5
<1> HIDE DEF c
<1>7. SumOf(f, U \ {c}) = f[x] + SumOf(f, (U \ {c}) \ {x})
  <2>1. U \ {c} \in SUBSET U /\ U \ {c} # U /\ x \in U \ {c}
    BY <1>4, <1>6
  <2> QED
    BY <1>2, <2>1
<1>8. SumOf(f, U \ {x}) = f[c] + SumOf(f, (U \ {x}) \ {c})
  <2>1. U \ {x} \in SUBSET U /\ U \ {x} # U /\ c \in U \ {x}
    BY <1>4, <1>6
  <2> QED
    BY <1>2, <2>1
<1>9. (U \ {c}) \ {x} = (U \ {x}) \ {c}
  OBVIOUS
<1>10. f[c] \in Nat /\ f[x] \in Nat /\ SumOf(f, (U \ {x}) \ {c}) \in Nat
  <2>1. IsFiniteSet((U \ {x}) \ {c}) /\ \A y \in (U \ {x}) \ {c} : f[y] \in Nat
    BY FS_Subset
  <2> QED
    BY <1>4, <2>1, SumIsNat
<1> QED
  BY <1>3, <1>5, <1>7, <1>8, <1>9, <1>10

LEMMA SumOfAdd ==
    ASSUME NEW S, IsFiniteSet(S), NEW a, a \notin S, NEW f, \A x \in S \cup {a} : f[x] \in Nat
    PROVE  SumOf(f, S \cup {a}) = f[a] + SumOf(f, S)
<1>1. IsFiniteSet(S \cup {a}) /\ (S \cup {a}) \ {a} = S
  BY FS_AddElement
<1> QED
  BY <1>1, SumOfRemove

\* Each element of S that counts is covered by an element of T of its own.
Covers(m, f, S, g, T) ==
    /\ \A x \in S : f[x] # 0 => m[x] \in T /\ f[x] <= g[m[x]]
    /\ \A x, y \in S : f[x] # 0 /\ f[y] # 0 /\ m[x] = m[y] => x = y

LEMMA SumsCovered ==
    ASSUME NEW S, IsFiniteSet(S), NEW T, IsFiniteSet(T), NEW f, NEW g, NEW m,
           \A x \in S : f[x] \in Nat, \A x \in T : g[x] \in Nat, Covers(m, f, S, g, T)
    PROVE  SumOf(f, S) <= SumOf(g, T)
<1> DEFINE F == {U \in SUBSET S :
                   \A V \in SUBSET T : Covers(m, f, U, g, V) => SumOf(f, U) <= SumOf(g, V)}
<1>1. SUFFICES ASSUME S \notin F PROVE FALSE
  OBVIOUS
<1>2. PICK U \in SUBSET S : U \notin F /\ \A V \in SUBSET U : V # U => V \in F
  <2> HIDE DEF F
  <2> QED
    BY <1>1, SmallestSubset
<1>3. PICK V \in SUBSET T : Covers(m, f, U, g, V) /\ ~(SumOf(f, U) <= SumOf(g, V))
  BY <1>2
<1>4. IsFiniteSet(U) /\ IsFiniteSet(V) /\ (\A x \in U : f[x] \in Nat) /\ (\A x \in V : g[x] \in Nat)
  BY FS_Subset
<1>5. SumOf(f, U) \in Nat /\ SumOf(g, V) \in Nat
  BY <1>4, SumIsNat
<1>6. U # {}
  <2>1. U = {} => SumOf(f, U) = 0
    BY SumOfEmpty
  <2> QED
    BY <1>3, <1>5, <2>1
<1>7. PICK a \in U : TRUE
  BY <1>6
<1> DEFINE W == U \ {a}
<1>8. W \in SUBSET U /\ W # U /\ W \in F
  BY <1>2, <1>7
<1>9. SumOf(f, U) = f[a] + SumOf(f, W)
  BY <1>4, SumOfRemove
<1>10. \A X \in SUBSET T : Covers(m, f, W, g, X) => SumOf(f, W) <= SumOf(g, X)
  BY <1>8
<1>11. f[a] \in Nat /\ SumOf(f, W) \in Nat
  <2>1. IsFiniteSet(W) /\ \A x \in W : f[x] \in Nat
    BY <1>4, FS_Subset
  <2> QED
    BY <1>4, <2>1, SumIsNat
<1> HIDE DEF F
<1>12. CASE f[a] = 0
  <2>1. Covers(m, f, W, g, V)
    BY <1>3 DEF Covers
  <2>2. SumOf(f, W) <= SumOf(g, V)
    BY <1>10, <2>1
  <2> QED
    BY <1>3, <1>9, <1>11, <1>12, <2>2
<1>13. CASE f[a] # 0
  <2> DEFINE b == m[a]
             X == V \ {b}
  <2>1. b \in V /\ f[a] <= g[b]
    BY <1>3, <1>13 DEF Covers
  <2>2. Covers(m, f, W, g, X)
    BY <1>3, <1>13 DEF Covers
  <2>3. SumOf(f, W) <= SumOf(g, X)
    BY <1>10, <2>2
  <2>4. SumOf(g, V) = g[b] + SumOf(g, X)
    BY <1>4, <2>1, SumOfRemove
  <2>5. g[b] \in Nat /\ SumOf(g, X) \in Nat
    <3>1. IsFiniteSet(X) /\ \A x \in X : g[x] \in Nat
      BY <1>4, FS_Subset
    <3> QED
      BY <1>4, <2>1, <3>1, SumIsNat
  <2> HIDE DEF W, X, b
  <2> QED
    BY <1>3, <1>9, <1>11, <2>1, <2>3, <2>4, <2>5
<1> QED
  BY <1>12, <1>13

\* A sum over fewer and smaller numbers is no larger.
LEMMA SumsCompare ==
    ASSUME NEW T, IsFiniteSet(T), NEW S \in SUBSET T, NEW f, NEW g,
           \A x \in S : f[x] \in Nat, \A x \in T : g[x] \in Nat, \A x \in S : f[x] <= g[x]
    PROVE  SumOf(f, S) <= SumOf(g, T)
<1> DEFINE m == [x \in S |-> x]
<1>1. Covers(m, f, S, g, T)
  BY DEF Covers
<1>2. IsFiniteSet(S)
  BY FS_Subset
<1> HIDE DEF m
<1> QED
  BY <1>1, <1>2, SumsCovered

LEMMA SumsEqual ==
    ASSUME NEW S, IsFiniteSet(S), NEW f, NEW g,
           \A x \in S : f[x] \in Nat, \A x \in S : f[x] = g[x]
    PROVE  SumOf(f, S) = SumOf(g, S)
<1>1. \A x \in S : g[x] \in Nat
  OBVIOUS
<1>2. SumOf(f, S) <= SumOf(g, S)
  <2>1. \A x \in S : f[x] <= g[x]
    OBVIOUS
  <2> QED
    BY <1>1, <2>1, SumsCompare
<1>3. SumOf(g, S) <= SumOf(f, S)
  <2>1. \A x \in S : g[x] <= f[x]
    OBVIOUS
  <2> QED
    BY <1>1, <2>1, SumsCompare
<1> QED
  BY <1>1, <1>2, <1>3, SumIsNat

\* A factor can be taken out.
LEMMA SumScaled ==
    ASSUME NEW S, IsFiniteSet(S), NEW p \in Nat, NEW f, \A x \in S : f[x] \in Nat,
           NEW g, \A x \in S : g[x] = p * f[x]
    PROVE  SumOf(g, S) = p * SumOf(f, S)
<1> DEFINE F == {U \in SUBSET S : SumOf(g, U) = p * SumOf(f, U)}
<1>1. SUFFICES ASSUME S \notin F PROVE FALSE
  OBVIOUS
<1>2. PICK U \in SUBSET S : U \notin F /\ \A V \in SUBSET U : V # U => V \in F
  <2> HIDE DEF F
  <2> QED
    BY <1>1, SmallestSubset
<1>3. U # {}
  <2>1. U = {} => SumOf(g, U) = 0 /\ SumOf(f, U) = 0
    BY SumOfEmpty
  <2> QED
    BY <1>2, <2>1
<1>4. PICK a \in U : TRUE
  BY <1>3
<1> DEFINE W == U \ {a}
<1>5. SumOf(g, W) = p * SumOf(f, W)
  <2>1. W \in SUBSET U /\ W # U
    BY <1>4
  <2> QED
    BY <1>2, <2>1
<1>6. \A x \in S : g[x] \in Nat
  <2>1. \A n \in Nat : p * n \in Nat
    OBVIOUS
  <2> QED
    BY <2>1
<1>7. IsFiniteSet(U) /\ IsFiniteSet(W)
  BY FS_Subset
<1>8. SumOf(g, U) = g[a] + SumOf(g, W) /\ SumOf(f, U) = f[a] + SumOf(f, W)
  BY <1>6, <1>7, SumOfRemove
<1>9. f[a] \in Nat /\ SumOf(f, W) \in Nat /\ g[a] = p * f[a]
  BY <1>7, SumIsNat
<1>10. \A m, n \in Nat : p * m + p * n = p * (m + n)
  OBVIOUS
<1> HIDE DEF W
<1>11. SumOf(g, U) = p * SumOf(f, U)
  BY <1>5, <1>8, <1>9, <1>10
<1> QED
  BY <1>2, <1>11

-----------------------------------------------------------------------------
(* The inductive invariant *)

DataOK ==
    /\ setup \in Setup
    /\ ended \in BOOLEAN
    /\ fence \in 0..MaxFence
    /\ ops \in Seq(Operations)
    /\ checkpoint \in Checkpoints
    /\ stored \subseteq Artifacts
    /\ sent \in [Fences -> [Assets -> Nat]]
    /\ faults \in 0..setup.dbFaults

CallsOK == call \in [Fences -> [Assets -> Calls]]

\* The record of one asset under one claim.
Mine(i, f, a) == ops[i].fence = f /\ ops[i].asset = a

\* The steps of a call that has a record.
Using == {"reserved", "gate", "permit", "flight", "finish", "save", "confirm"}

\* A call that is working on a record has one; under the current claim it is the
\* call's own and the last one of the asset.
IndexGood(f, a, c) ==
    /\ c.index \in 0..Len(ops)
    /\ c.step \in Using => c.index # 0
    /\ fence = f /\ c.index # 0 =>
          /\ Mine(c.index, f, a)
          /\ \A j \in DOMAIN ops : ops[j].asset = a => j <= c.index

\* What a call has sent is covered by the record's dispatches and by the
\* adapter's own count; before it has a record it has sent nothing.
SentGood(f, a, c) ==
    /\ c.step \in {"permit", "flight"} =>
          /\ Mine(c.index, f, a)
          /\ ops[c.index].state # "reserved_unsent"
          /\ sent[f][a] <= PerAttempt * (ops[c.index].http - 1) + c.rateLimited
                             + (IF c.step = "flight" THEN 1 ELSE 0)
    /\ c.step = "todo" => sent[f][a] = 0 /\ \A i \in DOMAIN ops : ~Mine(i, f, a)
    /\ c.index # 0 => sent[f][a] <= c.attempts
    /\ c.rateLimited <= setup.limiterRetries
    /\ f > fence => c = NoCall /\ sent[f][a] = 0

\* A call writes artifact_stored only over an artifact the checkpoint names, and
\* asks for a record only when none of the asset's says artifact_stored.
WorkGood(f, a, c) ==
    /\ c.outcome # "artifact_stored"
    /\ c.step = "checkpoint" => [asset |-> a, at |-> f] \in stored
    /\ c.step = "confirm" /\ fence = f => a \in AssetsOf(Effective(checkpoint))
    /\ c.step = "todo" /\ fence = f =>
          \A i \in DOMAIN ops : ops[i].asset = a => ops[i].state # "artifact_stored"

CallGood(f, a, c) == IndexGood(f, a, c) /\ SentGood(f, a, c) /\ WorkGood(f, a, c)

RecordGood(i) ==
    /\ ops[i].fence <= fence
    /\ ops[i].state = "reserved_unsent" => ops[i].http = 0
    /\ sent[ops[i].fence][ops[i].asset] <= PerAttempt * ops[i].http
    /\ ops[i].state = "artifact_stored" =>
          ops[i].asset \in AssetsOf(Effective(checkpoint))

\* One record for an asset and a claim; only the last of an asset's records may
\* be a reservation or stored.
OrderGood(i, j) ==
    i < j /\ ops[i].asset = ops[j].asset =>
        /\ ops[i].fence # ops[j].fence
        /\ ops[i].state \notin {"reserved_unsent", "artifact_stored"}

RecordsGood ==
    /\ \A i \in DOMAIN ops : RecordGood(i)
    /\ \A i, j \in DOMAIN ops : OrderGood(i, j)

StoreGood == Effective(checkpoint) \subseteq stored

LedgerInv ==
    /\ DataOK
    /\ CallsOK
    /\ \A f \in Fences, a \in Assets : CallGood(f, a, call[f][a])
    /\ RecordsGood
    /\ StoreGood

LEMMA LedgerTypes == ASSUME LedgerInv PROVE TypeOK
<1>1. ASSUME NEW f \in Fences, NEW a \in Assets,
             call[f][a].step \in {"gate", "permit", "flight"}
      PROVE  call[f][a].index \in DOMAIN ops
  <2>1. IndexGood(f, a, call[f][a]) /\ ops \in Seq(Operations)
    BY DEF LedgerInv, CallGood, DataOK
  <2>2. DOMAIN ops = 1..Len(ops) /\ Len(ops) \in Nat
    BY <2>1
  <2> QED
    BY <1>1, <2>1, <2>2 DEF IndexGood, Using
<1> QED
  BY <1>1 DEF LedgerInv, DataOK, CallsOK, TypeOK

-----------------------------------------------------------------------------
(* Arithmetic and sequences *)

LEMMA PerAttemptPositive ==
    ASSUME DataOK PROVE setup.limiterRetries \in Nat /\ PerAttempt \in Nat \ {0}
BY DEF DataOK, Setup, PerAttempt

\* Attempts cover requests, whatever one attempt may come to.
LEMMA AttemptsCover ==
    ASSUME NEW p \in Nat \ {0}, NEW n \in Nat, NEW s \in Nat, s <= n
    PROVE  s <= p * n
<1>1. p * n = n + (p - 1) * n /\ (p - 1) * n >= 0
  <2>1. PICK q \in Nat : p = q + 1
    <3>1. p - 1 \in Nat /\ p = (p - 1) + 1
      OBVIOUS
    <3> QED
      BY <3>1
  <2>2. q * n \in Nat
    OBVIOUS
  <2>3. (q + 1) * n = q * n + n
    OBVIOUS
  <2> QED
    BY <2>1, <2>2, <2>3
<1> QED
  BY <1>1

\* What a changed record leaves alone.
LEMMA ChangedRecord ==
    ASSUME ops \in Seq(Operations), NEW k \in DOMAIN ops, NEW r \in Operations,
           ops' = [ops EXCEPT ![k] = r]
    PROVE  /\ ops' \in Seq(Operations)
           /\ DOMAIN ops' = DOMAIN ops /\ DOMAIN ops = 1..Len(ops)
           /\ Len(ops') = Len(ops) /\ Len(ops) \in Nat
           /\ \A i \in DOMAIN ops : ops'[i] = IF i = k THEN r ELSE ops[i]
<1>1. DOMAIN ops = 1..Len(ops) /\ Len(ops) \in Nat
  OBVIOUS
<1>2. /\ ops' \in Seq(Operations)
      /\ Len(ops') = Len(ops)
      /\ \A i \in 1..Len(ops) : ops'[i] = IF i = k THEN r ELSE ops[i]
  BY <1>1, ExceptSeq
<1>3. DOMAIN ops' = 1..Len(ops')
  BY <1>2
<1> QED
  BY <1>1, <1>2, <1>3

LEMMA SettledType == ASSUME NEW op \in Operations PROVE SettleInFlight(op) \in Operations
BY DEF SettleInFlight, Operations, OpStates, InFlight, Finished

-----------------------------------------------------------------------------
(* The owner changes one record *)

\* One record of the owner's asset is new or rewritten, its own or a reservation
\* nobody used; the others at most lose a dispatch that was still open.
Touched(g, b, k) ==
    /\ ops' \in Seq(Operations)
    /\ Len(ops') >= Len(ops)
    /\ k \in DOMAIN ops'
    /\ ops'[k].fence = g /\ ops'[k].asset = b
    /\ k \in DOMAIN ops =>
          ops[k].asset = b /\ (ops[k].fence = g \/ ops[k].state = "reserved_unsent")
    /\ \A i \in DOMAIN ops' \ {k} :
          /\ i \in DOMAIN ops
          /\ ops'[i].asset = ops[i].asset
          /\ ops'[i].fence = ops[i].fence
          /\ ops'[i].http = ops[i].http
          /\ \/ ops'[i].state = ops[i].state
             \/ ops[i].state \in InFlight /\ ops'[i].state = "unknown"

Surroundings == <<setup, fence, checkpoint, stored, sent>>

LEMMA OtherCalls ==
    ASSUME LedgerInv, NEW g \in Fences, NEW b \in Assets, NEW k, Owns(g),
           Touched(g, b, k), UNCHANGED Surroundings,
           NEW f \in Fences, NEW a \in Assets, f # g \/ a # b,
           call'[f][a] = call[f][a]
    PROVE  CallGood(f, a, call[f][a])'
<1> DEFINE c == call[f][a]
<1>1. CallGood(f, a, c) /\ c \in Calls
  BY DEF LedgerInv, CallsOK
<1>2. /\ DOMAIN ops = 1..Len(ops) /\ Len(ops) \in Nat
      /\ DOMAIN ops' = 1..Len(ops') /\ Len(ops') \in Nat /\ Len(ops') >= Len(ops)
      /\ DOMAIN ops \subseteq DOMAIN ops'
  BY DEF LedgerInv, DataOK, Touched
<1>3. fence = g /\ fence' = g /\ f \in Nat /\ g \in Nat
  BY DEF Owns, Surroundings, Fences
<1>4. ASSUME NEW i \in DOMAIN ops', Mine(i, f, a)'
      PROVE  i \in DOMAIN ops /\ Mine(i, f, a)
  BY <1>4 DEF Touched, Mine
<1>5. ASSUME NEW i \in DOMAIN ops, Mine(i, f, a),
             fence = f \/ ops[i].state # "reserved_unsent"
      PROVE  /\ Mine(i, f, a)' /\ ops'[i].http = ops[i].http
             /\ ops[i].state # "reserved_unsent" => ops'[i].state # "reserved_unsent"
  BY <1>2, <1>3, <1>5 DEF Touched, Mine
<1>6. ASSUME fence = f, NEW i \in DOMAIN ops', ops'[i].asset = a
      PROVE  /\ i \in DOMAIN ops /\ ops[i].asset = a
             /\ ops'[i].state = "artifact_stored" => ops[i].state = "artifact_stored"
  BY <1>3, <1>6 DEF Touched
<1>7. c.index # 0 /\ c.index \in 0..Len(ops) => c.index \in DOMAIN ops
  BY <1>2
<1>8. IndexGood(f, a, c)'
  <2>1. IndexGood(f, a, c)
    BY <1>1 DEF CallGood
  <2>2. c.index \in 0..Len(ops')
    BY <1>2, <2>1 DEF IndexGood
  <2>3. fence = f /\ c.index # 0 =>
            /\ Mine(c.index, f, a)'
            /\ \A j \in DOMAIN ops' : ops'[j].asset = a => j <= c.index
    BY <1>5, <1>6, <1>7, <2>1 DEF IndexGood
  <2> QED
    BY <1>3, <2>1, <2>2, <2>3 DEF IndexGood
<1>9. SentGood(f, a, c)'
  <2>1. SentGood(f, a, c) /\ IndexGood(f, a, c)
    BY <1>1 DEF CallGood
  <2>2. sent' = sent /\ setup' = setup /\ PerAttempt' = PerAttempt
    BY DEF Surroundings, PerAttempt
  <2>3. c.step \in {"permit", "flight"} =>
          /\ Mine(c.index, f, a)'
          /\ ops'[c.index].http = ops[c.index].http
          /\ ops'[c.index].state # "reserved_unsent"
    BY <1>5, <1>7, <2>1 DEF SentGood, IndexGood, Using
  <2>4. c.step = "todo" => \A i \in DOMAIN ops' : ~Mine(i, f, a)'
    BY <1>4, <2>1 DEF SentGood
  <2> QED
    BY <1>3, <2>1, <2>2, <2>3, <2>4 DEF SentGood
<1>10. WorkGood(f, a, c)'
  BY <1>1, <1>3, <1>6 DEF CallGood, WorkGood, Surroundings, Effective, AssetsOf
<1> QED
  BY <1>8, <1>9, <1>10 DEF CallGood

LEMMA OtherRecords ==
    ASSUME LedgerInv, NEW g \in Fences, NEW b \in Assets, NEW k, Owns(g),
           Touched(g, b, k), UNCHANGED Surroundings, RecordGood(k)',
           \A j \in DOMAIN ops : ops[j].asset = b => j <= k,
           \A i \in DOMAIN ops : i < k /\ ops[i].asset = b =>
               ops[i].fence # g /\ ops[i].state \notin {"reserved_unsent", "artifact_stored"}
    PROVE  RecordsGood'
<1>1. /\ DOMAIN ops = 1..Len(ops) /\ Len(ops) \in Nat
      /\ DOMAIN ops' = 1..Len(ops') /\ Len(ops') \in Nat
  BY DEF LedgerInv, DataOK, Touched
<1>2. ASSUME NEW i \in DOMAIN ops' PROVE RecordGood(i)'
  <2>1. CASE i = k
    BY <2>1
  <2>2. CASE i # k
    <3>1. i \in DOMAIN ops /\ RecordGood(i)
      BY <2>2 DEF Touched, LedgerInv, RecordsGood
    <3> QED
      BY <2>2, <3>1
      DEF Touched, RecordGood, Surroundings, PerAttempt, Effective, AssetsOf, InFlight
  <2> QED
    BY <2>1, <2>2
<1>3. ASSUME NEW i \in DOMAIN ops', NEW j \in DOMAIN ops' PROVE OrderGood(i, j)'
  <2>1. CASE i # k /\ j # k
    <3>1. i \in DOMAIN ops /\ j \in DOMAIN ops /\ OrderGood(i, j)
      BY <2>1 DEF Touched, LedgerInv, RecordsGood
    <3> QED
      BY <2>1, <3>1 DEF Touched, OrderGood, InFlight
  <2>2. CASE i # k /\ j = k
    BY <1>1, <2>2 DEF Touched, OrderGood, InFlight
  <2>3. CASE i = k
    BY <1>1, <2>3 DEF Touched, OrderGood
  <2> QED
    BY <2>1, <2>2, <2>3
<1> QED
  BY <1>2, <1>3 DEF RecordsGood

-----------------------------------------------------------------------------
(* One call moves *)

Moved(f, a, d) ==
    /\ call' \in [Fences -> [Assets -> Calls]]
    /\ call'[f][a] = d
    /\ \A g \in Fences, b \in Assets : g # f \/ b # a => call'[g][b] = call[g][b]

LEMMA Moving ==
    ASSUME CallsOK, NEW f \in Fences, NEW a \in Assets, NEW d \in Calls,
           call' = [call EXCEPT ![f][a] = d]
    PROVE  Moved(f, a, d)
BY DEF CallsOK, Moved

LEMMA GoingTo ==
    ASSUME CallsOK, NEW f \in Fences, NEW a \in Assets, NEW step \in CallSteps,
           Goto(f, a, step)
    PROVE  /\ Moved(f, a, [call[f][a] EXCEPT !.step = step])
           /\ [call[f][a] EXCEPT !.step = step] \in Calls
<1>1. call[f][a] \in Calls
  BY DEF CallsOK
<1>2. [call[f][a] EXCEPT !.step = step] \in Calls
  BY <1>1 DEF Calls
<1>3. call' = [call EXCEPT ![f][a] = [call[f][a] EXCEPT !.step = step]]
  BY DEF Goto, CallsOK
<1> QED
  BY <1>2, <1>3, Moving

LEMMA GivingUp ==
    ASSUME CallsOK, NEW f \in Fences, NEW a \in Assets, NEW outcome \in Finished,
           GiveUp(f, a, outcome)
    PROVE  /\ Moved(f, a, [call[f][a] EXCEPT !.step = "finish", !.outcome = outcome])
           /\ [call[f][a] EXCEPT !.step = "finish", !.outcome = outcome] \in Calls
<1>1. call[f][a] \in Calls
  BY DEF CallsOK
<1>2. [call[f][a] EXCEPT !.step = "finish", !.outcome = outcome] \in Calls
  BY <1>1 DEF Calls, CallSteps
<1>3. call' = [call EXCEPT ![f][a] =
                  [call[f][a] EXCEPT !.step = "finish", !.outcome = outcome]]
  BY DEF GiveUp, CallsOK
<1> QED
  BY <1>2, <1>3, Moving

\* The steps of a call that leave ledger, checkpoint and storage alone and send
\* nothing keep the invariant when the moved call is good.
LEMMA OnlyCalls ==
    ASSUME LedgerInv, NEW f \in Fences, NEW a \in Assets, NEW d \in Calls,
           Moved(f, a, d), CallGood(f, a, d),
           ended' \in BOOLEAN, faults' \in 0..setup.dbFaults,
           UNCHANGED <<setup, fence, ops, checkpoint, stored, sent>>
    PROVE  LedgerInv'
<1>1. DataOK' /\ CallsOK'
  BY DEF LedgerInv, DataOK, CallsOK, Moved
<1>2. ASSUME NEW g \in Fences, NEW b \in Assets PROVE CallGood(g, b, call[g][b])'
  <2>1. CallGood(g, b, call'[g][b])
    BY DEF Moved, LedgerInv
  <2> QED
    BY <2>1
    DEF CallGood, IndexGood, SentGood, WorkGood, Mine, PerAttempt, Effective, AssetsOf
<1>3. RecordsGood' /\ StoreGood'
  BY DEF LedgerInv, RecordsGood, RecordGood, OrderGood, StoreGood, PerAttempt,
         Effective, AssetsOf
<1> QED
  BY <1>1, <1>2, <1>3 DEF LedgerInv

LEMMA QuietStep ==
    ASSUME LedgerInv, NEW f \in Fences, NEW a \in Assets, UNCHANGED setup,
           \/ ReserveRefused(f, a) \/ AssertOwnership(f, a) \/ HttpAttemptRefused(f, a)
           \/ Answer(f, a) \/ RateLimited(f, a) \/ TransportRetry(f, a)
           \/ CallFails(f, a) \/ FinishFails(f, a) \/ SaveFails(f, a)
    PROVE  LedgerInv'
<1> DEFINE c == call[f][a]
<1>1. c \in Calls /\ CallGood(f, a, c) /\ CallsOK /\ DataOK
  BY DEF LedgerInv, CallsOK
<1>2. UNCHANGED <<setup, ended, fence, ops, checkpoint, stored, sent>>
  BY DEF ReserveRefused, AssertOwnership, HttpAttemptRefused, Answer, RateLimited,
         TransportRetry, CallFails, FinishFails, SaveFails
<1>3. ended' \in BOOLEAN /\ faults' \in 0..setup.dbFaults
  <2>1. \/ UNCHANGED <<ended, faults>>
        \/ UNCHANGED ended /\ faults < setup.dbFaults /\ faults' = faults + 1
    BY DEF ReserveRefused, AssertOwnership, HttpAttemptRefused, Answer, RateLimited,
           TransportRetry, CallFails, FinishFails, SaveFails
  <2>2. ended \in BOOLEAN /\ faults \in 0..setup.dbFaults /\ setup.dbFaults \in Nat
    BY <1>1 DEF DataOK, Setup
  <2> QED
    BY <2>1, <2>2
<1>4. /\ sent[f][a] \in Nat
      /\ setup.limiterRetries \in Nat
      /\ c.rateLimited \in Nat /\ c.attempts \in Nat
      /\ c.rateLimited + 1 \in Nat /\ c.retries + 1 \in Nat
      /\ \A counted \in {0, 1} : c.attempts + counted \in Nat
      /\ f > fence => c.step = "absent"
  <2>1. c.rateLimited \in Nat /\ c.attempts \in Nat /\ c.retries \in Nat
    BY <1>1 DEF Calls
  <2>2. sent[f][a] \in Nat /\ setup.limiterRetries \in Nat
    BY <1>1, PerAttemptPositive DEF DataOK
  <2>3. f > fence => c.step = "absent"
    BY <1>1 DEF CallGood, SentGood, NoCall
  <2> QED
    BY <2>1, <2>2, <2>3
<1>5. SUFFICES \E d \in Calls : Moved(f, a, d) /\ CallGood(f, a, d)
  BY <1>2, <1>3, OnlyCalls
<1>6. ASSUME NEW step \in {"failed", "gate"}, Goto(f, a, step),
             c.step # "absent", c.step = "reserved" \/ step = "failed"
      PROVE  \E d \in Calls : Moved(f, a, d) /\ CallGood(f, a, d)
  <2> DEFINE d == [c EXCEPT !.step = step]
  <2>1. d \in Calls /\ Moved(f, a, d)
    BY <1>1, <1>6, GoingTo DEF CallSteps
  <2>2. CallGood(f, a, d)
    BY <1>1, <1>4, <1>6
    DEF CallGood, IndexGood, SentGood, WorkGood, Using, Calls
  <2> QED
    BY <2>1, <2>2
<1>7. ASSUME NEW outcome \in Finished \ {"artifact_stored"}, GiveUp(f, a, outcome),
             c.step \in Using
      PROVE  \E d \in Calls : Moved(f, a, d) /\ CallGood(f, a, d)
  <2> DEFINE d == [c EXCEPT !.step = "finish", !.outcome = outcome]
  <2>1. d \in Calls /\ Moved(f, a, d)
    BY <1>1, <1>7, GivingUp
  <2>2. CallGood(f, a, d)
    BY <1>1, <1>4, <1>7
    DEF CallGood, IndexGood, SentGood, WorkGood, Using, Calls
  <2> QED
    BY <2>1, <2>2
<1>8. CASE ReserveRefused(f, a) \/ AssertOwnership(f, a) \/ SaveFails(f, a)
  BY <1>6, <1>7, <1>8
  DEF ReserveRefused, AssertOwnership, SaveFails, At, Using, Finished
<1>9. CASE HttpAttemptRefused(f, a) \/ Answer(f, a) \/ FinishFails(f, a)
  BY <1>6, <1>7, <1>9
  DEF HttpAttemptRefused, Answer, FinishFails, At, Using, Finished
<1>10. CASE RateLimited(f, a)
  <2> DEFINE d == [c EXCEPT !.step = "permit", !.rateLimited = @ + 1]
  <2>1. d \in Calls
    BY <1>1, <1>4 DEF Calls, CallSteps
  <2>2. call' = [call EXCEPT ![f][a] = d]
    BY <1>1, <1>10 DEF RateLimited, CallsOK
  <2>3. /\ d.step = "permit" /\ d.rateLimited = c.rateLimited + 1
        /\ d.index = c.index /\ d.attempts = c.attempts /\ d.outcome = c.outcome
    BY <1>1 DEF Calls
  <2>4. c.step = "flight" /\ c.rateLimited < setup.limiterRetries
    BY <1>10 DEF RateLimited, At
  <2> DEFINE spent == PerAttempt * (ops[c.index].http - 1)
  <2>5. Mine(c.index, f, a) /\ ops[c.index].state # "reserved_unsent"
        /\ sent[f][a] <= spent + c.rateLimited + 1 /\ spent \in Int
    <3>1. c.index \in DOMAIN ops /\ ops[c.index].http \in Nat /\ PerAttempt \in Nat
      <4>1. c.index \in 0..Len(ops) /\ c.index # 0
        BY <1>1, <2>4 DEF CallGood, IndexGood, Using
      <4>2. ops \in Seq(Operations)
        BY <1>1 DEF DataOK
      <4>3. c.index \in DOMAIN ops /\ ops[c.index] \in Operations
        BY <4>1, <4>2
      <4> QED
        BY <1>1, <4>3, PerAttemptPositive DEF Operations
    <3> QED
      BY <1>1, <2>4, <3>1 DEF CallGood, SentGood
  <2> HIDE DEF d, spent
  <2>6. sent[f][a] <= spent + d.rateLimited /\ d.rateLimited <= setup.limiterRetries
    BY <1>4, <2>3, <2>4, <2>5
  <2>7. IndexGood(f, a, d) /\ WorkGood(f, a, d)
    BY <1>1, <2>3, <2>4 DEF CallGood, IndexGood, WorkGood, Using
  <2>8. sent[f][a] <= d.attempts \/ d.index = 0
    BY <1>1, <2>3 DEF CallGood, SentGood
  <2>9. ~(f > fence)
    BY <1>4, <2>4
  <2>10. SentGood(f, a, d)
    BY <1>4, <2>3, <2>5, <2>6, <2>8, <2>9 DEF SentGood, spent
  <2>11. CallGood(f, a, d)
    BY <2>7, <2>10 DEF CallGood
  <2> QED
    BY <1>1, <2>1, <2>2, <2>11, Moving
<1>11. CASE TransportRetry(f, a)
  <2> DEFINE d == [c EXCEPT !.step = "gate", !.retries = @ + 1, !.rateLimited = 0,
                            !.attempts = IF c.step = "permit" THEN @ + 1 ELSE @]
  <2>1. d \in Calls
    BY <1>1, <1>4 DEF Calls, CallSteps
  <2>2. call' = [call EXCEPT ![f][a] = d]
    BY <1>1, <1>11 DEF TransportRetry, CallsOK
  <2>3. /\ d.step = "gate" /\ d.rateLimited = 0 /\ d.attempts >= c.attempts
        /\ d.index = c.index /\ d.outcome = c.outcome /\ d.attempts \in Nat
    BY <1>1, <1>4 DEF Calls
  <2>4. c.step \in {"permit", "flight"}
    BY <1>11 DEF TransportRetry
  <2> HIDE DEF d
  <2>5. IndexGood(f, a, d) /\ WorkGood(f, a, d)
    BY <1>1, <2>3, <2>4 DEF CallGood, IndexGood, WorkGood, Using
  <2>6. sent[f][a] <= c.attempts \/ d.index = 0
    BY <1>1, <2>3 DEF CallGood, SentGood
  <2>7. ~(f > fence)
    BY <1>4, <2>4
  <2>8. SentGood(f, a, d)
    BY <1>4, <2>3, <2>6, <2>7 DEF SentGood
  <2>9. CallGood(f, a, d)
    BY <2>5, <2>8 DEF CallGood
  <2> QED
    BY <1>1, <2>1, <2>2, <2>9, Moving
<1>12. CASE CallFails(f, a)
  <2>1. CASE AttemptFails(f, a)
    BY <1>7, <2>1 DEF AttemptFails, At, Using, Finished
  <2>2. CASE WaitFails(f, a)
    <3>1. PICK counted \in {0, 1} :
             call' = [call EXCEPT ![f][a].step = "finish",
                                  ![f][a].outcome = "unknown",
                                  ![f][a].attempts = @ + counted]
      BY <2>2 DEF WaitFails
    <3> DEFINE d == [c EXCEPT !.step = "finish", !.outcome = "unknown",
                              !.attempts = @ + counted]
    <3>2. d \in Calls
      BY <1>1, <1>4 DEF Calls, CallSteps, Finished
    <3>3. call' = [call EXCEPT ![f][a] = d]
      BY <1>1, <3>1 DEF CallsOK
    <3>4. CallGood(f, a, d)
      BY <1>1, <1>4, <2>2
      DEF WaitFails, At, CallGood, IndexGood, SentGood, WorkGood, Using, Calls
    <3> QED
      BY <1>1, <3>2, <3>3, <3>4, Moving
  <2> QED
    BY <1>12, <2>1, <2>2 DEF CallFails
<1> QED
  BY <1>8, <1>9, <1>10, <1>11, <1>12

-----------------------------------------------------------------------------
(* Requests, stored images, the checkpoint, the end of a run *)

LEMMA RecordOf ==
    ASSUME LedgerInv, NEW f \in Fences, NEW a \in Assets, call[f][a].step \in Using
    PROVE  /\ call[f][a].index \in DOMAIN ops
           /\ ops[call[f][a].index] \in Operations
           /\ fence = f => Mine(call[f][a].index, f, a)
<1>1. /\ call[f][a].index \in 0..Len(ops) /\ call[f][a].index # 0
      /\ fence = f => Mine(call[f][a].index, f, a)
  BY DEF LedgerInv, CallGood, IndexGood
<1>2. ops \in Seq(Operations)
  BY DEF LedgerInv, DataOK
<1> QED
  BY <1>1, <1>2

LEMMA SendStep ==
    ASSUME LedgerInv, NEW f \in Fences, NEW a \in Assets, Send(f, a), UNCHANGED setup
    PROVE  LedgerInv'
<1> DEFINE c == call[f][a]
           d == [c EXCEPT !.step = "flight", !.attempts = @ + 1]
           i == c.index
           spent == PerAttempt * (ops[i].http - 1)
<1>1. /\ c \in Calls /\ CallGood(f, a, c) /\ CallsOK /\ DataOK /\ c.step = "permit"
      /\ UNCHANGED <<ended, fence, ops, checkpoint, stored, faults>>
  BY DEF LedgerInv, CallsOK, Send, At
<1>2. /\ i \in DOMAIN ops /\ ops[i] \in Operations /\ Mine(i, f, a)
      /\ ops[i].state # "reserved_unsent"
      /\ sent[f][a] <= spent + c.rateLimited
      /\ sent[f][a] <= c.attempts
      /\ c.rateLimited <= setup.limiterRetries
      /\ i # 0
  <2>1. i \in DOMAIN ops /\ ops[i] \in Operations
    BY <1>1, RecordOf DEF Using
  <2>2. Mine(i, f, a) /\ ops[i].state # "reserved_unsent" /\ i # 0
    BY <1>1 DEF Using, CallGood, SentGood, IndexGood
  <2>3. sent[f][a] <= c.attempts /\ c.rateLimited <= setup.limiterRetries
    BY <1>1, <2>2 DEF CallGood, SentGood
  <2>4. sent[f][a] <= spent + c.rateLimited + 0
    BY <1>1 DEF CallGood, SentGood
  <2>5. spent + c.rateLimited + 0 = spent + c.rateLimited
    <3>1. spent \in Int /\ c.rateLimited \in Nat
      BY <1>1, <2>1, PerAttemptPositive DEF Operations, Calls
    <3> HIDE DEF spent
    <3> QED
      BY <3>1
  <2> QED
    BY <2>1, <2>2, <2>3, <2>4, <2>5
<1>3. /\ c.attempts \in Nat /\ c.attempts + 1 \in Nat /\ c.rateLimited \in Nat
      /\ ops[i].http \in Nat /\ sent[f][a] \in Nat
      /\ setup.limiterRetries \in Nat /\ PerAttempt \in Nat
  <2>1. c.attempts \in Nat /\ c.rateLimited \in Nat
    BY <1>1 DEF Calls
  <2>2. ops[i].http \in Nat
    BY <1>2 DEF Operations
  <2>3. sent[f][a] \in Nat
    BY <1>1 DEF DataOK
  <2> QED
    BY <1>1, <2>1, <2>2, <2>3, PerAttemptPositive
<1>4. /\ spent \in Int
      /\ spent + 1 + setup.limiterRetries = PerAttempt * ops[i].http
  BY <1>3 DEF PerAttempt
<1>5. d \in Calls
  BY <1>1, <1>3 DEF Calls, CallSteps
<1>6. call' = [call EXCEPT ![f][a] = d]
  BY <1>1 DEF Send, CallsOK
<1>7. /\ d.step = "flight" /\ d.attempts = c.attempts + 1 /\ d.index = i
      /\ d.rateLimited = c.rateLimited /\ d.outcome = c.outcome
  BY <1>1 DEF Calls
<1>8. Moved(f, a, d)
  BY <1>1, <1>5, <1>6, Moving
<1>9. /\ sent' \in [Fences -> [Assets -> Nat]]
      /\ sent'[f][a] = sent[f][a] + 1
      /\ \A g \in Fences, b \in Assets : g # f \/ b # a => sent'[g][b] = sent[g][b]
  BY <1>1, <1>3 DEF Send, DataOK
<1>10. ~(f > fence)
  BY <1>1 DEF CallGood, SentGood, NoCall
<1>11. CallGood(f, a, call[f][a])'
  <2> DEFINE e == call'[f][a]
  <2>1. /\ e.step = "flight" /\ e.attempts = c.attempts + 1 /\ e.index = i
        /\ e.rateLimited = c.rateLimited /\ e.outcome = c.outcome
    BY <1>7, <1>8 DEF Moved
  <2> HIDE DEF d, e
  <2>2. sent'[f][a] <= spent + e.rateLimited + 1 /\ sent'[f][a] <= e.attempts
    <3> HIDE DEF spent
    <3> QED
      BY <1>2, <1>3, <1>4, <1>9, <2>1
  <2>3. PerAttempt' = PerAttempt
    BY DEF PerAttempt
  <2>4. SentGood(f, a, call[f][a])'
    BY <1>1, <1>2, <1>10, <2>1, <2>2, <2>3 DEF SentGood, Mine, e
  <2>5. IndexGood(f, a, call[f][a])' /\ WorkGood(f, a, call[f][a])'
    BY <1>1, <1>2, <2>1
    DEF CallGood, IndexGood, WorkGood, Using, Mine, Effective, AssetsOf, e
  <2> QED
    BY <2>4, <2>5 DEF CallGood
<1>12. ASSUME NEW g \in Fences, NEW b \in Assets PROVE CallGood(g, b, call[g][b])'
  <2>1. CASE g = f /\ b = a
    BY <1>11, <2>1
  <2>2. CASE g # f \/ b # a
    <3>1. call'[g][b] = call[g][b] /\ sent'[g][b] = sent[g][b]
      BY <1>8, <1>9, <2>2 DEF Moved
    <3>2. CallGood(g, b, call[g][b])
      BY DEF LedgerInv
    <3> QED
      BY <1>1, <3>1, <3>2
      DEF CallGood, IndexGood, SentGood, WorkGood, Mine, PerAttempt, Effective, AssetsOf
  <2> QED
    BY <2>1, <2>2
<1>13. RecordsGood'
  <2>1. ASSUME NEW j \in DOMAIN ops PROVE RecordGood(j)'
    <3>1. RecordGood(j) /\ ops[j] \in Operations
      BY <1>1 DEF LedgerInv, RecordsGood, DataOK
    <3>2. ops[j].fence \in Fences /\ ops[j].asset \in Assets
      BY <3>1 DEF Operations
    <3>3. CASE ops[j].fence = f /\ ops[j].asset = a
      <4>1. j = i
        <5>1. ~(i < j) /\ ~(j < i)
          BY <1>1, <1>2, <3>3 DEF LedgerInv, RecordsGood, OrderGood, Mine
        <5> QED
          BY <1>1, <1>2, <5>1 DEF DataOK
      <4>2. sent'[f][a] <= PerAttempt * ops[j].http
        BY <1>2, <1>3, <1>4, <1>9, <4>1
      <4> QED
        BY <1>1, <3>1, <3>3, <4>2 DEF RecordGood, PerAttempt, Effective, AssetsOf
    <3>4. CASE ops[j].fence # f \/ ops[j].asset # a
      BY <1>1, <1>9, <3>1, <3>2, <3>4 DEF RecordGood, PerAttempt, Effective, AssetsOf
    <3> QED
      BY <3>3, <3>4
  <2>2. \A j, k \in DOMAIN ops : OrderGood(j, k)'
    BY <1>1 DEF LedgerInv, RecordsGood, OrderGood
  <2> QED
    BY <1>1, <2>1, <2>2 DEF RecordsGood
<1>14. DataOK' /\ CallsOK' /\ StoreGood'
  BY <1>1, <1>8, <1>9
  DEF DataOK, CallsOK, LedgerInv, StoreGood, Moved, Effective, AssetsOf
<1> QED
  BY <1>12, <1>13, <1>14 DEF LedgerInv

LEMMA EndStep ==
    ASSUME LedgerInv, UNCHANGED setup,
           EndRun \/ (\E f \in Fences : WorkerDies(f))
    PROVE  LedgerInv'
<1>1. UNCHANGED <<setup, fence, ops, checkpoint, stored, sent, faults>>
      /\ ended' \in BOOLEAN
  BY DEF EndRun, WorkerDies, LedgerInv, DataOK
<1>2. NoCall \in Calls
  BY DEF NoCall, Calls, CallSteps, Finished
<1>3. CallsOK'
  BY <1>2 DEF EndRun, WorkerDies, LedgerInv, CallsOK
<1>4. ASSUME NEW f \in Fences, NEW a \in Assets PROVE CallGood(f, a, call[f][a])'
  <2>1. CallGood(f, a, call[f][a])
    BY DEF LedgerInv
  <2>2. call'[f][a] = call[f][a] \/ call'[f][a] = NoCall
    BY DEF EndRun, WorkerDies, LedgerInv, CallsOK
  <2>3. CallGood(f, a, NoCall)
    <3>1. /\ Len(ops) \in Nat /\ setup.limiterRetries \in Nat
          /\ f > fence => sent[f][a] = 0
      BY <2>1, PerAttemptPositive DEF LedgerInv, DataOK, CallGood, SentGood
    <3> QED
      BY <3>1 DEF CallGood, IndexGood, SentGood, WorkGood, NoCall, Using
  <2>4. CallGood(f, a, call'[f][a])
    BY <2>1, <2>2, <2>3
  <2> QED
    BY <1>1, <2>4
    DEF CallGood, IndexGood, SentGood, WorkGood, Mine, PerAttempt, Effective, AssetsOf
<1>5. DataOK' /\ RecordsGood' /\ StoreGood'
  BY <1>1 DEF LedgerInv, DataOK, RecordsGood, RecordGood, OrderGood, StoreGood,
              PerAttempt, Effective, AssetsOf
<1> QED
  BY <1>3, <1>4, <1>5 DEF LedgerInv

LEMMA SaveStep ==
    ASSUME LedgerInv, NEW f \in Fences, NEW a \in Assets, SaveImage(f, a),
           UNCHANGED setup
    PROVE  LedgerInv'
<1> DEFINE c == call[f][a]
           d == [c EXCEPT !.step = "checkpoint"]
<1>1. /\ c \in Calls /\ CallGood(f, a, c) /\ CallsOK /\ DataOK
      /\ c.step \in {"save", "adopt"}
      /\ UNCHANGED <<setup, ended, fence, ops, checkpoint, sent, faults>>
  BY DEF LedgerInv, CallsOK, SaveImage
<1>2. Moved(f, a, d) /\ d \in Calls
  BY <1>1, GoingTo DEF SaveImage, CallSteps
<1>3. /\ d.step = "checkpoint" /\ d.index = c.index /\ d.attempts = c.attempts
      /\ d.rateLimited = c.rateLimited /\ d.outcome = c.outcome
  BY <1>1 DEF Calls
<1>4. /\ stored \subseteq stored' /\ [asset |-> a, at |-> f] \in stored'
      /\ stored' \subseteq Artifacts
  BY <1>1 DEF SaveImage, DataOK, Artifacts, Fences
<1>5. ~(f > fence)
  BY <1>1 DEF CallGood, SentGood, NoCall
<1> HIDE DEF d
<1>6. ASSUME NEW g \in Fences, NEW b \in Assets PROVE CallGood(g, b, call[g][b])'
  <2>1. CASE g = f /\ b = a
    <3>1. call'[g][b] = d
      BY <1>2, <2>1 DEF Moved
    <3> QED
      BY <1>1, <1>3, <1>4, <1>5, <2>1, <3>1
      DEF CallGood, IndexGood, SentGood, WorkGood, Using, Mine
  <2>2. CASE g # f \/ b # a
    <3>1. call'[g][b] = call[g][b] /\ CallGood(g, b, call[g][b])
      BY <1>2, <2>2 DEF Moved, LedgerInv
    <3> QED
      BY <1>1, <1>4, <3>1
      DEF CallGood, IndexGood, SentGood, WorkGood, Mine, PerAttempt, Effective, AssetsOf
  <2> QED
    BY <2>1, <2>2
<1>7. RecordsGood' /\ StoreGood'
  BY <1>1, <1>4 DEF LedgerInv, RecordsGood, RecordGood, OrderGood, StoreGood,
                    PerAttempt, Effective, AssetsOf
<1>8. DataOK' /\ CallsOK'
  BY <1>1, <1>2, <1>4 DEF DataOK, CallsOK, Moved
<1> QED
  BY <1>6, <1>7, <1>8 DEF LedgerInv

\* A takeover's first write keeps what it found as its source, so nothing that
\* was effective is lost; only the new artifact is added.
LEMMA EffectiveGrows ==
    ASSUME DataOK, NEW f \in Fences, NEW a \in Assets
    PROVE  /\ Checkpointed(f, a) \in Checkpoints
           /\ AssetsOf(Effective(checkpoint)) \subseteq AssetsOf(Effective(Checkpointed(f, a)))
           /\ a \in AssetsOf(Effective(Checkpointed(f, a)))
           /\ Effective(Checkpointed(f, a))
                 \subseteq Effective(checkpoint) \cup {[asset |-> a, at |-> f]}
<1> DEFINE x == [asset |-> a, at |-> f]
           own == IF checkpoint.fence = f THEN checkpoint.artifacts ELSE {}
           source == IF checkpoint.fence = f THEN checkpoint.source
                                             ELSE Effective(checkpoint)
           kept == {s \in source : \A o \in own \cup {x} : o.asset # s.asset}
<1>1. /\ checkpoint \in Checkpoints /\ x \in Artifacts /\ x.asset = a
      /\ f \in 0..MaxFence
  BY ProviderLedgerAssumption DEF DataOK, Artifacts, Fences
<1>2. Effective(checkpoint) \subseteq Artifacts
  BY <1>1 DEF Effective, Checkpoints
<1>3. own \subseteq Artifacts /\ source \subseteq Artifacts
  BY <1>1, <1>2 DEF Checkpoints
<1>4. Checkpointed(f, a) = [fence |-> f, artifacts |-> own \cup {x}, source |-> source]
  BY DEF Checkpointed
<1>5. Checkpointed(f, a) \in Checkpoints
  BY <1>1, <1>3, <1>4 DEF Checkpoints
<1>6. Effective(Checkpointed(f, a)) = own \cup {x} \cup kept
  BY <1>4 DEF Effective
<1>7. own \subseteq Effective(checkpoint) /\ kept \subseteq Effective(checkpoint)
  BY DEF Effective
<1>8. ASSUME NEW s \in Effective(checkpoint)
      PROVE  \E o \in own \cup {x} \cup kept : o.asset = s.asset
  <2>1. s \in own \cup source
    BY <1>8 DEF Effective
  <2> QED
    BY <2>1
<1> HIDE DEF own, source, kept, x
<1> QED
  BY <1>1, <1>5, <1>6, <1>7, <1>8 DEF AssetsOf, x

LEMMA CheckpointStep ==
    ASSUME LedgerInv, NEW f \in Fences, NEW a \in Assets, Checkpoint(f, a),
           UNCHANGED setup
    PROVE  LedgerInv'
<1> DEFINE c == call[f][a]
           step == IF Owns(f) THEN (IF c.index = 0 THEN "done" ELSE "confirm")
                   ELSE "failed"
           d == [c EXCEPT !.step = step]
<1>1. /\ c \in Calls /\ CallGood(f, a, c) /\ CallsOK /\ DataOK /\ StoreGood
      /\ c.step = "checkpoint"
      /\ UNCHANGED <<setup, ended, fence, ops, stored, sent, faults>>
  BY DEF LedgerInv, CallsOK, Checkpoint, At
<1>2. Moved(f, a, d) /\ d \in Calls
  BY <1>1, GoingTo DEF Checkpoint, CallSteps
<1>3. /\ d.step = step /\ d.index = c.index /\ d.attempts = c.attempts
      /\ d.rateLimited = c.rateLimited /\ d.outcome = c.outcome
  BY <1>1 DEF Calls
<1>4. checkpoint' = IF Owns(f) THEN Checkpointed(f, a) ELSE checkpoint
  BY DEF Checkpoint
<1>5. /\ checkpoint' \in Checkpoints
      /\ AssetsOf(Effective(checkpoint)) \subseteq AssetsOf(Effective(checkpoint'))
      /\ Owns(f) => a \in AssetsOf(Effective(checkpoint'))
      /\ Effective(checkpoint') \subseteq Effective(checkpoint) \cup {[asset |-> a, at |-> f]}
  BY <1>1, <1>4, EffectiveGrows DEF DataOK
<1>6. /\ AssetsOf(Effective(checkpoint))' = AssetsOf(Effective(checkpoint'))
      /\ Effective(checkpoint)' = Effective(checkpoint')
  BY DEF AssetsOf, Effective
<1>7. StoreGood'
  BY <1>1, <1>5, <1>6 DEF StoreGood, CallGood, WorkGood
<1>8. fence = f => Owns(f) \/ ended
  BY DEF Owns
<1>9. ~(f > fence)
  BY <1>1 DEF CallGood, SentGood, NoCall
<1>10. Owns(f) \/ step = "failed"
  OBVIOUS
<1>11. step \in {"done", "confirm", "failed"} /\ (step = "confirm" => c.index # 0 /\ Owns(f))
  OBVIOUS
<1> HIDE DEF d, step
<1>12. ASSUME NEW g \in Fences, NEW b \in Assets PROVE CallGood(g, b, call[g][b])'
  <2>1. CASE g = f /\ b = a
    <3>1. call'[g][b] = d
      BY <1>2, <2>1 DEF Moved
    <3> QED
      BY <1>1, <1>3, <1>5, <1>6, <1>9, <1>11, <2>1, <3>1
      DEF CallGood, IndexGood, SentGood, WorkGood, Using, Mine
  <2>2. CASE g # f \/ b # a
    <3>1. call'[g][b] = call[g][b] /\ CallGood(g, b, call[g][b])
      BY <1>2, <2>2 DEF Moved, LedgerInv
    <3>2. WorkGood(g, b, call[g][b])'
      BY <1>1, <1>5, <1>6, <3>1 DEF CallGood, WorkGood
    <3> QED
      BY <1>1, <3>1, <3>2 DEF CallGood, IndexGood, SentGood, Mine, PerAttempt
  <2> QED
    BY <2>1, <2>2
<1>13. RecordsGood'
  BY <1>1, <1>5, <1>6 DEF LedgerInv, RecordsGood, RecordGood, OrderGood, PerAttempt
<1>14. DataOK' /\ CallsOK'
  BY <1>1, <1>2, <1>5 DEF DataOK, CallsOK, Moved
<1> QED
  BY <1>7, <1>12, <1>13, <1>14 DEF LedgerInv

-----------------------------------------------------------------------------
(* The owner's records *)

LEMMA OwnerStep ==
    ASSUME LedgerInv, NEW f \in Fences, NEW a \in Assets, NEW k, NEW d \in Calls,
           Owns(f), Touched(f, a, k), Moved(f, a, d),
           UNCHANGED Surroundings, UNCHANGED <<ended, faults>>,
           CallGood(f, a, call[f][a])', RecordGood(k)',
           \A j \in DOMAIN ops : ops[j].asset = a => j <= k,
           \A i \in DOMAIN ops : i < k /\ ops[i].asset = a =>
               ops[i].fence # f /\ ops[i].state \notin {"reserved_unsent", "artifact_stored"}
    PROVE  LedgerInv'
<1>1. ASSUME NEW g \in Fences, NEW b \in Assets PROVE CallGood(g, b, call[g][b])'
  <2>1. CASE g = f /\ b = a
    BY <2>1
  <2>2. CASE g # f \/ b # a
    BY <2>2, OtherCalls DEF Moved
  <2> QED
    BY <2>1, <2>2
<1>2. RecordsGood'
  BY OtherRecords
<1>3. DataOK' /\ CallsOK' /\ StoreGood'
  BY DEF LedgerInv, DataOK, CallsOK, StoreGood, Touched, Moved, Surroundings,
         Effective, AssetsOf
<1> QED
  BY <1>1, <1>2, <1>3 DEF LedgerInv

Rewritten(k, r) == ops' = [ops EXCEPT ![k] = r]

\* The record a call works on, when its delivery is still the owner.
LEMMA OwnRecord ==
    ASSUME LedgerInv, NEW f \in Fences, NEW a \in Assets, Owns(f),
           call[f][a].step \in Using, NEW r \in Operations,
           Rewritten(call[f][a].index, r), r.fence = f, r.asset = a
    PROVE  /\ Touched(f, a, call[f][a].index)
           /\ ops'[call[f][a].index] = r
           /\ \A j \in DOMAIN ops : ops[j].asset = a => j <= call[f][a].index
           /\ \A i \in DOMAIN ops : i < call[f][a].index /\ ops[i].asset = a =>
                 ops[i].fence # f /\ ops[i].state \notin {"reserved_unsent", "artifact_stored"}
<1> DEFINE k == call[f][a].index
<1>1. k \in DOMAIN ops /\ ops \in Seq(Operations) /\ fence = f /\ Mine(k, f, a)
  BY RecordOf DEF Owns, LedgerInv, DataOK
<1>2. \A j \in DOMAIN ops : ops[j].asset = a => j <= k
  BY <1>1 DEF LedgerInv, CallGood, IndexGood, Using
<1>3. \A i \in DOMAIN ops : i < k /\ ops[i].asset = a =>
          ops[i].fence # f /\ ops[i].state \notin {"reserved_unsent", "artifact_stored"}
  BY <1>1 DEF LedgerInv, RecordsGood, OrderGood, Mine
<1>4. /\ ops' \in Seq(Operations) /\ DOMAIN ops' = DOMAIN ops
      /\ Len(ops') = Len(ops) /\ Len(ops) \in Nat
      /\ \A i \in DOMAIN ops : ops'[i] = IF i = k THEN r ELSE ops[i]
  BY <1>1, ChangedRecord DEF Rewritten
<1> HIDE DEF k
<1>5. Touched(f, a, k)
  BY <1>1, <1>4 DEF Touched, Mine
<1> QED
  BY <1>1, <1>2, <1>3, <1>4, <1>5 DEF k

LEMMA DispatchStep ==
    ASSUME LedgerInv, NEW f \in Fences, NEW a \in Assets, ReserveHttpAttempt(f, a),
           UNCHANGED setup
    PROVE  LedgerInv'
<1> DEFINE c == call[f][a]
           d == [c EXCEPT !.step = "permit"]
<1>1. /\ c \in Calls /\ CallGood(f, a, c) /\ CallsOK /\ DataOK
      /\ c.step = "gate" /\ Owns(f)
      /\ UNCHANGED Surroundings /\ UNCHANGED <<ended, faults>>
  BY DEF LedgerInv, CallsOK, ReserveHttpAttempt, At, Surroundings
<1>k. PICK k : k = c.index
  OBVIOUS
<1>2. k \in DOMAIN ops /\ ops[k] \in Operations /\ Mine(k, f, a) /\ fence = f
  BY <1>k, <1>1, RecordOf DEF Using, Owns
<1>r. PICK r : r = [ops[k] EXCEPT !.state = "dispatch_intent", !.http = ops[k].http + 1,
                                !.superseded = IF ops[k].state \in InFlight
                                               THEN ops[k].superseded + 1
                                               ELSE ops[k].superseded]
  OBVIOUS
<1>3. /\ ops[k].http \in Nat /\ ops[k].http + 1 \in Nat
      /\ ops[k].superseded \in Nat /\ ops[k].superseded + 1 \in Nat
  BY <1>2 DEF Operations
<1>4. /\ r \in Operations /\ r.fence = f /\ r.asset = a
      /\ r.state = "dispatch_intent" /\ r.http = ops[k].http + 1
  BY <1>2, <1>3, <1>r DEF Operations, OpStates, InFlight, Mine
<1>5. Rewritten(k, r)
  BY <1>2, <1>k, <1>r DEF ReserveHttpAttempt, Dispatched, Rewritten
<1>6. /\ Touched(f, a, k) /\ ops'[k] = r
      /\ \A j \in DOMAIN ops : ops[j].asset = a => j <= k
      /\ \A i \in DOMAIN ops : i < k /\ ops[i].asset = a =>
            ops[i].fence # f /\ ops[i].state \notin {"reserved_unsent", "artifact_stored"}
  <2>1. c.step \in Using /\ Owns(f)
    BY <1>1 DEF Using
  <2> QED
    BY <1>4, <1>5, <1>k, <2>1, OwnRecord
<1>7. Moved(f, a, d) /\ d \in Calls
  BY <1>1, GoingTo DEF ReserveHttpAttempt, CallSteps
<1>8. /\ call'[f][a].step = "permit" /\ call'[f][a].index = k
      /\ call'[f][a].attempts = c.attempts /\ call'[f][a].outcome = c.outcome
      /\ call'[f][a].rateLimited = c.rateLimited
  BY <1>1, <1>7, <1>k DEF Moved, Calls
<1>9. sent[f][a] <= PerAttempt * ops[k].http /\ sent[f][a] \in Nat
  BY <1>1, <1>2 DEF LedgerInv, RecordsGood, RecordGood, Mine, DataOK
<1>10. PerAttempt \in Nat /\ PerAttempt' = PerAttempt /\ c.rateLimited \in Nat
  BY <1>1, PerAttemptPositive DEF PerAttempt, Surroundings, Calls
<1>11. /\ sent[f][a] <= PerAttempt * (ops'[k].http - 1) + c.rateLimited + 0
       /\ sent[f][a] <= PerAttempt * ops'[k].http
  <2> DEFINE h == ops[k].http
             spent == PerAttempt * h
  <2>1. ops'[k].http = h + 1 /\ (h + 1) - 1 = h
    BY <1>3, <1>4, <1>6
  <2>2. spent \in Nat /\ PerAttempt * (h + 1) = spent + PerAttempt
    BY <1>3, <1>10
  <2>3. sent[f][a] <= spent + c.rateLimited + 0 /\ sent[f][a] <= spent + PerAttempt
    <3> HIDE DEF spent
    <3> QED
      BY <1>9, <1>10, <2>2 DEF spent
  <2> QED
    BY <2>1, <2>2, <2>3
<1>12. RecordGood(k)'
  <2>1. /\ ops'[k].fence = f /\ ops'[k].asset = a /\ ops'[k].state = "dispatch_intent"
        /\ fence' = f /\ sent' = sent /\ f <= f
    BY <1>1, <1>2, <1>4, <1>6 DEF Surroundings, Fences
  <2> QED
    BY <1>10, <1>11, <2>1 DEF RecordGood
<1>13. CallGood(f, a, call[f][a])'
  <2> DEFINE e == call'[f][a]
  <2>1. e.step = "permit" /\ e.index = k /\ e.attempts = c.attempts
        /\ e.outcome = c.outcome /\ e.rateLimited = c.rateLimited
    BY <1>8
  <2> HIDE DEF e, d
  <2>2. IndexGood(f, a, call[f][a])'
    BY <1>1, <1>2, <1>6, <1>k, <2>1
    DEF CallGood, IndexGood, Using, Mine, Touched, Surroundings, e
  <2>3. SentGood(f, a, call[f][a])'
    <3>1. /\ ops'[k].fence = f /\ ops'[k].asset = a /\ ops'[k].state = "dispatch_intent"
          /\ fence' = f /\ sent' = sent /\ setup' = setup /\ ~(f > f)
      BY <1>1, <1>2, <1>4, <1>6 DEF Surroundings, Fences
    <3>2. /\ sent[f][a] <= c.attempts /\ c.rateLimited <= setup.limiterRetries
      BY <1>1, <1>k DEF CallGood, IndexGood, SentGood, Using
    <3> QED
      BY <1>10, <1>11, <2>1, <3>1, <3>2 DEF SentGood, Mine, e
  <2>4. WorkGood(f, a, call[f][a])'
    BY <1>1, <2>1 DEF CallGood, WorkGood, e
  <2> QED
    BY <2>2, <2>3, <2>4 DEF CallGood
<1> QED
  <2> HIDE DEF d
  <2>1. /\ Owns(f) /\ UNCHANGED Surroundings /\ UNCHANGED <<ended, faults>>
    BY <1>1
  <2> QED
    BY <1>6, <1>7, <1>12, <1>13, <2>1, OwnerStep

LEMMA FinishStep ==
    ASSUME LedgerInv, NEW f \in Fences, NEW a \in Assets, FinishOperation(f, a),
           UNCHANGED setup
    PROVE  LedgerInv'
<1> DEFINE c == call[f][a]
           step == IF c.outcome = "response_received" THEN "save" ELSE "failed"
           d == [c EXCEPT !.step = step]
<1>1. /\ c \in Calls /\ CallGood(f, a, c) /\ CallsOK /\ DataOK
      /\ c.step = "finish" /\ Owns(f)
      /\ UNCHANGED Surroundings /\ UNCHANGED <<ended, faults>>
  BY DEF LedgerInv, CallsOK, FinishOperation, At, Surroundings
<1>k. PICK k : k = c.index
  OBVIOUS
<1>2. k \in DOMAIN ops /\ ops[k] \in Operations /\ Mine(k, f, a) /\ fence = f
  BY <1>k, <1>1, RecordOf DEF Using, Owns
<1>r. PICK r : r = FinishedRecord(ops[k], c.outcome, c.attempts)
  OBVIOUS
<1>3. /\ r \in Operations /\ r.fence = f /\ r.asset = a
      /\ r.state = c.outcome /\ r.http = c.attempts
      /\ r.state \notin {"reserved_unsent", "artifact_stored"} /\ c.attempts \in Nat
  BY <1>1, <1>2, <1>r
  DEF FinishedRecord, Operations, OpStates, Calls, CallGood, WorkGood, Mine, Finished
<1>4. Rewritten(k, r)
  BY <1>1, <1>2, <1>k, <1>r, RecordOf DEF FinishOperation, Rewritten
<1>5. /\ Touched(f, a, k) /\ ops'[k] = r
      /\ \A j \in DOMAIN ops : ops[j].asset = a => j <= k
      /\ \A i \in DOMAIN ops : i < k /\ ops[i].asset = a =>
            ops[i].fence # f /\ ops[i].state \notin {"reserved_unsent", "artifact_stored"}
  <2>1. c.step \in Using /\ Owns(f)
    BY <1>1 DEF Using
  <2> QED
    BY <1>3, <1>4, <1>k, <2>1, OwnRecord
<1>6. Moved(f, a, d) /\ d \in Calls /\ step \in {"save", "failed"}
  BY <1>1, GoingTo DEF FinishOperation, CallSteps
<1>7. /\ call'[f][a].step = step /\ call'[f][a].index = k
      /\ call'[f][a].attempts = c.attempts /\ call'[f][a].outcome = c.outcome
      /\ call'[f][a].rateLimited = c.rateLimited
  BY <1>1, <1>6, <1>k DEF Moved, Calls
<1>8. sent[f][a] <= c.attempts /\ sent[f][a] \in Nat /\ PerAttempt \in Nat \ {0}
  BY <1>1, PerAttemptPositive DEF CallGood, IndexGood, SentGood, Using, DataOK
<1>9. sent[f][a] <= PerAttempt * c.attempts
  BY <1>3, <1>8, AttemptsCover
<1>10. PerAttempt' = PerAttempt /\ fence' = f /\ sent' = sent /\ setup' = setup
       /\ f <= f /\ ~(f > f)
  BY <1>1, <1>2 DEF PerAttempt, Surroundings, Fences
<1>11. RecordGood(k)'
  BY <1>3, <1>5, <1>9, <1>10 DEF RecordGood
<1> HIDE DEF step, d
<1>12. CallGood(f, a, call[f][a])'
  <2>1. IndexGood(f, a, call[f][a])'
    BY <1>1, <1>2, <1>5, <1>6, <1>7, <1>k
    DEF CallGood, IndexGood, Using, Mine, Touched, Surroundings
  <2>2. SentGood(f, a, call[f][a])'
    BY <1>1, <1>6, <1>7, <1>8, <1>10 DEF CallGood, SentGood
  <2>3. WorkGood(f, a, call[f][a])'
    BY <1>1, <1>6, <1>7 DEF CallGood, WorkGood
  <2> QED
    BY <2>1, <2>2, <2>3 DEF CallGood
<1> QED
  <2>1. Owns(f) /\ UNCHANGED Surroundings /\ UNCHANGED <<ended, faults>>
    BY <1>1
  <2> QED
    BY <1>5, <1>6, <1>11, <1>12, <2>1, OwnerStep

LEMMA ConfirmStep ==
    ASSUME LedgerInv, NEW f \in Fences, NEW a \in Assets, ConfirmStored(f, a),
           UNCHANGED setup
    PROVE  LedgerInv'
<1> DEFINE c == call[f][a]
           step == IF Owns(f) THEN "done" ELSE "failed"
           d == [c EXCEPT !.step = step]
<1>1. /\ c \in Calls /\ CallGood(f, a, c) /\ CallsOK /\ DataOK /\ c.step = "confirm"
      /\ UNCHANGED Surroundings /\ UNCHANGED <<ended, faults>>
  BY DEF LedgerInv, CallsOK, ConfirmStored, At, Surroundings
<1>2. Moved(f, a, d) /\ d \in Calls /\ step \in {"done", "failed"}
  BY <1>1, GoingTo DEF ConfirmStored, CallSteps
<1>3. /\ d.step = step /\ d.index = c.index /\ d.attempts = c.attempts
      /\ d.outcome = c.outcome /\ d.rateLimited = c.rateLimited
      /\ call'[f][a] = d
  BY <1>1, <1>2 DEF Moved, Calls
<1> HIDE DEF step, d
<1>4. CASE ~Owns(f)
  <2>1. ops' = ops
    BY <1>4 DEF ConfirmStored
  <2>2. CallGood(f, a, d)
    BY <1>1, <1>2, <1>3
    DEF CallGood, IndexGood, SentGood, WorkGood, Using, NoCall
  <2>3. ended' \in BOOLEAN /\ faults' \in 0..setup.dbFaults
    BY <1>1 DEF DataOK
  <2> QED
    BY <1>1, <1>2, <2>1, <2>2, <2>3, OnlyCalls DEF Surroundings
<1>5. CASE Owns(f)
  <2>k. PICK k : k = c.index
    OBVIOUS
  <2>1. k \in DOMAIN ops /\ ops[k] \in Operations /\ Mine(k, f, a) /\ fence = f
    BY <1>1, <1>5, <2>k, RecordOf DEF Using, Owns
  <2>r. PICK r : r = [ops[k] EXCEPT !.state = "artifact_stored"]
    OBVIOUS
  <2>2. /\ r \in Operations /\ r.fence = f /\ r.asset = a
        /\ r.state = "artifact_stored" /\ r.http = ops[k].http
    BY <2>1, <2>r DEF Operations, OpStates, Finished, Mine
  <2>3. Rewritten(k, r)
    BY <1>5, <2>1, <2>k, <2>r DEF ConfirmStored, Rewritten
  <2>4. /\ Touched(f, a, k) /\ ops'[k] = r
        /\ \A j \in DOMAIN ops : ops[j].asset = a => j <= k
        /\ \A i \in DOMAIN ops : i < k /\ ops[i].asset = a =>
              ops[i].fence # f /\ ops[i].state \notin {"reserved_unsent", "artifact_stored"}
    <3>1. c.step \in Using
      BY <1>1 DEF Using
    <3> QED
      BY <1>5, <2>2, <2>3, <2>k, <3>1, OwnRecord
  <2>5. PerAttempt' = PerAttempt /\ fence' = f /\ sent' = sent /\ setup' = setup
         /\ checkpoint' = checkpoint /\ f <= f /\ ~(f > f)
    BY <1>1, <2>1 DEF PerAttempt, Surroundings, Fences
  <2>6. RecordGood(k)'
    <3>1. sent[f][a] <= PerAttempt * ops[k].http
      BY <2>1 DEF LedgerInv, RecordsGood, RecordGood, Mine
    <3>2. a \in AssetsOf(Effective(checkpoint))
      BY <1>1, <2>1 DEF CallGood, WorkGood
    <3> QED
      BY <2>2, <2>4, <2>5, <3>1, <3>2 DEF RecordGood, AssetsOf, Effective
  <2>7. CallGood(f, a, call[f][a])'
    <3>1. IndexGood(f, a, call[f][a])'
      BY <1>1, <1>2, <1>3, <2>1, <2>4, <2>k
      DEF CallGood, IndexGood, Using, Mine, Touched, Surroundings
    <3>2. SentGood(f, a, call[f][a])'
      BY <1>1, <1>2, <1>3, <2>5 DEF CallGood, SentGood
    <3>3. WorkGood(f, a, call[f][a])'
      BY <1>1, <1>2, <1>3, <1>5 DEF CallGood, WorkGood
    <3> QED
      BY <3>1, <3>2, <3>3 DEF CallGood
  <2> QED
    BY <1>1, <1>2, <1>5, <2>4, <2>6, <2>7, OwnerStep
<1> QED
  BY <1>4, <1>5

\* At most one record of an asset is a reservation, so that is the one taken over.
LEMMA TheReservation ==
    ASSUME LedgerInv, NEW a \in Assets, Reclaimable(a) # {}
    PROVE  /\ Min(Reclaimable(a)) \in DOMAIN ops
           /\ ops[Min(Reclaimable(a))].asset = a
           /\ ops[Min(Reclaimable(a))].state = "reserved_unsent"
<1>1. PICK i \in Reclaimable(a) : TRUE
  OBVIOUS
<1>2. DOMAIN ops = 1..Len(ops)
  BY DEF LedgerInv, DataOK
<1>3. ASSUME NEW y \in Reclaimable(a) PROVE y = i
  <2>1. /\ i \in DOMAIN ops /\ y \in DOMAIN ops
        /\ ops[i].asset = a /\ ops[y].asset = a
        /\ ops[i].state = "reserved_unsent" /\ ops[y].state = "reserved_unsent"
    BY DEF Reclaimable, RecordsOf
  <2>2. ~(i < y) /\ ~(y < i)
    BY <2>1 DEF LedgerInv, RecordsGood, OrderGood
  <2> QED
    BY <1>2, <2>1, <2>2
<1>4. i \in Nat
  BY <1>2 DEF Reclaimable, RecordsOf
<1>5. Min(Reclaimable(a)) = i
  <2> DEFINE S == Reclaimable(a)
  <2>1. \E x \in S : \A y \in S : x <= y
    BY <1>1, <1>3, <1>4
  <2>2. Min(S) = CHOOSE x \in S : \A y \in S : x <= y
    BY DEF Min
  <2> HIDE DEF S
  <2>3. (CHOOSE x \in S : \A y \in S : x <= y) \in S
    BY <2>1
  <2> QED
    BY <1>3, <2>2, <2>3 DEF S
<1> QED
  BY <1>1, <1>5 DEF Reclaimable, RecordsOf

\* A call that gets a record: nothing has been sent for it.
LEMMA NewRecord ==
    ASSUME LedgerInv, NEW f \in Fences, NEW a \in Assets, NEW k \in Nat \ {0},
           call[f][a].step = "todo", Owns(f), Touched(f, a, k),
           ops'[k].state = "reserved_unsent", ops'[k].http = 0,
           call' = [call EXCEPT ![f][a].step = "reserved", ![f][a].index = k],
           UNCHANGED Surroundings, UNCHANGED <<ended, faults>>,
           \A j \in DOMAIN ops : ops[j].asset = a => j <= k,
           \A i \in DOMAIN ops : i < k /\ ops[i].asset = a =>
               ops[i].state \notin {"reserved_unsent", "artifact_stored"}
    PROVE  LedgerInv'
<1> DEFINE c == call[f][a]
           d == [c EXCEPT !.step = "reserved", !.index = k]
<1>1. c \in Calls /\ CallGood(f, a, c) /\ CallsOK /\ DataOK /\ fence = f
  BY DEF LedgerInv, CallsOK, Owns
<1>2. d \in Calls
  BY <1>1 DEF Calls, CallSteps
<1>3. call' = [call EXCEPT ![f][a] = d]
  BY <1>1 DEF CallsOK
<1>4. Moved(f, a, d)
  BY <1>1, <1>2, <1>3, Moving
<1>5. /\ call'[f][a].step = "reserved" /\ call'[f][a].index = k
      /\ call'[f][a].attempts = c.attempts /\ call'[f][a].attempts \in Nat
      /\ call'[f][a].outcome = c.outcome /\ call'[f][a].rateLimited = c.rateLimited
  BY <1>1, <1>4 DEF Moved, Calls
<1> HIDE DEF d
<1>6. sent[f][a] = 0 /\ \A i \in DOMAIN ops : ~Mine(i, f, a)
  BY <1>1 DEF CallGood, SentGood
<1>7. PerAttempt' = PerAttempt /\ fence' = f /\ sent' = sent /\ setup' = setup
      /\ PerAttempt \in Nat /\ f <= f /\ ~(f > f)
  BY <1>1, PerAttemptPositive DEF PerAttempt, Surroundings, Fences
<1>8. RecordGood(k)'
  <2>1. PerAttempt * 0 = 0
    BY <1>7
  <2> QED
    BY <1>6, <1>7, <2>1 DEF RecordGood, Touched
<1>9. CallGood(f, a, call[f][a])'
  <2>1. k \in DOMAIN ops' /\ k \in 0..Len(ops') /\ k # 0 /\ Mine(k, f, a)'
    BY DEF Touched, Mine
  <2>2. ASSUME NEW j \in DOMAIN ops', ops'[j].asset = a PROVE j <= k
    BY <2>2 DEF Touched
  <2>3. IndexGood(f, a, call[f][a])'
    BY <1>5, <1>7, <2>1, <2>2 DEF IndexGood
  <2>4. SentGood(f, a, call[f][a])'
    BY <1>1, <1>5, <1>6, <1>7 DEF CallGood, SentGood
  <2>5. WorkGood(f, a, call[f][a])'
    BY <1>1, <1>5 DEF CallGood, WorkGood
  <2> QED
    BY <2>3, <2>4, <2>5 DEF CallGood
<1>10. \A i \in DOMAIN ops : i < k /\ ops[i].asset = a =>
          ops[i].fence # f /\ ops[i].state \notin {"reserved_unsent", "artifact_stored"}
  BY <1>6 DEF Mine
<1> QED
  BY <1>2, <1>4, <1>8, <1>9, <1>10, OwnerStep

LEMMA ReserveStep ==
    ASSUME LedgerInv, NEW f \in Fences, NEW a \in Assets, ReserveOperation(f, a),
           UNCHANGED setup
    PROVE  LedgerInv'
<1>1. /\ call[f][a].step = "todo" /\ Owns(f) /\ fence = f
      /\ UNCHANGED Surroundings /\ UNCHANGED <<ended, faults>>
  BY DEF ReserveOperation, At, Owns, Surroundings
<1>2. ops \in Seq(Operations) /\ DOMAIN ops = 1..Len(ops) /\ Len(ops) \in Nat
  BY DEF LedgerInv, DataOK
<1>3. CASE Reclaim(f, a)
  <2>k. PICK k : k = Min(Reclaimable(a))
    OBVIOUS
  <2>1. k \in DOMAIN ops /\ ops[k].asset = a /\ ops[k].state = "reserved_unsent"
    BY <1>3, <2>k, TheReservation DEF Reclaim
  <2>2. ops[k] \in Operations /\ ops[k].http = 0 /\ k \in Nat \ {0}
    BY <1>2, <2>1 DEF LedgerInv, RecordsGood, RecordGood
  <2>r. PICK r : r = [ops[k] EXCEPT !.fence = f, !.state = "reserved_unsent"]
    OBVIOUS
  <2>3. /\ r \in Operations /\ r.fence = f /\ r.asset = a
        /\ r.state = "reserved_unsent" /\ r.http = 0
    BY <2>1, <2>2, <2>r DEF Operations, OpStates
  <2>4. ops' = [ops EXCEPT ![k] = r]
    BY <1>3, <2>1, <2>k, <2>r DEF Reclaim
  <2>5. call' = [call EXCEPT ![f][a].step = "reserved", ![f][a].index = k]
    BY <1>3, <2>k DEF Reclaim
  <2>6. /\ ops' \in Seq(Operations) /\ DOMAIN ops' = DOMAIN ops /\ Len(ops') = Len(ops)
        /\ \A i \in DOMAIN ops : ops'[i] = IF i = k THEN r ELSE ops[i]
    BY <1>2, <2>1, <2>3, <2>4, ChangedRecord
  <2>7. Touched(f, a, k)
    BY <1>2, <2>1, <2>3, <2>6 DEF Touched
  <2>8. ops'[k] = r
    BY <2>1, <2>6
  <2>9. \A j \in DOMAIN ops : ops[j].asset = a => j <= k
    BY <1>2, <2>1 DEF LedgerInv, RecordsGood, OrderGood
  <2>10. \A i \in DOMAIN ops : i < k /\ ops[i].asset = a =>
            ops[i].state \notin {"reserved_unsent", "artifact_stored"}
    BY <2>1 DEF LedgerInv, RecordsGood, OrderGood
  <2> QED
    BY <1>1, <2>2, <2>3, <2>5, <2>7, <2>8, <2>9, <2>10, NewRecord
<1>4. CASE Reserve(f, a)
  <2> DEFINE settled == [i \in DOMAIN ops |-> IF ops[i].fence # f
                                              THEN SettleInFlight(ops[i]) ELSE ops[i]]
  <2>k. PICK k : k = Len(ops) + 1
    OBVIOUS
  <2>1. settled \in Seq(Operations) /\ Len(settled) = Len(ops)
    <3>1. \A i \in 1..Len(ops) : settled[i] \in Operations
      BY <1>2, SettledType
    <3>2. settled \in [1..Len(ops) -> Operations]
      BY <1>2, <3>1
    <3> QED
      BY <1>2, <3>2
  <2>2. Reservation(f, a) \in Operations
    BY DEF Reservation, Operations, OpStates
  <2>3. /\ ops' \in Seq(Operations) /\ Len(ops') = k /\ k \in Nat \ {0}
        /\ \A i \in DOMAIN ops : ops'[i] = settled[i]
        /\ ops'[k] = Reservation(f, a)
    <3>1. ops' = Append(settled, Reservation(f, a))
      BY <1>4 DEF Reserve
    <3> HIDE DEF settled
    <3> QED
      BY <1>2, <2>k, <2>1, <2>2, <3>1, AppendProperties
  <2>4. DOMAIN ops' = 1..k
    BY <2>3
  <2>5. ASSUME NEW i \in DOMAIN ops' \ {k}
        PROVE  /\ i \in DOMAIN ops /\ ops'[i].asset = ops[i].asset
               /\ ops'[i].fence = ops[i].fence /\ ops'[i].http = ops[i].http
               /\ \/ ops'[i].state = ops[i].state
                  \/ ops[i].state \in InFlight /\ ops'[i].state = "unknown"
    <3>1. i \in DOMAIN ops /\ ops[i] \in Operations
      BY <1>2, <2>k, <2>4
    <3>2. ops'[i] = SettleInFlight(ops[i]) \/ ops'[i] = ops[i]
      BY <2>3, <3>1
    <3> QED
      BY <3>1, <3>2 DEF SettleInFlight, Operations
  <2>6. ops'[k].state = "reserved_unsent" /\ ops'[k].http = 0
        /\ ops'[k].fence = f /\ ops'[k].asset = a
    BY <2>3 DEF Reservation
  <2> HIDE DEF settled
  <2>7. Touched(f, a, k)
    BY <1>2, <2>k, <2>3, <2>4, <2>5, <2>6 DEF Touched
  <2>8. \A j \in DOMAIN ops : ops[j].asset = a => j <= k
    BY <1>2, <2>k
  <2>9. \A i \in DOMAIN ops : i < k /\ ops[i].asset = a =>
            ops[i].state \notin {"reserved_unsent", "artifact_stored"}
    <3>1. \A i \in DOMAIN ops : ops[i].asset = a => ops[i].state # "reserved_unsent"
      BY <1>4 DEF Reserve, Reclaimable, RecordsOf
    <3>2. \A i \in DOMAIN ops : ops[i].asset = a => ops[i].state # "artifact_stored"
      BY <1>1 DEF LedgerInv, CallGood, WorkGood
    <3> QED
      BY <3>1, <3>2
  <2>10. call' = [call EXCEPT ![f][a].step = "reserved", ![f][a].index = k]
    BY <1>4, <2>k DEF Reserve
  <2>11. k \in Nat \ {0}
    BY <2>3
  <2> QED
    <3>1. call[f][a].step = "todo" /\ Owns(f)
      BY <1>1
    <3>2. UNCHANGED Surroundings /\ UNCHANGED <<ended, faults>>
      BY <1>1
    <3>3. ops'[k].state = "reserved_unsent" /\ ops'[k].http = 0
      BY <2>6
    <3> QED
      BY <2>7, <2>8, <2>9, <2>10, <2>11, <3>1, <3>2, <3>3, NewRecord, ZenonT(40)
<1> QED
  BY <1>3, <1>4 DEF ReserveOperation

-----------------------------------------------------------------------------
(* A claim *)

LEMMA ClaimStep ==
    ASSUME LedgerInv, Claim, UNCHANGED setup
    PROVE  LedgerInv'
<1>f. PICK f : f = fence + 1
  OBVIOUS
<1> DEFINE kept == AssetsOf(Effective(checkpoint) \cap stored)
<1>1. /\ DataOK /\ CallsOK /\ RecordsGood /\ StoreGood
      /\ ops \in Seq(Operations) /\ DOMAIN ops = 1..Len(ops) /\ Len(ops) \in Nat
      /\ \A g \in Fences, b \in Assets : CallGood(g, b, call[g][b])
  BY DEF LedgerInv, DataOK
<1>2. /\ UNCHANGED <<setup, ended, checkpoint, stored, sent, faults>>
      /\ fence' = f /\ fence \in Nat /\ f \in Fences
      /\ setup.limiterRetries \in Nat
  <2>1. setup.claims \in 0..MaxFence /\ fence \in 0..MaxFence
    BY <1>1 DEF DataOK, Setup
  <2>2. f <= setup.claims /\ fence' = f
    BY <1>f DEF Claim
  <2> QED
    BY <1>1, <1>f, <2>1, <2>2, ProviderLedgerAssumption, PerAttemptPositive DEF Fences, Claim
<1>3. /\ ops' \in Seq(Operations) /\ DOMAIN ops' = DOMAIN ops /\ Len(ops') = Len(ops)
      /\ \A i \in DOMAIN ops : ops'[i] = SettleInFlight(ops[i])
  <2>1. ops' = [i \in DOMAIN ops |-> SettleInFlight(ops[i])]
    BY DEF Claim
  <2>2. \A i \in 1..Len(ops) : SettleInFlight(ops[i]) \in Operations
    BY <1>1, SettledType
  <2>3. ops' \in [1..Len(ops) -> Operations]
    BY <1>1, <2>1, <2>2
  <2>4. ops' \in Seq(Operations) /\ Len(ops') = Len(ops)
    BY <1>1, <2>3
  <2> QED
    BY <1>1, <2>1, <2>4
<1>4. ASSUME NEW i \in DOMAIN ops
      PROVE  /\ ops'[i].asset = ops[i].asset /\ ops'[i].fence = ops[i].fence
             /\ ops'[i].http = ops[i].http
             /\ \/ ops'[i].state = ops[i].state
                \/ ops[i].state \in InFlight /\ ops'[i].state = "unknown"
  <2>1. ops[i] \in Operations
    BY <1>1
  <2> QED
    BY <1>3, <2>1 DEF SettleInFlight, Operations
<1>5. \A i \in DOMAIN ops : ops[i].fence < f
  <2>1. \A i \in DOMAIN ops : ops[i].fence <= fence /\ ops[i] \in Operations
    BY <1>1 DEF RecordsGood, RecordGood
  <2> QED
    BY <1>2, <1>f, <2>1 DEF Operations, Fences
<1>6. RecordsGood'
  <2>1. ASSUME NEW i \in DOMAIN ops PROVE RecordGood(i)'
    <3>1. RecordGood(i) /\ ops[i] \in Operations /\ ops[i].fence < f
      BY <1>1, <1>5 DEF RecordsGood
    <3>2. ops[i].fence <= f
      BY <1>2, <3>1 DEF Operations, Fences
    <3> QED
      BY <1>2, <1>4, <3>1, <3>2
      DEF RecordGood, PerAttempt, Effective, AssetsOf, InFlight
  <2>2. ASSUME NEW i \in DOMAIN ops, NEW j \in DOMAIN ops PROVE OrderGood(i, j)'
    <3>1. OrderGood(i, j)
      BY <1>1 DEF RecordsGood
    <3> QED
      BY <1>4, <3>1 DEF OrderGood, InFlight
  <2> QED
    BY <1>3, <2>1, <2>2 DEF RecordsGood
<1>7. /\ call' \in [Fences -> [Assets -> Calls]]
      /\ \A g \in Fences, b \in Assets : g # f => call'[g][b] = call[g][b]
      /\ \A b \in Assets :
            \/ call'[f][b] = NoCall
            \/ call'[f][b] = [NoCall EXCEPT !.step = "adopt"]
            \/ call'[f][b] = [NoCall EXCEPT !.step = "todo"] /\ b \notin kept
  <2> DEFINE fresh == [a \in Assets |->
                          IF a \notin setup.assets THEN NoCall
                          ELSE [NoCall EXCEPT !.step = IF a \in kept THEN "adopt"
                                                       ELSE "todo"]]
  <2>1. call' = [call EXCEPT ![f] = fresh]
    BY <1>f DEF Claim
  <2>2. NoCall \in Calls /\ [NoCall EXCEPT !.step = "adopt"] \in Calls
        /\ [NoCall EXCEPT !.step = "todo"] \in Calls
    BY DEF NoCall, Calls, CallSteps, Finished
  <2>3. \A b \in Assets :
            /\ fresh[b] \in Calls
            /\ \/ fresh[b] = NoCall
               \/ fresh[b] = [NoCall EXCEPT !.step = "adopt"]
               \/ fresh[b] = [NoCall EXCEPT !.step = "todo"] /\ b \notin kept
    BY <2>2
  <2>4. fresh \in [Assets -> Calls]
    BY <2>3
  <2> HIDE DEF fresh, kept
  <2>5. call'[f] = fresh /\ \A g \in Fences : g # f => call'[g] = call[g]
    BY <1>1, <1>2, <2>1 DEF CallsOK
  <2> QED
    BY <1>1, <1>2, <2>1, <2>3, <2>4, <2>5 DEF CallsOK
<1>8. ASSUME NEW b \in Assets PROVE CallGood(f, b, call[f][b])'
  <2>1. sent[f][b] = 0
    BY <1>1, <1>2, <1>f DEF CallGood, SentGood
  <2>2. \A i \in DOMAIN ops' : ~Mine(i, f, b)'
    BY <1>2, <1>3, <1>4, <1>5 DEF Mine, Fences
  <2>3. b \notin kept => \A i \in DOMAIN ops' :
            ops'[i].asset = b => ops'[i].state # "artifact_stored"
    <3>1. kept = AssetsOf(Effective(checkpoint))
      BY <1>1 DEF StoreGood, AssetsOf
    <3> HIDE DEF kept
    <3>2. \A i \in DOMAIN ops : ops[i].state = "artifact_stored" =>
             ops[i].asset \in kept
      BY <1>1, <3>1 DEF RecordsGood, RecordGood
    <3> QED
      BY <1>3, <1>4, <3>2
  <2> HIDE DEF kept
  <2> DEFINE e == call'[f][b]
  <2>4. /\ e.index = 0 /\ e.rateLimited = 0 /\ e.outcome = "unknown"
        /\ \/ e.step \in {"absent", "adopt"}
           \/ e.step = "todo" /\ b \notin kept
    BY <1>7 DEF NoCall
  <2> HIDE DEF e
  <2>5. ~(f > f)
    BY <1>2 DEF Fences
  <2> QED
    BY <1>1, <1>2, <1>3, <2>1, <2>2, <2>3, <2>4, <2>5
    DEF CallGood, IndexGood, SentGood, WorkGood, Using, e
<1>9. ASSUME NEW g \in Fences, NEW b \in Assets, g # f PROVE CallGood(g, b, call[g][b])'
  <2>1. call'[g][b] = call[g][b] /\ CallGood(g, b, call[g][b])
    BY <1>1, <1>7, <1>9
  <2>2. fence' # g /\ (g > fence' => g > fence)
    BY <1>2, <1>f, <1>9 DEF Fences
  <2>3. \A i \in DOMAIN ops : Mine(i, g, b)' <=> Mine(i, g, b)
    BY <1>4 DEF Mine
  <2>4. IndexGood(g, b, call[g][b])'
    BY <1>3, <2>1, <2>2 DEF CallGood, IndexGood
  <2>5. SentGood(g, b, call[g][b])'
    <3>1. call[g][b].step \in {"permit", "flight"} =>
             /\ call[g][b].index \in DOMAIN ops
      BY RecordOf DEF Using
    <3>2. call[g][b].step \in {"permit", "flight"} =>
             ops'[call[g][b].index].state # "reserved_unsent"
      BY <1>4, <2>1, <3>1 DEF CallGood, SentGood
    <3> QED
      BY <1>2, <1>3, <1>4, <2>1, <2>2, <2>3, <3>1, <3>2
      DEF CallGood, SentGood, PerAttempt
  <2>6. WorkGood(g, b, call[g][b])'
    BY <1>2, <2>1, <2>2 DEF CallGood, WorkGood
  <2> QED
    BY <2>4, <2>5, <2>6 DEF CallGood
<1>10. DataOK' /\ CallsOK' /\ StoreGood'
  BY <1>1, <1>2, <1>3, <1>7 DEF DataOK, CallsOK, StoreGood, Effective, Fences
<1> QED
  <2>1. \A g \in Fences, b \in Assets : CallGood(g, b, call[g][b])'
    BY <1>8, <1>9
  <2> QED
    BY <1>6, <1>10, <2>1 DEF LedgerInv

-----------------------------------------------------------------------------
(* The specification *)

LEMMA LedgerInvInit == ASSUME Init PROVE LedgerInv
<1>1. setup \in Setup /\ setup.limiterRetries \in Nat /\ PerAttempt \in Nat
  BY ProviderLedgerAssumption DEF Init, Setup, PerAttempt
<1>2. PICK kept \in SUBSET setup.assets :
         /\ stored = [asset: kept, at: {0}]
         /\ checkpoint = [fence |-> 0, artifacts |-> stored, source |-> {}]
  BY DEF Init
<1>3. stored \subseteq Artifacts /\ 0 \in 0..MaxFence
  BY <1>1, <1>2, ProviderLedgerAssumption DEF Setup, Artifacts
<1>4. checkpoint \in Checkpoints /\ Effective(checkpoint) = stored
  BY <1>2, <1>3 DEF Checkpoints, Effective
<1>5. NoCall \in Calls
  BY DEF NoCall, Calls, CallSteps, Finished
<1>6. /\ call = [f \in Fences |-> [a \in Assets |-> NoCall]]
      /\ sent = [f \in Fences |-> [a \in Assets |-> 0]]
      /\ ops = <<>> /\ fence = 0 /\ ended = FALSE /\ faults = 0
  BY DEF Init
<1>7. DataOK /\ CallsOK
  <2>1. faults \in 0..setup.dbFaults
    BY <1>1, <1>6 DEF Setup
  <2>2. ops \in Seq(Operations)
    BY <1>6
  <2> QED
    BY <1>1, <1>3, <1>4, <1>5, <1>6, <2>1, <2>2 DEF DataOK, CallsOK
<1>8. ASSUME NEW f \in Fences, NEW a \in Assets PROVE CallGood(f, a, call[f][a])
  <2>1. call[f][a] = NoCall /\ sent[f][a] = 0 /\ Len(ops) = 0
    BY <1>6
  <2> QED
    BY <1>1, <2>1 DEF CallGood, IndexGood, SentGood, WorkGood, NoCall, Using
<1>9. RecordsGood /\ StoreGood
  BY <1>4, <1>6 DEF RecordsGood, StoreGood
<1> QED
  BY <1>7, <1>8, <1>9 DEF LedgerInv

LEMMA LedgerInvStep == ASSUME LedgerInv, [Next]_vars PROVE LedgerInv'
<1>1. CASE Claim /\ UNCHANGED setup
  BY <1>1, ClaimStep
<1>2. CASE (EndRun \/ \E f \in Fences : WorkerDies(f)) /\ UNCHANGED setup
  BY <1>2, EndStep
<1>3. ASSUME NEW f \in Fences, NEW a \in Assets, CallNext(f, a), UNCHANGED setup
      PROVE  LedgerInv'
  BY <1>3, QuietStep, ReserveStep, DispatchStep, SendStep, FinishStep, SaveStep,
     CheckpointStep, ConfirmStep
  DEF CallNext
<1>4. CASE UNCHANGED vars
  <2>1. ASSUME NEW f \in Fences, NEW a \in Assets PROVE CallGood(f, a, call[f][a])'
    <3>1. CallGood(f, a, call[f][a])
      BY DEF LedgerInv
    <3>2. UNCHANGED <<setup, fence, ops, checkpoint, stored, call, sent>>
      BY <1>4 DEF vars
    <3> QED
      BY <3>1, <3>2
      DEF CallGood, IndexGood, SentGood, WorkGood, Mine, PerAttempt, Effective,
          AssetsOf
  <2> QED
    BY <1>4, <2>1
    DEF LedgerInv, vars, DataOK, CallsOK, RecordsGood, RecordGood, OrderGood,
        StoreGood, PerAttempt, Effective, AssetsOf
<1> QED
  BY <1>1, <1>2, <1>3, <1>4 DEF Next

LEMMA LedgerInvariant == Spec => []LedgerInv
<1>1. Init => LedgerInv
  BY LedgerInvInit
<1>2. LedgerInv /\ [Next]_vars => LedgerInv'
  BY LedgerInvStep
<1> QED
  BY <1>1, <1>2, PTL DEF Spec

\* The ledger, the calls, the checkpoint and storage always have the form the
\* code gives them; a call that sends has a record.
THEOREM LedgerTyped == Spec => []TypeOK
<1>1. LedgerInv => TypeOK
  BY LedgerTypes
<1> QED
  BY <1>1, LedgerInvariant, PTL

\* generation-execution-policy.ts:205: a record in reserved_unsent proves that
\* its delivery has sent nothing for the asset, so taking it over is free.
THEOREM ReservationsUnsent == Spec => []ReservedMeansUnsent
<1>1. LedgerInv => ReservedMeansUnsent
  <2>1. SUFFICES ASSUME LedgerInv, NEW i \in DOMAIN ops,
                        ops[i].state = "reserved_unsent"
                 PROVE  sent[ops[i].fence][ops[i].asset] = 0
    BY DEF ReservedMeansUnsent
  <2>2. /\ RecordGood(i) /\ ops[i] \in Operations /\ DataOK
    BY <2>1 DEF LedgerInv, RecordsGood, DataOK
  <2>3. /\ ops[i].http = 0 /\ PerAttempt \in Nat
        /\ sent[ops[i].fence][ops[i].asset] \in Nat
        /\ sent[ops[i].fence][ops[i].asset] <= PerAttempt * ops[i].http
    BY <2>1, <2>2, PerAttemptPositive DEF RecordGood, Operations, DataOK
  <2> QED
    BY <2>3
<1> QED
  BY <1>1, LedgerInvariant, PTL

\* What a step may do to a record.
LEMMA RecordsStay ==
    ASSUME LedgerInv, [Next]_vars, NEW i \in DOMAIN ops
    PROVE  /\ i \in DOMAIN ops'
           /\ ops'[i].asset = ops[i].asset
           /\ ops[i].state # "reserved_unsent" =>
                 ops'[i].state # "reserved_unsent" /\ ops'[i].fence = ops[i].fence
<1>1. /\ ops \in Seq(Operations) /\ DOMAIN ops = 1..Len(ops) /\ Len(ops) \in Nat
      /\ ops[i] \in Operations
  BY DEF LedgerInv, DataOK
<1>2. CASE ops' = ops
  BY <1>2
<1>3. ASSUME ops'[i] = SettleInFlight(ops[i]) \/ ops'[i] = ops[i], i \in DOMAIN ops'
      PROVE  /\ ops'[i].asset = ops[i].asset
             /\ ops[i].state # "reserved_unsent" =>
                   ops'[i].state # "reserved_unsent" /\ ops'[i].fence = ops[i].fence
  BY <1>1, <1>3 DEF SettleInFlight, Operations
<1>4. CASE Claim
  <2>1. ops' = [j \in DOMAIN ops |-> SettleInFlight(ops[j])]
    BY <1>4 DEF Claim
  <2> QED
    BY <1>3, <2>1
<1>5. ASSUME NEW f \in Fences, NEW a \in Assets, ReserveOperation(f, a)
      PROVE  /\ i \in DOMAIN ops'
             /\ ops'[i].asset = ops[i].asset
             /\ ops[i].state # "reserved_unsent" =>
                   ops'[i].state # "reserved_unsent" /\ ops'[i].fence = ops[i].fence
  <2>1. CASE Reclaim(f, a)
    <3>1. PICK k \in DOMAIN ops :
             /\ ops[k].asset = a /\ ops[k].state = "reserved_unsent"
             /\ ops' = [ops EXCEPT ![k].fence = f, ![k].state = "reserved_unsent"]
      BY <2>1, TheReservation DEF Reclaim
    <3> QED
      BY <1>1, <3>1 DEF Operations
  <2>2. CASE Reserve(f, a)
    <3> DEFINE settled == [j \in DOMAIN ops |-> IF ops[j].fence # f
                                                THEN SettleInFlight(ops[j]) ELSE ops[j]]
    <3>1. settled \in Seq(Operations) /\ Len(settled) = Len(ops)
      <4>1. \A j \in 1..Len(ops) : settled[j] \in Operations
        BY <1>1, SettledType
      <4>2. settled \in [1..Len(ops) -> Operations]
        BY <1>1, <4>1
      <4> QED
        BY <1>1, <4>2
    <3>2. settled[i] = SettleInFlight(ops[i]) \/ settled[i] = ops[i]
      OBVIOUS
    <3>3. ops' = Append(settled, Reservation(f, a)) /\ Reservation(f, a) \in Operations
      BY <2>2 DEF Reserve, Reservation, Operations, OpStates
    <3> HIDE DEF settled
    <3>4. i \in DOMAIN ops' /\ ops'[i] = settled[i]
      BY <1>1, <3>1, <3>3, AppendProperties
    <3> QED
      BY <1>3, <3>2, <3>4
  <2> QED
    BY <1>5, <2>1, <2>2 DEF ReserveOperation
<1>6. ASSUME NEW f \in Fences, NEW a \in Assets, ops' # ops,
             \/ ReserveHttpAttempt(f, a) \/ FinishOperation(f, a)
             \/ ConfirmStored(f, a)
      PROVE  /\ i \in DOMAIN ops'
             /\ ops'[i].asset = ops[i].asset
             /\ ops[i].state # "reserved_unsent" =>
                   ops'[i].state # "reserved_unsent" /\ ops'[i].fence = ops[i].fence
  <2>1. call[f][a].step \in Using /\ call[f][a].outcome \in Finished
    BY <1>6
    DEF ReserveHttpAttempt, FinishOperation, ConfirmStored, At, Using, LedgerInv,
        CallsOK, Calls
  <2>2. PICK k \in DOMAIN ops : k = call[f][a].index
    BY <2>1, RecordOf
  <2>3. ops[k] \in Operations
    BY <1>1
  <2>4. CASE ReserveHttpAttempt(f, a)
    BY <1>1, <2>2, <2>3, <2>4 DEF ReserveHttpAttempt, Dispatched, Operations
  <2>5. CASE FinishOperation(f, a)
    BY <1>1, <2>1, <2>2, <2>3, <2>5
    DEF FinishOperation, FinishedRecord, Operations, Finished
  <2>6. CASE ConfirmStored(f, a)
    <3>1. ops' = [ops EXCEPT ![k].state = "artifact_stored"]
      BY <1>6, <2>2, <2>6 DEF ConfirmStored
    <3> QED
      BY <1>1, <2>3, <3>1 DEF Operations
  <2> QED
    BY <1>6, <2>4, <2>5, <2>6
<1>7. ASSUME NEW f \in Fences, NEW a \in Assets, CallNext(f, a), ops' # ops
      PROVE  \/ ReserveOperation(f, a) \/ ReserveHttpAttempt(f, a)
             \/ FinishOperation(f, a) \/ ConfirmStored(f, a)
  BY <1>7
  DEF CallNext, ReserveRefused, AssertOwnership, HttpAttemptRefused, Send, Answer,
      RateLimited, TransportRetry, CallFails, FinishFails, SaveImage, SaveFails,
      Checkpoint
<1>8. CASE EndRun \/ (\E f \in Fences : WorkerDies(f)) \/ UNCHANGED vars
  BY <1>2, <1>8 DEF EndRun, WorkerDies, vars
<1> QED
  BY <1>2, <1>4, <1>5, <1>6, <1>7, <1>8 DEF Next

LEMMA CheckpointStays ==
    ASSUME LedgerInv, [Next]_vars
    PROVE  AssetsOf(Effective(checkpoint)) \subseteq AssetsOf(Effective(checkpoint'))
<1>1. CASE checkpoint' = checkpoint
  BY <1>1
<1>2. ASSUME NEW f \in Fences, NEW a \in Assets, Checkpoint(f, a)
      PROVE  AssetsOf(Effective(checkpoint)) \subseteq AssetsOf(Effective(checkpoint'))
  BY <1>2, EffectiveGrows DEF Checkpoint, LedgerInv
<1>3. ASSUME NEW f \in Fences, NEW a \in Assets, CallNext(f, a), checkpoint' # checkpoint
      PROVE  Checkpoint(f, a)
  BY <1>3
  DEF CallNext, ReserveOperation, ReserveRefused, AssertOwnership, ReserveHttpAttempt,
      HttpAttemptRefused, Send, Answer, RateLimited, TransportRetry, CallFails,
      FinishOperation, FinishFails, SaveImage, SaveFails, ConfirmStored
<1>4. CASE Claim \/ EndRun \/ (\E f \in Fences : WorkerDies(f)) \/ UNCHANGED vars
  BY <1>1, <1>4 DEF Claim, EndRun, WorkerDies, vars
<1> QED
  BY <1>1, <1>2, <1>3, <1>4 DEF Next

\* Neither a dispatch nor a stored artifact is forgotten or paid for again,
\* whatever deliveries take over from each other and whichever die: a dispatched
\* record keeps its delivery and is never a reservation again, no record follows
\* a stored one of its asset, and the effective checkpoint only grows and names
\* bytes that exist.
THEOREM WorkKept == Spec => WorkIsKept
<1>1. LedgerInv => StoredWorkNotRepaid
  BY DEF LedgerInv, RecordsGood, OrderGood, StoredWorkNotRepaid
<1>2. LedgerInv /\ [Next]_vars =>
          [\A i \in DOMAIN ops : ops[i].state # "reserved_unsent" =>
              /\ ops'[i].state # "reserved_unsent"
              /\ ops'[i].fence = ops[i].fence]_vars
  BY RecordsStay
<1>3. LedgerInv /\ LedgerInv' /\ [Next]_vars =>
          [/\ AssetsOf(Effective(checkpoint)) \subseteq AssetsOf(Effective(checkpoint'))
           /\ Effective(checkpoint') \subseteq stored']_vars
  BY CheckpointStays DEF LedgerInv, StoreGood, Effective
<1> QED
  BY <1>1, <1>2, <1>3, LedgerInvariant, PTL
  DEF Spec, WorkIsKept, DispatchIsForGood, CheckpointKeepsArtifacts

\* What has been sent is on some record.
OnRecord ==
    \A f \in Fences, a \in Assets : sent[f][a] > 0 => \E i \in DOMAIN ops : Mine(i, f, a)

LEMMA OnRecordAlways == Spec => []OnRecord
<1>1. Init => OnRecord
  BY DEF Init, OnRecord
<1>2. LedgerInv /\ OnRecord /\ [Next]_vars => OnRecord'
  <2>1. SUFFICES ASSUME LedgerInv, OnRecord, [Next]_vars, NEW f \in Fences,
                        NEW a \in Assets, sent'[f][a] > 0
                 PROVE  \E i \in DOMAIN ops' : Mine(i, f, a)'
    BY DEF OnRecord
  <2>2. sent' = sent \/ \E g \in Fences, b \in Assets : Send(g, b)
    <3>1. ASSUME NEW g \in Fences, NEW b \in Assets, CallNext(g, b), ~Send(g, b)
          PROVE  sent' = sent
      BY <3>1
      DEF CallNext, ReserveOperation, ReserveRefused, AssertOwnership,
          ReserveHttpAttempt, HttpAttemptRefused, Answer, RateLimited,
          TransportRetry, CallFails, FinishOperation, FinishFails, SaveImage,
          SaveFails, Checkpoint, ConfirmStored
    <3>2. CASE Claim \/ EndRun \/ (\E g \in Fences : WorkerDies(g)) \/ UNCHANGED vars
      BY <3>2 DEF Claim, EndRun, WorkerDies, vars
    <3> QED
      BY <2>1, <3>1, <3>2 DEF Next
  <2>3. sent[f][a] > 0 \/ (sent[f][a] = 0 /\ Send(f, a))
    <3>1. sent \in [Fences -> [Assets -> Nat]]
      BY <2>1 DEF LedgerInv, DataOK
    <3>2. ASSUME NEW g \in Fences, NEW b \in Assets, Send(g, b), ~Send(f, a)
          PROVE  sent'[f][a] = sent[f][a]
      <4>1. g # f \/ b # a
        BY <3>2
      <4>2. sent' = [sent EXCEPT ![g][b] = @ + 1]
        BY <3>2 DEF Send
      <4> QED
        BY <3>1, <4>1, <4>2
    <3>3. Send(f, a) \/ sent'[f][a] = sent[f][a]
      BY <2>2, <3>2
    <3>4. sent[f][a] \in Nat
      BY <3>1
    <3> QED
      BY <2>1, <3>3, <3>4
  <2>4. CASE sent[f][a] > 0
    <3>1. PICK i \in DOMAIN ops : Mine(i, f, a)
      BY <2>1, <2>4 DEF OnRecord
    <3>2. ops[i].state # "reserved_unsent"
      <4>1. RecordGood(i) /\ PerAttempt \in Nat /\ ops[i] \in Operations
            /\ sent[f][a] \in Nat
        BY <2>1, PerAttemptPositive DEF LedgerInv, RecordsGood, DataOK
      <4>2. ops[i].http = 0 => ~(sent[f][a] <= PerAttempt * ops[i].http)
        BY <2>4, <4>1
      <4> QED
        BY <3>1, <4>1, <4>2 DEF RecordGood, Mine
    <3> QED
      BY <2>1, <3>1, <3>2, RecordsStay DEF Mine
  <2>5. CASE Send(f, a)
    <3>1. call[f][a].step = "permit" /\ CallGood(f, a, call[f][a])
      BY <2>1, <2>5 DEF Send, At, LedgerInv
    <3>2. PICK i \in DOMAIN ops : i = call[f][a].index
      BY <2>1, <3>1, RecordOf DEF Using
    <3>3. Mine(i, f, a) /\ ops[i].state # "reserved_unsent"
      BY <3>1, <3>2 DEF CallGood, SentGood
    <3> QED
      BY <2>1, <2>5, <3>2, <3>3 DEF Send, Mine
  <2> QED
    BY <2>3, <2>4, <2>5
<1> QED
  BY <1>1, <1>2, LedgerInvariant, PTL DEF Spec

\* Every request is on record: what a delivery has sent for an asset belongs to
\* exactly one record, which counts at least as many attempts.
EveryRequestRecorded ==
    \A f \in Fences, a \in Assets : sent[f][a] > 0 =>
        \E i \in DOMAIN ops :
            /\ Mine(i, f, a)
            /\ sent[f][a] <= PerAttempt * ops[i].http
            /\ \A j \in DOMAIN ops : Mine(j, f, a) => j = i

\* No request leaves without a record of its own: what authorizeDispatch counted
\* for a delivery and an asset bounds what fetchWithRetry and the limiter sent.
THEOREM RequestsRecorded == Spec => []EveryRequestRecorded
<1>1. LedgerInv /\ OnRecord => EveryRequestRecorded
  <2>1. SUFFICES ASSUME LedgerInv, NEW f \in Fences, NEW a \in Assets,
                        NEW i \in DOMAIN ops, Mine(i, f, a)
                 PROVE  /\ sent[f][a] <= PerAttempt * ops[i].http
                        /\ \A j \in DOMAIN ops : Mine(j, f, a) => j = i
    BY DEF EveryRequestRecorded, OnRecord
  <2>2. sent[f][a] <= PerAttempt * ops[i].http
    BY <2>1 DEF LedgerInv, RecordsGood, RecordGood, Mine
  <2>3. ASSUME NEW j \in DOMAIN ops, Mine(j, f, a) PROVE j = i
    <3>1. ~(i < j) /\ ~(j < i)
      BY <2>1, <2>3 DEF LedgerInv, RecordsGood, OrderGood, Mine
    <3>2. DOMAIN ops = 1..Len(ops)
      BY <2>1 DEF LedgerInv, DataOK
    <3> QED
      BY <3>1, <3>2
  <2> QED
    BY <2>2, <2>3
<1> QED
  BY <1>1, LedgerInvariant, OnRecordAlways, PTL

-----------------------------------------------------------------------------
(* The budget *)

\* What the ledger counts, and what a call has sent or may still send before it
\* has to ask for another attempt.
HttpTable(records) == [i \in DOMAIN records |-> records[i].http]
SentTable == [k \in Fences \X Assets |-> sent[k[1]][k[2]]]
StillToSend(c) ==
    IF c.step = "permit" THEN setup.limiterRetries - c.rateLimited + 1
    ELSE IF c.step = "flight" THEN setup.limiterRetries - c.rateLimited ELSE 0
Due(f, a) == sent[f][a] + StillToSend(call[f][a])
DueTable == [k \in Fences \X Assets |-> Due(k[1], k[2])]

RecordsIn(records, as) == {i \in DOMAIN records : records[i].asset \in as}

LEMMA TotalSentSum ==
    ASSUME NEW as \in SUBSET Assets
    PROVE  TotalSent(as) = SumOf(SentTable, Fences \X as)
<1> DEFINE S == Fences \X as
           Step(g) == g = [s \in SUBSET S |-> IF s = {} THEN 0
                             ELSE sent[(Taken(s))[1]][(Taken(s))[2]] + g[s \ {Taken(s)}]]
<1>1. TotalSent(as) = (CHOOSE g : Step(g))[S]
  BY DEF TotalSent, MapThenSumSet, MapThenFoldSet, Taken
<1>2. \A s \in SUBSET S : s # {} =>
          sent[(Taken(s))[1]][(Taken(s))[2]] = SentTable[Taken(s)]
  <2>1. SUFFICES ASSUME NEW s \in SUBSET S, s # {}
                 PROVE  sent[(Taken(s))[1]][(Taken(s))[2]] = SentTable[Taken(s)]
    OBVIOUS
  <2>2. Taken(s) \in Fences \X Assets
    BY <2>1, TakenFrom
  <2> QED
    BY <2>2 DEF SentTable
<1>3. ASSUME NEW g PROVE Step(g) <=> IsSum(g, SentTable, S)
  <2>1. \A s \in SUBSET S :
            (IF s = {} THEN 0 ELSE sent[(Taken(s))[1]][(Taken(s))[2]] + g[s \ {Taken(s)}])
              = (IF s = {} THEN 0 ELSE SentTable[Taken(s)] + g[s \ {Taken(s)}])
    BY <1>2
  <2> HIDE DEF S
  <2> QED
    BY <2>1 DEF IsSum
<1> HIDE DEF Step, S
<1>4. (CHOOSE g : Step(g)) = SumTable(SentTable, S)
  BY <1>3 DEF SumTable
<1> QED
  BY <1>1, <1>4 DEF SumOf, S

LEMMA DispatchSum ==
    ASSUME NEW records, NEW S \in SUBSET DOMAIN records
    PROVE  MapThenSumSet(LAMBDA i : CountAuthorizedDispatches(records[i]), S)
             = SumOf(HttpTable(records), S)
<1> DEFINE Step(g) == g = [s \in SUBSET S |-> IF s = {} THEN 0
                             ELSE records[Taken(s)].http + g[s \ {Taken(s)}]]
<1>1. MapThenSumSet(LAMBDA i : CountAuthorizedDispatches(records[i]), S)
        = (CHOOSE g : Step(g))[S]
  BY DEF CountAuthorizedDispatches, MapThenSumSet, MapThenFoldSet, Taken
<1>2. \A s \in SUBSET S : s # {} => records[Taken(s)].http = HttpTable(records)[Taken(s)]
  BY TakenFrom DEF HttpTable
<1>3. ASSUME NEW g PROVE Step(g) <=> IsSum(g, HttpTable(records), S)
  <2>1. \A s \in SUBSET S :
            (IF s = {} THEN 0 ELSE records[Taken(s)].http + g[s \ {Taken(s)}])
              = (IF s = {} THEN 0 ELSE HttpTable(records)[Taken(s)] + g[s \ {Taken(s)}])
    BY <1>2
  <2> QED
    BY <2>1 DEF IsSum
<1> HIDE DEF Step
<1>4. (CHOOSE g : Step(g)) = SumTable(HttpTable(records), S)
  BY <1>3 DEF SumTable
<1> QED
  BY <1>1, <1>4 DEF SumOf

LEMMA AssetDispatches ==
    ASSUME NEW records, NEW a
    PROVE  Dispatches(records, LAMBDA op : op.asset = a)
             = SumOf(HttpTable(records), RecordsIn(records, {a}))
<1> DEFINE S == {i \in DOMAIN records : records[i].asset = a}
<1>1. S = RecordsIn(records, {a}) /\ S \in SUBSET DOMAIN records
  BY DEF RecordsIn
<1>2. MapThenSumSet(LAMBDA i : CountAuthorizedDispatches(records[i]), S)
        = SumOf(HttpTable(records), S)
  BY <1>1, DispatchSum
<1> QED
  BY <1>1, <1>2 DEF Dispatches

LEMMA AllDispatches ==
    ASSUME NEW records, \A i \in DOMAIN records : records[i].asset \in Assets
    PROVE  Dispatches(records, LAMBDA op : TRUE)
             = SumOf(HttpTable(records), RecordsIn(records, Assets))
<1> DEFINE S == {i \in DOMAIN records : TRUE}
<1>1. S = RecordsIn(records, Assets) /\ S \in SUBSET DOMAIN records
  BY DEF RecordsIn
<1>2. MapThenSumSet(LAMBDA i : CountAuthorizedDispatches(records[i]), S)
        = SumOf(HttpTable(records), S)
  BY <1>1, DispatchSum
<1> QED
  BY <1>1, <1>2 DEF Dispatches

LEMMA PairOf ==
    ASSUME NEW A, NEW B, NEW k \in A \X B
    PROVE  k[1] \in A /\ k[2] \in B /\ k = <<k[1], k[2]>>
OBVIOUS

\* The tables are of numbers, over finite sets.
LEMMA TablesTyped ==
    ASSUME LedgerInv, NEW as \in SUBSET Assets
    PROVE  /\ IsFiniteSet(Fences \X as)
           /\ \A k \in Fences \X as : SentTable[k] \in Nat /\ DueTable[k] \in Nat
                                        /\ SentTable[k] <= DueTable[k]
           /\ IsFiniteSet(RecordsIn(ops, as))
           /\ \A i \in RecordsIn(ops, as) : HttpTable(ops)[i] \in Nat
<1>1. IsFiniteSet(Fences \X as)
  <2>1. IsFiniteSet(Fences)
    BY ProviderLedgerAssumption, FS_Interval DEF Fences
  <2>2. IsFiniteSet(as)
    BY ProviderLedgerAssumption, FS_Subset
  <2> QED
    BY <2>1, <2>2, FS_Product
<1>2. ASSUME NEW k \in Fences \X as
      PROVE  SentTable[k] \in Nat /\ DueTable[k] \in Nat /\ SentTable[k] <= DueTable[k]
  <2>p. k[1] \in Fences /\ k[2] \in as /\ k = <<k[1], k[2]>>
    BY PairOf
  <2>1. PICK f \in Fences, a \in Assets : k = <<f, a>>
    BY <2>p
  <2>2. sent[f][a] \in Nat
    BY DEF LedgerInv, DataOK
  <2>3. StillToSend(call[f][a]) \in Nat
    <3>1. /\ call[f][a] \in Calls /\ DataOK
          /\ call[f][a].rateLimited <= setup.limiterRetries
      BY DEF LedgerInv, CallsOK, CallGood, SentGood
    <3>2. call[f][a].rateLimited \in Nat /\ setup.limiterRetries \in Nat
      BY <3>1, PerAttemptPositive DEF Calls
    <3> QED
      BY <3>1, <3>2 DEF StillToSend
  <2>4. SentTable[k] = sent[f][a] /\ DueTable[k] = sent[f][a] + StillToSend(call[f][a])
    BY <2>1 DEF SentTable, DueTable, Due
  <2> QED
    BY <2>2, <2>3, <2>4
<1>3. /\ DOMAIN ops = 1..Len(ops) /\ Len(ops) \in Nat
      /\ \A i \in DOMAIN ops : ops[i].http \in Nat
  <2>1. ops \in Seq(Operations)
    BY DEF LedgerInv, DataOK
  <2>2. \A i \in DOMAIN ops : ops[i] \in Operations
    BY <2>1
  <2> QED
    BY <2>1, <2>2 DEF Operations
<1>4. IsFiniteSet(RecordsIn(ops, as))
  <2>1. IsFiniteSet(1..Len(ops))
    BY <1>3, FS_Interval
  <2> QED
    BY <1>3, <2>1, FS_Subset DEF RecordsIn
<1>5. \A i \in RecordsIn(ops, as) : HttpTable(ops)[i] \in Nat
  BY <1>3 DEF HttpTable, RecordsIn
<1> QED
  BY <1>1, <1>2, <1>4, <1>5

\* A call's requests, sent and still to send, are covered by its record.
LEMMA DueIsOnRecord ==
    ASSUME LedgerInv, OnRecord, NEW f \in Fences, NEW a \in Assets, Due(f, a) # 0
    PROVE  \E i \in DOMAIN ops : Mine(i, f, a) /\ Due(f, a) <= PerAttempt * ops[i].http
<1> DEFINE c == call[f][a]
<1>1. /\ c \in Calls /\ CallGood(f, a, c) /\ sent[f][a] \in Nat
      /\ setup.limiterRetries \in Nat /\ PerAttempt = 1 + setup.limiterRetries
      /\ c.rateLimited \in Nat
  BY PerAttemptPositive DEF LedgerInv, CallsOK, DataOK, PerAttempt, Calls
<1>2. CASE c.step \in {"permit", "flight"}
  <2>k. PICK i : i = c.index
    OBVIOUS
  <2>1. i \in DOMAIN ops /\ ops[i] \in Operations
    BY <1>2, <2>k, RecordOf DEF Using
  <2>2. /\ Mine(i, f, a)
        /\ sent[f][a] <= PerAttempt * (ops[i].http - 1) + c.rateLimited
                             + (IF c.step = "flight" THEN 1 ELSE 0)
    BY <1>1, <1>2, <2>k DEF CallGood, SentGood
  <2>3. ops[i].http \in Nat
    BY <2>1 DEF Operations
  <2> DEFINE spent == PerAttempt * (ops[i].http - 1)
  <2>4. spent \in Int /\ spent + PerAttempt = PerAttempt * ops[i].http
    BY <1>1, <2>3
  <2>5. Due(f, a) <= spent + PerAttempt
    <3> HIDE DEF spent
    <3>1. sent[f][a] <= spent + c.rateLimited + (IF c.step = "flight" THEN 1 ELSE 0)
      BY <2>2 DEF spent
    <3> QED
      BY <1>1, <1>2, <2>4, <3>1 DEF Due, StillToSend
  <2> QED
    BY <2>1, <2>2, <2>4, <2>5
<1>3. CASE c.step \notin {"permit", "flight"}
  <2>1. Due(f, a) = sent[f][a] /\ sent[f][a] > 0
    BY <1>1, <1>3 DEF Due, StillToSend
  <2>2. PICK i \in DOMAIN ops : Mine(i, f, a)
    BY <2>1 DEF OnRecord
  <2>3. sent[f][a] <= PerAttempt * ops[i].http
    BY <2>2 DEF LedgerInv, RecordsGood, RecordGood, Mine
  <2> QED
    BY <2>1, <2>2, <2>3
<1> QED
  BY <1>2, <1>3

\* What is sent and still to send, of some assets, is at most what the ledger
\* counts for them: every call has a record of its own.
LEMMA DueIsCounted ==
    ASSUME LedgerInv, OnRecord, NEW as \in SUBSET Assets
    PROVE  SumOf(DueTable, Fences \X as) <= PerAttempt * SumOf(HttpTable(ops), RecordsIn(ops, as))
<1> DEFINE S == Fences \X as
           T == RecordsIn(ops, as)
           g == [i \in DOMAIN ops |-> PerAttempt * ops[i].http]
           m == [k \in S |-> CHOOSE i \in DOMAIN ops :
                               Mine(i, k[1], k[2]) /\ Due(k[1], k[2]) <= g[i]]
<1>1. PerAttempt \in Nat
  BY PerAttemptPositive DEF LedgerInv
<1>2. \A n \in Nat : PerAttempt * n \in Nat
  BY <1>1
<1>3. ASSUME NEW k \in S, DueTable[k] # 0
      PROVE  /\ m[k] \in T /\ DueTable[k] <= g[m[k]]
             /\ k = <<ops[m[k]].fence, ops[m[k]].asset>>
  <2>1. k[1] \in Fences /\ k[2] \in Assets /\ k[2] \in as /\ k = <<k[1], k[2]>>
    BY <1>3, PairOf
  <2>2. DueTable[k] = Due(k[1], k[2])
    BY <2>1 DEF DueTable
  <2>3. \E i \in DOMAIN ops : Mine(i, k[1], k[2]) /\ Due(k[1], k[2]) <= PerAttempt * ops[i].http
    BY <1>3, <2>1, <2>2, DueIsOnRecord
  <2>4. \E i \in DOMAIN ops : Mine(i, k[1], k[2]) /\ Due(k[1], k[2]) <= g[i]
    BY <2>3
  <2> HIDE DEF g
  <2>5. m[k] \in DOMAIN ops /\ Mine(m[k], k[1], k[2]) /\ Due(k[1], k[2]) <= g[m[k]]
    BY <2>4
  <2> HIDE DEF m
  <2> QED
    BY <2>1, <2>2, <2>5 DEF Mine, RecordsIn
<1>4. \A i \in T : HttpTable(ops)[i] \in Nat /\ g[i] = PerAttempt * HttpTable(ops)[i]
                     /\ g[i] \in Nat
  <2>1. \A i \in T : i \in DOMAIN ops /\ HttpTable(ops)[i] \in Nat
    BY TablesTyped DEF RecordsIn
  <2> QED
    BY <1>2, <2>1 DEF HttpTable
<1>5. /\ IsFiniteSet(S) /\ IsFiniteSet(T) /\ \A k \in S : DueTable[k] \in Nat
  BY TablesTyped
<1> HIDE DEF S, T, g, m
<1>6. Covers(m, DueTable, S, g, T)
  BY <1>3 DEF Covers
<1>7. SumOf(DueTable, S) <= SumOf(g, T)
  BY <1>4, <1>5, <1>6, SumsCovered
<1>8. SumOf(g, T) = PerAttempt * SumOf(HttpTable(ops), T)
  BY <1>1, <1>4, <1>5, SumScaled
<1> QED
  BY <1>7, <1>8 DEF S, T

LEMMA SentIsDue ==
    ASSUME LedgerInv, NEW as \in SUBSET Assets
    PROVE  TotalSent(as) <= SumOf(DueTable, Fences \X as)
<1> DEFINE S == Fences \X as
<1>1. IsFiniteSet(S) /\ \A k \in S : SentTable[k] \in Nat /\ DueTable[k] \in Nat
                                       /\ SentTable[k] <= DueTable[k]
  BY TablesTyped
<1> HIDE DEF S
<1>2. SumOf(SentTable, S) <= SumOf(DueTable, S)
  BY <1>1, SumsCompare
<1> QED
  BY <1>2, TotalSentSum DEF S

\* What may still be sent is within the budget already.
DueWithin ==
    /\ SumOf(DueTable, Fences \X Assets) <= PerAttempt * setup.maxDispatches
    /\ \A a \in Assets : SumOf(DueTable, Fences \X {a}) <= PerAttempt * setup.perOperation

\* What the sums are made of, at every moment.
Counted ==
    \A as \in SUBSET Assets :
        /\ IsFiniteSet(Fences \X as) /\ \A k \in Fences \X as : DueTable[k] \in Nat
        /\ SumOf(DueTable, Fences \X as) \in Nat
        /\ SumOf(HttpTable(ops), RecordsIn(ops, as)) \in Nat
        /\ SumOf(DueTable, Fences \X as)
             <= PerAttempt * SumOf(HttpTable(ops), RecordsIn(ops, as))

LEMMA AlwaysCounted == LedgerInv /\ OnRecord => Counted
<1> SUFFICES ASSUME LedgerInv, OnRecord, NEW as \in SUBSET Assets
             PROVE  /\ IsFiniteSet(Fences \X as) /\ \A k \in Fences \X as : DueTable[k] \in Nat
                    /\ SumOf(DueTable, Fences \X as) \in Nat
                    /\ SumOf(HttpTable(ops), RecordsIn(ops, as)) \in Nat
                    /\ SumOf(DueTable, Fences \X as)
                         <= PerAttempt * SumOf(HttpTable(ops), RecordsIn(ops, as))
  BY DEF Counted
<1>1. /\ IsFiniteSet(Fences \X as) /\ \A k \in Fences \X as : DueTable[k] \in Nat
      /\ IsFiniteSet(RecordsIn(ops, as)) /\ \A i \in RecordsIn(ops, as) : HttpTable(ops)[i] \in Nat
  BY TablesTyped
<1>2. SumOf(DueTable, Fences \X as) \in Nat
  BY <1>1, SumIsNat
<1>3. SumOf(HttpTable(ops), RecordsIn(ops, as)) \in Nat
  BY <1>1, SumIsNat
<1> QED
  BY <1>1, <1>2, <1>3, DueIsCounted

\* A step that authorises nothing leaves no more to send.
LEMMA DueShrinks ==
    ASSUME LedgerInv, [Next]_vars,
           ~(\E f \in Fences, a \in Assets : ReserveHttpAttempt(f, a)),
           NEW f \in Fences, NEW a \in Assets
    PROVE  Due(f, a)' <= Due(f, a)
<1> DEFINE c == call[f][a]
<1>1. /\ c \in Calls /\ CallGood(f, a, c) /\ CallsOK /\ DataOK
      /\ sent[f][a] \in Nat /\ setup.limiterRetries \in Nat
      /\ c.rateLimited \in Nat /\ c.rateLimited <= setup.limiterRetries
  BY PerAttemptPositive DEF LedgerInv, CallsOK, DataOK, Calls, CallGood, SentGood
<1>2. UNCHANGED setup
  BY DEF Next, vars
<1>3. StillToSend(c) \in Nat
  BY <1>1 DEF StillToSend
<1>4. ASSUME sent'[f][a] = sent[f][a],
             call'[f][a] = c \/ call'[f][a].step \notin {"permit", "flight"}
      PROVE  Due(f, a)' <= Due(f, a)
  BY <1>1, <1>2, <1>3, <1>4 DEF Due, StillToSend
<1>5. CASE Claim
  <2>1. fence + 1 = f \/ call'[f][a] = c
    BY <1>1, <1>5 DEF Claim, CallsOK
  <2>2. fence + 1 = f => call'[f][a].step \in {"absent", "adopt", "todo"}
    BY <1>1, <1>5 DEF Claim, CallsOK, NoCall
  <2> QED
    BY <1>4, <1>5, <2>1, <2>2 DEF Claim
<1>6. CASE EndRun \/ (\E g \in Fences : WorkerDies(g)) \/ UNCHANGED vars
  <2>1. call'[f][a] = c \/ call'[f][a] = NoCall
    BY <1>1, <1>6 DEF EndRun, WorkerDies, vars, CallsOK
  <2> QED
    BY <1>4, <1>6, <2>1 DEF EndRun, WorkerDies, vars, NoCall
<1>7. ASSUME NEW g \in Fences, NEW b \in Assets, CallNext(g, b)
      PROVE  Due(f, a)' <= Due(f, a)
  <2>1. ~ReserveHttpAttempt(g, b)
    OBVIOUS
  <2>2. CASE g # f \/ b # a
    <3>1. sent' = sent \/ sent' = [sent EXCEPT ![g][b] = @ + 1]
      BY <1>7, <2>1
      DEF CallNext, ReserveOperation, ReserveRefused, AssertOwnership,
          HttpAttemptRefused, Send, Answer, RateLimited, TransportRetry, CallFails,
          FinishOperation, FinishFails, SaveImage, SaveFails, Checkpoint, ConfirmStored
    <3>2. \E d : call' = [call EXCEPT ![g][b] = d]
      <4>1. CASE \/ ReserveRefused(g, b) \/ AssertOwnership(g, b) \/ HttpAttemptRefused(g, b)
                 \/ Answer(g, b) \/ FinishOperation(g, b) \/ FinishFails(g, b)
                 \/ SaveImage(g, b) \/ SaveFails(g, b) \/ Checkpoint(g, b)
                 \/ ConfirmStored(g, b)
        <5>1. (\E s : Goto(g, b, s)) \/ (\E o : GiveUp(g, b, o))
          BY <4>1
          DEF ReserveRefused, AssertOwnership, HttpAttemptRefused, Answer,
              FinishOperation, FinishFails, SaveImage, SaveFails, Checkpoint, ConfirmStored
        <5>2. ASSUME NEW s, Goto(g, b, s) PROVE \E d : call' = [call EXCEPT ![g][b] = d]
          <6>1. call' = [call EXCEPT ![g][b] = [call[g][b] EXCEPT !.step = s]]
            BY <1>1, <5>2 DEF Goto, CallsOK
          <6> QED
            BY <6>1
        <5>3. ASSUME NEW o, GiveUp(g, b, o) PROVE \E d : call' = [call EXCEPT ![g][b] = d]
          <6>1. call' = [call EXCEPT ![g][b] =
                          [call[g][b] EXCEPT !.step = "finish", !.outcome = o]]
            BY <1>1, <5>3 DEF GiveUp, CallsOK
          <6> QED
            BY <6>1
        <5> QED
          BY <5>1, <5>2, <5>3
      <4>2. CASE ReserveOperation(g, b)
        <5>1. PICK i : call' = [call EXCEPT ![g][b].step = "reserved", ![g][b].index = i]
          BY <4>2 DEF ReserveOperation, Reclaim, Reserve
        <5>2. call' = [call EXCEPT ![g][b] =
                        [call[g][b] EXCEPT !.step = "reserved", !.index = i]]
          BY <1>1, <5>1 DEF CallsOK
        <5> QED
          BY <5>2
      <4>3. CASE Send(g, b)
        <5>1. call' = [call EXCEPT ![g][b] =
                        [call[g][b] EXCEPT !.step = "flight", !.attempts = @ + 1]]
          BY <1>1, <4>3 DEF Send, CallsOK
        <5> QED
          BY <5>1
      <4>4. CASE RateLimited(g, b)
        <5>1. call' = [call EXCEPT ![g][b] =
                        [call[g][b] EXCEPT !.step = "permit", !.rateLimited = @ + 1]]
          BY <1>1, <4>4 DEF RateLimited, CallsOK
        <5> QED
          BY <5>1
      <4>5. CASE TransportRetry(g, b)
        BY <4>5 DEF TransportRetry
      <4>6. CASE CallFails(g, b)
        <5>1. CASE AttemptFails(g, b)
          <6>1. PICK o : GiveUp(g, b, o)
            BY <5>1 DEF AttemptFails
          <6>2. call' = [call EXCEPT ![g][b] =
                          [call[g][b] EXCEPT !.step = "finish", !.outcome = o]]
            BY <1>1, <6>1 DEF GiveUp, CallsOK
          <6> QED
            BY <6>2
        <5>2. CASE WaitFails(g, b)
          <6>1. PICK n : call' = [call EXCEPT ![g][b].step = "finish",
                                    ![g][b].outcome = "unknown", ![g][b].attempts = @ + n]
            BY <5>2 DEF WaitFails
          <6>2. call' = [call EXCEPT ![g][b] =
                          [call[g][b] EXCEPT !.step = "finish", !.outcome = "unknown",
                                             !.attempts = @ + n]]
            BY <1>1, <6>1 DEF CallsOK
          <6> QED
            BY <6>2
        <5> QED
          BY <4>6, <5>1, <5>2 DEF CallFails
      <4> QED
        BY <1>7, <2>1, <4>1, <4>2, <4>3, <4>4, <4>5, <4>6 DEF CallNext
    <3>3. call'[f][a] = c
      BY <1>1, <2>2, <3>2 DEF CallsOK
    <3>4. sent'[f][a] = sent[f][a]
      BY <1>1, <2>2, <3>1 DEF DataOK
    <3> QED
      BY <1>4, <3>3, <3>4
  <2>3. CASE g = f /\ b = a
    <3>1. CASE Send(f, a)
      <4>1. /\ c.step = "permit" /\ sent'[f][a] = sent[f][a] + 1
            /\ call'[f][a].step = "flight" /\ call'[f][a].rateLimited = c.rateLimited
        BY <1>1, <3>1 DEF Send, At, DataOK, CallsOK, Calls
      <4> QED
        BY <1>1, <1>2, <4>1 DEF Due, StillToSend
    <3>2. CASE RateLimited(f, a)
      <4>1. /\ c.step = "flight" /\ sent' = sent /\ c.rateLimited < setup.limiterRetries
            /\ call'[f][a].step = "permit" /\ call'[f][a].rateLimited = c.rateLimited + 1
        BY <1>1, <3>2 DEF RateLimited, At, CallsOK, Calls
      <4> QED
        BY <1>1, <1>2, <4>1 DEF Due, StillToSend
    <3>3. CASE ~Send(f, a) /\ ~RateLimited(f, a)
      <4>1. CallNext(f, a) /\ ~ReserveHttpAttempt(f, a)
        BY <1>7, <2>1, <2>3
      <4>2. sent' = sent
        BY <3>3, <4>1
        DEF CallNext, ReserveOperation, ReserveRefused, AssertOwnership,
            ReserveHttpAttempt, HttpAttemptRefused, Answer, RateLimited,
            TransportRetry, CallFails, FinishOperation, FinishFails, SaveImage,
            SaveFails, Checkpoint, ConfirmStored
      <4>3. CASE ReserveOperation(f, a)
        BY <1>1, <1>4, <4>2, <4>3, SMTT(60) DEF ReserveOperation, Reclaim, Reserve, CallsOK, Calls
      <4>4. CASE TransportRetry(f, a)
        BY <1>1, <1>4, <4>2, <4>4 DEF TransportRetry, CallsOK, Calls
      <4>5. CASE CallFails(f, a)
        BY <1>1, <1>4, <4>2, <4>5
        DEF CallFails, AttemptFails, WaitFails, GiveUp, CallsOK, Calls
      <4>6. CASE \/ ReserveRefused(f, a) \/ AssertOwnership(f, a) \/ HttpAttemptRefused(f, a)
                 \/ Answer(f, a) \/ FinishOperation(f, a) \/ FinishFails(f, a)
                 \/ SaveImage(f, a) \/ SaveFails(f, a)
        BY <1>1, <1>4, <4>2, <4>6
        DEF ReserveRefused, AssertOwnership, HttpAttemptRefused, Answer, FinishOperation,
            FinishFails, SaveImage, SaveFails, Goto, GiveUp, CallsOK, Calls
      <4>7. CASE Checkpoint(f, a) \/ ConfirmStored(f, a)
        BY <1>1, <1>4, <4>2, <4>7 DEF Checkpoint, ConfirmStored, Goto, CallsOK, Calls
      <4> QED
        BY <3>3, <4>1, <4>3, <4>4, <4>5, <4>6, <4>7 DEF CallNext
    <3> QED
      BY <2>3, <3>1, <3>2, <3>3
  <2> QED
    BY <2>2, <2>3
<1> QED
  BY <1>5, <1>6, <1>7 DEF Next

LEMMA DueWithinInit == ASSUME Init PROVE DueWithin
<1>1. LedgerInv
  BY LedgerInvInit
<1>2. setup.maxDispatches \in Nat /\ setup.perOperation \in Nat /\ PerAttempt \in Nat
  BY <1>1, PerAttemptPositive DEF LedgerInv, DataOK, Setup
<1>3. \A m, n \in Nat : 0 <= m * n
  OBVIOUS
<1>4. ASSUME NEW as \in SUBSET Assets PROVE SumOf(DueTable, Fences \X as) <= 0
  <2> DEFINE S == Fences \X as
             zero == [k \in S |-> 0]
  <2>1. \A k \in S : DueTable[k] = 0
    <3>1. ASSUME NEW k \in S PROVE DueTable[k] = 0
      <4>1. k[1] \in Fences /\ k[2] \in Assets /\ k \in Fences \X Assets
        OBVIOUS
      <4>2. sent[k[1]][k[2]] = 0 /\ call[k[1]][k[2]] = NoCall
        BY <4>1 DEF Init
      <4> QED
        BY <4>1, <4>2 DEF DueTable, Due, StillToSend, NoCall
    <3> QED
      BY <3>1
  <2>2. IsFiniteSet(S)
    BY <1>1, TablesTyped
  <2>3. Covers(zero, DueTable, S, zero, {})
    BY <2>1 DEF Covers
  <2>4. SumOf(DueTable, S) <= SumOf(zero, {})
    <3> HIDE DEF S, zero
    <3> QED
      BY <2>1, <2>2, <2>3, FS_EmptySet, SumsCovered
  <2> QED
    BY <2>4, SumOfEmpty
<1>5. /\ SumOf(DueTable, Fences \X Assets) \in Nat
      /\ \A a \in Assets : SumOf(DueTable, Fences \X {a}) \in Nat
  BY <1>1, TablesTyped, SumIsNat
<1>6. 0 <= PerAttempt * setup.maxDispatches /\ 0 <= PerAttempt * setup.perOperation
      /\ PerAttempt * setup.maxDispatches \in Nat /\ PerAttempt * setup.perOperation \in Nat
  BY <1>2, <1>3
<1>7. SumOf(DueTable, Fences \X Assets) <= 0
      /\ \A a \in Assets : SumOf(DueTable, Fences \X {a}) <= 0
  BY <1>4
<1> QED
  BY <1>5, <1>6, <1>7 DEF DueWithin

\* An attempt is authorised only when the ledger, with it, is within the caps; any
\* other step leaves no more to send than there was.
LEMMA DueWithinStep ==
    ASSUME LedgerInv, LedgerInv', Counted, Counted', DueWithin, [Next]_vars
    PROVE  DueWithin'
<1>1. PerAttempt \in Nat /\ PerAttempt' = PerAttempt /\ UNCHANGED setup
      /\ setup.maxDispatches \in Nat /\ setup.perOperation \in Nat
  BY PerAttemptPositive DEF LedgerInv, DataOK, Setup, Next, vars, PerAttempt
<1>2. CASE \E f \in Fences, a \in Assets : ReserveHttpAttempt(f, a)
  <2>1. Authorized(ops')
    BY <1>2 DEF ReserveHttpAttempt, MayDispatch
  <2>2. Dispatches(ops', LAMBDA op : TRUE) <= setup.maxDispatches
    BY <2>1 DEF Authorized
  <2>3. ASSUME NEW a \in Assets
        PROVE  Dispatches(ops', LAMBDA op : op.asset = a) <= setup.perOperation
    BY <2>1 DEF Authorized
  <2>4. \A i \in DOMAIN ops' : ops'[i].asset \in Assets
    <3>1. ops' \in Seq(Operations)
      BY DEF LedgerInv, DataOK
    <3>2. \A i \in DOMAIN ops' : ops'[i] \in Operations
      BY <3>1
    <3> QED
      BY <3>2 DEF Operations
  <2>5. SumOf(HttpTable(ops'), RecordsIn(ops', Assets)) <= setup.maxDispatches
    BY <2>2, <2>4, AllDispatches
  <2>6. \A a \in Assets : SumOf(HttpTable(ops'), RecordsIn(ops', {a})) <= setup.perOperation
    BY <2>3, AssetDispatches
  <2>7. ASSUME NEW as \in SUBSET Assets, NEW cap \in Nat,
               SumOf(HttpTable(ops'), RecordsIn(ops', as)) <= cap
        PROVE  SumOf(DueTable, Fences \X as)' <= PerAttempt * cap
    <3>1. /\ SumOf(DueTable, Fences \X as)' \in Nat
          /\ SumOf(HttpTable(ops'), RecordsIn(ops', as)) \in Nat
          /\ SumOf(DueTable, Fences \X as)'
               <= PerAttempt * SumOf(HttpTable(ops'), RecordsIn(ops', as))
      BY <1>1 DEF Counted, HttpTable, RecordsIn
    <3> DEFINE H == SumOf(HttpTable(ops'), RecordsIn(ops', as))
               D == SumOf(DueTable, Fences \X as)'
    <3>2. PICK p \in Nat : p = PerAttempt
      BY <1>1
    <3>3. p * H <= p * cap /\ p * H \in Nat /\ p * cap \in Nat
      <4>1. PICK rest \in Nat : cap = H + rest
        <5>1. H \in Nat /\ H <= cap
          BY <2>7, <3>1
        <5> HIDE DEF H
        <5>2. cap - H \in Nat /\ cap = H + (cap - H)
          BY <5>1
        <5> QED
          BY <5>2
      <4> HIDE DEF H
      <4>2. H \in Nat
        BY <3>1 DEF H
      <4>3. p * cap = p * H + p * rest /\ p * H \in Nat /\ p * rest \in Nat
        BY <4>1, <4>2
      <4> QED
        BY <4>3
    <3>4. D \in Nat /\ D <= p * H
      BY <3>1, <3>2
    <3> HIDE DEF H, D
    <3>5. D <= p * cap
      BY <3>3, <3>4
    <3> QED
      BY <1>1, <3>2, <3>5 DEF D
  <2> QED
    BY <1>1, <2>5, <2>6, <2>7 DEF DueWithin
<1>3. CASE ~(\E f \in Fences, a \in Assets : ReserveHttpAttempt(f, a))
  <2>1. ASSUME NEW as \in SUBSET Assets
        PROVE  SumOf(DueTable, Fences \X as)' <= SumOf(DueTable, Fences \X as)
    <3> DEFINE S == Fences \X as
    <3>1. IsFiniteSet(S) /\ (\A k \in S : DueTable[k] \in Nat) /\ (\A k \in S : DueTable'[k] \in Nat)
      BY DEF Counted
    <3>2. \A k \in S : DueTable'[k] <= DueTable[k]
      <4>1. \A f \in Fences, a \in Assets : Due(f, a)' <= Due(f, a)
        BY <1>3, DueShrinks
      <4> QED
        BY <4>1 DEF DueTable
    <3> HIDE DEF S
    <3>3. SumOf(DueTable', S) <= SumOf(DueTable, S)
      BY <3>1, <3>2, SumsCompare
    <3> QED
      BY <3>3 DEF S
  <2>2. ASSUME NEW as \in SUBSET Assets
        PROVE  SumOf(DueTable, Fences \X as) \in Nat /\ SumOf(DueTable, Fences \X as)' \in Nat
    BY DEF Counted
  <2>3. ASSUME NEW as \in SUBSET Assets, NEW cap \in Nat,
               SumOf(DueTable, Fences \X as) <= PerAttempt * cap
        PROVE  SumOf(DueTable, Fences \X as)' <= PerAttempt * cap
    <3> DEFINE old == SumOf(DueTable, Fences \X as)
               new == SumOf(DueTable, Fences \X as)'
               limit == PerAttempt * cap
    <3>0. \A n \in Nat : PerAttempt * n \in Nat
      BY <1>1
    <3>a. limit \in Nat
      BY <3>0
    <3>b. old \in Nat /\ new \in Nat
      BY <2>2
    <3>c. new <= old
      BY <2>1
    <3>1. limit \in Nat /\ old \in Nat /\ new \in Nat /\ new <= old /\ old <= limit
      BY <2>3, <3>a, <3>b, <3>c
    <3> HIDE DEF old, new, limit
    <3>2. new <= limit
      BY <3>1
    <3> QED
      BY <3>2 DEF new, limit
  <2> QED
    BY <1>1, <2>3 DEF DueWithin
<1> QED
  BY <1>2, <1>3

LEMMA DueStaysWithin == Spec => []DueWithin
<1>1. Init => DueWithin
  BY DueWithinInit
<1>2. /\ LedgerInv /\ LedgerInv' /\ Counted /\ Counted'
      /\ DueWithin /\ [Next]_vars
      => DueWithin'
  BY DueWithinStep
<1> QED
  BY <1>1, <1>2, LedgerInvariant, OnRecordAlways, AlwaysCounted, PTL DEF Spec

\* No run ever costs more than its owner approved: the requests that have really
\* left, over all deliveries, crashes and superseded workers, stay within the
\* run's budget and each operation's share of it (reserveHttpAttempt asks before
\* every attempt), and all of them are in the ledger's count.
THEOREM SpendingRecorded == Spec => []SpendingIsOnRecord
<1>1. LedgerInv /\ OnRecord /\ DueWithin => HardBudget
  <2>1. SUFFICES ASSUME LedgerInv, DueWithin PROVE HardBudget
    OBVIOUS
  <2>2. ASSUME NEW as \in SUBSET Assets, NEW cap \in Nat,
               SumOf(DueTable, Fences \X as) <= PerAttempt * cap
        PROVE  TotalSent(as) <= PerAttempt * cap
    <3>1. SumOf(DueTable, Fences \X as) \in Nat /\ SumOf(SentTable, Fences \X as) \in Nat
      BY <2>1, TablesTyped, SumIsNat
    <3>2. TotalSent(as) = SumOf(SentTable, Fences \X as)
      BY TotalSentSum
    <3>3. TotalSent(as) <= SumOf(DueTable, Fences \X as)
      BY <2>1, SentIsDue
    <3>4. PerAttempt * cap \in Nat
      BY <2>1, PerAttemptPositive DEF LedgerInv
    <3> QED
      BY <2>2, <3>1, <3>2, <3>3, <3>4
  <2>3. setup.maxDispatches \in Nat /\ setup.perOperation \in Nat
    BY <2>1 DEF LedgerInv, DataOK, Setup
  <2> QED
    BY <2>1, <2>2, <2>3 DEF HardBudget, DueWithin
<1>2. LedgerInv /\ OnRecord => DispatchesRecorded
  <2>1. SUFFICES ASSUME LedgerInv, OnRecord, NEW a \in Assets
                 PROVE  TotalSent({a}) <= PerAttempt * Dispatches(ops, LAMBDA op : op.asset = a)
    BY DEF DispatchesRecorded
  <2> DEFINE D == SumOf(DueTable, Fences \X {a})
             H == SumOf(HttpTable(ops), RecordsIn(ops, {a}))
  <2>2. TotalSent({a}) <= D /\ D <= PerAttempt * H
    BY <2>1, SentIsDue, DueIsCounted
  <2>3. TotalSent({a}) = SumOf(SentTable, Fences \X {a})
    BY TotalSentSum
  <2>4. D \in Nat /\ SumOf(SentTable, Fences \X {a}) \in Nat /\ H \in Nat
    BY <2>1, TablesTyped, SumIsNat
  <2>5. PerAttempt * H \in Nat
    <3>1. PerAttempt \in Nat
      BY <2>1, PerAttemptPositive DEF LedgerInv
    <3> QED
      BY <2>4, <3>1
  <2>6. Dispatches(ops, LAMBDA op : op.asset = a) = H
    BY AssetDispatches
  <2> HIDE DEF D, H
  <2>7. TotalSent({a}) <= PerAttempt * H
    BY <2>2, <2>3, <2>4, <2>5
  <2> QED
    BY <2>6, <2>7
<1> QED
  BY <1>1, <1>2, LedgerInvariant, OnRecordAlways, DueStaysWithin, LedgerTyped,
     ReservationsUnsent, PTL DEF SpendingIsOnRecord

=============================================================================
