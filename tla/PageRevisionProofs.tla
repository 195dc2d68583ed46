------------------------- MODULE PageRevisionProofs -------------------------
(***************************************************************************)
(* Proofs about PageRevision, for every number of revisions, pages,        *)
(* workers, editors, recovery passes and faults: types, then the inductive *)
(* invariant and the properties it carries: one paid call per revision,    *)
(* rows that agree with the book and with the ledger, no lost update, and  *)
(* verdicts only by who may pass them.                                     *)
(***************************************************************************)
EXTENDS PageRevision, FiniteSetTheorems, WellFoundedInduction, TLAPS

-----------------------------------------------------------------------------
(* Types *)

RowTypeOK ==
    /\ book \in Books
    /\ rev \in [Revisions -> Rows]
    /\ ledger \subseteq [kind: {"charge", "refund"}, rev: Revisions]
    /\ credits \in Nat
    /\ outbox \in [Revisions -> {"none", "pending", "dispatched", "cancelled"}]

QueueTypeOK ==
    /\ job \in [Revisions -> Jobs]
    /\ images \subseteq Keys
    /\ sent \subseteq [rev: Revisions, fence: Nat, n: Nat]
    /\ left \in Scenario

WorkerTypeOK ==
    /\ worker \in [Workers -> Deliveries]
    /\ \A w \in Workers : worker[w].step # "idle" => worker[w].rev \in Revisions

OtherTypeOK ==
    /\ editor \in [Editors -> Edits]
    /\ sweeper \in [Sweepers -> Sweeps]
    /\ \A s \in Sweepers : sweeper[s].step # "idle" => sweeper[s].rev \in Revisions

LEMMA TypeParts == TypeOK <=> RowTypeOK /\ QueueTypeOK /\ WorkerTypeOK /\ OtherTypeOK
BY DEF TypeOK, RowTypeOK, QueueTypeOK, WorkerTypeOK, OtherTypeOK

LEMMA SomePage == (CHOOSE p \in Pages : TRUE) \in Pages
BY PageRevisionAssumption

LEMMA NoRowType == NoRow \in Rows
BY SomePage DEF NoRow, Rows, OpStates, Live

LEMMA IdleType == Idle \in Deliveries /\ Idle.step = "idle"
BY NoRowType DEF Idle, Deliveries, OpStates

\* The page versions have a maximum.
LEMMA MaxVersion ==
    ASSUME NEW v \in [Pages -> Nat]
    PROVE  Max({v[p] : p \in Pages}) \in Nat
<1> DEFINE S == {v[p] : p \in Pages}
           Above(p) == {q \in Pages : v[q] > v[p]}
           Sizes == {n \in Nat : \E p \in Pages : n = Cardinality(Above(p))}
<1>1. ASSUME NEW p \in Pages
      PROVE  IsFiniteSet(Above(p)) /\ Cardinality(Above(p)) \in Nat
  BY PageRevisionAssumption, FS_Subset, FS_CardinalityType
<1>2. Sizes # {} /\ Sizes \subseteq Nat
  <2>1. PICK p \in Pages : TRUE
    BY PageRevisionAssumption
  <2>2. Cardinality(Above(p)) \in Sizes
    BY <1>1, <2>1
  <2> QED
    BY <2>2
<1>3. PICK n \in Sizes : \A m \in Sizes : n <= m
  <2> HIDE DEF Sizes
  <2>1. PICK n \in Sizes : \A m \in Sizes : <<m, n>> \notin OpToRel(<, Nat)
    BY <1>2, NatLessThanWellFounded, WFMin
  <2>2. ASSUME NEW m \in Sizes PROVE n <= m
    <3>1. m \in Nat /\ n \in Nat
      BY <1>2, <2>1
    <3>2. ~(m < n)
      BY <2>1, <3>1 DEF OpToRel
    <3> QED
      BY <3>1, <3>2
  <2> QED
    BY <2>1, <2>2
<1>4. PICK p \in Pages : n = Cardinality(Above(p))
  BY <1>3
<1>5. ASSUME NEW q \in Pages PROVE v[p] >= v[q]
  <2>1. SUFFICES ASSUME v[q] > v[p] PROVE FALSE
    BY v[p] \in Nat, v[q] \in Nat
  <2>2. Above(q) \subseteq Above(p) /\ q \in Above(p) /\ q \notin Above(q)
    BY <2>1, v[p] \in Nat, v[q] \in Nat, \A k \in Pages : v[k] \in Nat
  <2>3. Cardinality(Above(q)) <= Cardinality(Above(p))
        /\ Cardinality(Above(q)) # Cardinality(Above(p))
    BY <1>1, <2>2, FS_Subset
  <2>4. Cardinality(Above(q)) \in Sizes
    BY <1>1
  <2> HIDE DEF Above, Sizes
  <2>5. n <= Cardinality(Above(q))
    BY <1>3, <2>4
  <2> QED
    BY <1>1, <1>4, <2>3, <2>5
<1>6. \E x \in S : \A y \in S : x >= y
  BY <1>5
<1>7. S \subseteq Nat
  OBVIOUS
<1> HIDE DEF S
<1>8. (CHOOSE x \in S : \A y \in S : x >= y) \in S
  BY <1>6
<1>9. Max(S) \in S
  BY <1>8 DEF Max
<1> QED
  BY <1>7, <1>9 DEF S

LEMMA StampType == ASSUME RowTypeOK PROVE Stamps \subseteq Nat
BY DEF RowTypeOK, Books, Stamps

LEMMA RefundType ==
    ASSUME RowTypeOK, NEW rs \in SUBSET Revisions, Refund(rs)
    PROVE  /\ ledger' \subseteq [kind: {"charge", "refund"}, rev: Revisions]
           /\ credits' \in Nat
<1> DEFINE charged == {r \in rs : [kind |-> "charge", rev |-> r] \in ledger}
<1>1. Cardinality(charged) \in Nat
  BY FS_Subset, FS_CardinalityType, PageRevisionAssumption
<1>2. /\ ledger' = ledger \cup [kind: {"refund"}, rev: charged]
      /\ credits' = credits + Cardinality(charged)
  BY DEF Refund
<1> QED
  BY <1>1, <1>2 DEF RowTypeOK

LEMMA FailAndRefundType ==
    ASSUME RowTypeOK, NEW r \in Revisions, NEW f, FailAndRefund(r, f)
    PROVE  RowTypeOK'
<1>1. CASE rev[r].status \notin Live \/ rev[r].fence # f
  BY <1>1 DEF FailAndRefund, RowTypeOK, rowVars
<1>2. CASE ~(rev[r].status \notin Live \/ rev[r].fence # f)
  <2>1. Refund({r}) /\ rev' = [rev EXCEPT ![r].status = "failed"] /\ outbox' = outbox
    BY <1>2 DEF FailAndRefund
  <2>2. ledger' \subseteq [kind: {"charge", "refund"}, rev: Revisions] /\ credits' \in Nat
    BY <2>1, RefundType
  <2>3. rev' \in [Revisions -> Rows]
    BY <2>1 DEF RowTypeOK, Rows
  <2>4. book' \in Books
    BY <1>2, StampType DEF FailAndRefund, RowTypeOK, Books
  <2> QED
    BY <2>1, <2>2, <2>3, <2>4 DEF RowTypeOK
<1> QED
  BY <1>1, <1>2

LEMMA PublishType ==
    ASSUME RowTypeOK, NEW stamp \in Stamps, NEW p \in Pages, NEW v \in Nat,
           NEW i \in Keys, Publish(stamp, p, v, i)
    PROVE  book' \in Books
<1>1. /\ book.edition + 1 \in Nat /\ stamp \in Nat
      /\ [book.version EXCEPT ![p] = v] \in [Pages -> Nat]
      /\ [book.image EXCEPT ![p] = i] \in [Pages -> Keys]
  BY StampType DEF RowTypeOK, Books
<1>2. book' = [book EXCEPT !.updatedAt = stamp, !.edition = book.edition + 1,
                           !.version = [book.version EXCEPT ![p] = v],
                           !.image = [book.image EXCEPT ![p] = i],
                           !.activeRevision = NoRevision]
  BY DEF Publish, RowTypeOK, Books
<1> QED
  BY <1>1, <1>2 DEF RowTypeOK, Books

LEMMA OwnerType ==
    ASSUME TypeOK, OwnerNext
    PROVE  TypeOK'
<1>1. RowTypeOK /\ QueueTypeOK /\ WorkerTypeOK /\ OtherTypeOK
  BY TypeParts
<1>2. ASSUME NEW r \in Revisions, NEW p \in Pages, CreateQuote(r, p) PROVE TypeOK'
  <2> DEFINE row == [rev[r] EXCEPT !.status = "quoted",
                                   !.updatedAt = book.updatedAt,
                                   !.edition = book.edition,
                                   !.page = p, !.version = book.version[p]]
  <2>1. /\ rev[r] \in Rows /\ book.updatedAt \in Nat /\ book.edition \in Nat
        /\ book.version[p] \in Nat
    BY <1>1 DEF RowTypeOK, Books
  <2>2. row \in Rows
    BY <2>1 DEF Rows
  <2>3. rev' = [rev EXCEPT ![r] = row]
    BY <1>1, <1>2 DEF CreateQuote, RowTypeOK
  <2> HIDE DEF row
  <2>4. rev' \in [Revisions -> Rows]
    BY <1>1, <2>2, <2>3 DEF RowTypeOK
  <2> QED
    BY <1>1, <1>2, <2>4
    DEF CreateQuote, TypeOK, RowTypeOK, QueueTypeOK, WorkerTypeOK, OtherTypeOK
<1>3. ASSUME NEW r \in Revisions, Confirm(r) PROVE TypeOK'
  <2>1. PICK stamp \in Stamps :
           /\ book' = [book EXCEPT !.activeRevision = r, !.updatedAt = stamp]
           /\ rev' = [rev EXCEPT ![r].status = "queued", ![r].updatedAt = stamp]
    BY <1>3 DEF Confirm
  <2>2. stamp \in Nat
    BY <1>1, StampType
  <2>3. rev' \in [Revisions -> Rows] /\ book' \in Books
    <3> DEFINE row == [rev[r] EXCEPT !.status = "queued", !.updatedAt = stamp]
    <3>1. row \in Rows
      <4>1. rev[r] \in Rows
        BY <1>1 DEF RowTypeOK
      <4> QED
        BY <2>2, <4>1 DEF Rows, Live
    <3>2. rev' = [rev EXCEPT ![r] = row]
      BY <1>1, <2>1 DEF RowTypeOK
    <3> HIDE DEF row
    <3>3. book' \in Books
      BY <1>1, <2>1, <2>2 DEF RowTypeOK, Books
    <3> QED
      BY <1>1, <3>1, <3>2, <3>3 DEF RowTypeOK
  <2>4. credits' \in Nat /\ outbox' \in [Revisions -> {"none", "pending", "dispatched", "cancelled"}]
    BY <1>1, <1>3 DEF Confirm, RowTypeOK
  <2> QED
    BY <1>1, <1>3, <2>3, <2>4
    DEF Confirm, TypeOK, RowTypeOK, QueueTypeOK, WorkerTypeOK, OtherTypeOK
<1>4. ASSUME NEW kind \in {"writes", "locks", "faults"}, Spend(kind) PROVE left' \in Scenario
  BY <1>1, <1>4 DEF Spend, QueueTypeOK, Scenario
<1>5. CASE EditDetails \/ RemoveBook \/ StartGeneration
  <2>1. book' \in Books
    BY <1>1, <1>5, StampType, ZenonT(60)
    DEF EditDetails, RemoveBook, StartGeneration, RowTypeOK, Books
  <2> QED
    BY <1>1, <1>4, <1>5, <2>1
    DEF EditDetails, RemoveBook, StartGeneration, OtherWrite, TypeOK, RowTypeOK,
        QueueTypeOK, WorkerTypeOK, OtherTypeOK
<1>6. CASE EndGeneration
  <2> DEFINE top == Max({book.version[p] : p \in Pages})
  <2>1. top \in Nat
    BY <1>1, MaxVersion DEF RowTypeOK, Books
  <2>2. NoImage \in Keys
    BY DEF NoImage, Keys
  <2>3. PICK stamp \in Stamps :
           \/ book' = [book EXCEPT !.activeRun = FALSE, !.status = "complete",
                                   !.updatedAt = stamp, !.edition = book.edition + 1,
                                   !.version = [p \in Pages |-> top + 1],
                                   !.image = [p \in Pages |-> NoImage]]
           \/ book' = [book EXCEPT !.activeRun = FALSE, !.status = "failed",
                                   !.updatedAt = stamp]
    BY <1>6 DEF EndGeneration
  <2>4. stamp \in Nat /\ book.edition + 1 \in Nat
        /\ [p \in Pages |-> top + 1] \in [Pages -> Nat]
        /\ [p \in Pages |-> NoImage] \in [Pages -> Keys]
    <3> HIDE DEF top
    <3>1. stamp \in Nat /\ top + 1 \in Nat
      BY <1>1, <2>1, <2>3, StampType
    <3>2. book.edition + 1 \in Nat
      BY <1>1 DEF RowTypeOK, Books
    <3> QED
      BY <2>2, <3>1, <3>2
  <2> HIDE DEF top
  <2>5. book' \in Books
    BY <1>1, <2>3, <2>4, ZenonT(60) DEF RowTypeOK, Books
  <2> QED
    BY <1>1, <1>6, <2>5
    DEF EndGeneration, TypeOK, RowTypeOK, QueueTypeOK, WorkerTypeOK, OtherTypeOK
<1>7. CASE RequestHardDeletion
  <2> DEFINE live == {r \in Revisions : rev[r].status \in Live}
  <2>1. Refund(live) /\ live \in SUBSET Revisions
    BY <1>7 DEF RequestHardDeletion
  <2>2. /\ ledger' \subseteq [kind: {"charge", "refund"}, rev: Revisions]
        /\ credits' \in Nat
    BY <1>1, <2>1, RefundType
  <2>3. book' \in Books
    BY <1>1, <1>7, StampType DEF RequestHardDeletion, RowTypeOK, Books
  <2>4. rev' \in [Revisions -> Rows]
    <3>1. ASSUME NEW r \in Revisions
          PROVE  [rev[r] EXCEPT !.status = "failed", !.fence = @ + 1] \in Rows
      <4>1. rev[r] \in Rows /\ rev[r].fence + 1 \in Nat
        BY <1>1 DEF RowTypeOK, Rows
      <4> QED
        BY <4>1 DEF Rows
    <3> QED
      BY <1>1, <1>7, <3>1 DEF RequestHardDeletion, RowTypeOK
  <2>5. outbox' \in [Revisions -> {"none", "pending", "dispatched", "cancelled"}]
    BY <1>1, <1>7 DEF RequestHardDeletion, RowTypeOK
  <2>6. left' \in Scenario
    BY <1>4, <1>7 DEF RequestHardDeletion, OtherWrite
  <2> QED
    BY <1>1, <1>7, <2>2, <2>3, <2>4, <2>5, <2>6
    DEF RequestHardDeletion, OtherWrite, TypeOK, QueueTypeOK, WorkerTypeOK, OtherTypeOK
<1>8. ASSUME NEW e \in Editors, NEW p \in Pages, ReadPage(e, p) PROVE TypeOK'
  <2>1. editor' \in [Editors -> Edits]
    BY <1>1, <1>8 DEF ReadPage, RowTypeOK, Books, OtherTypeOK, Edits
  <2> QED
    BY <1>1, <1>4, <1>8, <2>1
    DEF ReadPage, rowVars, TypeOK, RowTypeOK, QueueTypeOK, WorkerTypeOK, OtherTypeOK
<1>9. NoEdit \in Edits
  BY SomePage DEF NoEdit, Edits
<1>10. ASSUME NEW e \in Editors, PublishEdit(e) PROVE TypeOK'
  <2>1. /\ editor[e].page \in Pages /\ editor[e].version + 1 \in Nat
        /\ book.image[editor[e].page] \in Keys
    BY <1>1 DEF OtherTypeOK, Edits, RowTypeOK, Books
  <2>2. book' \in Books
    BY <1>1, <1>10, <2>1, PublishType DEF PublishEdit
  <2> QED
    BY <1>1, <1>9, <1>10, <2>2
    DEF PublishEdit, TypeOK, RowTypeOK, QueueTypeOK, WorkerTypeOK, OtherTypeOK
<1>11. ASSUME NEW e \in Editors, EditFails(e) PROVE TypeOK'
  BY <1>1, <1>9, <1>11
  DEF EditFails, rowVars, TypeOK, RowTypeOK, QueueTypeOK, WorkerTypeOK, OtherTypeOK
<1> QED
  BY <1>2, <1>3, <1>5, <1>6, <1>7, <1>8, <1>10, <1>11 DEF OwnerNext

\* A delivery becomes another one of the right form.
Becomes(w, d) == worker' = [worker EXCEPT ![w] = d]

LEMMA BecomesType ==
    ASSUME WorkerTypeOK, NEW w \in Workers, NEW d \in Deliveries, Becomes(w, d),
           d.step = "idle" \/ d.rev \in Revisions
    PROVE  /\ WorkerTypeOK' /\ worker'[w] = d
           /\ \A v \in Workers : v # w => worker'[v] = worker[v]
BY DEF WorkerTypeOK, Becomes

Left(w, step) ==
    [Idle EXCEPT !.step = step, !.rev = worker[w].rev,
                 !.token = worker[w].token, !.fence = worker[w].fence]

DeliverySteps ==
    {"idle", "claim", "load", "adopt", "reserve", "gate", "permit", "flight",
     "finish", "save", "checkpoint", "confirm", "publish", "fail", "resolve"}

LEMMA LeftType ==
    ASSUME WorkerTypeOK, NEW w \in Workers, NEW step \in DeliverySteps, Leave(w, step)
    PROVE  Becomes(w, Left(w, step)) /\ Left(w, step) \in Deliveries
<1>1. worker[w] \in Deliveries
  BY DEF WorkerTypeOK
<1>2. /\ worker[w].rev \in Revisions \cup {NoRevision}
      /\ worker[w].token \in Nat /\ worker[w].fence \in Nat
  BY <1>1 DEF Deliveries
<1>3. Left(w, step) \in Deliveries
  BY <1>2, IdleType DEF Left, Deliveries, DeliverySteps
<1> QED
  BY <1>3 DEF Leave, Becomes, Left

LEMMA GotoType ==
    ASSUME WorkerTypeOK, NEW w \in Workers, NEW step \in DeliverySteps, Goto(w, step)
    PROVE  /\ Becomes(w, [worker[w] EXCEPT !.step = step])
           /\ [worker[w] EXCEPT !.step = step] \in Deliveries
<1>1. worker[w] \in Deliveries
  BY DEF WorkerTypeOK
<1>2. [worker[w] EXCEPT !.step = step] \in Deliveries
  BY <1>1 DEF Deliveries, DeliverySteps
<1> QED
  BY <1>2 DEF Goto, Becomes, WorkerTypeOK

LEMMA QueueType ==
    ASSUME TypeOK, QueueNext
    PROVE  TypeOK'
<1>1. RowTypeOK /\ QueueTypeOK /\ WorkerTypeOK /\ OtherTypeOK
  BY TypeParts
<1>2. ASSUME NEW kind \in {"writes", "locks", "faults"}, Spend(kind) PROVE left' \in Scenario
  BY <1>1, <1>2 DEF Spend, QueueTypeOK, Scenario
<1>3. ASSUME NEW j \in Jobs PROVE Enqueued(j) \in Jobs /\ StalledJob(j) \in Jobs
  <2>1. Enqueued(j) \in Jobs
    BY DEF Enqueued, Jobs
  <2>2. j.stalls + 1 \in Nat
    BY DEF Jobs
  <2> QED
    BY <2>1, <2>2 DEF StalledJob, Jobs
<1>4. ASSUME NEW r \in Revisions, Dispatch(r) \/ DispatchUnmarked(r) PROVE TypeOK'
  <2>1. job' \in [Revisions -> Jobs]
    <3>1. job' = [job EXCEPT ![r] = Enqueued(job[r])]
      BY <1>1, <1>4 DEF Dispatch, DispatchUnmarked, QueueTypeOK
    <3> QED
      BY <1>1, <1>3, <3>1 DEF QueueTypeOK
  <2>2. RowTypeOK' /\ left' \in Scenario
    BY <1>1, <1>2, <1>4 DEF Dispatch, DispatchUnmarked, RowTypeOK, QueueTypeOK, rowVars
  <2> QED
    BY <1>1, <1>4, <2>1, <2>2
    DEF Dispatch, DispatchUnmarked, TypeOK, RowTypeOK, QueueTypeOK, WorkerTypeOK, OtherTypeOK
<1>5. ASSUME NEW r \in Revisions, Stall(r) PROVE TypeOK'
  <2>1. job' \in [Revisions -> Jobs]
    <3>1. job' = [job EXCEPT ![r] = StalledJob(job[r])]
      BY <1>1, <1>5 DEF Stall, QueueTypeOK
    <3> QED
      BY <1>1, <1>3, <3>1 DEF QueueTypeOK
  <2>2. left' \in Scenario
    BY <1>1, <1>2, <1>5 DEF Stall, QueueTypeOK
  <2> QED
    BY <1>1, <1>5, <2>1, <2>2
    DEF Stall, rowVars, TypeOK, RowTypeOK, QueueTypeOK, WorkerTypeOK, OtherTypeOK
<1> QED
  BY <1>4, <1>5 DEF QueueNext

LEMMA ClockType ==
    ASSUME TypeOK, ClockNext
    PROVE  TypeOK'
<1>1. RowTypeOK /\ QueueTypeOK /\ WorkerTypeOK /\ OtherTypeOK
  BY TypeParts
<1>2. PICK r \in Revisions :
         QuoteExpires(r) \/ QueueWaitExpires(r) \/ LeaseExpires(r) \/ DeadlinePasses(r)
  BY DEF ClockNext
<1>3. rev' \in [Revisions -> Rows]
  <2>1. rev[r] \in Rows
    BY <1>1 DEF RowTypeOK
  <2>2. ASSUME NEW value \in BOOLEAN
        PROVE  /\ [rev[r] EXCEPT !.quoteExpired = value] \in Rows
               /\ [rev[r] EXCEPT !.queueExpired = value] \in Rows
               /\ [rev[r] EXCEPT !.leaseLive = value] \in Rows
               /\ [rev[r] EXCEPT !.deadlinePassed = value] \in Rows
    BY <2>1 DEF Rows
  <2>3. \/ rev' = [rev EXCEPT ![r] = [rev[r] EXCEPT !.quoteExpired = TRUE]]
        \/ rev' = [rev EXCEPT ![r] = [rev[r] EXCEPT !.queueExpired = TRUE]]
        \/ rev' = [rev EXCEPT ![r] = [rev[r] EXCEPT !.leaseLive = FALSE]]
        \/ rev' = [rev EXCEPT ![r] = [rev[r] EXCEPT !.deadlinePassed = TRUE]]
    BY <1>1, <1>2
    DEF QuoteExpires, QueueWaitExpires, LeaseExpires, DeadlinePasses, Turns, RowTypeOK
  <2> QED
    BY <1>1, <2>2, <2>3 DEF RowTypeOK
<1> QED
  BY <1>1, <1>2, <1>3
  DEF QuoteExpires, QueueWaitExpires, LeaseExpires, DeadlinePasses, Turns,
      TypeOK, RowTypeOK, QueueTypeOK, WorkerTypeOK, OtherTypeOK

LEMMA SweeperType ==
    ASSUME TypeOK, SweeperNext
    PROVE  TypeOK'
<1>1. RowTypeOK /\ QueueTypeOK /\ WorkerTypeOK /\ OtherTypeOK
  BY TypeParts
<1>2. PICK s \in Sweepers :
         \/ \E r \in Revisions : SelectRevision(s, r)
         \/ Decide(s) \/ RecoverRevision(s) \/ SweepStops(s)
  BY DEF SweeperNext
<1>3. NoSweep \in Sweeps /\ NoSweep.step = "idle" /\ sweeper[s] \in Sweeps
  BY <1>1 DEF NoSweep, Sweeps, OtherTypeOK
<1>4. ASSUME NEW r \in Revisions, SelectRevision(s, r) PROVE TypeOK'
  <2>1. rev[r].fence \in Nat /\ rev[r].deadlinePassed \in BOOLEAN
        /\ rev[r].checkpointed \in BOOLEAN
    BY <1>1 DEF RowTypeOK, Rows
  <2> DEFINE c == [step |-> "candidate", rev |-> r, fence |-> rev[r].fence,
                   expired |-> rev[r].status = "queued" \/ rev[r].deadlinePassed,
                   lost |-> rev[r].dispatches > 0 /\ ~rev[r].checkpointed]
  <2>2. c \in Sweeps /\ c.rev \in Revisions
    BY <2>1 DEF Sweeps
  <2>3. sweeper' = [sweeper EXCEPT ![s] = c]
    BY <1>4 DEF SelectRevision
  <2> HIDE DEF c
  <2>4. OtherTypeOK'
    BY <1>1, <1>4, <2>2, <2>3 DEF OtherTypeOK, SelectRevision
  <2> QED
    BY <1>1, <1>4, <2>4
    DEF SelectRevision, rowVars, TypeOK, RowTypeOK, QueueTypeOK, WorkerTypeOK, OtherTypeOK
<1>5. CASE Decide(s)
  <2>1. \E step \in {"fail", "enqueue"} :
           sweeper'[s] = NoSweep \/ sweeper'[s] = [sweeper[s] EXCEPT !.step = step]
    BY <1>1, <1>5 DEF Decide, OtherTypeOK
  <2>2. sweeper' = [sweeper EXCEPT ![s] = sweeper'[s]] /\ sweeper[s].rev \in Revisions
    BY <1>1, <1>5 DEF Decide, OtherTypeOK
  <2>3. OtherTypeOK'
    BY <1>1, <1>3, <1>5, <2>1, <2>2 DEF OtherTypeOK, Decide, Sweeps
  <2> QED
    BY <1>1, <1>5, <2>3
    DEF Decide, rowVars, TypeOK, RowTypeOK, QueueTypeOK, WorkerTypeOK, OtherTypeOK
<1>6. CASE RecoverRevision(s)
  <2>1. sweeper[s].rev \in Revisions
    BY <1>1, <1>6 DEF RecoverRevision, OtherTypeOK
  <2>2. OtherTypeOK'
    BY <1>1, <1>3, <1>6 DEF RecoverRevision, OtherTypeOK
  <2>3. RowTypeOK' /\ job' \in [Revisions -> Jobs]
    <3>1. CASE FailAndRefund(sweeper[s].rev, sweeper[s].fence) /\ UNCHANGED job
      BY <1>1, <2>1, <3>1, FailAndRefundType DEF QueueTypeOK
    <3>2. CASE job' = [job EXCEPT ![sweeper[s].rev] = Enqueued(@)] /\ UNCHANGED rowVars
      BY <1>1, <2>1, <3>2 DEF QueueTypeOK, Jobs, Enqueued, RowTypeOK, rowVars
    <3> QED
      BY <1>6, <3>1, <3>2 DEF RecoverRevision
  <2> QED
    BY <1>1, <1>6, <2>2, <2>3 DEF RecoverRevision, TypeOK, RowTypeOK, QueueTypeOK, WorkerTypeOK, OtherTypeOK
<1>7. CASE SweepStops(s)
  BY <1>1, <1>3, <1>7
  DEF SweepStops, rowVars, TypeOK, RowTypeOK, QueueTypeOK, WorkerTypeOK, OtherTypeOK
<1> QED
  BY <1>2, <1>4, <1>5, <1>6, <1>7

\* A delivery writes its own row.
Rewrites(r, row) == rev' = [rev EXCEPT ![r] = row]

LEMMA RewritesType ==
    ASSUME RowTypeOK, NEW r \in Revisions, NEW row \in Rows, Rewrites(r, row),
           UNCHANGED <<book, ledger, credits, outbox>>
    PROVE  /\ RowTypeOK' /\ rev'[r] = row
           /\ \A q \in Revisions : q # r => rev'[q] = rev[q]
BY DEF RowTypeOK, Rewrites

LEMMA RowFields ==
    ASSUME NEW row \in Rows
    PROVE  /\ \A n \in Nat, m \in Nat :
                 [row EXCEPT !.checkpointed = TRUE, !.key = n, !.manifest = m] \in Rows
           /\ \A n \in Nat, op \in OpStates, m \in Nat :
                 [row EXCEPT !.key = n, !.op = op, !.dispatches = m] \in Rows
           /\ \A n \in Nat, op \in OpStates : [row EXCEPT !.key = n, !.op = op] \in Rows
           /\ \A op \in OpStates : [row EXCEPT !.op = op] \in Rows
           /\ \A op \in OpStates : [row EXCEPT !.op = op, !.checkpointed = TRUE] \in Rows
           /\ [row EXCEPT !.leaseLive = TRUE] \in Rows
           /\ \A n \in Nat, m \in Nat :
                 [row EXCEPT !.status = "running", !.token = n, !.fence = m,
                             !.leaseLive = TRUE] \in Rows
           /\ [row EXCEPT !.status = "completed"] \in Rows
BY ZenonT(60) DEF Rows, Live

LEMMA FencedType ==
    ASSUME RowTypeOK, NEW w \in Workers, NEW row \in Rows, worker[w].rev \in Revisions,
           Fenced(w, row)
    PROVE  /\ RowTypeOK'
           /\ Owns(w) /\ Rewrites(worker[w].rev, [row EXCEPT !.leaseLive = TRUE])
           /\ UNCHANGED <<book, ledger, credits, outbox, job, images, sent, editor, sweeper, left>>
<1>1. /\ Owns(w) /\ Rewrites(worker[w].rev, [row EXCEPT !.leaseLive = TRUE])
      /\ UNCHANGED <<book, ledger, credits, outbox, job, images, sent, editor, sweeper, left>>
  BY DEF Fenced, Rewrites
<1>2. [row EXCEPT !.leaseLive = TRUE] \in Rows
  BY RowFields
<1> QED
  BY <1>1, <1>2, RewritesType

LEMMA DeliveryFields ==
    ASSUME NEW d \in Deliveries
    PROVE  /\ d.rev \in Revisions \cup {NoRevision} /\ d.row \in Rows
           /\ {d.token, d.fence, d.base, d.key, d.by, d.retries, d.limited} \subseteq Nat
           /\ d.outcome \in OpStates /\ d.step \in DeliverySteps
           /\ \A step \in DeliverySteps, n \in Nat :
                 /\ [d EXCEPT !.step = step] \in Deliveries
                 /\ [d EXCEPT !.step = step, !.fence = n] \in Deliveries
                 /\ [d EXCEPT !.step = step, !.key = n] \in Deliveries
                 /\ [d EXCEPT !.step = step, !.by = n] \in Deliveries
                 /\ [d EXCEPT !.step = step, !.limited = n] \in Deliveries
           /\ \A step \in DeliverySteps, n, m \in Nat :
                 /\ [d EXCEPT !.step = step, !.key = n, !.by = m] \in Deliveries
                 /\ [d EXCEPT !.step = step, !.retries = n, !.limited = m] \in Deliveries
           /\ \A step \in DeliverySteps, row \in Rows, n \in Nat :
                 [d EXCEPT !.step = step, !.row = row, !.base = n] \in Deliveries
           /\ \A step \in DeliverySteps, op \in OpStates :
                 [d EXCEPT !.step = step, !.outcome = op] \in Deliveries
<1>1. /\ d.rev \in Revisions \cup {NoRevision} /\ d.row \in Rows
      /\ {d.token, d.fence, d.base, d.key, d.by, d.retries, d.limited} \subseteq Nat
      /\ d.outcome \in OpStates /\ d.step \in DeliverySteps
  BY DEF Deliveries, DeliverySteps
<1>2. \A step \in DeliverySteps, n \in Nat :
         /\ [d EXCEPT !.step = step] \in Deliveries
         /\ [d EXCEPT !.step = step, !.fence = n] \in Deliveries
         /\ [d EXCEPT !.step = step, !.key = n] \in Deliveries
         /\ [d EXCEPT !.step = step, !.by = n] \in Deliveries
         /\ [d EXCEPT !.step = step, !.limited = n] \in Deliveries
  <2> TAKE step \in DeliverySteps, n \in Nat
  <2>1. [d EXCEPT !.step = step] \in Deliveries
    BY DEF Deliveries, DeliverySteps
  <2>2. [d EXCEPT !.step = step, !.fence = n] \in Deliveries
    BY DEF Deliveries, DeliverySteps
  <2>3. [d EXCEPT !.step = step, !.key = n] \in Deliveries
    BY DEF Deliveries, DeliverySteps
  <2>4. [d EXCEPT !.step = step, !.by = n] \in Deliveries
    BY DEF Deliveries, DeliverySteps
  <2>5. [d EXCEPT !.step = step, !.limited = n] \in Deliveries
    BY DEF Deliveries, DeliverySteps
  <2> QED
    BY <2>1, <2>2, <2>3, <2>4, <2>5
<1>3. \A step \in DeliverySteps, n, m \in Nat :
         /\ [d EXCEPT !.step = step, !.key = n, !.by = m] \in Deliveries
         /\ [d EXCEPT !.step = step, !.retries = n, !.limited = m] \in Deliveries
  <2> TAKE step \in DeliverySteps, n, m \in Nat
  <2>1. [d EXCEPT !.step = step, !.key = n, !.by = m] \in Deliveries
    BY DEF Deliveries, DeliverySteps
  <2>2. [d EXCEPT !.step = step, !.retries = n, !.limited = m] \in Deliveries
    BY DEF Deliveries, DeliverySteps
  <2> QED
    BY <2>1, <2>2
<1>4. \A step \in DeliverySteps, row \in Rows, n \in Nat :
         [d EXCEPT !.step = step, !.row = row, !.base = n] \in Deliveries
  <2> TAKE step \in DeliverySteps, row \in Rows, n \in Nat
  <2> QED
    BY DEF Deliveries, DeliverySteps
<1>5. \A step \in DeliverySteps, op \in OpStates :
         [d EXCEPT !.step = step, !.outcome = op] \in Deliveries
  BY DEF Deliveries, DeliverySteps
<1> QED
  BY <1>1, <1>2, <1>3, <1>4, <1>5

LEMMA WorkerType ==
    ASSUME TypeOK, IsFiniteSet(sent), NEW w \in Workers,
           \/ \E r \in Revisions : PickUp(w, r)
           \/ Claim(w) \/ Load(w) \/ Adopt(w)
           \/ ReserveOperation(w) \/ ReserveHttpAttempt(w)
           \/ Send(w) \/ Answer(w) \/ FinishOperation(w)
           \/ SaveImage(w) \/ Checkpoint(w) \/ ConfirmStored(w)
           \/ PublishRevision(w) \/ PublicationFails(w)
           \/ Fail(w) \/ Resolve(w) \/ WorkerCrash(w)
    PROVE  TypeOK'
<1> DEFINE d == worker[w]
           r == worker[w].rev
<1>1. RowTypeOK /\ QueueTypeOK /\ WorkerTypeOK /\ OtherTypeOK
  BY TypeParts
<1>2. d \in Deliveries /\ (d.step # "idle" => r \in Revisions /\ rev[r] \in Rows)
  BY <1>1 DEF WorkerTypeOK, RowTypeOK
<1>3. ASSUME NEW step \in DeliverySteps, Leave(w, step), d.step # "idle"
      PROVE  WorkerTypeOK'
  <2>1. Left(w, step).rev = r
    BY DEF Left, Idle
  <2> QED
    BY <1>1, <1>2, <1>3, <2>1, LeftType, BecomesType
<1>4. ASSUME NEW step \in DeliverySteps, Goto(w, step), d.step # "idle"
      PROVE  WorkerTypeOK'
  <2>1. [worker[w] EXCEPT !.step = step].rev = r
    BY <1>2 DEF Deliveries
  <2> QED
    BY <1>1, <1>2, <1>4, <2>1, GotoType, BecomesType
<1>5. ASSUME NEW kind \in {"writes", "locks", "faults"}, Spend(kind) PROVE left' \in Scenario
  BY <1>1, <1>5 DEF Spend, QueueTypeOK, Scenario
<1>6. ASSUME NEW e \in Deliveries, Becomes(w, e), e.rev = r, d.step # "idle"
      PROVE  WorkerTypeOK'
  BY <1>1, <1>2, <1>6, BecomesType
<1>7. {"claim", "load", "adopt", "reserve", "gate", "permit", "flight", "finish",
       "save", "checkpoint", "confirm", "publish", "fail", "resolve"} \subseteq DeliverySteps
  BY DEF DeliverySteps
<1>8. ASSUME Refused(w), d.step # "idle" PROVE TypeOK'
  <2>1. WorkerTypeOK'
    BY <1>3, <1>7, <1>8 DEF Refused
  <2> QED
    BY <1>1, <1>8, <2>1
    DEF Refused, rowVars, TypeOK, RowTypeOK, QueueTypeOK, WorkerTypeOK, OtherTypeOK
<1>9. ASSUME NEW row \in Rows, Fenced(w, row), d.step # "idle", WorkerTypeOK' PROVE TypeOK'
  <2>1. RowTypeOK' /\ UNCHANGED <<job, images, sent, editor, sweeper, left>>
    BY <1>1, <1>2, <1>9, FencedType
  <2> QED
    BY <1>1, <1>9, <2>1 DEF TypeOK, RowTypeOK, QueueTypeOK, WorkerTypeOK, OtherTypeOK
<1>10. ASSUME NEW q \in Revisions, PickUp(w, q) PROVE TypeOK'
  <2> DEFINE e == [Idle EXCEPT !.step = "claim", !.rev = q, !.token = job[q].token + 1]
  <2>1. job[q] \in Jobs /\ job[q].token + 1 \in Nat
    BY <1>1 DEF QueueTypeOK, Jobs
  <2>2. e \in Deliveries /\ e.rev = q
    BY <2>1, IdleType DEF Deliveries
  <2>3. Becomes(w, e)
    BY <1>10 DEF PickUp, Becomes
  <2> HIDE DEF e
  <2>4. WorkerTypeOK'
    BY <1>1, <2>2, <2>3, BecomesType
  <2>5. [job[q] EXCEPT !.state = "active", !.token = job[q].token + 1] \in Jobs
    BY <2>1 DEF Jobs
  <2>6. job' = [job EXCEPT ![q] = [job[q] EXCEPT !.state = "active", !.token = job[q].token + 1]]
    BY <1>1, <1>10 DEF PickUp, QueueTypeOK, Jobs
  <2>7. job' \in [Revisions -> Jobs]
    BY <1>1, <2>5, <2>6 DEF QueueTypeOK
  <2> QED
    BY <1>1, <1>10, <2>4, <2>7
    DEF PickUp, rowVars, TypeOK, RowTypeOK, QueueTypeOK, WorkerTypeOK, OtherTypeOK
<1>11. CASE Claim(w)
  <2>1. d.step # "idle"
    BY <1>11 DEF Claim, At
  <2>2. CASE Claimable(rev[r], d.token)
    <3> DEFINE row == [rev[r] EXCEPT !.status = "running", !.token = d.token,
                                     !.fence = rev[r].fence + 1, !.leaseLive = TRUE]
               e == [d EXCEPT !.step = "load", !.fence = rev[r].fence + 1]
    <3>1. rev[r].fence + 1 \in Nat /\ d.token \in Nat
      <4>1. rev[r].fence \in Nat
        BY <1>2, <2>1 DEF Rows
      <4>2. d.token \in Nat
        BY <1>2, DeliveryFields
      <4> QED
        BY <4>1, <4>2
    <3>2. row \in Rows /\ e \in Deliveries /\ e.rev = r
      <4>1. row \in Rows
        BY <1>2, <2>1, <3>1, RowFields
      <4>2. e \in Deliveries
        BY <1>2, <1>7, <3>1, DeliveryFields
      <4> QED
        BY <1>2, <4>1, <4>2 DEF Deliveries
    <3>3. Rewrites(r, row) /\ Becomes(w, e)
      <4>1. rev' = [rev EXCEPT ![r].status = "running", ![r].token = d.token,
                               ![r].fence = rev[r].fence + 1, ![r].leaseLive = TRUE]
        BY <1>1, <1>2, <1>11, <2>1, <2>2 DEF Claim, RowTypeOK
      <4>2. rev' = [rev EXCEPT ![r] = row]
        BY <1>1, <1>2, <2>1, <4>1 DEF RowTypeOK
      <4>3. worker' = [worker EXCEPT ![w] = e]
        BY <1>1, <1>11, <2>2 DEF Claim, WorkerTypeOK
      <4> QED
        BY <4>2, <4>3 DEF Rewrites, Becomes
    <3> HIDE DEF row, e
    <3>4. WorkerTypeOK'
      BY <1>6, <2>1, <3>2, <3>3
    <3>5. UNCHANGED <<book, ledger, credits, outbox, job, images, sent, editor, sweeper, left>>
      BY <1>11 DEF Claim
    <3>6. RowTypeOK'
      BY <1>1, <1>2, <2>1, <3>2, <3>3, <3>5, RewritesType
    <3> QED
      BY <1>1, <3>4, <3>5, <3>6 DEF TypeOK, RowTypeOK, QueueTypeOK, WorkerTypeOK, OtherTypeOK
  <2>3. CASE ~Claimable(rev[r], d.token)
    <3>1. WorkerTypeOK'
      BY <1>3, <1>7, <1>11, <2>1, <2>3 DEF Claim
    <3> QED
      BY <1>1, <1>11, <2>3, <3>1
      DEF Claim, rowVars, TypeOK, RowTypeOK, QueueTypeOK, WorkerTypeOK, OtherTypeOK
  <2> QED
    BY <2>2, <2>3
<1>12. CASE Load(w)
  <2>1. d.step # "idle"
    BY <1>12 DEF Load, At
  <2>2. WorkerTypeOK'
    <3>1. CASE Leave(w, "resolve") \/ Leave(w, "fail")
      BY <1>3, <1>7, <2>1, <3>1
    <3>2. CASE ~(Leave(w, "resolve") \/ Leave(w, "fail"))
      <4> DEFINE e == [d EXCEPT !.step = "adopt", !.row = rev[r], !.base = book.edition]
      <4>1. Becomes(w, e)
        BY <1>1, <1>12, <3>2 DEF Load, Becomes, WorkerTypeOK
      <4>2. book.edition \in Nat
        BY <1>1 DEF RowTypeOK, Books
      <4>3. e \in Deliveries
        BY <1>2, <1>7, <2>1, <4>2, DeliveryFields
      <4>4. e.rev = r
        BY <1>2 DEF Deliveries
      <4> QED
        BY <1>6, <2>1, <4>1, <4>3, <4>4
    <3> QED
      BY <3>1, <3>2
  <2> QED
    BY <1>1, <1>12, <2>2
    DEF Load, rowVars, TypeOK, RowTypeOK, QueueTypeOK, WorkerTypeOK, OtherTypeOK
<1>13. CASE Adopt(w)
  <2>1. d.step # "idle"
    BY <1>13 DEF Adopt, At
  <2> DEFINE found == Candidates(d.row, d.rev)
             e == [d EXCEPT !.step = IF d.row.checkpointed THEN "publish" ELSE "checkpoint",
                            !.key = d.row.key, !.by = (CHOOSE i \in found : TRUE).by]
             f == [d EXCEPT !.step = "reserve",
                            !.key = IF d.row.key # 0 THEN d.row.key ELSE d.fence]
  <2>2. WorkerTypeOK'
    <3>1. CASE Leave(w, "fail")
      BY <1>3, <1>7, <2>1, <3>1
    <3>2. d.row.key \in Nat /\ d.fence \in Nat /\ d.row \in Rows
      BY <1>2, DeliveryFields DEF Rows
    <3>3. CASE Becomes(w, e) /\ found # {}
      <4>1. (CHOOSE i \in found : TRUE) \in Keys
        BY <1>1, <3>3 DEF Candidates, QueueTypeOK
      <4>2. (CHOOSE i \in found : TRUE).by \in Nat
        BY <4>1 DEF Keys
      <4>3. e.rev = r
        BY <1>2 DEF Deliveries
      <4> HIDE DEF found
      <4>4. e \in Deliveries
        BY <1>2, <1>7, <3>2, <4>2, DeliveryFields
      <4> QED
        BY <1>6, <2>1, <3>3, <4>3, <4>4
    <3>4. CASE Becomes(w, f)
      <4>1. f.rev = r
        BY <1>2 DEF Deliveries
      <4>2. f \in Deliveries
        BY <1>2, <1>7, <3>2, DeliveryFields
      <4> QED
        BY <1>6, <2>1, <3>4, <4>1, <4>2
    <3>5. Leave(w, "fail") \/ (Becomes(w, e) /\ found # {}) \/ Becomes(w, f)
      <4>1. \/ /\ found # {}
               /\ worker' = [worker EXCEPT
                               ![w].step = IF d.row.checkpointed THEN "publish" ELSE "checkpoint",
                               ![w].key = d.row.key,
                               ![w].by = (CHOOSE i \in found : TRUE).by]
            \/ worker' = [worker EXCEPT
                            ![w].step = "reserve",
                            ![w].key = IF d.row.key # 0 THEN d.row.key ELSE d.fence]
            \/ Leave(w, "fail")
        BY <1>13 DEF Adopt
      <4> HIDE DEF found
      <4> QED
        BY <1>1, <4>1 DEF Becomes, WorkerTypeOK
    <3> QED
      BY <3>1, <3>3, <3>4, <3>5
  <2> QED
    BY <1>1, <1>13, <2>2
    DEF Adopt, rowVars, TypeOK, RowTypeOK, QueueTypeOK, WorkerTypeOK, OtherTypeOK
<1>14. CASE ReserveOperation(w)
  <2>1. d.step # "idle" /\ rev[r] \in Rows /\ d.key \in Nat
    BY <1>2, <1>14, DeliveryFields DEF ReserveOperation, At
  <2>2. CASE Refused(w)
    BY <1>8, <2>1, <2>2
  <2>3. CASE /\ Fenced(w, [rev[r] EXCEPT !.key = d.key, !.op = "reserved_unsent"])
             /\ Goto(w, "gate")
    <3>1. [rev[r] EXCEPT !.key = d.key, !.op = "reserved_unsent"] \in Rows
      BY <2>1, RowFields DEF OpStates
    <3>2. WorkerTypeOK'
      BY <1>4, <1>7, <2>1, <2>3
    <3> QED
      BY <1>9, <2>1, <2>3, <3>1, <3>2
  <2> QED
    BY <1>14, <2>2, <2>3 DEF ReserveOperation
<1>15. CASE ReserveHttpAttempt(w)
  <2>1. d.step # "idle" /\ rev[r] \in Rows /\ d.key \in Nat
    BY <1>2, <1>15, DeliveryFields DEF ReserveHttpAttempt, At
  <2>2. CASE Refused(w)
    BY <1>8, <2>1, <2>2
  <2> DEFINE row == [rev[r] EXCEPT !.key = d.key, !.op = "dispatch_intent",
                                   !.dispatches = rev[r].dispatches + 1]
  <2>3. CASE Fenced(w, row) /\ Goto(w, "permit")
    <3>1. rev[r].dispatches + 1 \in Nat
      BY <2>1 DEF Rows
    <3>2. row \in Rows
      BY <2>1, <3>1, RowFields DEF OpStates
    <3>3. WorkerTypeOK'
      BY <1>4, <1>7, <2>1, <2>3
    <3> QED
      BY <1>9, <2>1, <2>3, <3>2, <3>3
  <2> QED
    BY <1>15, <2>2, <2>3 DEF ReserveHttpAttempt
<1>16. CASE Send(w)
  <2>1. d.step # "idle" /\ d.fence \in Nat
    BY <1>2, <1>16, DeliveryFields DEF Send, At
  <2>2. WorkerTypeOK'
    BY <1>4, <1>7, <1>16, <2>1 DEF Send
  <2>3. sent' \subseteq [rev: Revisions, fence: Nat, n: Nat]
    <3>1. Cardinality(sent) \in Nat
      BY FS_CardinalityType
    <3>2. [rev |-> r, fence |-> d.fence, n |-> Cardinality(sent)]
             \in [rev: Revisions, fence: Nat, n: Nat]
      BY <1>2, <2>1, <3>1
    <3> QED
      BY <1>1, <1>16, <3>2 DEF Send, QueueTypeOK
  <2> QED
    BY <1>1, <1>16, <2>2, <2>3
    DEF Send, rowVars, TypeOK, RowTypeOK, QueueTypeOK, WorkerTypeOK, OtherTypeOK
<1>17. CASE Answer(w)
  <2>1. /\ d.step # "idle"
        /\ d.limited + 1 \in Nat /\ d.retries + 1 \in Nat /\ 0 \in Nat
    <3>1. d.limited \in Nat /\ d.retries \in Nat
      BY <1>2, DeliveryFields
    <3> QED
      BY <1>17, <3>1 DEF Answer, At
  <2>2. \/ \E outcome \in {"response_received", "unknown", "known_failure"} :
              Becomes(w, [d EXCEPT !.step = "finish", !.outcome = outcome])
        \/ Becomes(w, [d EXCEPT !.step = "permit", !.limited = d.limited + 1])
        \/ Becomes(w, [d EXCEPT !.step = "gate", !.retries = d.retries + 1, !.limited = 0])
    BY <1>1, <1>17 DEF Answer, Becomes, WorkerTypeOK
  <2>3. WorkerTypeOK'
    <3>1. ASSUME NEW outcome \in {"response_received", "unknown", "known_failure"}
          PROVE  /\ [d EXCEPT !.step = "finish", !.outcome = outcome] \in Deliveries
                 /\ [d EXCEPT !.step = "finish", !.outcome = outcome].rev = r
      <4>1. outcome \in OpStates
        BY <3>1 DEF OpStates
      <4>2. [d EXCEPT !.step = "finish", !.outcome = outcome] \in Deliveries
        BY <1>2, <1>7, <4>1, DeliveryFields
      <4> QED
        BY <1>2, <4>2 DEF Deliveries
    <3>2. /\ [d EXCEPT !.step = "permit", !.limited = d.limited + 1] \in Deliveries
          /\ [d EXCEPT !.step = "permit", !.limited = d.limited + 1].rev = r
      <4>1. [d EXCEPT !.step = "permit", !.limited = d.limited + 1] \in Deliveries
        BY <1>2, <1>7, <2>1, DeliveryFields
      <4> QED
        BY <1>2, <4>1 DEF Deliveries
    <3>3. /\ [d EXCEPT !.step = "gate", !.retries = d.retries + 1, !.limited = 0] \in Deliveries
          /\ [d EXCEPT !.step = "gate", !.retries = d.retries + 1, !.limited = 0].rev = r
      <4>1. [d EXCEPT !.step = "gate", !.retries = d.retries + 1, !.limited = 0] \in Deliveries
        BY <1>2, <1>7, <2>1, DeliveryFields
      <4> QED
        BY <1>2, <4>1 DEF Deliveries
    <3> QED
      BY <1>6, <2>1, <2>2, <3>1, <3>2, <3>3
  <2> QED
    BY <1>1, <1>17, <2>3
    DEF Answer, rowVars, TypeOK, RowTypeOK, QueueTypeOK, WorkerTypeOK, OtherTypeOK
<1>18. CASE FinishOperation(w)
  <2>1. d.step # "idle" /\ rev[r] \in Rows /\ d.outcome \in OpStates
    BY <1>2, <1>18, DeliveryFields DEF FinishOperation, At
  <2>2. CASE Refused(w)
    BY <1>8, <2>1, <2>2
  <2>3. CASE /\ Fenced(w, [rev[r] EXCEPT !.op = d.outcome])
             /\ Goto(w, "save") \/ Leave(w, "fail")
    <3>1. [rev[r] EXCEPT !.op = d.outcome] \in Rows
      BY <2>1, RowFields
    <3>2. WorkerTypeOK'
      BY <1>3, <1>4, <1>7, <2>1, <2>3
    <3> QED
      BY <1>9, <2>1, <2>3, <3>1, <3>2
  <2> QED
    BY <1>18, <2>2, <2>3 DEF FinishOperation
<1>19. CASE SaveImage(w)
  <2>1. d.step # "idle" /\ d.fence \in Nat /\ d.key \in Nat
    BY <1>2, <1>19, DeliveryFields DEF SaveImage, At
  <2>2. WorkerTypeOK'
    <3>1. CASE Leave(w, "fail")
      BY <1>3, <1>7, <2>1, <3>1
    <3>2. CASE ~Leave(w, "fail")
      <4>1. Becomes(w, [d EXCEPT !.step = "checkpoint", !.by = d.fence])
        BY <1>1, <1>19, <3>2 DEF SaveImage, Becomes, WorkerTypeOK
      <4>2. [d EXCEPT !.step = "checkpoint", !.by = d.fence] \in Deliveries
        BY <1>2, <1>7, <2>1, DeliveryFields
      <4>3. [d EXCEPT !.step = "checkpoint", !.by = d.fence].rev = r
        BY <1>2 DEF Deliveries
      <4> QED
        BY <1>6, <2>1, <4>1, <4>2, <4>3
    <3> QED
      BY <3>1, <3>2
  <2>3. images' \subseteq Keys
    <3>1. [rev |-> r, at |-> d.key, by |-> d.fence] \in Keys
      BY <1>2, <2>1 DEF Keys
    <3> QED
      BY <1>1, <1>19, <3>1 DEF SaveImage, QueueTypeOK
  <2> QED
    BY <1>1, <1>19, <2>2, <2>3
    DEF SaveImage, rowVars, TypeOK, RowTypeOK, QueueTypeOK, WorkerTypeOK, OtherTypeOK
<1>20. CASE Checkpoint(w)
  <2>1. d.step # "idle" /\ rev[r] \in Rows /\ d.key \in Nat /\ d.by \in Nat
    BY <1>2, <1>20, DeliveryFields DEF Checkpoint, At
  <2>2. CASE Refused(w)
    BY <1>8, <2>1, <2>2
  <2>3. CASE /\ Fenced(w, [rev[r] EXCEPT !.checkpointed = TRUE, !.key = d.key,
                                          !.manifest = d.by])
             /\ Goto(w, "confirm")
    <3>1. [rev[r] EXCEPT !.checkpointed = TRUE, !.key = d.key, !.manifest = d.by] \in Rows
      BY <2>1, RowFields
    <3>2. WorkerTypeOK'
      BY <1>4, <1>7, <2>1, <2>3
    <3> QED
      BY <1>9, <2>1, <2>3, <3>1, <3>2
  <2> QED
    BY <1>20, <2>2, <2>3 DEF Checkpoint
<1>21. CASE ConfirmStored(w)
  <2>1. d.step # "idle" /\ rev[r] \in Rows
    BY <1>2, <1>21 DEF ConfirmStored, At
  <2>2. CASE Refused(w)
    BY <1>8, <2>1, <2>2
  <2>3. CASE /\ Fenced(w, [rev[r] EXCEPT !.op = "artifact_stored", !.checkpointed = TRUE])
             /\ Goto(w, "publish")
    <3>1. [rev[r] EXCEPT !.op = "artifact_stored", !.checkpointed = TRUE] \in Rows
      BY <2>1, RowFields DEF OpStates
    <3>2. WorkerTypeOK'
      BY <1>4, <1>7, <2>1, <2>3
    <3> QED
      BY <1>9, <2>1, <2>3, <3>1, <3>2
  <2> QED
    BY <1>21, <2>2, <2>3 DEF ConfirmStored
<1>22. CASE PublishRevision(w)
  <2>1. d.step # "idle" /\ d.key \in Nat /\ d.by \in Nat /\ d.row \in Rows /\ rev[r] \in Rows
    BY <1>2, <1>22, DeliveryFields DEF PublishRevision, At
  <2>2. WorkerTypeOK'
    BY <1>3, <1>7, <1>22, <2>1 DEF PublishRevision
  <2>3. book' \in Books
    <3>1. d.row.page \in Pages /\ d.row.version + 1 \in Nat
      BY <2>1 DEF Rows
    <3>2. [rev |-> r, at |-> d.key, by |-> d.by] \in Keys
      BY <1>2, <2>1 DEF Keys
    <3> QED
      BY <1>1, <1>22, <3>1, <3>2, PublishType DEF PublishRevision
  <2>4. rev' \in [Revisions -> Rows]
    <3>1. [rev[r] EXCEPT !.status = "completed"] \in Rows
      BY <2>1, RowFields
    <3>2. rev' = [rev EXCEPT ![r] = [rev[r] EXCEPT !.status = "completed"]]
      BY <1>1, <1>2, <1>22, <2>1 DEF PublishRevision, RowTypeOK
    <3> QED
      BY <1>1, <3>1, <3>2 DEF RowTypeOK
  <2> QED
    BY <1>1, <1>22, <2>2, <2>3, <2>4
    DEF PublishRevision, TypeOK, RowTypeOK, QueueTypeOK, WorkerTypeOK, OtherTypeOK
<1>23. CASE PublicationFails(w)
  BY <1>8, <1>23 DEF PublicationFails, At
<1>24. CASE Fail(w)
  <2>1. d.step # "idle"
    BY <1>24 DEF Fail, At
  <2>2. WorkerTypeOK'
    BY <1>3, <1>7, <1>24, <2>1 DEF Fail
  <2>3. RowTypeOK' /\ left' \in Scenario
    <3>1. CASE FailAndRefund(r, d.fence) /\ UNCHANGED left
      BY <1>1, <1>2, <2>1, <3>1, FailAndRefundType DEF QueueTypeOK
    <3>2. CASE Spend("faults") /\ UNCHANGED rowVars
      BY <1>1, <1>5, <3>2 DEF RowTypeOK, rowVars
    <3> QED
      BY <1>24, <3>1, <3>2 DEF Fail
  <2> QED
    BY <1>1, <1>24, <2>2, <2>3 DEF Fail, TypeOK, RowTypeOK, QueueTypeOK, WorkerTypeOK, OtherTypeOK
<1>25. CASE Resolve(w)
  <2>1. d.step # "idle"
    BY <1>25 DEF Resolve, At
  <2>2. WorkerTypeOK'
    BY <1>1, <1>25, IdleType, BecomesType DEF Resolve, Becomes
  <2>3. job' \in [Revisions -> Jobs]
    BY <1>1, <1>2, <1>25, <2>1 DEF Resolve, QueueTypeOK, Jobs
  <2> QED
    BY <1>1, <1>25, <2>2, <2>3
    DEF Resolve, rowVars, TypeOK, RowTypeOK, QueueTypeOK, WorkerTypeOK, OtherTypeOK
<1>26. CASE WorkerCrash(w)
  <2>1. WorkerTypeOK'
    BY <1>1, <1>26, IdleType, BecomesType DEF WorkerCrash, Becomes
  <2> QED
    BY <1>1, <1>5, <1>26, <2>1
    DEF WorkerCrash, rowVars, TypeOK, RowTypeOK, QueueTypeOK, WorkerTypeOK, OtherTypeOK
<1> QED
  BY <1>10, <1>11, <1>12, <1>13, <1>14, <1>15, <1>16, <1>17, <1>18, <1>19, <1>20,
     <1>21, <1>22, <1>23, <1>24, <1>25, <1>26

\* Requests are numbered by how many there were: only a finite set has a number.
Typed == TypeOK /\ IsFiniteSet(sent)

LEMMA TypeInit == Init => Typed
<1> SUFFICES ASSUME Init PROVE Typed
  OBVIOUS
<1>1. RowTypeOK
  <2>1. book \in Books
    BY DEF Init, Books, Keys, NoImage
  <2>2. rev \in [Revisions -> Rows]
    BY NoRowType DEF Init
  <2> QED
    BY <2>1, <2>2, PageRevisionAssumption DEF Init, RowTypeOK
<1>2. QueueTypeOK
  BY PageRevisionAssumption DEF Init, QueueTypeOK, Jobs
<1>3. WorkerTypeOK
  BY IdleType DEF Init, WorkerTypeOK
<1>4. OtherTypeOK
  BY SomePage DEF Init, OtherTypeOK, NoEdit, Edits, NoSweep, Sweeps
<1>5. IsFiniteSet(sent)
  BY FS_EmptySet DEF Init
<1> QED
  BY <1>1, <1>2, <1>3, <1>4, <1>5, TypeParts DEF Typed

LEMMA OnlySendSends ==
    ASSUME [Next]_vars, ~\E w \in Workers : Send(w)
    PROVE  sent' = sent
<1>1. CASE OwnerNext
  BY <1>1
  DEF OwnerNext, CreateQuote, Confirm, EditDetails, RemoveBook, StartGeneration,
      EndGeneration, RequestHardDeletion, OtherWrite, ReadPage, PublishEdit, EditFails
<1>2. CASE QueueNext \/ ClockNext \/ SweeperNext
  BY <1>2
  DEF QueueNext, Dispatch, DispatchUnmarked, Stall,
      ClockNext, QuoteExpires, QueueWaitExpires, LeaseExpires, DeadlinePasses, Turns,
      SweeperNext, SelectRevision, Decide, RecoverRevision, SweepStops
<1>3. CASE WorkerNext
  BY <1>3, ZenonT(60)
  DEF WorkerNext, PickUp, Claim, Load, Adopt, ReserveOperation, ReserveHttpAttempt, Answer,
      FinishOperation, SaveImage, Checkpoint, ConfirmStored, PublishRevision,
      PublicationFails, Fail, Resolve, WorkerCrash, Fenced, Refused
<1> QED
  BY <1>1, <1>2, <1>3 DEF Next, vars

LEMMA TypeStep == Typed /\ [Next]_vars => Typed'
<1> SUFFICES ASSUME Typed, [Next]_vars PROVE Typed'
  OBVIOUS
<1>1. ASSUME UNCHANGED vars PROVE TypeOK'
  BY <1>1 DEF vars, rowVars, TypeOK, Typed
<1>2. TypeOK'
  BY <1>1, OwnerType, QueueType, WorkerType, ClockType, SweeperType
  DEF Next, WorkerNext, Typed
<1>3. IsFiniteSet(sent')
  <2>1. CASE sent' = sent
    BY <2>1 DEF Typed
  <2>2. ASSUME NEW w \in Workers, Send(w) PROVE IsFiniteSet(sent')
    BY <2>2, FS_AddElement DEF Send, Typed
  <2> QED
    BY <2>1, <2>2, OnlySendSends
<1> QED
  BY <1>2, <1>3 DEF Typed

\* Every variable keeps its type.
THEOREM RevisionsTyped == Spec => []Typed
BY TypeInit, TypeStep, PTL DEF Spec

-----------------------------------------------------------------------------
(* Rows *)

\* Only a claim makes a row run, and what nobody confirmed was never claimed.
RowGood(r) ==
    /\ rev[r].status \in {"none", "quoted"} => rev[r].fence = 0 /\ rev[r].dispatches = 0
    /\ rev[r].status = "running" => rev[r].fence > 0

RowsGood == \A r \in Revisions : RowGood(r)

\* What no step takes back.
Steady(r) ==
    /\ rev'[r].fence >= rev[r].fence
    /\ rev'[r].dispatches >= rev[r].dispatches
    /\ rev'[r].status = "running" /\ rev'[r].fence = rev[r].fence => rev[r].status = "running"
    /\ rev[r].deadlinePassed => rev'[r].deadlinePassed
    /\ rev[r].status \notin {"none", "quoted"} =>
          rev'[r].status \notin {"none", "quoted"} /\ rev'[r].page = rev[r].page

Undispatched(r) == rev'[r].dispatches = rev[r].dispatches

\* A row that changes, as it was and as it is.
RowStep(old, new) ==
    /\ new.fence >= old.fence
    /\ new.dispatches >= old.dispatches
    /\ new.status = "running" /\ new.fence = old.fence => old.status = "running"
    /\ old.deadlinePassed => new.deadlinePassed
    /\ old.status \notin {"none", "quoted"} =>
          new.status \notin {"none", "quoted"} /\ new.page = old.page
    /\ new.status \in {"none", "quoted"} => new.fence = old.fence /\ new.dispatches = old.dispatches
    /\ new.status = "running" => old.status = "running" \/ new.fence > 0

LEMMA SameRow == ASSUME NEW row \in Rows PROVE RowStep(row, row)
BY DEF RowStep, Rows

LEMMA RowsStep ==
    ASSUME RowTypeOK, RowsGood,
           \A r \in Revisions : RowStep(rev[r], rev'[r]), RowTypeOK'
    PROVE  RowsGood' /\ \A r \in Revisions : Steady(r)
<1> SUFFICES ASSUME NEW r \in Revisions PROVE RowGood(r)' /\ Steady(r)
  BY DEF RowsGood
<1>1. rev[r] \in Rows /\ rev'[r] \in Rows /\ RowStep(rev[r], rev'[r]) /\ RowGood(r)
  BY DEF RowTypeOK, RowsGood
<1>2. /\ rev[r].fence \in Nat /\ rev'[r].fence \in Nat
      /\ rev[r].dispatches \in Nat /\ rev'[r].dispatches \in Nat
  BY <1>1 DEF Rows
<1> QED
  BY <1>1, <1>2 DEF RowStep, RowGood, Steady

LEMMA FailAndRefundRow ==
    ASSUME RowTypeOK, NEW r \in Revisions, NEW f, FailAndRefund(r, f)
    PROVE  \A q \in Revisions :
              RowStep(rev[q], rev'[q]) /\ rev'[q].dispatches = rev[q].dispatches
<1>1. CASE UNCHANGED rowVars
  BY <1>1, SameRow DEF rowVars, RowTypeOK
<1>2. CASE rev[r].status \in Live /\ rev' = [rev EXCEPT ![r].status = "failed"]
  BY <1>2, SameRow DEF RowTypeOK, Rows, RowStep, Live
<1> QED
  BY <1>1, <1>2 DEF FailAndRefund

\* A worker's fenced write changes neither status nor fence.
LEMMA FencedRow ==
    ASSUME RowTypeOK, NEW w \in Workers, worker[w].rev \in Revisions, NEW row \in Rows,
           Fenced(w, row),
           row.status = rev[worker[w].rev].status, row.fence = rev[worker[w].rev].fence,
           row.page = rev[worker[w].rev].page,
           row.deadlinePassed = rev[worker[w].rev].deadlinePassed,
           row.dispatches >= rev[worker[w].rev].dispatches
    PROVE  /\ \A q \in Revisions : RowStep(rev[q], rev'[q])
           /\ \A q \in Revisions : q # worker[w].rev => rev'[q] = rev[q]
           /\ rev'[worker[w].rev].dispatches = row.dispatches
           /\ Owns(w)
<1> DEFINE r == worker[w].rev
<1>1. Owns(w) /\ Rewrites(r, [row EXCEPT !.leaseLive = TRUE]) /\ RowTypeOK'
      /\ UNCHANGED <<book, ledger, credits, outbox>>
  BY FencedType
<1>2. [row EXCEPT !.leaseLive = TRUE] \in Rows /\ rev[r] \in Rows
  BY RowFields DEF RowTypeOK
<1>3. rev'[r] = [row EXCEPT !.leaseLive = TRUE] /\ \A q \in Revisions : q # r => rev'[q] = rev[q]
  BY <1>1, <1>2, RewritesType
<1>4. RowStep(rev[r], rev'[r]) /\ rev'[r].dispatches = row.dispatches
  BY <1>1, <1>2, <1>3 DEF RowStep, Rows, Owns
<1>5. \A q \in Revisions : q # r => RowStep(rev[q], rev'[q])
  BY <1>3, SameRow DEF RowTypeOK
<1> QED
  BY <1>1, <1>3, <1>4, <1>5

RowsRest == \A r \in Revisions : RowStep(rev[r], rev'[r]) /\ Undispatched(r)

LEMMA UnchangedRows == ASSUME RowTypeOK, rev' = rev PROVE RowsRest
BY SameRow DEF RowTypeOK, RowsRest, Undispatched

LEMMA OneRow ==
    ASSUME RowTypeOK, NEW r \in Revisions, NEW row \in Rows,
           rev' = [rev EXCEPT ![r] = row],
           RowStep(rev[r], row), row.dispatches = rev[r].dispatches
    PROVE  RowsRest
BY SameRow DEF RowTypeOK, RowsRest, Undispatched

LEMMA OwnerRows ==
    ASSUME RowTypeOK, RowsGood, OwnerNext
    PROVE  RowsRest
<1>1. ASSUME NEW r \in Revisions, NEW p \in Pages, CreateQuote(r, p) PROVE RowsRest
  <2> DEFINE row == [rev[r] EXCEPT !.status = "quoted",
                                   !.updatedAt = book.updatedAt,
                                   !.edition = book.edition,
                                   !.page = p, !.version = book.version[p]]
  <2>1. /\ rev[r] \in Rows /\ book.updatedAt \in Nat /\ book.edition \in Nat
        /\ book.version[p] \in Nat
    BY DEF RowTypeOK, Books
  <2>2. row \in Rows
    BY <2>1 DEF Rows
  <2>3. rev' = [rev EXCEPT ![r] = row] /\ rev[r].status = "none"
    BY <1>1 DEF CreateQuote, RowTypeOK
  <2>4. RowStep(rev[r], row) /\ row.dispatches = rev[r].dispatches
    BY <2>1, <2>3 DEF RowStep, Rows
  <2> HIDE DEF row
  <2> QED
    BY <2>2, <2>3, <2>4, OneRow
<1>2. ASSUME NEW r \in Revisions, Confirm(r) PROVE RowsRest
  <2>1. PICK stamp \in Stamps : rev' = [rev EXCEPT ![r].status = "queued", ![r].updatedAt = stamp]
    BY <1>2 DEF Confirm
  <2> DEFINE row == [rev[r] EXCEPT !.status = "queued", !.updatedAt = stamp]
  <2>2. stamp \in Nat /\ rev[r] \in Rows
    BY StampType DEF RowTypeOK
  <2>3. row \in Rows
    BY <2>2 DEF Rows, Live
  <2>4. rev' = [rev EXCEPT ![r] = row] /\ rev[r].status = "quoted"
    BY <1>2, <2>1 DEF Confirm, RowTypeOK
  <2>5. RowStep(rev[r], row) /\ row.dispatches = rev[r].dispatches
    BY <2>2, <2>4 DEF RowStep, Rows
  <2> HIDE DEF row
  <2> QED
    BY <2>3, <2>4, <2>5, OneRow
<1>3. CASE EditDetails \/ RemoveBook \/ StartGeneration \/ EndGeneration
  BY <1>3, UnchangedRows DEF EditDetails, RemoveBook, StartGeneration, EndGeneration
<1>4. CASE RequestHardDeletion
  <2> SUFFICES ASSUME NEW r \in Revisions PROVE RowStep(rev[r], rev'[r]) /\ Undispatched(r)
    BY DEF RowsRest
  <2>1. rev[r] \in Rows /\ rev[r].fence \in Nat
    BY DEF RowTypeOK, Rows
  <2>2. CASE rev'[r] = rev[r]
    BY <2>1, <2>2, SameRow DEF Undispatched
  <2>3. CASE /\ rev[r].status \in Live
             /\ rev'[r] = [rev[r] EXCEPT !.status = "failed", !.fence = rev[r].fence + 1]
    BY <2>1, <2>3 DEF Undispatched, RowStep, Rows, Live
  <2> QED
    BY <1>4, <2>2, <2>3 DEF RequestHardDeletion
<1>5. ASSUME NEW e \in Editors,
             (\E p \in Pages : ReadPage(e, p)) \/ PublishEdit(e) \/ EditFails(e)
      PROVE  RowsRest
  BY <1>5, UnchangedRows DEF ReadPage, PublishEdit, EditFails, rowVars
<1> QED
  BY <1>1, <1>2, <1>3, <1>4, <1>5 DEF OwnerNext

LEMMA OtherRows ==
    ASSUME TypeOK, RowsGood, QueueNext \/ ClockNext \/ SweeperNext
    PROVE  RowsRest
<1>1. RowTypeOK /\ OtherTypeOK
  BY TypeParts
<1>2. CASE QueueNext
  BY <1>1, <1>2, UnchangedRows DEF QueueNext, Dispatch, DispatchUnmarked, Stall, rowVars
<1>3. CASE ClockNext
  <2>1. PICK r \in Revisions :
           QuoteExpires(r) \/ QueueWaitExpires(r) \/ LeaseExpires(r) \/ DeadlinePasses(r)
    BY <1>3 DEF ClockNext
  <2>2. rev[r] \in Rows
    BY <1>1 DEF RowTypeOK
  <2>3. \/ rev' = [rev EXCEPT ![r] = [rev[r] EXCEPT !.quoteExpired = TRUE]]
        \/ rev' = [rev EXCEPT ![r] = [rev[r] EXCEPT !.queueExpired = TRUE]]
        \/ rev' = [rev EXCEPT ![r] = [rev[r] EXCEPT !.leaseLive = FALSE]]
        \/ rev' = [rev EXCEPT ![r] = [rev[r] EXCEPT !.deadlinePassed = TRUE]]
    BY <1>1, <2>1
    DEF QuoteExpires, QueueWaitExpires, LeaseExpires, DeadlinePasses, Turns, RowTypeOK
  <2>4. ASSUME NEW row \in {[rev[r] EXCEPT !.quoteExpired = TRUE],
                            [rev[r] EXCEPT !.queueExpired = TRUE],
                            [rev[r] EXCEPT !.leaseLive = FALSE],
                            [rev[r] EXCEPT !.deadlinePassed = TRUE]}
        PROVE  row \in Rows /\ RowStep(rev[r], row) /\ row.dispatches = rev[r].dispatches
    <3>1. CASE row = [rev[r] EXCEPT !.quoteExpired = TRUE]
      <4>1. row \in Rows
        BY <2>2, <3>1 DEF Rows
      <4> QED
        BY <2>2, <3>1, <4>1 DEF Rows, RowStep
    <3>2. CASE row = [rev[r] EXCEPT !.queueExpired = TRUE]
      <4>1. row \in Rows
        BY <2>2, <3>2 DEF Rows
      <4> QED
        BY <2>2, <3>2, <4>1 DEF Rows, RowStep
    <3>3. CASE row = [rev[r] EXCEPT !.leaseLive = FALSE]
      <4>1. row \in Rows
        BY <2>2, <3>3 DEF Rows
      <4> QED
        BY <2>2, <3>3, <4>1 DEF Rows, RowStep
    <3>4. CASE row = [rev[r] EXCEPT !.deadlinePassed = TRUE]
      <4>1. row \in Rows
        BY <2>2, <3>4 DEF Rows
      <4> QED
        BY <2>2, <3>4, <4>1 DEF Rows, RowStep
    <3> QED
      BY <2>4, <3>1, <3>2, <3>3, <3>4
  <2> QED
    BY <1>1, <2>3, <2>4, OneRow
<1>4. CASE SweeperNext
  <2>1. PICK s \in Sweepers :
           \/ \E r \in Revisions : SelectRevision(s, r)
           \/ Decide(s) \/ RecoverRevision(s) \/ SweepStops(s)
    BY <1>4 DEF SweeperNext
  <2>2. CASE RecoverRevision(s)
    <3>1. sweeper[s].rev \in Revisions
      BY <1>1, <2>2 DEF RecoverRevision, OtherTypeOK
    <3>2. CASE FailAndRefund(sweeper[s].rev, sweeper[s].fence)
      BY <1>1, <3>1, <3>2, FailAndRefundRow DEF RowsRest, Undispatched
    <3>3. CASE UNCHANGED rowVars
      BY <1>1, <3>3, UnchangedRows DEF rowVars
    <3> QED
      BY <2>2, <3>2, <3>3 DEF RecoverRevision
  <2>3. CASE ~RecoverRevision(s)
    BY <1>1, <2>1, <2>3, UnchangedRows DEF SelectRevision, Decide, SweepStops, rowVars
  <2> QED
    BY <2>2, <2>3
<1> QED
  BY <1>2, <1>3, <1>4

LEMMA WorkerRows ==
    ASSUME TypeOK, RowsGood, NEW w \in Workers,
           \/ \E r \in Revisions : PickUp(w, r)
           \/ Claim(w) \/ Load(w) \/ Adopt(w)
           \/ ReserveOperation(w)
           \/ Send(w) \/ Answer(w) \/ FinishOperation(w)
           \/ SaveImage(w) \/ Checkpoint(w) \/ ConfirmStored(w)
           \/ PublishRevision(w) \/ PublicationFails(w)
           \/ Fail(w) \/ Resolve(w) \/ WorkerCrash(w)
    PROVE  RowsRest
<1> DEFINE d == worker[w]
           r == worker[w].rev
<1>1. RowTypeOK /\ WorkerTypeOK
  BY TypeParts
<1>2. d \in Deliveries /\ (d.step # "idle" => r \in Revisions /\ rev[r] \in Rows)
  BY <1>1 DEF WorkerTypeOK, RowTypeOK
<1>3. ASSUME NEW row \in Rows, Fenced(w, row), d.step # "idle",
             row.status = rev[r].status, row.fence = rev[r].fence, row.page = rev[r].page,
             row.deadlinePassed = rev[r].deadlinePassed,
             row.dispatches = rev[r].dispatches
      PROVE  RowsRest
  <2>1. row.dispatches >= rev[r].dispatches
    BY <1>2, <1>3 DEF Rows
  <2> QED
    BY <1>1, <1>2, <1>3, <2>1, FencedRow DEF RowsRest, Undispatched
<1>4. CASE rev' = rev
  BY <1>1, <1>4, UnchangedRows
<1>5. CASE Claim(w)
  <2>1. d.step # "idle"
    BY <1>5 DEF Claim, At
  <2>2. CASE Claimable(rev[r], d.token)
    <3> DEFINE row == [rev[r] EXCEPT !.status = "running", !.token = d.token,
                                     !.fence = rev[r].fence + 1, !.leaseLive = TRUE]
    <3>1. rev[r].fence \in Nat /\ rev[r].fence + 1 \in Nat
      BY <1>2, <2>1 DEF Rows
    <3>2. d.token \in Nat
      BY <1>2, DeliveryFields
    <3>3. row \in Rows
      BY <1>2, <2>1, <3>1, <3>2, RowFields
    <3>4. rev' = [rev EXCEPT ![r] = row]
      <4>1. rev' = [rev EXCEPT ![r].status = "running", ![r].token = d.token,
                               ![r].fence = rev[r].fence + 1, ![r].leaseLive = TRUE]
        BY <1>1, <1>2, <1>5, <2>1, <2>2 DEF Claim, RowTypeOK
      <4> QED
        BY <1>1, <1>2, <2>1, <4>1 DEF RowTypeOK
    <3>5. row.dispatches = rev[r].dispatches
      BY <1>2, <2>1 DEF Rows
    <3>6. RowStep(rev[r], row)
      BY <1>2, <2>1, <2>2, <3>1 DEF Rows, RowStep, Claimable
    <3> HIDE DEF row
    <3> QED
      BY <1>1, <1>2, <2>1, <3>3, <3>4, <3>5, <3>6, OneRow
  <2> QED
    BY <1>4, <1>5, <2>2 DEF Claim
<1>6. CASE ReserveOperation(w)
  <2> DEFINE row == [rev[r] EXCEPT !.key = d.key, !.op = "reserved_unsent"]
  <2>1. d.step # "idle" /\ rev[r] \in Rows /\ d.key \in Nat
    BY <1>2, <1>6, DeliveryFields DEF ReserveOperation, At
  <2>2. row \in Rows
    BY <2>1, RowFields DEF OpStates
  <2>3. /\ row.status = rev[r].status /\ row.fence = rev[r].fence /\ row.page = rev[r].page
        /\ row.deadlinePassed = rev[r].deadlinePassed /\ row.dispatches = rev[r].dispatches
    BY <2>1 DEF Rows
  <2>4. Fenced(w, row) \/ rev' = rev
    BY <1>6 DEF ReserveOperation, Refused, rowVars
  <2> HIDE DEF row
  <2> QED
    BY <1>3, <1>4, <2>1, <2>2, <2>3, <2>4
<1>7. CASE FinishOperation(w)
  <2> DEFINE row == [rev[r] EXCEPT !.op = d.outcome]
  <2>1. d.step # "idle" /\ rev[r] \in Rows /\ d.outcome \in OpStates
    BY <1>2, <1>7, DeliveryFields DEF FinishOperation, At
  <2>2. row \in Rows
    BY <2>1, RowFields
  <2>3. /\ row.status = rev[r].status /\ row.fence = rev[r].fence /\ row.page = rev[r].page
        /\ row.deadlinePassed = rev[r].deadlinePassed /\ row.dispatches = rev[r].dispatches
    BY <2>1 DEF Rows
  <2>4. Fenced(w, row) \/ rev' = rev
    BY <1>7 DEF FinishOperation, Refused, rowVars
  <2> HIDE DEF row
  <2> QED
    BY <1>3, <1>4, <2>1, <2>2, <2>3, <2>4
<1>8. CASE Checkpoint(w)
  <2> DEFINE row == [rev[r] EXCEPT !.checkpointed = TRUE, !.key = d.key, !.manifest = d.by]
  <2>1. d.step # "idle" /\ rev[r] \in Rows /\ d.key \in Nat /\ d.by \in Nat
    BY <1>2, <1>8, DeliveryFields DEF Checkpoint, At
  <2>2. row \in Rows
    BY <2>1, RowFields
  <2>3. /\ row.status = rev[r].status /\ row.fence = rev[r].fence /\ row.page = rev[r].page
        /\ row.deadlinePassed = rev[r].deadlinePassed /\ row.dispatches = rev[r].dispatches
    BY <2>1 DEF Rows
  <2>4. Fenced(w, row) \/ rev' = rev
    BY <1>8 DEF Checkpoint, Refused, rowVars
  <2> HIDE DEF row
  <2> QED
    BY <1>3, <1>4, <2>1, <2>2, <2>3, <2>4
<1>9. CASE ConfirmStored(w)
  <2> DEFINE row == [rev[r] EXCEPT !.op = "artifact_stored", !.checkpointed = TRUE]
  <2>1. d.step # "idle" /\ rev[r] \in Rows
    BY <1>2, <1>9 DEF ConfirmStored, At
  <2>2. row \in Rows
    BY <2>1, RowFields DEF OpStates
  <2>3. /\ row.status = rev[r].status /\ row.fence = rev[r].fence /\ row.page = rev[r].page
        /\ row.deadlinePassed = rev[r].deadlinePassed /\ row.dispatches = rev[r].dispatches
    BY <2>1 DEF Rows
  <2>4. Fenced(w, row) \/ rev' = rev
    BY <1>9 DEF ConfirmStored, Refused, rowVars
  <2> HIDE DEF row
  <2> QED
    BY <1>3, <1>4, <2>1, <2>2, <2>3, <2>4
<1>10. CASE PublishRevision(w)
  <2> DEFINE row == [rev[r] EXCEPT !.status = "completed"]
  <2>1. d.step # "idle" /\ rev[r] \in Rows
    BY <1>2, <1>10 DEF PublishRevision, At
  <2>2. row \in Rows
    BY <2>1, RowFields
  <2>3. rev' = [rev EXCEPT ![r] = row] /\ rev[r].status = "running"
    BY <1>1, <1>10, <2>1 DEF PublishRevision, RowTypeOK, Owns
  <2>4. RowStep(rev[r], row) /\ row.dispatches = rev[r].dispatches
    BY <2>1, <2>3 DEF Rows, RowStep
  <2> HIDE DEF row
  <2> QED
    BY <1>1, <1>2, <2>1, <2>2, <2>3, <2>4, OneRow
<1>11. CASE Fail(w)
  <2>1. r \in Revisions
    BY <1>2, <1>11 DEF Fail, At
  <2>2. CASE FailAndRefund(r, d.fence)
    BY <1>1, <2>1, <2>2, FailAndRefundRow DEF RowsRest, Undispatched
  <2> QED
    BY <1>4, <1>11, <2>2 DEF Fail, rowVars
<1>12. CASE \/ \E q \in Revisions : PickUp(w, q)
            \/ Load(w) \/ Adopt(w) \/ Send(w) \/ Answer(w) \/ SaveImage(w)
            \/ PublicationFails(w) \/ Resolve(w) \/ WorkerCrash(w)
  BY <1>4, <1>12
  DEF PickUp, Load, Adopt, Send, Answer, SaveImage, PublicationFails, Refused, Resolve,
      WorkerCrash, rowVars
<1> QED
  BY <1>5, <1>6, <1>7, <1>8, <1>9, <1>10, <1>11, <1>12

\* Only a recorded attempt counts as one more dispatch, and only on its own row.
LEMMA AttemptRows ==
    ASSUME TypeOK, RowsGood, NEW w \in Workers, ReserveHttpAttempt(w)
    PROVE  \/ RowsRest /\ Refused(w)
           \/ /\ \A q \in Revisions : RowStep(rev[q], rev'[q])
              /\ \A q \in Revisions : q # worker[w].rev => Undispatched(q)
              /\ Owns(w) /\ Goto(w, "permit")
              /\ rev'[worker[w].rev].dispatches = rev[worker[w].rev].dispatches + 1
<1> DEFINE d == worker[w]
           r == worker[w].rev
           row == [rev[r] EXCEPT !.key = d.key, !.op = "dispatch_intent",
                                 !.dispatches = rev[r].dispatches + 1]
<1>1. RowTypeOK /\ WorkerTypeOK
  BY TypeParts
<1>2. d \in Deliveries /\ d.step # "idle" /\ r \in Revisions /\ rev[r] \in Rows
  BY <1>1 DEF WorkerTypeOK, RowTypeOK, ReserveHttpAttempt, At
<1>3. rev[r].dispatches \in Nat /\ rev[r].dispatches + 1 \in Nat /\ d.key \in Nat
  <2>1. rev[r].dispatches \in Nat
    BY <1>2 DEF Rows
  <2>2. d.key \in Nat
    BY <1>2, DeliveryFields
  <2> QED
    BY <2>1, <2>2
<1>4. row \in Rows
  BY <1>2, <1>3, RowFields DEF OpStates
<1>5. /\ row.status = rev[r].status /\ row.fence = rev[r].fence /\ row.page = rev[r].page
      /\ row.deadlinePassed = rev[r].deadlinePassed
      /\ row.dispatches = rev[r].dispatches + 1
  BY <1>2 DEF Rows
<1>6. (Fenced(w, row) /\ Goto(w, "permit")) \/ (rev' = rev /\ Refused(w))
  <2>1. (Fenced(w, row) /\ Goto(w, "permit")) \/ Refused(w)
    BY DEF ReserveHttpAttempt
  <2>2. Refused(w) => rev' = rev
    BY DEF Refused, rowVars
  <2> QED
    BY <2>1, <2>2
<1>7. row.dispatches >= rev[r].dispatches
  BY <1>3, <1>5
<1> HIDE DEF row
<1>8. CASE rev' = rev /\ Refused(w)
  BY <1>1, <1>8, UnchangedRows
<1>9. CASE Fenced(w, row) /\ Goto(w, "permit")
  BY <1>1, <1>2, <1>4, <1>5, <1>7, <1>9, FencedRow DEF Undispatched
<1> QED
  BY <1>6, <1>8, <1>9

-----------------------------------------------------------------------------
(* What else every step keeps *)

EditionMoves ==
    \/ book'.edition > book.edition
    \/ book'.edition = book.edition /\ book'.version = book.version

TokensGrow == \A r \in Revisions : job'[r].token >= job[r].token

LimitsStay ==
    /\ left'.limiterRetries = left.limiterRetries
    /\ left'.transportRetries = left.transportRetries

LEMMA SpendStays ==
    ASSUME QueueTypeOK, NEW kind \in {"writes", "locks", "faults"}, Spend(kind)
    PROVE  LimitsStay
BY DEF Spend, QueueTypeOK, Scenario, LimitsStay

LEMMA FailAndRefundBook ==
    ASSUME RowTypeOK, NEW r \in Revisions, NEW f, FailAndRefund(r, f)
    PROVE  /\ book'.edition = book.edition /\ book'.version = book.version
           /\ book'.image = book.image
           /\ book'.activeRun = book.activeRun
BY DEF FailAndRefund, RowTypeOK, Books, rowVars

LEMMA EditionStep ==
    ASSUME TypeOK, [Next]_vars
    PROVE  EditionMoves
<1>1. RowTypeOK /\ WorkerTypeOK /\ OtherTypeOK /\ book \in Books /\ book.edition \in Nat
  BY TypeParts DEF RowTypeOK, Books
<1>2. ASSUME book' = book PROVE EditionMoves
  BY <1>2 DEF EditionMoves
<1>3. ASSUME NEW stamp, NEW p, NEW v, NEW i, Publish(stamp, p, v, i) PROVE EditionMoves
  <2>1. book'.edition = book.edition + 1
    BY <1>1, <1>3 DEF Publish, Books
  <2> QED
    BY <1>1, <2>1 DEF EditionMoves
<1>4. CASE OwnerNext
  <2>1. CASE \E r \in Revisions : (\E p \in Pages : CreateQuote(r, p)) \/ Confirm(r)
    BY <1>1, <2>1 DEF CreateQuote, Confirm, Books, EditionMoves
  <2>2. CASE EditDetails \/ RemoveBook \/ StartGeneration \/ RequestHardDeletion
    BY <1>1, <2>2 DEF EditDetails, RemoveBook, StartGeneration, RequestHardDeletion, Books, EditionMoves
  <2>3. CASE EndGeneration
    <3>1. book'.edition = book.edition + 1
          \/ (book'.edition = book.edition /\ book'.version = book.version)
      BY <1>1, <2>3 DEF EndGeneration, Books
    <3> QED
      BY <1>1, <3>1 DEF EditionMoves
  <2>4. ASSUME NEW e \in Editors, PublishEdit(e) PROVE EditionMoves
    BY <1>3, <2>4 DEF PublishEdit
  <2>5. ASSUME NEW e \in Editors, (\E p \in Pages : ReadPage(e, p)) \/ EditFails(e)
        PROVE  EditionMoves
    BY <1>2, <2>5 DEF ReadPage, EditFails, rowVars
  <2> QED
    BY <1>4, <2>1, <2>2, <2>3, <2>4, <2>5 DEF OwnerNext
<1>5. CASE QueueNext \/ ClockNext
  BY <1>2, <1>5
  DEF QueueNext, Dispatch, DispatchUnmarked, Stall, rowVars, ClockNext, QuoteExpires,
      QueueWaitExpires, LeaseExpires, DeadlinePasses, Turns
<1>6. CASE SweeperNext
  <2>1. ASSUME NEW s \in Sweepers, RecoverRevision(s) PROVE EditionMoves
    <3>1. sweeper[s].rev \in Revisions
      BY <1>1, <2>1 DEF RecoverRevision, OtherTypeOK
    <3> QED
      BY <1>1, <1>2, <2>1, <3>1, FailAndRefundBook DEF RecoverRevision, rowVars, EditionMoves
  <2> QED
    BY <1>2, <1>6, <2>1 DEF SweeperNext, SelectRevision, Decide, SweepStops, rowVars
<1>7. CASE WorkerNext
  <2>1. PICK w \in Workers :
           \/ \E r \in Revisions : PickUp(w, r)
           \/ Claim(w) \/ Load(w) \/ Adopt(w)
           \/ ReserveOperation(w) \/ ReserveHttpAttempt(w)
           \/ Send(w) \/ Answer(w) \/ FinishOperation(w)
           \/ SaveImage(w) \/ Checkpoint(w) \/ ConfirmStored(w)
           \/ PublishRevision(w) \/ PublicationFails(w)
           \/ Fail(w) \/ Resolve(w) \/ WorkerCrash(w)
    BY <1>7 DEF WorkerNext
  <2>2. CASE Fail(w)
    <3>1. worker[w].rev \in Revisions
      BY <1>1, <2>2 DEF Fail, At, WorkerTypeOK
    <3> QED
      BY <1>1, <1>2, <2>2, <3>1, FailAndRefundBook DEF Fail, rowVars, EditionMoves
  <2>3. CASE PublishRevision(w)
    BY <1>3, <2>3 DEF PublishRevision
  <2>4. CASE ~(Fail(w) \/ PublishRevision(w))
    BY <1>2, <2>1, <2>4
    DEF PickUp, Claim, Load, Adopt, ReserveOperation, ReserveHttpAttempt, Send, Answer,
        FinishOperation, SaveImage, Checkpoint, ConfirmStored, PublicationFails, Resolve,
        WorkerCrash, Fenced, Refused, rowVars
  <2> QED
    BY <2>2, <2>3, <2>4
<1>8. CASE UNCHANGED vars
  BY <1>2, <1>8 DEF vars, rowVars
<1> QED
  BY <1>4, <1>5, <1>6, <1>7, <1>8 DEF Next

LEMMA LimitsStep ==
    ASSUME TypeOK, [Next]_vars
    PROVE  LimitsStay
<1>1. QueueTypeOK
  BY TypeParts
<1>2. ASSUME left' = left PROVE LimitsStay
  BY <1>2 DEF LimitsStay
<1>3. CASE OwnerNext
  BY <1>1, <1>2, <1>3, SpendStays
  DEF OwnerNext, CreateQuote, Confirm, EditDetails, RemoveBook, StartGeneration,
      EndGeneration, RequestHardDeletion, OtherWrite, ReadPage, PublishEdit, EditFails
<1>4. CASE QueueNext \/ ClockNext \/ SweeperNext
  BY <1>1, <1>2, <1>4, SpendStays
  DEF QueueNext, Dispatch, DispatchUnmarked, Stall,
      ClockNext, QuoteExpires, QueueWaitExpires, LeaseExpires, DeadlinePasses, Turns,
      SweeperNext, SelectRevision, Decide, RecoverRevision, SweepStops
<1>5. CASE WorkerNext
  BY <1>1, <1>2, <1>5, SpendStays, ZenonT(60)
  DEF WorkerNext, PickUp, Claim, Load, Adopt, ReserveOperation, ReserveHttpAttempt, Send,
      Answer, FinishOperation, SaveImage, Checkpoint, ConfirmStored, PublishRevision,
      PublicationFails, Fail, Resolve, WorkerCrash, Fenced, Refused
<1>6. CASE UNCHANGED vars
  BY <1>2, <1>6 DEF vars
<1> QED
  BY <1>3, <1>4, <1>5, <1>6 DEF Next

LEMMA TokenStep ==
    ASSUME TypeOK, [Next]_vars
    PROVE  TokensGrow
<1>1. QueueTypeOK /\ WorkerTypeOK /\ OtherTypeOK
  BY TypeParts
<1>2. \A r \in Revisions : job[r] \in Jobs /\ job[r].token \in Nat
  BY <1>1 DEF QueueTypeOK, Jobs
<1>3. ASSUME job' = job PROVE TokensGrow
  BY <1>2, <1>3 DEF TokensGrow
<1>4. ASSUME NEW r \in Revisions, NEW j, job' = [job EXCEPT ![r] = j],
             j.token = job[r].token \/ j.token = job[r].token + 1
      PROVE  TokensGrow
  BY <1>1, <1>2, <1>4 DEF TokensGrow, QueueTypeOK
<1>5. ASSUME NEW r \in Revisions
      PROVE  /\ Enqueued(job[r]).token = job[r].token
             /\ StalledJob(job[r]).token = job[r].token
             /\ [job[r] EXCEPT !.state = "ended"].token = job[r].token
  BY <1>2 DEF Enqueued, StalledJob, Jobs
<1>6. CASE OwnerNext \/ ClockNext
  BY <1>3, <1>6
  DEF OwnerNext, CreateQuote, Confirm, EditDetails, RemoveBook, StartGeneration,
      EndGeneration, RequestHardDeletion, OtherWrite, ReadPage, PublishEdit, EditFails,
      ClockNext, QuoteExpires, QueueWaitExpires, LeaseExpires, DeadlinePasses, Turns
<1>7. CASE QueueNext
  BY <1>4, <1>5, <1>7 DEF QueueNext, Dispatch, DispatchUnmarked, Stall
<1>8. CASE SweeperNext
  <2>1. ASSUME NEW s \in Sweepers, RecoverRevision(s) PROVE TokensGrow
    <3>1. sweeper[s].rev \in Revisions
      BY <1>1, <2>1 DEF RecoverRevision, OtherTypeOK
    <3> QED
      BY <1>3, <1>4, <1>5, <2>1, <3>1 DEF RecoverRevision
  <2> QED
    BY <1>3, <1>8, <2>1 DEF SweeperNext, SelectRevision, Decide, SweepStops
<1>9. CASE WorkerNext
  <2>1. PICK w \in Workers :
           \/ \E r \in Revisions : PickUp(w, r)
           \/ Claim(w) \/ Load(w) \/ Adopt(w)
           \/ ReserveOperation(w) \/ ReserveHttpAttempt(w)
           \/ Send(w) \/ Answer(w) \/ FinishOperation(w)
           \/ SaveImage(w) \/ Checkpoint(w) \/ ConfirmStored(w)
           \/ PublishRevision(w) \/ PublicationFails(w)
           \/ Fail(w) \/ Resolve(w) \/ WorkerCrash(w)
    BY <1>9 DEF WorkerNext
  <2>2. ASSUME NEW r \in Revisions, PickUp(w, r) PROVE TokensGrow
    <3>1. job' = [job EXCEPT ![r] = [job[r] EXCEPT !.state = "active", !.token = job[r].token + 1]]
      BY <1>1, <2>2 DEF PickUp, QueueTypeOK, Jobs
    <3>2. [job[r] EXCEPT !.state = "active", !.token = job[r].token + 1].token = job[r].token + 1
      BY <1>2 DEF Jobs
    <3> QED
      BY <1>4, <3>1, <3>2
  <2>3. CASE Resolve(w)
    <3>1. worker[w].rev \in Revisions
      BY <1>1, <2>3 DEF Resolve, At, WorkerTypeOK
    <3>2. job' = job \/ job' = [job EXCEPT ![worker[w].rev] = [job[worker[w].rev] EXCEPT !.state = "ended"]]
      BY <1>1, <2>3, <3>1 DEF Resolve, QueueTypeOK
    <3> QED
      BY <1>3, <1>4, <1>5, <3>1, <3>2
  <2>4. CASE ~(Resolve(w) \/ \E r \in Revisions : PickUp(w, r))
    BY <1>3, <2>1, <2>4
    DEF Claim, Load, Adopt, ReserveOperation, ReserveHttpAttempt, Send, Answer,
        FinishOperation, SaveImage, Checkpoint, ConfirmStored, PublishRevision,
        PublicationFails, Fail, WorkerCrash, Fenced, Refused
  <2> QED
    BY <2>2, <2>3, <2>4
<1>10. CASE UNCHANGED vars
  BY <1>3, <1>10 DEF vars
<1> QED
  BY <1>6, <1>7, <1>8, <1>9, <1>10 DEF Next

-----------------------------------------------------------------------------
(* Deliveries *)

HasRow == {"adopt", "reserve", "gate", "permit", "flight", "finish", "save",
           "checkpoint", "confirm", "publish"}

\* Allowed to start the one call, busy with it, and holding its image.
Fresh(w) == At(w, "reserve") \/ (At(w, "gate") /\ worker[w].retries = 0)
Sending(w) ==
    \/ worker[w].step \in {"permit", "flight", "finish", "save"}
    \/ At(w, "gate") /\ worker[w].retries > 0
Holding(w) == worker[w].step \in {"checkpoint", "confirm", "publish"}

Requests(s, r) == {x \in s : x.rev = r}

\* The requests a delivery has made, at most.
Made(d) == (1 + left.limiterRetries) * d.retries + d.limited
             + (IF d.step \in {"gate", "permit"} THEN 0 ELSE 1)

\* A delivery's claim: of its fence and its job's token.
ClaimGood(w) ==
    LET d == worker[w] IN
    /\ d.fence <= rev[d.rev].fence
    /\ d.token <= job[d.rev].token
    /\ d.step = "claim" => d.fence = 0
    /\ d.step \notin {"claim", "resolve"} => d.fence > 0
    /\ d.step \in {"claim", "load", "adopt", "reserve"} => d.retries = 0
    /\ d.limited <= left.limiterRetries
    /\ d.retries <= left.transportRetries

\* What it read: the page it is for, and the edition and version it starts from.
BaseGood(w) ==
    LET d == worker[w] IN
    d.step \in HasRow =>
        /\ d.row.page = rev[d.rev].page
        /\ d.base = d.row.edition
        /\ d.row.edition <= book.edition
        /\ d.row.edition = book.edition => book.version[d.row.page] = d.row.version

ReadGood(w) ==
    At(w, "adopt") /\ Owns(w) => worker[w].row.dispatches = rev[worker[w].rev].dispatches

\* Whoever may start the call is the first, whoever makes it is the only one.
FreshGood(w) == Fresh(w) /\ Owns(w) => rev[worker[w].rev].dispatches = 0

CallGood(w) ==
    LET d == worker[w] IN
    Sending(w) =>
        /\ rev[d.rev].dispatches > 0
        /\ \A i \in images : i.rev # d.rev
        /\ \A x \in Requests(sent, d.rev) : x.fence = d.fence
        /\ Cardinality(Requests(sent, d.rev)) <= Made(d)

ImageGood(w) ==
    Holding(w) =>
        [rev |-> worker[w].rev, at |-> worker[w].key, by |-> worker[w].by] \in images

Good(w) == /\ ClaimGood(w) /\ BaseGood(w) /\ ReadGood(w)
           /\ FreshGood(w) /\ CallGood(w) /\ ImageGood(w)

\* No claim is two deliveries', and no revision has two that call.
Alone(w, v) ==
    w # v /\ worker[w].rev = worker[v].rev =>
        /\ worker[w].fence > 0 => worker[w].fence # worker[v].fence
        /\ ~(Sending(w) /\ Sending(v))

Busy == {w \in Workers : worker[w].step # "idle"}

DeliveriesGood ==
    /\ \A w \in Busy : Good(w)
    /\ \A w, v \in Busy : Alone(w, v)

\* A step of another process as a delivery sees it.
Surroundings ==
    /\ \A r \in Revisions : RowStep(rev[r], rev'[r])
    /\ EditionMoves /\ TokensGrow /\ LimitsStay

Undisturbed(v) ==
    /\ worker'[v] = worker[v]
    /\ Owns(v) => Undispatched(worker[v].rev)
    /\ Sending(v) \/ Holding(v) =>
          \A i \in Keys : i.rev = worker[v].rev => (i \in images' <=> i \in images)
    /\ Sending(v) => Requests(sent', worker[v].rev) = Requests(sent, worker[v].rev)

\* Facts about numbers the next lemmas need.
LEMMA DeliveryNumbers ==
    ASSUME TypeOK, NEW v \in Busy
    PROVE  /\ worker[v] \in Deliveries /\ worker[v].rev \in Revisions /\ v \in Workers
           /\ {worker[v].fence, worker[v].token, worker[v].key, worker[v].by,
               worker[v].retries, worker[v].limited, worker[v].base} \subseteq Nat
           /\ worker[v].row \in Rows /\ rev[worker[v].rev] \in Rows
           /\ rev[worker[v].rev].fence \in Nat /\ rev[worker[v].rev].dispatches \in Nat
           /\ job[worker[v].rev].token \in Nat
           /\ worker[v].row.edition \in Nat /\ worker[v].row.page \in Pages
           /\ worker[v].row.version \in Nat
<1>1. v \in Workers /\ worker[v] \in Deliveries /\ worker[v].rev \in Revisions
  BY TypeParts DEF Busy, WorkerTypeOK
<1>2. rev[worker[v].rev] \in Rows /\ job[worker[v].rev] \in Jobs
  BY <1>1, TypeParts DEF RowTypeOK, QueueTypeOK
<1>3. worker[v].row \in Rows
      /\ {worker[v].fence, worker[v].token, worker[v].key, worker[v].by,
          worker[v].retries, worker[v].limited, worker[v].base} \subseteq Nat
  BY <1>1, DeliveryFields
<1> QED
  BY <1>1, <1>2, <1>3 DEF Rows, Jobs

LEMMA ClaimKept ==
    ASSUME TypeOK, TypeOK', Surroundings, NEW v \in Busy, v \in Busy', ClaimGood(v),
           worker'[v].rev = worker[v].rev, worker'[v].token = worker[v].token,
           worker'[v].fence = worker[v].fence, worker'[v].step # "claim" \/ At(v, "claim"),
           worker'[v].step = "resolve" \/ ~At(v, "resolve"),
           At(v, "claim") => worker'[v].step \in {"claim", "resolve"},
           worker'[v].retries <= left.transportRetries,
           worker'[v].limited <= left.limiterRetries,
           worker'[v].step \in {"claim", "load", "adopt", "reserve"} => worker'[v].retries = 0
    PROVE  ClaimGood(v)'
<1> DEFINE r == worker[v].rev
<1>1. /\ worker[v].fence \in Nat /\ rev[r].fence \in Nat /\ r \in Revisions
      /\ worker[v].token \in Nat /\ job[r].token \in Nat
  BY DeliveryNumbers
<1>2. rev'[r].fence \in Nat /\ job'[r].token \in Nat
  BY <1>1 DEF TypeOK, Rows, Jobs
<1>3. rev'[r].fence >= rev[r].fence /\ job'[r].token >= job[r].token
  BY <1>1 DEF Surroundings, RowStep, TokensGrow
<1>4. worker[v].fence <= rev'[r].fence /\ worker[v].token <= job'[r].token
  BY <1>1, <1>2, <1>3 DEF ClaimGood
<1> QED
  BY <1>4 DEF ClaimGood, At, Surroundings, LimitsStay

\* A row that was claimed keeps its page.
LEMMA PageKept ==
    ASSUME TypeOK, RowsGood, Surroundings, NEW v \in Busy, ClaimGood(v),
           ~At(v, "claim"), ~At(v, "resolve")
    PROVE  rev'[worker[v].rev].page = rev[worker[v].rev].page
<1> DEFINE r == worker[v].rev
<1>1. worker[v].fence \in Nat /\ rev[r].fence \in Nat /\ r \in Revisions
  BY DeliveryNumbers
<1>2. rev[r].fence > 0
  BY <1>1 DEF ClaimGood, At
<1>3. rev[r].status \notin {"none", "quoted"}
  BY <1>1, <1>2 DEF RowsGood, RowGood
<1> QED
  BY <1>1, <1>3 DEF Surroundings, RowStep

LEMMA BaseKept ==
    ASSUME TypeOK, TypeOK', RowsGood, Surroundings, NEW v \in Busy, ClaimGood(v), BaseGood(v),
           worker'[v].rev = worker[v].rev, worker'[v].row = worker[v].row,
           worker'[v].base = worker[v].base,
           worker'[v].step \in HasRow => worker[v].step \in HasRow
    PROVE  BaseGood(v)'
<1> DEFINE d == worker[v]
<1>1. SUFFICES ASSUME worker[v].step \in HasRow
               PROVE  /\ d.row.page = rev'[d.rev].page
                      /\ d.base = d.row.edition
                      /\ d.row.edition <= book'.edition
                      /\ d.row.edition = book'.edition => book'.version[d.row.page] = d.row.version
  BY DEF BaseGood
<1>2. d.row.edition \in Nat /\ book.edition \in Nat /\ book'.edition \in Nat
  BY DeliveryNumbers DEF TypeOK, Books
<1>3. rev'[d.rev].page = rev[d.rev].page
  BY <1>1, PageKept DEF At, HasRow
<1> QED
  BY <1>1, <1>2, <1>3 DEF BaseGood, Surroundings, EditionMoves

\* Ownership is not got back.
LEMMA OwnsBack ==
    ASSUME TypeOK, TypeOK', Surroundings, NEW v \in Busy, ClaimGood(v),
           worker'[v].rev = worker[v].rev, worker'[v].fence = worker[v].fence,
           Owns(v)'
    PROVE  Owns(v)
<1> DEFINE r == worker[v].rev
<1>1. worker[v].fence \in Nat /\ rev[r].fence \in Nat /\ r \in Revisions
  BY DeliveryNumbers
<1>2. rev'[r].fence = worker[v].fence /\ rev'[r].status = "running"
  BY DEF Owns
<1>3. rev'[r].fence >= rev[r].fence /\ worker[v].fence <= rev[r].fence
  BY <1>1 DEF Surroundings, RowStep, ClaimGood
<1>4. rev'[r].fence = rev[r].fence
  BY <1>1, <1>2, <1>3
<1> QED
  BY <1>1, <1>2, <1>4 DEF Surroundings, RowStep, Owns

LEMMA CallKept ==
    ASSUME TypeOK, TypeOK', Surroundings, NEW v \in Busy, v \in Busy', CallGood(v),
           Sending(v)' => Sending(v),
           worker'[v].rev = worker[v].rev, worker'[v].fence = worker[v].fence,
           Sending(v) => Made(worker'[v]) >= Made(worker[v]) /\ Made(worker[v]) \in Int
                         /\ Made(worker'[v]) \in Int,
           Sending(v) =>
             \A i \in Keys : i.rev = worker[v].rev => (i \in images' <=> i \in images),
           Sending(v) => Requests(sent', worker[v].rev) = Requests(sent, worker[v].rev),
           IsFiniteSet(sent)
    PROVE  CallGood(v)'
<1> DEFINE r == worker[v].rev
<1>1. SUFFICES ASSUME Sending(v), Sending(v)'
               PROVE  /\ rev'[r].dispatches > 0
                      /\ \A i \in images' : i.rev # r
                      /\ \A x \in Requests(sent, r) : x.fence = worker[v].fence
                      /\ Cardinality(Requests(sent, r)) <= Made(worker'[v])
  <2>1. Sending(v) => Requests(sent', worker'[v].rev) = Requests(sent, r)
    OBVIOUS
  <2>2. Made(worker[v])' = Made(worker'[v])
    BY DEF Made, Surroundings, LimitsStay
  <2> QED
    BY <1>1, <2>1, <2>2 DEF CallGood
<1>2. r \in Revisions /\ rev[r].dispatches \in Nat /\ rev'[r].dispatches \in Nat
  BY DeliveryNumbers DEF TypeOK, Rows
<1>3. rev'[r].dispatches > 0
  BY <1>1, <1>2 DEF Surroundings, RowStep, CallGood
<1>4. images' \subseteq Keys
  BY DEF TypeOK
<1>5. \A i \in images' : i.rev # r
  BY <1>1, <1>4 DEF CallGood
<1>6. Cardinality(Requests(sent, r)) \in Nat
  BY FS_Subset, FS_CardinalityType DEF Requests
<1>7. Cardinality(Requests(sent, r)) <= Made(worker[v])
  BY <1>1 DEF CallGood
<1> HIDE DEF r
<1>8. Cardinality(Requests(sent, r)) <= Made(worker'[v])
  BY <1>1, <1>6, <1>7
<1> QED
  BY <1>1, <1>3, <1>5, <1>8 DEF CallGood, r

LEMMA Bystander ==
    ASSUME Typed, TypeOK', RowsGood, Surroundings, NEW v \in Busy, Good(v), Undisturbed(v)
    PROVE  v \in Busy' /\ Good(v)'
<1> DEFINE d == worker[v]
           r == worker[v].rev
<1>1. TypeOK /\ IsFiniteSet(sent) /\ worker'[v] = worker[v] /\ v \in Busy'
  BY DEF Typed, Undisturbed, Busy
<1>2. r \in Revisions /\ {d.retries, d.limited} \subseteq Nat
  BY <1>1, DeliveryNumbers
<1>3. ClaimGood(v)'
  BY <1>1, ClaimKept DEF Good, ClaimGood, At
<1>4. BaseGood(v)'
  BY <1>1, BaseKept DEF Good
<1>5. Owns(v)' => Owns(v) /\ rev'[r].dispatches = rev[r].dispatches
  BY <1>1, OwnsBack DEF Good, Undisturbed, Undispatched
<1>6. ReadGood(v)' /\ FreshGood(v)'
  BY <1>1, <1>5 DEF Good, ReadGood, FreshGood, Fresh, At
<1>7. CallGood(v)'
  <2>1. left.limiterRetries \in Nat
    BY <1>1 DEF TypeOK, Scenario
  <2>2. Made(d) \in Int
    BY <1>2, <2>1 DEF Made
  <2> QED
    BY <1>1, <2>2, CallKept DEF Good, Undisturbed, Sending, At
<1>8. ImageGood(v)'
  <2>1. SUFFICES ASSUME Holding(v)
                 PROVE  [rev |-> r, at |-> d.key, by |-> d.by] \in images'
    BY <1>1 DEF ImageGood, Holding
  <2>2. [rev |-> r, at |-> d.key, by |-> d.by] \in images
    BY <2>1 DEF Good, ImageGood
  <2>3. [rev |-> r, at |-> d.key, by |-> d.by] \in Keys
    BY <1>1, <2>2 DEF TypeOK
  <2> QED
    BY <2>1, <2>2, <2>3 DEF Undisturbed
<1> QED
  BY <1>1, <1>3, <1>4, <1>6, <1>7, <1>8 DEF Good

\* Steps in which no delivery takes part.
LEMMA WorldStep ==
    ASSUME Typed, TypeOK', RowsGood, Surroundings, RowsRest, DeliveriesGood,
           worker' = worker, images' = images, sent' = sent
    PROVE  DeliveriesGood'
<1>1. TypeOK /\ Busy' = Busy
  BY DEF Typed, Busy
<1>2. ASSUME NEW v \in Busy PROVE Good(v)'
  <2>1. Undisturbed(v)
    BY <1>1, DeliveryNumbers DEF Undisturbed, RowsRest, Requests
  <2> QED
    BY <2>1, Bystander DEF DeliveriesGood
<1>3. \A w, v \in Busy : Alone(w, v)'
  BY DEF DeliveriesGood, Alone, Sending, At
<1> QED
  BY <1>1, <1>2, <1>3 DEF DeliveriesGood

\* What a delivery's step leaves alone.
Elsewhere(w) ==
    /\ \A v \in Workers : v # w => worker'[v] = worker[v]
    /\ \A v \in Busy : v # w => Undisturbed(v)

\* The delivery is still alone.
StillAlone(w) ==
    \A v \in Busy : v # w /\ worker'[w].rev = worker[v].rev =>
        /\ worker'[w].fence > 0 \/ worker[v].fence > 0 => worker'[w].fence # worker[v].fence
        /\ Sending(w)' => ~Sending(v)

LEMMA OwnStep ==
    ASSUME Typed, TypeOK', RowsGood, Surroundings, DeliveriesGood, NEW w \in Workers,
           Elsewhere(w), w \in Busy' => Good(w)' /\ StillAlone(w)
    PROVE  DeliveriesGood'
<1>1. ASSUME NEW v \in Busy', v # w
      PROVE  v \in Busy /\ worker'[v] = worker[v] /\ Good(v)'
  <2>1. v \in Busy /\ worker'[v] = worker[v]
    BY <1>1 DEF Busy, Elsewhere
  <2> QED
    BY <1>1, <2>1, Bystander DEF Elsewhere, DeliveriesGood
<1>2. \A v \in Busy' : Good(v)'
  BY <1>1
<1>3. ASSUME NEW u \in Busy', NEW v \in Busy' PROVE Alone(u, v)'
  <2>1. CASE u # w /\ v # w
    <3>1. u \in Busy /\ v \in Busy /\ worker'[u] = worker[u] /\ worker'[v] = worker[v]
      BY <1>1, <2>1
    <3>2. Alone(u, v)
      BY <3>1 DEF DeliveriesGood
    <3> QED
      BY <3>1, <3>2 DEF Alone, Sending, At
  <2>2. CASE u = w /\ v # w
    <3>1. v \in Busy /\ worker'[v] = worker[v] /\ StillAlone(w)
      BY <1>1, <2>2
    <3> QED
      BY <2>2, <3>1 DEF Alone, StillAlone, Sending, At
  <2>3. CASE u # w /\ v = w
    <3>1. u \in Busy /\ worker'[u] = worker[u] /\ StillAlone(w)
      BY <1>1, <2>3
    <3>2. Sending(u)' <=> Sending(u)
      BY <3>1 DEF Sending, At
    <3> QED
      BY <2>3, <3>1, <3>2 DEF Alone, StillAlone
  <2>4. CASE u = w /\ v = w
    BY <2>4 DEF Alone
  <2> QED
    BY <2>1, <2>2, <2>3, <2>4
<1> QED
  BY <1>2, <1>3 DEF DeliveriesGood

\* A delivery that goes on with its claim, or leaves it, is as alone as before.
LEMMA GoesOn ==
    ASSUME DeliveriesGood, NEW w \in Busy, worker'[w].rev = worker[w].rev,
           worker'[w].fence = worker[w].fence, Sending(w)' => Sending(w)
    PROVE  StillAlone(w)
BY DEF DeliveriesGood, Alone, StillAlone

\* The rest of the system does not see a step that touches only the worker's slot.
LEMMA Unseen ==
    ASSUME TypeOK, NEW w \in Workers, NEW e, Becomes(w, e), RowsRest,
           images' = images, sent' = sent
    PROVE  Elsewhere(w) /\ worker'[w] = e
<1>1. worker \in [Workers -> Deliveries]
  BY DEF TypeOK
<1>2. worker'[w] = e /\ \A v \in Workers : v # w => worker'[v] = worker[v]
  BY <1>1 DEF Becomes
<1>3. ASSUME NEW v \in Busy, v # w PROVE Undisturbed(v)
  BY <1>2, <1>3, DeliveryNumbers DEF Undisturbed, RowsRest, Busy
<1> QED
  BY <1>2, <1>3 DEF Elsewhere

LEMMA LeaveGood ==
    ASSUME Typed, TypeOK', RowsGood, Surroundings, DeliveriesGood, NEW w \in Busy,
           RowsRest, images' = images, sent' = sent,
           \/ Leave(w, "fail") /\ ~At(w, "claim") /\ ~At(w, "resolve")
           \/ Leave(w, "resolve")
    PROVE  DeliveriesGood'
<1>1. TypeOK /\ WorkerTypeOK /\ w \in Workers /\ Good(w)
  BY TypeParts DEF Typed, Busy, DeliveriesGood
<1>2. PICK step \in {"fail", "resolve"} :
         Leave(w, step) /\ (step = "fail" => ~At(w, "claim") /\ ~At(w, "resolve"))
  OBVIOUS
<1>3. Becomes(w, Left(w, step)) /\ step \in DeliverySteps
  BY <1>1, <1>2, LeftType DEF DeliverySteps
<1>4. Elsewhere(w) /\ worker'[w] = Left(w, step)
  BY <1>1, <1>3, Unseen
<1>5. /\ worker'[w].step = step /\ worker'[w].rev = worker[w].rev
      /\ worker'[w].token = worker[w].token /\ worker'[w].fence = worker[w].fence
      /\ worker'[w].retries = 0 /\ worker'[w].limited = 0
  BY <1>4 DEF Left, Idle
<1>6. w \in Busy'
  BY <1>1, <1>2, <1>5 DEF Busy
<1>7. ClaimGood(w)'
  <2>1. left.transportRetries \in Nat /\ left.limiterRetries \in Nat
    BY <1>1 DEF TypeOK, Scenario
  <2>2. 0 <= left.transportRetries /\ 0 <= left.limiterRetries
    BY <2>1
  <2> QED
    BY <1>1, <1>2, <1>5, <1>6, <2>2, ClaimKept DEF Good, At
<1>8. /\ BaseGood(w)' /\ ReadGood(w)' /\ FreshGood(w)' /\ CallGood(w)' /\ ImageGood(w)'
      /\ ~Sending(w)'
  BY <1>2, <1>5
  DEF BaseGood, ReadGood, FreshGood, CallGood, ImageGood, Sending, Fresh, Holding, At, HasRow
<1> QED
  BY <1>1, <1>4, <1>5, <1>6, <1>7, <1>8, GoesOn, OwnStep DEF Good

\* Images and requests come from dispatched revisions, one image of each.
Done ==
    /\ \A i \in images : i.rev \in Revisions /\ rev[i.rev].dispatches > 0
    /\ \A i, j \in images : i.rev = j.rev => i = j
    /\ \A x \in sent : rev[x.rev].dispatches > 0

LEMMA IdleGood ==
    ASSUME Typed, TypeOK', RowsGood, Surroundings, DeliveriesGood, NEW w \in Workers,
           RowsRest, Resolve(w) \/ WorkerCrash(w)
    PROVE  DeliveriesGood'
<1>1. TypeOK /\ Becomes(w, Idle) /\ images' = images /\ sent' = sent
  BY DEF Typed, Resolve, WorkerCrash, Becomes
<1>2. Elsewhere(w) /\ worker'[w] = Idle
  BY <1>1, Unseen
<1>3. w \notin Busy'
  BY <1>2, IdleType DEF Busy
<1> QED
  BY <1>2, <1>3, OwnStep

LEMMA PickUpGood ==
    ASSUME Typed, TypeOK', RowsGood, Surroundings, DeliveriesGood, NEW w \in Workers,
           RowsRest, NEW r \in Revisions, PickUp(w, r)
    PROVE  DeliveriesGood'
<1> DEFINE e == [Idle EXCEPT !.step = "claim", !.rev = r, !.token = job[r].token + 1]
<1>1. TypeOK /\ Becomes(w, e) /\ images' = images /\ sent' = sent
  BY DEF Typed, PickUp, Becomes
<1>2. Elsewhere(w) /\ worker'[w] = e
  BY <1>1, Unseen
<1>3. /\ worker'[w].step = "claim" /\ worker'[w].rev = r /\ worker'[w].fence = 0
      /\ worker'[w].token = job[r].token + 1
      /\ worker'[w].retries = 0 /\ worker'[w].limited = 0
  BY <1>2 DEF Idle
<1>4. job[r].token \in Nat /\ job'[r].token = job[r].token + 1
  BY <1>1 DEF PickUp, TypeOK, Jobs
<1>5. rev'[r].fence \in Nat
  BY DEF TypeOK, Rows
<1>6. left.transportRetries \in Nat /\ left.limiterRetries \in Nat
  BY <1>1 DEF TypeOK, Scenario
<1>7. ClaimGood(w)'
  <2>1. 0 <= rev'[r].fence /\ job[r].token + 1 <= job'[r].token
    BY <1>4, <1>5
  <2>2. 0 <= left'.limiterRetries /\ 0 <= left'.transportRetries
    BY <1>6 DEF Surroundings, LimitsStay
  <2> QED
    BY <1>3, <2>1, <2>2 DEF ClaimGood
<1>8. /\ BaseGood(w)' /\ ReadGood(w)' /\ FreshGood(w)' /\ CallGood(w)' /\ ImageGood(w)'
      /\ ~Sending(w)'
  BY <1>3
  DEF BaseGood, ReadGood, FreshGood, CallGood, ImageGood, Sending, Fresh, Holding, At, HasRow
<1>9. StillAlone(w)
  BY <1>3, <1>8 DEF StillAlone
<1> QED
  BY <1>2, <1>7, <1>8, <1>9, OwnStep DEF Good

LEMMA ClaimIsGood ==
    ASSUME Typed, TypeOK', RowsGood, Surroundings, DeliveriesGood, NEW w \in Workers,
           RowsRest, Claim(w)
    PROVE  DeliveriesGood'
<1> DEFINE d == worker[w]
           r == worker[w].rev
           e == [d EXCEPT !.step = "load", !.fence = rev[r].fence + 1]
<1>1. TypeOK /\ images' = images /\ sent' = sent /\ w \in Busy /\ At(w, "claim")
  BY DEF Typed, Claim, Busy, At
<1>2. CASE Leave(w, "resolve")
  BY <1>1, <1>2, LeaveGood
<1>3. CASE ~Leave(w, "resolve")
  <2>1. Becomes(w, e) /\ rev' = [rev EXCEPT ![r].status = "running", ![r].token = d.token,
                                            ![r].fence = rev[r].fence + 1, ![r].leaseLive = TRUE]
    BY <1>1, <1>3, DeliveryNumbers DEF Claim, Becomes, TypeOK
  <2>2. Elsewhere(w) /\ worker'[w] = e
    BY <1>1, <2>1, Unseen
  <2>3. d \in Deliveries /\ r \in Revisions /\ rev[r] \in Rows /\ rev[r].fence \in Nat
        /\ d.token \in Nat /\ job[r].token \in Nat
    BY <1>1, DeliveryNumbers
  <2>4. /\ worker'[w].step = "load" /\ worker'[w].rev = r /\ worker'[w].fence = rev[r].fence + 1
        /\ worker'[w].token = d.token
        /\ worker'[w].retries = d.retries /\ worker'[w].limited = d.limited
    BY <2>2, <2>3 DEF Deliveries
  <2>5. rev'[r].fence = rev[r].fence + 1
    BY <1>1, <2>1, <2>3 DEF TypeOK, Rows
  <2>6. ClaimGood(w)
    BY <1>1 DEF DeliveriesGood, Good
  <2>7. ClaimGood(w)'
    <3>1. job[r].token <= job'[r].token /\ job'[r].token \in Nat
      BY <2>3 DEF Surroundings, TokensGrow, TypeOK, Jobs
    <3>2. d.token <= job'[r].token
      BY <2>3, <2>6, <3>1 DEF ClaimGood
    <3>3. d.retries = 0 /\ d.limited <= left'.limiterRetries /\ d.retries <= left'.transportRetries
      BY <1>1, <2>6 DEF ClaimGood, At, Surroundings, LimitsStay
    <3>4. rev[r].fence + 1 > 0 /\ rev[r].fence + 1 <= rev'[r].fence
      BY <2>3, <2>5
    <3> QED
      BY <2>4, <3>2, <3>3, <3>4 DEF ClaimGood
  <2>8. /\ BaseGood(w)' /\ ReadGood(w)' /\ FreshGood(w)' /\ CallGood(w)' /\ ImageGood(w)'
        /\ ~Sending(w)'
    BY <2>4
    DEF BaseGood, ReadGood, FreshGood, CallGood, ImageGood, Sending, Fresh, Holding, At, HasRow
  <2>9. StillAlone(w)
    <3>1. ASSUME NEW v \in Busy, worker[v].rev = r PROVE worker[v].fence # rev[r].fence + 1
      <4>1. worker[v].fence <= rev[r].fence /\ worker[v].fence \in Nat
        BY <1>1, <3>1, DeliveryNumbers DEF DeliveriesGood, Good, ClaimGood
      <4> QED
        BY <2>3, <4>1
    <3> QED
      BY <2>4, <2>8, <3>1 DEF StillAlone
  <2> QED
    BY <2>2, <2>7, <2>8, <2>9, OwnStep DEF Good
<1> QED
  BY <1>2, <1>3

LEMMA LoadGood ==
    ASSUME Typed, TypeOK', RowsGood, Surroundings, DeliveriesGood, NEW w \in Workers,
           RowsRest, Load(w)
    PROVE  DeliveriesGood'
<1> DEFINE d == worker[w]
           r == worker[w].rev
           e == [d EXCEPT !.step = "adopt", !.row = rev[r], !.base = book.edition]
<1>1. TypeOK /\ images' = images /\ sent' = sent /\ rev' = rev /\ book' = book
      /\ w \in Busy /\ At(w, "load")
  BY DEF Typed, Load, Busy, At, rowVars
<1>2. CASE Leave(w, "resolve") \/ Leave(w, "fail")
  BY <1>1, <1>2, LeaveGood DEF At
<1>3. CASE ~(Leave(w, "resolve") \/ Leave(w, "fail"))
  <2>1. /\ Becomes(w, e) /\ Owns(w) /\ MatchesSnapshot(rev[r], r)
        /\ book.version[rev[r].page] = rev[r].version
    BY <1>1, <1>3 DEF Load, Becomes, TypeOK
  <2>2. Elsewhere(w) /\ worker'[w] = e
    BY <1>1, <2>1, Unseen
  <2>3. d \in Deliveries /\ r \in Revisions /\ rev[r] \in Rows /\ rev[r].edition \in Nat
    BY <1>1, DeliveryNumbers DEF Rows
  <2>4. /\ worker'[w].step = "adopt" /\ worker'[w].rev = r /\ worker'[w].fence = d.fence
        /\ worker'[w].token = d.token /\ worker'[w].row = rev[r]
        /\ worker'[w].base = book.edition
        /\ worker'[w].retries = d.retries /\ worker'[w].limited = d.limited
    BY <2>2, <2>3 DEF Deliveries
  <2>5. ClaimGood(w)
    BY <1>1 DEF DeliveriesGood, Good
  <2>6. w \in Busy'
    BY <2>4 DEF Busy
  <2>7. ClaimGood(w)'
    BY <1>1, <2>4, <2>5, <2>6, ClaimKept DEF ClaimGood, At
  <2>8. BaseGood(w)'
    <3>1. rev[r].edition = book.edition
      BY <2>1 DEF MatchesSnapshot
    <3>2. rev[r].edition <= book.edition
      BY <2>3, <3>1
    <3> QED
      BY <1>1, <2>1, <2>4, <3>1, <3>2 DEF BaseGood
  <2>9. /\ ReadGood(w)' /\ FreshGood(w)' /\ CallGood(w)' /\ ImageGood(w)' /\ ~Sending(w)'
    BY <1>1, <2>4
    DEF ReadGood, FreshGood, CallGood, ImageGood, Sending, Fresh, Holding, At
  <2>10. StillAlone(w)
    BY <1>1, <2>4, <2>9, GoesOn
  <2> QED
    BY <2>2, <2>7, <2>8, <2>9, <2>10, OwnStep DEF Good
<1> QED
  BY <1>2, <1>3

LEMMA AdoptGood ==
    ASSUME Typed, TypeOK', RowsGood, Surroundings, DeliveriesGood, NEW w \in Workers,
           RowsRest, Adopt(w)
    PROVE  DeliveriesGood'
<1> DEFINE d == worker[w]
           found == Candidates(d.row, d.rev)
           e == [d EXCEPT !.step = IF d.row.checkpointed THEN "publish" ELSE "checkpoint",
                          !.key = d.row.key, !.by = (CHOOSE i \in found : TRUE).by]
           f == [d EXCEPT !.step = "reserve",
                          !.key = IF d.row.key # 0 THEN d.row.key ELSE d.fence]
           Into(step, key, by) ==
              worker'[w] = [d EXCEPT !.step = step, !.key = key, !.by = by]
<1>1. TypeOK /\ images' = images /\ sent' = sent /\ rev' = rev
      /\ w \in Busy /\ At(w, "adopt")
  BY DEF Typed, Adopt, Busy, At, rowVars
<1>2. d \in Deliveries /\ ClaimGood(w) /\ BaseGood(w) /\ ReadGood(w)
  BY <1>1, DeliveryNumbers DEF DeliveriesGood, Good
<1>3. \/ Becomes(w, e) /\ found # {}
      \/ Becomes(w, f) /\ NewCallAllowed(d.row)
      \/ Leave(w, "fail")
  <2>1. \/ /\ found # {}
           /\ worker' = [worker EXCEPT
                           ![w].step = IF d.row.checkpointed THEN "publish" ELSE "checkpoint",
                           ![w].key = d.row.key,
                           ![w].by = (CHOOSE i \in found : TRUE).by]
        \/ /\ NewCallAllowed(d.row)
           /\ worker' = [worker EXCEPT
                           ![w].step = "reserve",
                           ![w].key = IF d.row.key # 0 THEN d.row.key ELSE d.fence]
        \/ Leave(w, "fail")
    BY DEF Adopt
  <2> HIDE DEF found
  <2> QED
    BY <1>1, <2>1 DEF Becomes, TypeOK
<1>4. CASE Leave(w, "fail")
  BY <1>1, <1>4, LeaveGood DEF At
<1>5. ASSUME NEW step, NEW key, NEW by,
             step \in {"publish", "checkpoint"} \/ (step = "reserve" /\ NewCallAllowed(d.row)),
             Into(step, key, by),
             step # "reserve" => [rev |-> d.rev, at |-> key, by |-> by] \in images,
             Elsewhere(w)
      PROVE  DeliveriesGood'
  <2>1. /\ worker'[w].step = step /\ worker'[w].rev = d.rev /\ worker'[w].fence = d.fence
        /\ worker'[w].token = d.token /\ worker'[w].row = d.row /\ worker'[w].base = d.base
        /\ worker'[w].retries = d.retries /\ worker'[w].limited = d.limited
        /\ worker'[w].key = key /\ worker'[w].by = by
    BY <1>2, <1>5 DEF Deliveries
  <2>2. w \in Busy'
    BY <1>5, <2>1 DEF Busy
  <2>3. ClaimGood(w)'
    BY <1>1, <1>2, <1>5, <2>1, <2>2, ClaimKept DEF ClaimGood, At
  <2>4. BaseGood(w)'
    BY <1>1, <1>2, <2>1, BaseKept DEF At, HasRow
  <2>5. FreshGood(w)'
    <3>1. CASE step = "reserve"
      BY <1>1, <1>2, <1>5, <2>1, <3>1 DEF FreshGood, ReadGood, NewCallAllowed, Owns, At
    <3>2. CASE step # "reserve"
      BY <1>5, <2>1, <3>2 DEF FreshGood, Fresh, At
    <3> QED
      BY <3>1, <3>2
  <2>6. ReadGood(w)' /\ CallGood(w)' /\ ImageGood(w)' /\ ~Sending(w)'
    BY <1>1, <1>5, <2>1 DEF ReadGood, CallGood, ImageGood, Sending, Holding, At
  <2>7. StillAlone(w)
    BY <1>1, <2>1, <2>6, GoesOn
  <2> QED
    BY <1>5, <2>3, <2>4, <2>5, <2>6, <2>7, OwnStep DEF Good
<1>6. CASE Becomes(w, e) /\ found # {}
  <2>1. PICK i \in found : i = (CHOOSE j \in found : TRUE)
    BY <1>6
  <2>2. /\ i \in images /\ i \in Keys /\ i.rev = d.rev /\ i.at = d.row.key
    BY <1>1, <2>1 DEF Candidates, TypeOK
  <2>3. i = [rev |-> d.rev, at |-> d.row.key, by |-> i.by]
    BY <2>2 DEF Keys
  <2> HIDE DEF found
  <2>4. Elsewhere(w) /\ worker'[w] = e
    BY <1>1, <1>6, Unseen
  <2>5. PICK step \in {"publish", "checkpoint"} : Into(step, d.row.key, i.by)
    BY <2>1, <2>4
  <2>6. [rev |-> d.rev, at |-> d.row.key, by |-> i.by] \in images
    BY <2>2, <2>3
  <2>7. step # "reserve"
    BY <2>5
  <2> HIDE DEF d, Into
  <2> QED
    BY <1>5, <2>4, <2>5, <2>6, <2>7
<1>7. CASE Becomes(w, f) /\ NewCallAllowed(d.row)
  <2>1. PICK step, key, by : step = "reserve" /\ by = d.by
                /\ key = IF d.row.key # 0 THEN d.row.key ELSE d.fence
    OBVIOUS
  <2>2. Elsewhere(w) /\ worker'[w] = [d EXCEPT !.step = step, !.key = key]
    BY <1>1, <1>7, <2>1, Unseen
  <2>3. Into(step, key, by)
    BY <1>2, <2>1, <2>2 DEF Deliveries
  <2>4. step = "reserve" /\ NewCallAllowed(d.row)
    BY <1>7, <2>1
  <2> HIDE DEF d, Into
  <2> QED
    BY <1>5, <2>2, <2>3, <2>4
<1> QED
  BY <1>3, <1>4, <1>6, <1>7

\* A delivery that goes on to its next step with what it has.
LEMMA NextStepGood ==
    ASSUME Typed, TypeOK', RowsGood, Surroundings, DeliveriesGood, NEW w \in Busy,
           RowsRest, images' = images, sent' = sent,
           NEW step \in DeliverySteps \ {"idle", "claim", "load", "adopt", "reserve", "resolve"},
           worker[w].step \in HasRow,
           Goto(w, step),
           Sending(w)' => Sending(w) /\ step \notin {"gate", "permit"} /\ ~At(w, "gate")
                                     /\ ~At(w, "permit"),
           Holding(w)' => Holding(w),
           Fresh(w)' => Fresh(w)
    PROVE  DeliveriesGood'
<1> DEFINE d == worker[w]
<1>1. TypeOK /\ WorkerTypeOK /\ w \in Workers /\ Good(w) /\ d \in Deliveries
  BY TypeParts, DeliveryNumbers DEF Typed, Busy, DeliveriesGood
<1>2. Becomes(w, [d EXCEPT !.step = step])
  BY <1>1, GotoType
<1>3. Elsewhere(w) /\ worker'[w] = [d EXCEPT !.step = step]
  BY <1>1, <1>2, Unseen
<1>4. /\ worker'[w].step = step /\ worker'[w].rev = d.rev /\ worker'[w].fence = d.fence
      /\ worker'[w].token = d.token /\ worker'[w].row = d.row /\ worker'[w].base = d.base
      /\ worker'[w].retries = d.retries /\ worker'[w].limited = d.limited
      /\ worker'[w].key = d.key /\ worker'[w].by = d.by
  BY <1>1, <1>3 DEF Deliveries
<1>5. w \in Busy'
  BY <1>1, <1>4 DEF Busy
<1>6. ClaimGood(w)'
  BY <1>1, <1>4, <1>5, ClaimKept DEF ClaimGood, Good, At, HasRow
<1>7. BaseGood(w)'
  BY <1>1, <1>4, BaseKept DEF Good
<1>8. ReadGood(w)'
  BY <1>4 DEF ReadGood, At
<1>9. FreshGood(w)'
  <2>1. Owns(w)' => Owns(w)
    BY <1>1, <1>4, OwnsBack DEF Good
  <2>2. rev'[d.rev].dispatches = rev[d.rev].dispatches
    BY <1>1, DeliveryNumbers DEF RowsRest, Undispatched
  <2> QED
    BY <1>1, <1>4, <2>1, <2>2 DEF FreshGood, Good
<1>10. CallGood(w)'
  <2>1. CASE ~Sending(w)'
    BY <2>1 DEF CallGood
  <2>2. CASE Sending(w)'
    <3>1. left.limiterRetries \in Nat /\ d.retries \in Nat /\ d.limited \in Nat
      BY <1>1, DeliveryNumbers DEF TypeOK, Scenario
    <3>2. Made(worker'[w]) = Made(d)
      BY <1>4, <2>2 DEF Made, At
    <3>3. Made(d) \in Int
      BY <3>1 DEF Made
    <3> HIDE DEF d
    <3>4. Made(worker'[w]) >= Made(d)
      BY <3>2, <3>3
    <3> USE DEF d
    <3> QED
      BY <1>1, <1>4, <1>5, <3>2, <3>3, <3>4, CallKept DEF Good, Typed
  <2> QED
    BY <2>1, <2>2
<1>11. ImageGood(w)'
  BY <1>1, <1>4 DEF ImageGood, Good
<1>12. StillAlone(w)
  BY <1>4, GoesOn
<1> QED
  BY <1>1, <1>3, <1>6, <1>7, <1>8, <1>9, <1>10, <1>11, <1>12, OwnStep DEF Good

\* worker'[w] after Goto.
LEMMA GotoStep ==
    ASSUME TypeOK, NEW w \in Busy, NEW step, Goto(w, step)
    PROVE  /\ worker'[w].step = step /\ worker'[w].retries = worker[w].retries
           /\ worker'[w] = [worker[w] EXCEPT !.step = step]
<1>1. worker \in [Workers -> Deliveries] /\ w \in Workers /\ worker[w] \in Deliveries
  BY DEF TypeOK, Busy
<1>2. worker'[w] = [worker[w] EXCEPT !.step = step]
  BY <1>1 DEF Goto
<1> QED
  BY <1>1, <1>2 DEF Deliveries

LEMMA GatewayGood ==
    ASSUME Typed, TypeOK', RowsGood, Surroundings, DeliveriesGood, NEW w \in Workers, RowsRest,
           \/ ReserveOperation(w) \/ FinishOperation(w) \/ Checkpoint(w) \/ ConfirmStored(w)
           \/ PublishRevision(w) \/ PublicationFails(w) \/ Fail(w)
    PROVE  DeliveriesGood'
<1>1. TypeOK /\ images' = images /\ sent' = sent /\ w \in Busy
  BY DEF Typed, Busy, At, ReserveOperation, FinishOperation, Checkpoint, ConfirmStored,
         PublishRevision, PublicationFails, Fail, Refused, Fenced
<1>2. CASE Refused(w) /\ ~At(w, "claim") /\ ~At(w, "resolve")
  BY <1>1, <1>2, LeaveGood DEF Refused
<1>3. CASE ReserveOperation(w)
  <2>1. CASE Goto(w, "gate")
    <3>1. worker[w].retries = 0 /\ At(w, "reserve")
      BY <1>1, <1>3 DEF DeliveriesGood, Good, ClaimGood, ReserveOperation, At
    <3>2. worker'[w].step = "gate" /\ worker'[w].retries = 0
      BY <1>1, <2>1, <3>1, GotoStep
    <3>3. ~Sending(w)' /\ ~Holding(w)' /\ Fresh(w)
      BY <3>1, <3>2 DEF Sending, Holding, Fresh, At
    <3>4. worker[w].step \in HasRow
      BY <3>1 DEF At, HasRow
    <3> QED
      BY <1>1, <2>1, <3>3, <3>4, NextStepGood DEF DeliverySteps
  <2> QED
    BY <1>2, <1>3, <2>1 DEF ReserveOperation, At
<1>4. CASE FinishOperation(w)
  <2>1. CASE Goto(w, "save")
    <3>1. At(w, "finish") /\ worker'[w].step = "save"
      BY <1>1, <1>4, <2>1, GotoStep DEF FinishOperation
    <3>2. /\ Sending(w) /\ ~At(w, "gate") /\ ~At(w, "permit") /\ ~Holding(w)' /\ ~Fresh(w)'
          /\ worker[w].step \in HasRow
      BY <3>1 DEF Sending, Holding, Fresh, At, HasRow
    <3> QED
      BY <1>1, <2>1, <3>2, NextStepGood DEF DeliverySteps
  <2>2. CASE Leave(w, "fail")
    BY <1>1, <1>4, <2>2, LeaveGood DEF FinishOperation, At
  <2> QED
    BY <1>2, <1>4, <2>1, <2>2 DEF FinishOperation, At
<1>5. CASE Checkpoint(w) \/ ConfirmStored(w)
  <2>1. ASSUME NEW step \in {"confirm", "publish"}, Goto(w, step) PROVE DeliveriesGood'
    <3>1. Holding(w) /\ worker'[w].step = step /\ worker[w].step \in HasRow
      BY <1>1, <1>5, <2>1, GotoStep DEF Checkpoint, ConfirmStored, Holding, At, HasRow
    <3>2. ~Sending(w)' /\ ~Fresh(w)'
      BY <2>1, <3>1 DEF Sending, Fresh, At
    <3> QED
      BY <1>1, <2>1, <3>1, <3>2, NextStepGood DEF DeliverySteps
  <2> QED
    BY <1>2, <1>5, <2>1 DEF Checkpoint, ConfirmStored, At
<1>6. CASE PublishRevision(w) \/ Fail(w)
  BY <1>1, <1>6, LeaveGood DEF PublishRevision, Fail
<1>7. CASE PublicationFails(w)
  BY <1>2, <1>7 DEF PublicationFails, At
<1> QED
  BY <1>3, <1>4, <1>5, <1>6, <1>7

LEMMA AnswerGood ==
    ASSUME Typed, TypeOK', RowsGood, Surroundings, DeliveriesGood, NEW w \in Workers,
           RowsRest, Answer(w)
    PROVE  DeliveriesGood'
<1> DEFINE d == worker[w]
           L == left.limiterRetries
<1>1. /\ TypeOK /\ images' = images /\ sent' = sent /\ w \in Busy /\ At(w, "flight")
      /\ Good(w) /\ d \in Deliveries /\ d.retries \in Nat /\ d.limited \in Nat /\ L \in Nat
  <2>1. TypeOK /\ images' = images /\ sent' = sent /\ w \in Busy /\ At(w, "flight")
    BY DEF Typed, Answer, Busy, At
  <2>2. left.limiterRetries \in Nat
    BY <2>1 DEF TypeOK, Scenario
  <2> QED
    BY <2>1, <2>2, DeliveryNumbers DEF DeliveriesGood
<1>2. PICK e :
         /\ Becomes(w, e) /\ e.rev = d.rev /\ e.fence = d.fence /\ e.token = d.token
         /\ e.row = d.row /\ e.base = d.base
         /\ \/ /\ e.step = "finish" /\ e.retries = d.retries /\ e.limited = d.limited
            \/ /\ d.limited < L
               /\ e.step = "permit" /\ e.retries = d.retries /\ e.limited = d.limited + 1
            \/ /\ d.retries < left.transportRetries
               /\ e.step = "gate" /\ e.retries = d.retries + 1 /\ e.limited = 0
  <2>1. \/ \E outcome :
              Becomes(w, [d EXCEPT !.step = "finish", !.outcome = outcome])
        \/ /\ d.limited < L
           /\ Becomes(w, [d EXCEPT !.step = "permit", !.limited = d.limited + 1])
        \/ /\ d.retries < left.transportRetries
           /\ Becomes(w, [d EXCEPT !.step = "gate", !.retries = d.retries + 1, !.limited = 0])
    BY <1>1 DEF Answer, Becomes, TypeOK
  <2>2. ASSUME NEW outcome
        PROVE  LET e == [d EXCEPT !.step = "finish", !.outcome = outcome] IN
               /\ e.rev = d.rev /\ e.fence = d.fence /\ e.token = d.token
               /\ e.row = d.row /\ e.base = d.base
               /\ e.step = "finish" /\ e.retries = d.retries /\ e.limited = d.limited
    BY <1>1 DEF Deliveries
  <2>3. LET e == [d EXCEPT !.step = "permit", !.limited = d.limited + 1] IN
        /\ e.rev = d.rev /\ e.fence = d.fence /\ e.token = d.token
        /\ e.row = d.row /\ e.base = d.base
        /\ e.step = "permit" /\ e.retries = d.retries /\ e.limited = d.limited + 1
    BY <1>1 DEF Deliveries
  <2>4. LET e == [d EXCEPT !.step = "gate", !.retries = d.retries + 1, !.limited = 0] IN
        /\ e.rev = d.rev /\ e.fence = d.fence /\ e.token = d.token
        /\ e.row = d.row /\ e.base = d.base
        /\ e.step = "gate" /\ e.retries = d.retries + 1 /\ e.limited = 0
    BY <1>1 DEF Deliveries
  <2>5. CASE \E outcome : Becomes(w, [d EXCEPT !.step = "finish", !.outcome = outcome])
    BY <2>2, <2>5
  <2>6. CASE /\ d.limited < L
             /\ Becomes(w, [d EXCEPT !.step = "permit", !.limited = d.limited + 1])
    BY <2>3, <2>6
  <2>7. CASE /\ d.retries < left.transportRetries
             /\ Becomes(w, [d EXCEPT !.step = "gate", !.retries = d.retries + 1, !.limited = 0])
    BY <2>4, <2>7
  <2> QED
    BY <2>1, <2>5, <2>6, <2>7
<1>3. Elsewhere(w) /\ worker'[w] = e
  BY <1>1, <1>2, Unseen
<1>4. w \in Busy' /\ Sending(w) /\ ~Holding(w)' /\ ~At(w, "adopt")'
  BY <1>1, <1>2, <1>3 DEF Busy, Sending, Holding, At
<1>5. ClaimGood(w) /\ d.limited <= L /\ d.retries <= left.transportRetries
  BY <1>1 DEF Good, ClaimGood
<1>6. e.retries <= left.transportRetries /\ e.limited <= L
  <2>1. left.transportRetries \in Nat
    BY <1>1 DEF TypeOK, Scenario
  <2> QED
    BY <1>1, <1>2, <1>5, <2>1
<1>7. ClaimGood(w)'
  BY <1>1, <1>2, <1>3, <1>4, <1>5, <1>6, ClaimKept DEF At
<1>8. BaseGood(w)'
  BY <1>1, <1>2, <1>3, BaseKept DEF Good, At, HasRow
<1>9. ~Fresh(w)'
  <2>1. e.step = "gate" => e.retries > 0
    BY <1>1, <1>2
  <2> QED
    BY <1>2, <1>3, <2>1 DEF Fresh, At
<1>10. CallGood(w)'
  <2>1. Made(d) = (1 + L) * d.retries + d.limited + 1
    BY <1>1 DEF Made, At
  <2>2. Made(e) >= Made(d) /\ Made(e) \in Int /\ Made(d) \in Int
    <3>1. (1 + L) * d.retries \in Int
      BY <1>1
    <3>2. CASE e.step = "finish" /\ e.retries = d.retries /\ e.limited = d.limited
      BY <1>1, <2>1, <3>1, <3>2 DEF Made
    <3>3. CASE e.step = "permit" /\ e.retries = d.retries /\ e.limited = d.limited + 1
      BY <1>1, <2>1, <3>1, <3>3 DEF Made
    <3>4. CASE e.step = "gate" /\ e.retries = d.retries + 1 /\ e.limited = 0
      <4>1. (1 + L) * (d.retries + 1) = (1 + L) * d.retries + (1 + L)
        BY <1>1
      <4>2. Made(e) = (1 + L) * (d.retries + 1) + 0 + 0
        BY <3>4 DEF Made
      <4> QED
        BY <1>1, <1>5, <2>1, <3>1, <4>1, <4>2
    <3> QED
      BY <1>2, <3>2, <3>3, <3>4
  <2>3. Made(worker'[w]) = Made(e)
    BY <1>3
  <2> HIDE DEF d
  <2>4. /\ Made(worker'[w]) >= Made(worker[w]) /\ Made(worker[w]) \in Int
        /\ Made(worker'[w]) \in Int
    BY <2>2, <2>3 DEF d
  <2> QED
    BY <1>1, <1>2, <1>3, <1>4, <2>4, CallKept DEF Good, Typed, d
<1>11. ReadGood(w)' /\ FreshGood(w)' /\ ImageGood(w)'
  BY <1>4, <1>9 DEF ReadGood, FreshGood, ImageGood
<1>12. StillAlone(w)
  BY <1>1, <1>2, <1>3, <1>4, GoesOn
<1> QED
  BY <1>3, <1>7, <1>8, <1>10, <1>11, <1>12, OwnStep DEF Good

LEMMA SendGood ==
    ASSUME Typed, TypeOK', RowsGood, Surroundings, DeliveriesGood, NEW w \in Workers,
           RowsRest, Send(w)
    PROVE  DeliveriesGood'
<1> DEFINE d == worker[w]
           x == [rev |-> d.rev, fence |-> d.fence, n |-> Cardinality(sent)]
<1>1. /\ TypeOK /\ images' = images /\ sent' = sent \cup {x} /\ w \in Busy /\ At(w, "permit")
      /\ Good(w) /\ Goto(w, "flight") /\ IsFiniteSet(sent)
  BY DEF Typed, Send, Busy, At, DeliveriesGood
<1>2. /\ d \in Deliveries /\ d.rev \in Revisions
      /\ d.retries \in Nat /\ d.limited \in Nat /\ left.limiterRetries \in Nat
  BY <1>1, DeliveryNumbers DEF TypeOK, Scenario
<1>3. /\ worker'[w] = [d EXCEPT !.step = "flight"]
      /\ \A v \in Workers : v # w => worker'[v] = worker[v]
  BY <1>1, GotoStep DEF Goto, TypeOK
<1>4. /\ worker'[w].step = "flight" /\ worker'[w].rev = d.rev /\ worker'[w].fence = d.fence
      /\ worker'[w].token = d.token /\ worker'[w].row = d.row /\ worker'[w].base = d.base
      /\ worker'[w].retries = d.retries /\ worker'[w].limited = d.limited
  BY <1>2, <1>3 DEF Deliveries
<1>5. \A r : /\ r # d.rev => Requests(sent', r) = Requests(sent, r)
             /\ r = d.rev => Requests(sent', r) = Requests(sent, r) \cup {x}
  BY <1>1 DEF Requests
<1>6. Elsewhere(w)
  <2>1. ASSUME NEW v \in Busy, v # w PROVE Undisturbed(v)
    <3>1. Sending(w)
      BY <1>1 DEF Sending, At
    <3>2. Sending(v) => worker[v].rev # d.rev
      BY <1>1, <2>1, <3>1 DEF DeliveriesGood, Alone
    <3>3. Owns(v) => Undispatched(worker[v].rev)
      BY <1>1, DeliveryNumbers DEF RowsRest
    <3> QED
      BY <1>1, <1>3, <1>5, <2>1, <3>2, <3>3 DEF Undisturbed, Busy
  <2> QED
    BY <1>3, <2>1 DEF Elsewhere
<1>7. w \in Busy' /\ ~Holding(w)' /\ ~At(w, "adopt")' /\ ~Fresh(w)' /\ Sending(w)
  BY <1>1, <1>4 DEF Busy, Holding, Fresh, Sending, At
<1>8. ClaimGood(w)'
  BY <1>1, <1>4, <1>7, ClaimKept DEF ClaimGood, Good, At
<1>9. BaseGood(w)'
  BY <1>1, <1>4, BaseKept DEF Good, At, HasRow
<1>10. CallGood(w)'
  <2>1. /\ rev[d.rev].dispatches > 0 /\ \A i \in images : i.rev # d.rev
        /\ \A y \in Requests(sent, d.rev) : y.fence = d.fence
        /\ Cardinality(Requests(sent, d.rev)) <= Made(d)
    BY <1>1, <1>7 DEF Good, CallGood
  <2>2. rev'[d.rev].dispatches > 0
    BY <1>2, <2>1 DEF RowsRest, Undispatched
  <2>3. \A y \in Requests(sent', d.rev) : y.fence = d.fence
    BY <1>5, <2>1
  <2>4. /\ IsFiniteSet(Requests(sent, d.rev))
        /\ Cardinality(Requests(sent, d.rev)) \in Nat
    BY <1>1, FS_Subset, FS_CardinalityType DEF Requests
  <2>5. /\ Cardinality(Requests(sent', d.rev)) \in Nat
        /\ Cardinality(Requests(sent', d.rev)) <= Cardinality(Requests(sent, d.rev)) + 1
    <3>1. Requests(sent', d.rev) = Requests(sent, d.rev) \cup {x}
      BY <1>5
    <3> DEFINE S == Requests(sent, d.rev)
    <3> HIDE DEF S, x
    <3>2. IsFiniteSet(S) /\ Cardinality(S) \in Nat
      BY <2>4 DEF S
    <3>3. /\ IsFiniteSet(S \cup {x})
          /\ Cardinality(S \cup {x}) = Cardinality(S) \/ Cardinality(S \cup {x}) = Cardinality(S) + 1
      BY <3>2, FS_AddElement
    <3> QED
      BY <3>1, <3>2, <3>3 DEF S
  <2>6. Made(worker[w])' = Made(worker'[w])
    BY DEF Made, Surroundings, LimitsStay
  <2>7. Made(worker'[w]) = Made(d) + 1 /\ Made(d) \in Int
    <3>1. (1 + left.limiterRetries) * d.retries \in Int
      BY <1>2
    <3>2. Made(d) = (1 + left.limiterRetries) * d.retries + d.limited + 0
      BY <1>1 DEF Made, At
    <3>3. Made(worker'[w]) = (1 + left.limiterRetries) * d.retries + d.limited + 1
      BY <1>4 DEF Made
    <3> QED
      BY <1>2, <3>1, <3>2, <3>3
  <2>8. Cardinality(Requests(sent', d.rev)) <= Made(worker'[w])
    <3> HIDE DEF d
    <3> QED
      BY <2>1, <2>4, <2>5, <2>7
  <2> QED
    BY <1>1, <1>4, <2>1, <2>2, <2>3, <2>6, <2>8 DEF CallGood
<1>11. ReadGood(w)' /\ FreshGood(w)' /\ ImageGood(w)'
  BY <1>7 DEF ReadGood, FreshGood, ImageGood
<1>12. StillAlone(w)
  BY <1>1, <1>4, <1>7, GoesOn
<1> QED
  BY <1>6, <1>8, <1>9, <1>10, <1>11, <1>12, OwnStep DEF Good

LEMMA AttemptGood ==
    ASSUME Typed, TypeOK', RowsGood, Surroundings, DeliveriesGood, Done, NEW w \in Workers,
           ReserveHttpAttempt(w)
    PROVE  DeliveriesGood'
<1> DEFINE d == worker[w]
           r == worker[w].rev
<1>1. /\ TypeOK /\ images' = images /\ sent' = sent /\ w \in Busy /\ At(w, "gate")
      /\ Good(w) /\ IsFiniteSet(sent)
  BY DEF Typed, ReserveHttpAttempt, Fenced, Refused, Busy, At, DeliveriesGood
<1>2. CASE RowsRest /\ Refused(w)
  BY <1>1, <1>2, LeaveGood DEF Refused, At
<1>3. CASE /\ \A q \in Revisions : q # r => Undispatched(q)
           /\ Owns(w) /\ Goto(w, "permit")
           /\ rev'[r].dispatches = rev[r].dispatches + 1
  <2>1. /\ d \in Deliveries /\ r \in Revisions /\ rev[r].dispatches \in Nat
        /\ d.retries \in Nat /\ d.limited \in Nat /\ left.limiterRetries \in Nat
    BY <1>1, DeliveryNumbers DEF TypeOK, Scenario
  <2>2. /\ worker'[w] = [d EXCEPT !.step = "permit"]
        /\ \A v \in Workers : v # w => worker'[v] = worker[v]
    BY <1>1, <1>3, GotoStep DEF Goto, TypeOK
  <2>3. /\ worker'[w].step = "permit" /\ worker'[w].rev = r /\ worker'[w].fence = d.fence
        /\ worker'[w].token = d.token /\ worker'[w].row = d.row /\ worker'[w].base = d.base
        /\ worker'[w].retries = d.retries /\ worker'[w].limited = d.limited
    BY <2>1, <2>2 DEF Deliveries
  <2>4. ASSUME NEW v \in Busy, v # w, worker[v].rev = r PROVE ~Owns(v) /\ ~Sending(v)
    <3>1. Alone(w, v) /\ Good(v)
      BY <1>1, <2>4 DEF DeliveriesGood
    <3>2. d.fence > 0
      BY <1>1 DEF Good, ClaimGood, At
    <3>3. ~Owns(v)
      BY <1>3, <2>4, <3>1, <3>2 DEF Alone, Owns
    <3>4. CASE Sending(w)
      BY <2>4, <3>1, <3>3, <3>4 DEF Alone
    <3>5. CASE ~Sending(w)
      <4>1. d.retries = 0
        BY <1>1, <2>1, <3>5 DEF Sending, At
      <4>2. rev[r].dispatches = 0
        BY <1>1, <1>3, <4>1 DEF Good, FreshGood, Fresh
      <4>3. ~Sending(v)
        BY <2>4, <3>1, <4>2 DEF Good, CallGood
      <4> QED
        BY <3>3, <4>3
    <3> QED
      BY <3>4, <3>5
  <2>5. Elsewhere(w)
    <3>1. ASSUME NEW v \in Busy, v # w PROVE Undisturbed(v)
      <4>1. Owns(v) => Undispatched(worker[v].rev)
        BY <1>1, <1>3, <2>4, <3>1, DeliveryNumbers
      <4> QED
        BY <1>1, <2>2, <3>1, <4>1 DEF Undisturbed, Busy
    <3> QED
      BY <2>2, <3>1 DEF Elsewhere
  <2>6. w \in Busy' /\ ~Holding(w)' /\ ~At(w, "adopt")' /\ ~Fresh(w)'
    BY <1>1, <2>3 DEF Busy, Holding, Fresh, At
  <2>7. ClaimGood(w)'
    BY <1>1, <2>3, <2>6, ClaimKept DEF ClaimGood, Good, At
  <2>8. BaseGood(w)'
    BY <1>1, <2>3, BaseKept DEF Good, At, HasRow
  <2>9. /\ \A i \in images : i.rev # r
        /\ \A x \in Requests(sent, r) : x.fence = d.fence
        /\ Cardinality(Requests(sent, r)) <= Made(d)
    <3>1. CASE Sending(w)
      BY <1>1, <3>1 DEF Good, CallGood
    <3>2. CASE ~Sending(w)
      <4>1. d.retries = 0
        BY <1>1, <2>1, <3>2 DEF Sending, At
      <4>2. rev[r].dispatches = 0
        BY <1>1, <1>3, <4>1 DEF Good, FreshGood, Fresh
      <4>3. (\A i \in images : i.rev # r) /\ Requests(sent, r) = {}
        BY <4>2 DEF Done, Requests
      <4>4. Made(d) >= 0
        <5>1. (1 + left.limiterRetries) * d.retries = 0
          BY <2>1, <4>1
        <5>2. Made(d) = (1 + left.limiterRetries) * d.retries + d.limited + 0
          BY <1>1 DEF Made, At
        <5> QED
          BY <2>1, <5>1, <5>2
      <4>5. Cardinality(Requests(sent, r)) = 0
        BY <4>3, FS_EmptySet
      <4> HIDE DEF d, r
      <4> QED
        BY <4>3, <4>4, <4>5
    <3> QED
      BY <3>1, <3>2
  <2>10. CallGood(w)'
    <3>1. Made(worker[w])' = Made(worker'[w])
      BY DEF Made, Surroundings, LimitsStay
    <3>2. Made(worker'[w]) = Made(d)
      BY <1>1, <2>3 DEF Made, At
    <3>3. rev'[r].dispatches > 0
      BY <1>3, <2>1
    <3> QED
      BY <1>1, <2>3, <2>9, <3>1, <3>2, <3>3 DEF CallGood
  <2>11. ReadGood(w)' /\ FreshGood(w)' /\ ImageGood(w)'
    BY <2>6 DEF ReadGood, FreshGood, ImageGood
  <2>12. StillAlone(w)
    BY <1>1, <2>3, <2>4 DEF StillAlone, DeliveriesGood, Alone
  <2> QED
    BY <2>5, <2>7, <2>8, <2>10, <2>11, <2>12, OwnStep DEF Good
<1> QED
  BY <1>1, <1>2, <1>3, AttemptRows

LEMMA SaveGood ==
    ASSUME Typed, TypeOK', RowsGood, Surroundings, DeliveriesGood, NEW w \in Workers,
           RowsRest, SaveImage(w)
    PROVE  DeliveriesGood'
<1> DEFINE d == worker[w]
           new == [rev |-> d.rev, at |-> d.key, by |-> d.fence]
           e == [d EXCEPT !.step = "checkpoint", !.by = d.fence]
<1>1. TypeOK /\ sent' = sent /\ w \in Busy /\ At(w, "save") /\ Good(w) /\ Sending(w)
  BY DEF Typed, SaveImage, Busy, At, DeliveriesGood, Sending
<1>2. CASE Leave(w, "fail") /\ images' = images
  BY <1>1, <1>2, LeaveGood DEF At
<1>3. CASE ~(Leave(w, "fail") /\ images' = images)
  <2>1. \A i \in images : i.rev # d.rev
    BY <1>1 DEF Good, CallGood
  <2>2. images' = images \cup {new} /\ Becomes(w, e)
    <3>1. /\ images' = {i \in images : i.rev # d.rev \/ i.at # d.key} \cup {new}
          /\ worker' = [worker EXCEPT ![w].step = "checkpoint", ![w].by = d.fence]
      BY <1>3 DEF SaveImage
    <3> QED
      BY <1>1, <2>1, <3>1 DEF Becomes, TypeOK
  <2>3. worker'[w] = e /\ \A v \in Workers : v # w => worker'[v] = worker[v]
    BY <1>1, <2>2 DEF Becomes, TypeOK
  <2>4. d \in Deliveries
    BY <1>1, DeliveryNumbers
  <2>5. /\ worker'[w].step = "checkpoint" /\ worker'[w].rev = d.rev
        /\ worker'[w].fence = d.fence /\ worker'[w].by = d.fence /\ worker'[w].key = d.key
        /\ worker'[w].token = d.token /\ worker'[w].row = d.row /\ worker'[w].base = d.base
        /\ worker'[w].retries = d.retries /\ worker'[w].limited = d.limited
    BY <2>3, <2>4 DEF Deliveries
  <2>6. Elsewhere(w)
    <3>1. ASSUME NEW v \in Busy, v # w PROVE Undisturbed(v)
      <4>1. Sending(v) \/ Holding(v) => worker[v].rev # d.rev
        BY <1>1, <2>1, <3>1 DEF DeliveriesGood, Alone, Good, ImageGood
      <4>2. Owns(v) => Undispatched(worker[v].rev)
        BY <1>1, DeliveryNumbers DEF RowsRest
      <4> QED
        BY <1>1, <2>2, <2>3, <3>1, <4>1, <4>2 DEF Undisturbed, Busy
    <3> QED
      BY <2>3, <3>1 DEF Elsewhere
  <2>7. w \in Busy' /\ ~At(w, "adopt")' /\ ~Fresh(w)' /\ ~Sending(w)'
    BY <1>1, <2>5 DEF Busy, Fresh, Sending, At
  <2>8. ClaimGood(w)'
    BY <1>1, <2>5, <2>7, ClaimKept DEF ClaimGood, Good, At
  <2>9. BaseGood(w)'
    BY <1>1, <2>5, BaseKept DEF Good, At, HasRow
  <2>10. /\ ReadGood(w)' /\ FreshGood(w)' /\ CallGood(w)'
    BY <2>7 DEF ReadGood, FreshGood, CallGood
  <2>11. ImageGood(w)'
    BY <2>2, <2>5 DEF ImageGood
  <2>12. StillAlone(w)
    BY <1>1, <2>5, <2>7, GoesOn
  <2> QED
    BY <2>6, <2>8, <2>9, <2>10, <2>11, <2>12, OwnStep DEF Good
<1> QED
  BY <1>2, <1>3

-----------------------------------------------------------------------------
(* The inductive invariant of the calls *)

CallInv == Typed /\ RowsGood /\ DeliveriesGood /\ Done

WorkerStep(w) ==
    \/ \E r \in Revisions : PickUp(w, r)
    \/ Claim(w) \/ Load(w) \/ Adopt(w)
    \/ ReserveOperation(w) \/ ReserveHttpAttempt(w)
    \/ Send(w) \/ Answer(w) \/ FinishOperation(w)
    \/ SaveImage(w) \/ Checkpoint(w) \/ ConfirmStored(w)
    \/ PublishRevision(w) \/ PublicationFails(w)
    \/ Fail(w) \/ Resolve(w) \/ WorkerCrash(w)

LEMMA StepCases ==
    ASSUME [Next]_vars
    PROVE  \/ OwnerNext \/ QueueNext \/ ClockNext \/ SweeperNext
           \/ \E w \in Workers : WorkerStep(w)
           \/ UNCHANGED vars
BY DEF Next, WorkerNext, WorkerStep

LEMMA AllRows ==
    ASSUME Typed, RowsGood, [Next]_vars
    PROVE  /\ Surroundings /\ RowsGood' /\ Typed'
           /\ RowsRest \/ \E w \in Workers : ReserveHttpAttempt(w)
<1>1. TypeOK /\ RowTypeOK /\ Typed' /\ RowTypeOK'
  BY TypeStep DEF Typed, TypeOK, RowTypeOK
<1>2. \/ RowsRest
      \/ \E w \in Workers : ReserveHttpAttempt(w) /\ \A r \in Revisions : RowStep(rev[r], rev'[r])
  <2>1. CASE OwnerNext
    BY <1>1, <2>1, OwnerRows
  <2>2. CASE QueueNext \/ ClockNext \/ SweeperNext
    BY <1>1, <2>2, OtherRows
  <2>3. ASSUME NEW w \in Workers, WorkerStep(w), ~ReserveHttpAttempt(w) PROVE RowsRest
    BY <1>1, <2>3, WorkerRows DEF WorkerStep
  <2>4. ASSUME NEW w \in Workers, ReserveHttpAttempt(w)
        PROVE  \A r \in Revisions : RowStep(rev[r], rev'[r])
    BY <1>1, <2>4, AttemptRows DEF RowsRest
  <2>5. CASE UNCHANGED vars
    BY <1>1, <2>5, UnchangedRows DEF vars, rowVars
  <2> QED
    BY <2>1, <2>2, <2>3, <2>4, <2>5, StepCases
<1>3. \A r \in Revisions : RowStep(rev[r], rev'[r])
  BY <1>2 DEF RowsRest
<1>4. RowsGood'
  BY <1>1, <1>3, RowsStep
<1>5. Surroundings
  BY <1>1, <1>3, EditionStep, TokenStep, LimitsStep DEF Surroundings
<1> QED
  BY <1>1, <1>2, <1>4, <1>5

LEMMA DeliveriesStep ==
    ASSUME CallInv, [Next]_vars
    PROVE  DeliveriesGood'
<1>1. /\ Typed /\ RowsGood /\ DeliveriesGood /\ Done /\ Surroundings /\ TypeOK'
      /\ RowsRest \/ \E w \in Workers : ReserveHttpAttempt(w)
  BY AllRows DEF CallInv, Typed
<1>2. ASSUME NEW w \in Workers, ReserveHttpAttempt(w) PROVE DeliveriesGood'
  BY <1>1, <1>2, AttemptGood
<1>3. CASE RowsRest
  <2>1. CASE OwnerNext
    <3>1. worker' = worker /\ images' = images /\ sent' = sent
      BY <2>1
      DEF OwnerNext, CreateQuote, Confirm, EditDetails, RemoveBook, StartGeneration,
          EndGeneration, RequestHardDeletion, OtherWrite, ReadPage, PublishEdit, EditFails
    <3> QED
      BY <1>1, <1>3, <3>1, WorldStep
  <2>2. CASE QueueNext \/ ClockNext \/ SweeperNext \/ UNCHANGED vars
    <3>1. worker' = worker /\ images' = images /\ sent' = sent
      BY <2>2
      DEF QueueNext, Dispatch, DispatchUnmarked, Stall,
          ClockNext, QuoteExpires, QueueWaitExpires, LeaseExpires, DeadlinePasses, Turns,
          SweeperNext, SelectRevision, Decide, RecoverRevision, SweepStops, vars
    <3> QED
      BY <1>1, <1>3, <3>1, WorldStep
  <2>3. ASSUME NEW w \in Workers, WorkerStep(w) PROVE DeliveriesGood'
    BY <1>1, <1>2, <1>3, <2>3, PickUpGood, ClaimIsGood, LoadGood, AdoptGood, SendGood,
       AnswerGood, SaveGood, GatewayGood, IdleGood
    DEF WorkerStep
  <2> QED
    BY <2>1, <2>2, <2>3, StepCases
<1> QED
  BY <1>1, <1>2, <1>3

LEMMA DoneStep ==
    ASSUME CallInv, [Next]_vars
    PROVE  Done'
<1>1. /\ TypeOK /\ TypeOK' /\ RowsGood /\ DeliveriesGood /\ Done /\ Surroundings
  BY AllRows DEF CallInv, Typed
<1>2. \A r \in Revisions : rev[r].dispatches > 0 => rev'[r].dispatches > 0
  <2>1. \A r \in Revisions : /\ rev[r].dispatches \in Nat /\ rev'[r].dispatches \in Nat
                             /\ rev'[r].dispatches >= rev[r].dispatches
    BY <1>1 DEF TypeOK, Rows, Surroundings, RowStep
  <2> QED
    BY <2>1
<1>3. CASE images' = images /\ sent' = sent
  BY <1>1, <1>2, <1>3 DEF Done, TypeOK
<1>4. ASSUME NEW w \in Workers, Send(w) PROVE Done'
  <2>1. At(w, "permit") /\ w \in Busy /\ images' = images
    BY <1>4 DEF Send, Busy, At
  <2>2. worker[w].rev \in Revisions /\ rev[worker[w].rev].dispatches > 0
    BY <1>1, <2>1, DeliveryNumbers DEF DeliveriesGood, Good, CallGood, Sending, At
  <2>3. \A x \in sent' : x.rev = worker[w].rev \/ x \in sent
    BY <1>4 DEF Send
  <2> QED
    BY <1>1, <1>2, <2>1, <2>2, <2>3 DEF Done, TypeOK
<1>5. ASSUME NEW w \in Workers, SaveImage(w) PROVE Done'
  <2> DEFINE d == worker[w]
             new == [rev |-> d.rev, at |-> d.key, by |-> d.fence]
  <2>1. At(w, "save") /\ w \in Busy /\ sent' = sent
    BY <1>5 DEF SaveImage, Busy, At
  <2>2. d.rev \in Revisions /\ rev[d.rev].dispatches > 0 /\ \A i \in images : i.rev # d.rev
    BY <1>1, <2>1, DeliveryNumbers DEF DeliveriesGood, Good, CallGood, Sending, At
  <2>3. \A i \in images' : i \in images \/ i = new
    BY <1>5 DEF SaveImage
  <2>4. \A i \in images' : i \in images \/ (i = new /\ i.rev = d.rev)
    BY <2>3
  <2> QED
    BY <1>1, <1>2, <2>1, <2>2, <2>4 DEF Done, TypeOK
<1>6. CASE ~\E w \in Workers : Send(w) \/ SaveImage(w)
  <2>1. sent' = sent
    BY <1>6, OnlySendSends
  <2>2. images' = images
    <3>1. CASE OwnerNext
      BY <3>1
      DEF OwnerNext, CreateQuote, Confirm, EditDetails, RemoveBook, StartGeneration,
          EndGeneration, RequestHardDeletion, OtherWrite, ReadPage, PublishEdit, EditFails
    <3>2. CASE QueueNext \/ ClockNext \/ SweeperNext \/ UNCHANGED vars
      BY <3>2
      DEF QueueNext, Dispatch, DispatchUnmarked, Stall,
          ClockNext, QuoteExpires, QueueWaitExpires, LeaseExpires, DeadlinePasses, Turns,
          SweeperNext, SelectRevision, Decide, RecoverRevision, SweepStops, vars
    <3>3. ASSUME NEW w \in Workers, WorkerStep(w) PROVE images' = images
      BY <1>6, <3>3
      DEF WorkerStep, PickUp, Claim, Load, Adopt, ReserveOperation, ReserveHttpAttempt, Answer,
          FinishOperation, Checkpoint, ConfirmStored, PublishRevision,
          PublicationFails, Fail, Resolve, WorkerCrash, Fenced, Refused
    <3> QED
      BY <3>1, <3>2, <3>3, StepCases
  <2> QED
    BY <1>3, <2>1, <2>2
<1> QED
  BY <1>4, <1>5, <1>6

LEMMA CallInit == Init => CallInv
<1> SUFFICES ASSUME Init PROVE CallInv
  OBVIOUS
<1>1. Typed
  BY TypeInit
<1>2. RowsGood
  BY DEF Init, RowsGood, RowGood, NoRow
<1>3. Busy = {}
  BY IdleType DEF Init, Busy
<1>4. DeliveriesGood
  BY <1>3 DEF DeliveriesGood
<1>5. Done
  BY DEF Init, Done
<1> QED
  BY <1>1, <1>2, <1>4, <1>5 DEF CallInv

LEMMA CallStep == CallInv /\ [Next]_vars => CallInv'
BY AllRows, DeliveriesStep, DoneStep DEF CallInv

\* Of the deliveries of a revision one calls the provider, and only that one.
THEOREM CallsGood == Spec => []CallInv
BY CallInit, CallStep, PTL DEF Spec

-----------------------------------------------------------------------------
(* No lost update *)

Replaces ==
    book'.edition # book.edition =>
       \/ book.activeRun
       \/ \E e \in Editors :
             /\ editor'[e] # editor[e]
             /\ ComposedFrom(editor[e].edition, editor[e].page, editor[e].version)
       \/ \E w \in Workers :
             /\ worker'[w] # worker[w]
             /\ ComposedFrom(worker[w].base, worker[w].row.page, worker[w].row.version)

LEMMA ReplacesStep ==
    ASSUME CallInv, [Next]_vars
    PROVE  Replaces
<1>1. TypeOK /\ RowTypeOK /\ WorkerTypeOK /\ OtherTypeOK /\ DeliveriesGood /\ book \in Books
  BY TypeParts DEF CallInv, Typed, RowTypeOK
<1>2. ASSUME NEW w \in Workers, PublishRevision(w) PROVE Replaces
  <2>1. w \in Busy /\ At(w, "publish")
    BY <1>2 DEF PublishRevision, Busy, At
  <2>2. BaseGood(w)
    BY <1>1, <2>1 DEF DeliveriesGood, Good
  <2>3. book.edition = worker[w].row.edition
    BY <1>2 DEF PublishRevision, SourceUnchanged
  <2>4. ComposedFrom(worker[w].base, worker[w].row.page, worker[w].row.version)
    BY <2>1, <2>2, <2>3 DEF BaseGood, ComposedFrom, At, HasRow
  <2>5. worker'[w].step = "resolve"
    <3>1. Leave(w, "resolve") /\ "resolve" \in DeliverySteps
      BY <1>2 DEF PublishRevision, DeliverySteps
    <3>2. worker'[w] = Left(w, "resolve")
      BY <1>1, <3>1, LeftType, BecomesType DEF Becomes, WorkerTypeOK
    <3> QED
      BY <3>2 DEF Left, Idle
  <2> QED
    BY <2>1, <2>4, <2>5 DEF Replaces, At
<1>3. ASSUME NEW e \in Editors, PublishEdit(e) PROVE Replaces
  <2>1. ComposedFrom(editor[e].edition, editor[e].page, editor[e].version)
    BY <1>3 DEF PublishEdit, EditStillCurrent, ComposedFrom
  <2>2. editor'[e] = NoEdit /\ editor[e].step = "rendering"
    BY <1>1, <1>3 DEF PublishEdit, OtherTypeOK
  <2> QED
    BY <2>1, <2>2 DEF Replaces, NoEdit
<1>4. ASSUME book'.edition = book.edition PROVE Replaces
  BY <1>4 DEF Replaces
<1>5. CASE OwnerNext
  <2>1. CASE EndGeneration
    BY <2>1 DEF EndGeneration, Replaces
  <2>2. CASE \/ \E r \in Revisions : (\E p \in Pages : CreateQuote(r, p)) \/ Confirm(r)
             \/ EditDetails \/ RemoveBook \/ StartGeneration \/ RequestHardDeletion
             \/ \E e \in Editors : (\E p \in Pages : ReadPage(e, p)) \/ EditFails(e)
    BY <1>1, <1>4, <2>2
    DEF CreateQuote, Confirm, EditDetails, RemoveBook, StartGeneration, RequestHardDeletion,
        ReadPage, EditFails, Books, rowVars
  <2> QED
    BY <1>3, <1>5, <2>1, <2>2 DEF OwnerNext
<1>6. CASE QueueNext \/ ClockNext \/ UNCHANGED vars
  BY <1>4, <1>6
  DEF QueueNext, Dispatch, DispatchUnmarked, Stall, rowVars, vars, ClockNext, QuoteExpires,
      QueueWaitExpires, LeaseExpires, DeadlinePasses, Turns
<1>7. CASE SweeperNext
  <2>1. ASSUME NEW s \in Sweepers, RecoverRevision(s) PROVE Replaces
    <3>1. sweeper[s].rev \in Revisions
      BY <1>1, <2>1 DEF RecoverRevision, OtherTypeOK
    <3> QED
      BY <1>1, <1>4, <2>1, <3>1, FailAndRefundBook DEF RecoverRevision, rowVars
  <2> QED
    BY <1>4, <1>7, <2>1 DEF SweeperNext, SelectRevision, Decide, SweepStops, rowVars
<1>8. ASSUME NEW w \in Workers, WorkerStep(w) PROVE Replaces
  <2>1. CASE Fail(w)
    <3>1. worker[w].rev \in Revisions
      BY <1>1, <2>1 DEF Fail, At, WorkerTypeOK
    <3> QED
      BY <1>1, <1>4, <2>1, <3>1, FailAndRefundBook DEF Fail, rowVars
  <2>2. CASE ~(Fail(w) \/ PublishRevision(w))
    BY <1>4, <1>8, <2>2
    DEF WorkerStep, PickUp, Claim, Load, Adopt, ReserveOperation, ReserveHttpAttempt, Send, Answer,
        FinishOperation, SaveImage, Checkpoint, ConfirmStored, PublicationFails, Resolve,
        WorkerCrash, Fenced, Refused, rowVars
  <2> QED
    BY <1>2, <2>1, <2>2
<1> QED
  BY <1>5, <1>6, <1>7, <1>8, StepCases

\* No lost update: a text edit's or an image revision's publication, prepared
\* without a lock, replaces the very edition and page version it started from.
THEOREM NoUpdateLost == Spec => NoLostUpdate
<1>1. CallInv /\ [Next]_vars => [Replaces]_vars
  BY ReplacesStep
<1> QED
  BY <1>1, CallsGood, PTL DEF Spec, NoLostUpdate, Replaces

-----------------------------------------------------------------------------
(* The reservation of the book *)

\* Outside the owner's requests statuses change by claiming, failing or publishing.
StatusKept ==
    \A r \in Revisions :
       /\ rev'[r].page = rev[r].page
       /\ \/ rev'[r].status = rev[r].status
          \/ rev[r].status \in Live /\ rev'[r].status = "running"

Quiet == UNCHANGED <<book, ledger, credits>> /\ StatusKept

LEMMA FencedStatus ==
    ASSUME RowTypeOK, NEW w \in Workers, worker[w].rev \in Revisions, NEW row \in Rows,
           Fenced(w, row), row.status = rev[worker[w].rev].status,
           row.page = rev[worker[w].rev].page
    PROVE  Quiet
<1> DEFINE r == worker[w].rev
<1>1. UNCHANGED <<book, ledger, credits>> /\ rev' = [rev EXCEPT ![r] = [row EXCEPT !.leaseLive = TRUE]]
  BY DEF Fenced
<1>2. \A q \in Revisions : rev'[q].status = rev[q].status /\ rev'[q].page = rev[q].page
  BY <1>1 DEF RowTypeOK, Rows
<1> QED
  BY <1>1, <1>2 DEF Quiet, StatusKept

LEMMA QuietWorker ==
    ASSUME TypeOK, NEW w \in Workers, WorkerStep(w), ~Fail(w), ~PublishRevision(w)
    PROVE  Quiet
<1> DEFINE d == worker[w]
           r == worker[w].rev
<1>1. RowTypeOK /\ WorkerTypeOK /\ d \in Deliveries
      /\ (d.step # "idle" => r \in Revisions /\ rev[r] \in Rows)
  BY TypeParts DEF WorkerTypeOK, RowTypeOK
<1>2. ASSUME UNCHANGED <<book, rev, ledger, credits>> PROVE Quiet
  BY <1>2 DEF Quiet, StatusKept
<1>3. ASSUME NEW row \in Rows, Fenced(w, row), d.step # "idle", row.status = rev[r].status,
             row.page = rev[r].page
      PROVE  Quiet
  BY <1>1, <1>3, FencedStatus
<1>4. /\ {d.key, d.by} \subseteq Nat /\ d.outcome \in OpStates
      /\ (d.step # "idle" => rev[r].dispatches + 1 \in Nat)
  <2>1. {d.key, d.by} \subseteq Nat /\ d.outcome \in OpStates
    BY <1>1, DeliveryFields
  <2> QED
    BY <1>1, <2>1 DEF Rows
<1>5. CASE ReserveOperation(w)
  <2> DEFINE row == [rev[r] EXCEPT !.key = d.key, !.op = "reserved_unsent"]
  <2>1. d.step # "idle" /\ (Fenced(w, row) \/ Refused(w))
    BY <1>5 DEF ReserveOperation, At
  <2>2. row \in Rows /\ row.status = rev[r].status /\ row.page = rev[r].page
    <3>1. row \in Rows
      BY <1>1, <1>4, <2>1, RowFields DEF OpStates
    <3>2. row.status = rev[r].status /\ row.page = rev[r].page
      BY <1>1, <2>1 DEF Rows
    <3> QED
      BY <3>1, <3>2
  <2> HIDE DEF row
  <2> QED
    BY <1>2, <1>3, <2>1, <2>2 DEF Refused, rowVars
<1>6. CASE ReserveHttpAttempt(w)
  <2> DEFINE row == [rev[r] EXCEPT !.key = d.key, !.op = "dispatch_intent",
                                   !.dispatches = rev[r].dispatches + 1]
  <2>1. d.step # "idle" /\ (Fenced(w, row) \/ Refused(w))
    BY <1>6 DEF ReserveHttpAttempt, At
  <2>2. row \in Rows
    BY <1>1, <1>4, <2>1, RowFields DEF OpStates
  <2>3. row.status = rev[r].status /\ row.page = rev[r].page
    BY <1>1, <2>1 DEF Rows
  <2> HIDE DEF row
  <2> QED
    BY <1>2, <1>3, <2>1, <2>2, <2>3 DEF Refused, rowVars
<1>7. CASE FinishOperation(w)
  <2> DEFINE row == [rev[r] EXCEPT !.op = d.outcome]
  <2>1. d.step # "idle" /\ (Fenced(w, row) \/ Refused(w))
    BY <1>7 DEF FinishOperation, At
  <2>2. row \in Rows /\ row.status = rev[r].status /\ row.page = rev[r].page
    <3>1. row \in Rows
      BY <1>1, <1>4, <2>1, RowFields
    <3>2. row.status = rev[r].status /\ row.page = rev[r].page
      BY <1>1, <2>1 DEF Rows
    <3> QED
      BY <3>1, <3>2
  <2> HIDE DEF row
  <2> QED
    BY <1>2, <1>3, <2>1, <2>2 DEF Refused, rowVars
<1>8. CASE Checkpoint(w)
  <2> DEFINE row == [rev[r] EXCEPT !.checkpointed = TRUE, !.key = d.key, !.manifest = d.by]
  <2>1. d.step # "idle" /\ (Fenced(w, row) \/ Refused(w))
    BY <1>8 DEF Checkpoint, At
  <2>2. row \in Rows
    BY <1>1, <1>4, <2>1, RowFields
  <2>3. row.status = rev[r].status /\ row.page = rev[r].page
    BY <1>1, <2>1 DEF Rows
  <2> HIDE DEF row
  <2> QED
    BY <1>2, <1>3, <2>1, <2>2, <2>3 DEF Refused, rowVars
<1>9. CASE ConfirmStored(w)
  <2> DEFINE row == [rev[r] EXCEPT !.op = "artifact_stored", !.checkpointed = TRUE]
  <2>1. d.step # "idle" /\ (Fenced(w, row) \/ Refused(w))
    BY <1>9 DEF ConfirmStored, At
  <2>2. row \in Rows
    BY <1>1, <2>1, RowFields DEF OpStates
  <2>3. row.status = rev[r].status /\ row.page = rev[r].page
    BY <1>1, <2>1 DEF Rows
  <2> HIDE DEF row
  <2> QED
    BY <1>2, <1>3, <2>1, <2>2, <2>3 DEF Refused, rowVars
<1>10. CASE Claim(w)
  <2>1. d.step # "idle" /\ UNCHANGED <<book, ledger, credits>>
    BY <1>10 DEF Claim, At
  <2>2. CASE rev' = rev
    BY <1>2, <2>1, <2>2
  <2>3. CASE rev[r].status \in Live
             /\ rev' = [rev EXCEPT ![r].status = "running", ![r].token = d.token,
                                   ![r].fence = @ + 1, ![r].leaseLive = TRUE]
    <3>1. \A q \in Revisions : /\ rev'[q].status = IF q = r THEN "running" ELSE rev[q].status
                               /\ rev'[q].page = rev[q].page
      BY <1>1, <2>1, <2>3 DEF RowTypeOK, Rows
    <3> QED
      BY <2>1, <2>3, <3>1 DEF Quiet, StatusKept
  <2> QED
    BY <1>10, <2>2, <2>3 DEF Claim, Claimable, Live
<1>11. CASE \/ \E q \in Revisions : PickUp(w, q)
            \/ Load(w) \/ Adopt(w) \/ Send(w) \/ Answer(w) \/ SaveImage(w)
            \/ PublicationFails(w) \/ Resolve(w) \/ WorkerCrash(w)
  BY <1>2, <1>11
  DEF PickUp, Load, Adopt, Send, Answer, SaveImage, PublicationFails, Refused, Resolve,
      WorkerCrash, rowVars
<1> QED
  BY <1>5, <1>6, <1>7, <1>8, <1>9, <1>10, <1>11 DEF WorkerStep

LEMMA QuietClock ==
    ASSUME TypeOK, ClockNext
    PROVE  Quiet
<1>1. PICK r \in Revisions :
         QuoteExpires(r) \/ QueueWaitExpires(r) \/ LeaseExpires(r) \/ DeadlinePasses(r)
  BY DEF ClockNext
<1>2. rev \in [Revisions -> Rows] /\ rev[r] \in Rows
  BY DEF TypeOK
<1>3. /\ UNCHANGED <<book, ledger, credits>>
      /\ \/ rev' = [rev EXCEPT ![r] = [rev[r] EXCEPT !.quoteExpired = TRUE]]
         \/ rev' = [rev EXCEPT ![r] = [rev[r] EXCEPT !.queueExpired = TRUE]]
         \/ rev' = [rev EXCEPT ![r] = [rev[r] EXCEPT !.leaseLive = FALSE]]
         \/ rev' = [rev EXCEPT ![r] = [rev[r] EXCEPT !.deadlinePassed = TRUE]]
  BY <1>1, <1>2
  DEF QuoteExpires, QueueWaitExpires, LeaseExpires, DeadlinePasses, Turns
<1>4. \A q \in Revisions : rev'[q].status = rev[q].status /\ rev'[q].page = rev[q].page
  BY <1>2, <1>3 DEF Rows
<1> QED
  BY <1>3, <1>4 DEF Quiet, StatusKept

LEMMA StatusCases ==
    ASSUME TypeOK, [Next]_vars
    PROVE  \/ OwnerNext \/ Quiet
           \/ \E r \in Revisions, f \in Nat : FailAndRefund(r, f)
           \/ \E w \in Workers : PublishRevision(w)
<1>1. WorkerTypeOK /\ OtherTypeOK
  BY TypeParts
<1>2. ASSUME UNCHANGED <<book, rev, ledger, credits>> PROVE Quiet
  BY <1>2 DEF Quiet, StatusKept
<1>3. CASE QueueNext \/ UNCHANGED vars
  BY <1>2, <1>3 DEF QueueNext, Dispatch, DispatchUnmarked, Stall, rowVars, vars
<1>4. CASE SweeperNext
  <2>1. ASSUME NEW s \in Sweepers, RecoverRevision(s)
        PROVE  Quiet \/ \E r \in Revisions, f \in Nat : FailAndRefund(r, f)
    <3>1. sweeper[s].rev \in Revisions /\ sweeper[s].fence \in Nat
      BY <1>1, <2>1 DEF RecoverRevision, OtherTypeOK, Sweeps
    <3> QED
      BY <1>2, <2>1, <3>1 DEF RecoverRevision, rowVars
  <2> QED
    BY <1>2, <1>4, <2>1 DEF SweeperNext, SelectRevision, Decide, SweepStops, rowVars
<1>5. ASSUME NEW w \in Workers, Fail(w)
      PROVE  Quiet \/ \E r \in Revisions, f \in Nat : FailAndRefund(r, f)
  <2>1. worker[w].rev \in Revisions /\ worker[w].fence \in Nat
    BY <1>1, <1>5 DEF Fail, At, WorkerTypeOK, Deliveries
  <2> QED
    BY <1>2, <1>5, <2>1 DEF Fail, rowVars
<1> QED
  BY <1>3, <1>4, <1>5, QuietWorker, QuietClock, StepCases

LEMMA FailAndRefundReservation ==
    ASSUME RowTypeOK, ReservationMatches, NEW r \in Revisions, NEW f, FailAndRefund(r, f)
    PROVE  ReservationMatches'
<1>1. CASE UNCHANGED rowVars
  BY <1>1 DEF ReservationMatches, rowVars
<1>2. CASE rev[r].status \in Live /\ rev' = [rev EXCEPT ![r].status = "failed"]
           /\ book.activeRevision = r
           /\ \E stamp \in Stamps :
                 book' = [book EXCEPT !.activeRevision = NoRevision, !.updatedAt = stamp]
  <2>1. book'.activeRevision = NoRevision
    BY <1>2 DEF RowTypeOK, Books
  <2>2. \A q \in Revisions : rev'[q].status = IF q = r THEN "failed" ELSE rev[q].status
    BY <1>2 DEF RowTypeOK, Rows
  <2> QED
    BY <1>2, <2>1, <2>2, PageRevisionAssumption DEF ReservationMatches, Live
<1>3. ASSUME rev[r].status \in Live PROVE book.activeRevision = r
  BY <1>3 DEF ReservationMatches
<1> QED
  BY <1>1, <1>2, <1>3 DEF FailAndRefund

LEMMA ReservationStep ==
    ASSUME TypeOK, ReservationMatches, [Next]_vars
    PROVE  ReservationMatches'
<1>1. RowTypeOK /\ WorkerTypeOK /\ book \in Books
  BY TypeParts DEF RowTypeOK
<1>2. ASSUME book'.activeRevision = book.activeRevision, book'.activeRun => book.activeRun,
             \A r \in Revisions : rev'[r].status \in Live <=> rev[r].status \in Live
      PROVE  ReservationMatches'
  BY <1>2 DEF ReservationMatches
<1>3. CASE OwnerNext
  <2>1. ASSUME NEW r \in Revisions, NEW p \in Pages, CreateQuote(r, p) PROVE ReservationMatches'
    <3>1. book' = book /\ rev[r].status = "none"
          /\ \A q \in Revisions : rev'[q].status = IF q = r THEN "quoted" ELSE rev[q].status
      BY <1>1, <2>1 DEF CreateQuote, RowTypeOK, Rows
    <3> QED
      BY <1>2, <3>1 DEF Live
  <2>2. ASSUME NEW r \in Revisions, Confirm(r) PROVE ReservationMatches'
    <3>1. /\ book'.activeRevision = r /\ book'.activeRun = book.activeRun /\ ~book.activeRun
          /\ book.activeRevision = NoRevision
          /\ \A q \in Revisions : rev'[q].status = IF q = r THEN "queued" ELSE rev[q].status
      BY <1>1, <2>2 DEF Confirm, MatchesSnapshot, RowTypeOK, Rows, Books
    <3> QED
      BY <3>1, PageRevisionAssumption DEF ReservationMatches, Live
  <2>3. CASE EditDetails \/ RemoveBook
    <3>1. rev' = rev /\ book'.activeRevision = book.activeRevision /\ book'.activeRun = book.activeRun
      BY <1>1, <2>3 DEF EditDetails, RemoveBook, Books
    <3> QED
      BY <1>2, <3>1
  <2>4. CASE StartGeneration
    <3>1. rev' = rev /\ book'.activeRevision = NoRevision /\ book.activeRevision = NoRevision
      BY <1>1, <2>4 DEF StartGeneration, Books
    <3> QED
      BY <3>1 DEF ReservationMatches
  <2>5. CASE EndGeneration
    <3>1. rev' = rev /\ book'.activeRevision = book.activeRevision /\ ~book'.activeRun
      BY <1>1, <2>5 DEF EndGeneration, Books
    <3> QED
      BY <1>2, <3>1
  <2>6. CASE RequestHardDeletion
    <3>1. book'.activeRevision = NoRevision
      BY <1>1, <2>6 DEF RequestHardDeletion, Books
    <3>2. ASSUME NEW r \in Revisions PROVE rev'[r].status \notin Live
      <4>1. CASE rev[r].status \in Live
        BY <1>1, <2>6, <4>1 DEF RequestHardDeletion, RowTypeOK, Rows, Live
      <4>2. CASE rev[r].status \notin Live
        BY <2>6, <4>2 DEF RequestHardDeletion
      <4> QED
        BY <4>1, <4>2
    <3> QED
      BY <3>1, <3>2, PageRevisionAssumption DEF ReservationMatches
  <2>7. ASSUME NEW e \in Editors, PublishEdit(e) PROVE ReservationMatches'
    <3>1. rev' = rev /\ book'.activeRevision = NoRevision /\ book.activeRevision = NoRevision
      BY <1>1, <2>7 DEF PublishEdit, EditStillCurrent, BookIdle, Publish, Books
    <3> QED
      BY <3>1 DEF ReservationMatches
  <2>8. CASE \E e \in Editors : (\E p \in Pages : ReadPage(e, p)) \/ EditFails(e)
    BY <1>2, <2>8 DEF ReadPage, EditFails, rowVars
  <2> QED
    BY <1>3, <2>1, <2>2, <2>3, <2>4, <2>5, <2>6, <2>7, <2>8 DEF OwnerNext
<1>4. ASSUME NEW w \in Workers, PublishRevision(w) PROVE ReservationMatches'
  <2> DEFINE r == worker[w].rev
  <2>1. r \in Revisions /\ book.activeRevision = r /\ book'.activeRevision = NoRevision
    BY <1>1, <1>4 DEF PublishRevision, SourceUnchanged, Publish, Books, At, WorkerTypeOK
  <2>2. \A q \in Revisions : rev'[q].status = IF q = r THEN "completed" ELSE rev[q].status
    BY <1>1, <1>4, <2>1 DEF PublishRevision, RowTypeOK, Rows
  <2> QED
    BY <2>1, <2>2, PageRevisionAssumption DEF ReservationMatches, Live
<1>5. CASE Quiet
  BY <1>2, <1>5 DEF Quiet, StatusKept, Live
<1> QED
  BY <1>1, <1>3, <1>4, <1>5, FailAndRefundReservation, StatusCases

-----------------------------------------------------------------------------
(* Credits *)

LEMMA UnionSize ==
    ASSUME NEW A, NEW B, IsFiniteSet(A), IsFiniteSet(B), A \cap B = {}
    PROVE  Cardinality(A \cup B) = Cardinality(A) + Cardinality(B)
<1>1. Cardinality(A \cup B) = Cardinality(A) + Cardinality(B) - Cardinality(A \cap B)
  BY FS_Union
<1>2. Cardinality(A \cap B) = 0
  BY FS_EmptySet
<1>3. Cardinality(A) \in Nat /\ Cardinality(B) \in Nat
  BY FS_CardinalityType
<1> QED
  BY <1>1, <1>2, <1>3

LEMMA RefundEntries ==
    ASSUME NEW S, IsFiniteSet(S)
    PROVE  /\ IsFiniteSet([kind: {"refund"}, rev: S])
           /\ Cardinality([kind: {"refund"}, rev: S]) = Cardinality(S)
<1> DEFINE T == [kind: {"refund"}, rev: S]
           f == [s \in S |-> [kind |-> "refund", rev |-> s]]
<1>1. f \in [S -> T] /\ \A t \in T : t.rev \in S /\ f[t.rev] = t
  OBVIOUS
<1>2. \A a, b \in S : f[a] = f[b] => a = b
  OBVIOUS
<1> HIDE DEF f, T
<1>3. f \in Surjection(S, T)
  BY <1>1 DEF Surjection
<1>4. f \in Injection(S, T)
  BY <1>1, <1>2 DEF Injection, IsInjective
<1>5. IsFiniteSet(T) /\ Cardinality(T) = Cardinality(S)
  BY <1>3, <1>4, FS_Surjection
<1> QED
  BY <1>5 DEF T

Charges(l) == {x \in l : x.kind = "charge"}
Refunds(l) == {x \in l : x.kind = "refund"}
ChargeOf(r) == [kind |-> "charge", rev |-> r]
RefundOf(r) == [kind |-> "refund", rev |-> r]

CreditInv == RefundOnFailure /\ IsFiniteSet(ledger)

LEMMA CreditKept ==
    ASSUME CreditInv, UNCHANGED <<ledger, credits>>,
           \A r \in Revisions :
              \/ rev'[r].status = rev[r].status
              \/ rev[r].status \in {"none", "quoted"} /\ rev'[r].status \in {"none", "quoted"}
              \/ rev[r].status \in Live /\ rev'[r].status \in Live \cup {"completed"}
    PROVE  CreditInv'
BY DEF CreditInv, RefundOnFailure, Live

LEMMA RefundStep ==
    ASSUME RowTypeOK, CreditInv, NEW rs \in SUBSET Revisions,
           \A r \in rs : rev[r].status \in Live,
           Refund(rs),
           \A r \in Revisions : rev'[r].status = IF r \in rs THEN "failed" ELSE rev[r].status
    PROVE  CreditInv'
<1> DEFINE T == [kind: {"refund"}, rev: rs]
<1>1. {r \in rs : [kind |-> "charge", rev |-> r] \in ledger} = rs
  BY DEF CreditInv, RefundOnFailure, Live
<1>2. ledger' = ledger \cup T /\ credits' = credits + Cardinality(rs)
  BY <1>1 DEF Refund
<1>3. \A r : (ChargeOf(r) \in ledger' <=> ChargeOf(r) \in ledger)
             /\ (RefundOf(r) \in ledger' <=> RefundOf(r) \in ledger \/ r \in rs)
  BY <1>2 DEF ChargeOf, RefundOf
<1>4. \A r \in Revisions :
         /\ ChargeOf(r) \in ledger' <=> rev'[r].status \notin {"none", "quoted"}
         /\ RefundOf(r) \in ledger' <=> rev'[r].status = "failed"
  BY <1>3 DEF CreditInv, RefundOnFailure, ChargeOf, RefundOf, Live
<1>5. IsFiniteSet(rs) /\ IsFiniteSet(T) /\ Cardinality(T) = Cardinality(rs)
  BY FS_Subset, RefundEntries, PageRevisionAssumption
<1>6. IsFiniteSet(ledger')
  BY <1>2, <1>5, FS_Union DEF CreditInv
<1>7. T \cap ledger = {}
  <2>1. ASSUME NEW t \in T, t \in ledger PROVE FALSE
    <3>1. t = RefundOf(t.rev) /\ t.rev \in rs
      BY <2>1 DEF RefundOf
    <3> QED
      BY <2>1, <3>1 DEF CreditInv, RefundOnFailure, RefundOf, Live
  <2> QED
    BY <2>1
<1>8. Charges(ledger') = Charges(ledger) /\ Refunds(ledger') = Refunds(ledger) \cup T
  <2>1. \A t \in T : t.kind = "refund"
    OBVIOUS
  <2> HIDE DEF T
  <2> QED
    BY <1>2, <2>1 DEF Charges, Refunds
<1>9. /\ IsFiniteSet(Refunds(ledger)) /\ Cardinality(Refunds(ledger)) \in Nat
      /\ IsFiniteSet(Charges(ledger)) /\ Cardinality(Charges(ledger)) \in Nat
  BY FS_Subset, FS_CardinalityType DEF CreditInv, Refunds, Charges
<1>10. Refunds(ledger) \cap T = {}
  BY <1>7 DEF Refunds
<1> HIDE DEF T
<1>11. Cardinality(Refunds(ledger) \cup T) = Cardinality(Refunds(ledger)) + Cardinality(T)
  BY <1>5, <1>9, <1>10, UnionSize
<1>12. credits = InitialCredits - Cardinality(Charges(ledger)) + Cardinality(Refunds(ledger))
  BY DEF CreditInv, RefundOnFailure, Charges, Refunds
<1>13. credits' = InitialCredits - Cardinality(Charges(ledger')) + Cardinality(Refunds(ledger'))
  <2>1. Cardinality(T) \in Nat /\ InitialCredits \in Nat
    BY <1>5, FS_CardinalityType, PageRevisionAssumption
  <2>2. Cardinality(Refunds(ledger')) = Cardinality(Refunds(ledger)) + Cardinality(T)
    BY <1>8, <1>11
  <2>3. Cardinality(Charges(ledger')) = Cardinality(Charges(ledger))
    BY <1>8
  <2>4. credits' = credits + Cardinality(T)
    BY <1>2, <1>5
  <2> DEFINE a == Cardinality(Charges(ledger))
             b == Cardinality(Refunds(ledger))
             c == Cardinality(T)
  <2>5. a \in Nat /\ b \in Nat /\ c \in Nat
    BY <1>9, <2>1
  <2>6. credits = InitialCredits - a + b /\ credits' = credits + c
    BY <1>12, <2>4
  <2>7. credits' = InitialCredits - a + (b + c)
    <3> HIDE DEF a, b, c
    <3> QED
      BY <2>1, <2>5, <2>6
  <2> QED
    BY <2>2, <2>3, <2>7
<1> QED
  BY <1>4, <1>6, <1>13 DEF CreditInv, RefundOnFailure, ChargeOf, RefundOf, Charges, Refunds

LEMMA ChargeStep ==
    ASSUME RowTypeOK, CreditInv, NEW r \in Revisions, Confirm(r)
    PROVE  CreditInv'
<1>1. /\ ledger' = ledger \cup {ChargeOf(r)} /\ credits' = credits - 1
      /\ rev[r].status = "quoted"
      /\ \A q \in Revisions : rev'[q].status = IF q = r THEN "queued" ELSE rev[q].status
  BY DEF Confirm, RowTypeOK, Rows, ChargeOf
<1>2. ChargeOf(r) \notin ledger
  BY <1>1 DEF CreditInv, RefundOnFailure, ChargeOf
<1>3. \A q \in Revisions :
         /\ ChargeOf(q) \in ledger' <=> rev'[q].status \notin {"none", "quoted"}
         /\ RefundOf(q) \in ledger' <=> rev'[q].status = "failed"
  <2>1. \A q \in Revisions :
           /\ ChargeOf(q) \in ledger' <=> ChargeOf(q) \in ledger \/ q = r
           /\ RefundOf(q) \in ledger' <=> RefundOf(q) \in ledger
    BY <1>1 DEF ChargeOf, RefundOf
  <2> QED
    BY <1>1, <2>1 DEF CreditInv, RefundOnFailure, ChargeOf, RefundOf
<1>4. IsFiniteSet(ledger')
  BY <1>1, FS_AddElement DEF CreditInv
<1>5. Charges(ledger') = Charges(ledger) \cup {ChargeOf(r)} /\ Refunds(ledger') = Refunds(ledger)
  BY <1>1 DEF Charges, Refunds, ChargeOf
<1>6. /\ Cardinality(Refunds(ledger)) \in Nat
      /\ IsFiniteSet(Charges(ledger)) /\ Cardinality(Charges(ledger)) \in Nat
  BY FS_Subset, FS_CardinalityType DEF CreditInv, Refunds, Charges
<1>7. Cardinality(Charges(ledger) \cup {ChargeOf(r)}) = Cardinality(Charges(ledger)) + 1
  <2>1. ChargeOf(r) \notin Charges(ledger)
    BY <1>2 DEF Charges
  <2> QED
    BY <1>6, <2>1, FS_AddElement
<1>8. credits = InitialCredits - Cardinality(Charges(ledger)) + Cardinality(Refunds(ledger))
  BY DEF CreditInv, RefundOnFailure, Charges, Refunds
<1>9. credits' = InitialCredits - Cardinality(Charges(ledger')) + Cardinality(Refunds(ledger'))
  <2> DEFINE a == Cardinality(Charges(ledger))
             b == Cardinality(Refunds(ledger))
  <2>1. a \in Nat /\ b \in Nat /\ InitialCredits \in Nat
    BY <1>6, PageRevisionAssumption
  <2>2. credits = InitialCredits - a + b /\ credits' = credits - 1
    BY <1>1, <1>8
  <2>3. credits' = InitialCredits - (a + 1) + b
    <3> HIDE DEF a, b
    <3> QED
      BY <2>1, <2>2
  <2> QED
    BY <1>5, <1>7, <2>3
<1> QED
  BY <1>3, <1>4, <1>9 DEF CreditInv, RefundOnFailure, ChargeOf, RefundOf, Charges, Refunds

LEMMA CreditStep ==
    ASSUME TypeOK, CreditInv, [Next]_vars
    PROVE  CreditInv'
<1>1. RowTypeOK /\ WorkerTypeOK
  BY TypeParts
<1>2. CASE OwnerNext
  <2>1. ASSUME NEW r \in Revisions, NEW p \in Pages, CreateQuote(r, p) PROVE CreditInv'
    <3>1. /\ UNCHANGED <<ledger, credits>> /\ rev[r].status = "none"
          /\ \A q \in Revisions : rev'[q].status = IF q = r THEN "quoted" ELSE rev[q].status
      BY <1>1, <2>1 DEF CreateQuote, RowTypeOK, Rows
    <3> QED
      BY <3>1, CreditKept
  <2>2. CASE RequestHardDeletion
    <3> DEFINE live == {r \in Revisions : rev[r].status \in Live}
    <3>1. Refund(live)
      BY <2>2 DEF RequestHardDeletion
    <3>2. ASSUME NEW r \in Revisions
          PROVE  rev'[r].status = IF r \in live THEN "failed" ELSE rev[r].status
      <4>1. rev[r] \in Rows
        BY <1>1 DEF RowTypeOK
      <4>2. CASE rev[r].status \in Live
        BY <2>2, <4>1, <4>2 DEF RequestHardDeletion, Rows
      <4>3. CASE rev[r].status \notin Live
        BY <2>2, <4>3 DEF RequestHardDeletion
      <4> QED
        BY <4>2, <4>3
    <3>3. live \in SUBSET Revisions /\ \A r \in live : rev[r].status \in Live
      OBVIOUS
    <3> HIDE DEF live
    <3> QED
      BY <1>1, <3>1, <3>2, <3>3, RefundStep
  <2>3. CASE \/ EditDetails \/ RemoveBook \/ StartGeneration \/ EndGeneration
             \/ \E e \in Editors : (\E p \in Pages : ReadPage(e, p)) \/ PublishEdit(e) \/ EditFails(e)
    <3>1. UNCHANGED <<rev, ledger, credits>>
      BY <2>3 DEF EditDetails, RemoveBook, StartGeneration, EndGeneration, ReadPage,
                  PublishEdit, EditFails, rowVars
    <3> QED
      BY <3>1, CreditKept
  <2> QED
    BY <1>1, <1>2, <2>1, <2>2, <2>3, ChargeStep DEF OwnerNext
<1>3. CASE Quiet
  BY <1>3, CreditKept DEF Quiet, StatusKept, Live
<1>4. ASSUME NEW r \in Revisions, NEW f \in Nat, FailAndRefund(r, f) PROVE CreditInv'
  <2>1. CASE UNCHANGED rowVars
    BY <2>1, CreditKept DEF rowVars
  <2>2. CASE /\ rev[r].status \in Live /\ rev' = [rev EXCEPT ![r].status = "failed"]
             /\ Refund({r})
    <3>1. \A q \in Revisions : rev'[q].status = IF q \in {r} THEN "failed" ELSE rev[q].status
      BY <1>1, <2>2 DEF RowTypeOK, Rows
    <3> QED
      BY <1>1, <2>2, <3>1, RefundStep
  <2> QED
    BY <1>4, <2>1, <2>2 DEF FailAndRefund
<1>5. ASSUME NEW w \in Workers, PublishRevision(w) PROVE CreditInv'
  <2> DEFINE r == worker[w].rev
  <2>1. r \in Revisions /\ rev[r].status = "running" /\ UNCHANGED <<ledger, credits>>
    BY <1>1, <1>5 DEF PublishRevision, Owns, At, WorkerTypeOK
  <2>2. \A q \in Revisions : rev'[q].status = IF q = r THEN "completed" ELSE rev[q].status
    BY <1>1, <1>5, <2>1 DEF PublishRevision, RowTypeOK, Rows
  <2> QED
    BY <2>1, <2>2, CreditKept DEF Live
<1> QED
  BY <1>2, <1>3, <1>4, <1>5, StatusCases

-----------------------------------------------------------------------------
(* The images the pages show *)

LEMMA EndedStay ==
    ASSUME TypeOK, [Next]_vars, NEW r \in Revisions, rev[r].status \in {"completed", "failed"}
    PROVE  rev'[r].status = rev[r].status
<1>1. RowTypeOK /\ WorkerTypeOK
  BY TypeParts
<1>2. CASE OwnerNext
  <2>1. ASSUME NEW q \in Revisions, NEW p \in Pages, CreateQuote(q, p)
        PROVE  rev'[r].status = rev[r].status
    BY <1>1, <2>1 DEF CreateQuote, RowTypeOK
  <2>2. ASSUME NEW q \in Revisions, Confirm(q) PROVE rev'[r].status = rev[r].status
    BY <1>1, <2>2 DEF Confirm, RowTypeOK
  <2>3. CASE RequestHardDeletion
    BY <2>3 DEF RequestHardDeletion, Live
  <2> QED
    BY <1>2, <2>1, <2>2, <2>3
    DEF OwnerNext, EditDetails, RemoveBook, StartGeneration, EndGeneration, ReadPage,
        PublishEdit, EditFails, rowVars
<1>3. CASE Quiet
  BY <1>3 DEF Quiet, StatusKept, Live
<1>4. ASSUME NEW q \in Revisions, NEW f \in Nat, FailAndRefund(q, f)
      PROVE  rev'[r].status = rev[r].status
  BY <1>1, <1>4 DEF FailAndRefund, RowTypeOK, rowVars, Live
<1>5. ASSUME NEW w \in Workers, PublishRevision(w) PROVE rev'[r].status = rev[r].status
  BY <1>1, <1>5 DEF PublishRevision, Owns, RowTypeOK
<1> QED
  BY <1>2, <1>3, <1>4, <1>5, StatusCases

LEMMA ImagesStay == ASSUME CallInv, [Next]_vars PROVE images \subseteq images'
<1>1. ASSUME NEW w \in Workers, SaveImage(w) PROVE images \subseteq images'
  <2>1. w \in Busy /\ Sending(w)
    BY <1>1 DEF SaveImage, At, Busy, Sending
  <2>2. \A i \in images : i.rev # worker[w].rev
    BY <2>1 DEF CallInv, DeliveriesGood, Good, CallGood
  <2> QED
    BY <1>1, <2>2 DEF SaveImage
<1>2. CASE OwnerNext
  BY <1>2
  DEF OwnerNext, CreateQuote, Confirm, EditDetails, RemoveBook, StartGeneration,
      EndGeneration, RequestHardDeletion, OtherWrite, ReadPage, PublishEdit, EditFails
<1>3. CASE QueueNext \/ ClockNext \/ SweeperNext \/ UNCHANGED vars
  BY <1>3
  DEF QueueNext, Dispatch, DispatchUnmarked, Stall,
      ClockNext, QuoteExpires, QueueWaitExpires, LeaseExpires, DeadlinePasses, Turns,
      SweeperNext, SelectRevision, Decide, RecoverRevision, SweepStops, vars
<1>4. ASSUME NEW w \in Workers, WorkerStep(w), ~SaveImage(w) PROVE images' = images
  BY <1>4
  DEF WorkerStep, PickUp, Claim, Load, Adopt, ReserveOperation, ReserveHttpAttempt, Send, Answer,
      FinishOperation, Checkpoint, ConfirmStored, PublishRevision,
      PublicationFails, Fail, Resolve, WorkerCrash, Fenced, Refused
<1> QED
  BY <1>1, <1>2, <1>3, <1>4, StepCases

\* What a publication of a revision puts on the page.
PaintedBy(w) == [rev |-> worker[w].rev, at |-> worker[w].key, by |-> worker[w].by]

LEMMA ImageCases ==
    ASSUME TypeOK, [Next]_vars
    PROVE  \/ book'.image = book.image
           \/ \A p \in Pages : book'.image[p] = NoImage
           \/ \E w \in Workers :
                 /\ PublishRevision(w)
                 /\ \A p \in Pages : \/ book'.image[p] = book.image[p]
                                     \/ p = worker[w].row.page /\ book'.image[p] = PaintedBy(w)
<1>1. RowTypeOK /\ WorkerTypeOK /\ OtherTypeOK /\ book \in Books
  BY TypeParts DEF RowTypeOK
<1>2. CASE OwnerNext
  <2>1. CASE EndGeneration
    <3> DEFINE top == Max({book.version[p] : p \in Pages})
    <3>1. PICK stamp \in Stamps :
             \/ book' = [book EXCEPT !.activeRun = FALSE, !.status = "complete",
                                     !.updatedAt = stamp, !.edition = @ + 1,
                                     !.version = [p \in Pages |-> top + 1],
                                     !.image = [p \in Pages |-> NoImage]]
             \/ book' = [book EXCEPT !.activeRun = FALSE, !.status = "failed",
                                     !.updatedAt = stamp]
      BY <2>1 DEF EndGeneration
    <3> HIDE DEF top
    <3>2. book'.image = [p \in Pages |-> NoImage] \/ book'.image = book.image
      BY <1>1, <3>1 DEF Books
    <3> QED
      BY <3>2
  <2>2. ASSUME NEW e \in Editors, PublishEdit(e) PROVE book'.image = book.image
    <3>1. book.image \in [Pages -> Keys] /\ editor[e].page \in Pages
      BY <1>1 DEF Books, OtherTypeOK, Edits
    <3>2. book'.image = [book.image EXCEPT ![editor[e].page] = book.image[editor[e].page]]
      BY <1>1, <2>2 DEF PublishEdit, Publish, Books
    <3> QED
      BY <3>1, <3>2
  <2>3. CASE \/ \E r \in Revisions : (\E p \in Pages : CreateQuote(r, p)) \/ Confirm(r)
             \/ EditDetails \/ RemoveBook \/ StartGeneration \/ RequestHardDeletion
             \/ \E e \in Editors : (\E p \in Pages : ReadPage(e, p)) \/ EditFails(e)
    BY <1>1, <2>3
    DEF CreateQuote, Confirm, EditDetails, RemoveBook, StartGeneration, RequestHardDeletion,
        ReadPage, EditFails, Books, rowVars
  <2> QED
    BY <1>2, <2>1, <2>2, <2>3 DEF OwnerNext
<1>3. CASE Quiet
  BY <1>3 DEF Quiet
<1>4. ASSUME NEW q \in Revisions, NEW f \in Nat, FailAndRefund(q, f)
      PROVE  book'.image = book.image
  BY <1>1, <1>4, FailAndRefundBook
<1>5. ASSUME NEW w \in Workers, PublishRevision(w)
      PROVE  \A p \in Pages : \/ book'.image[p] = book.image[p]
                              \/ p = worker[w].row.page /\ book'.image[p] = PaintedBy(w)
  <2>1. book'.image = [book.image EXCEPT ![worker[w].row.page] = PaintedBy(w)]
    BY <1>1, <1>5 DEF PublishRevision, Publish, Books, PaintedBy
  <2>2. book.image \in [Pages -> Keys]
    BY <1>1 DEF Books
  <2> QED
    BY <2>1, <2>2
<1> QED
  BY <1>2, <1>3, <1>4, <1>5, StatusCases

\* One image per revision: what is shown is there, or has been painted over.
LEMMA ShownMeans ==
    ASSUME Done
    PROVE  ShownImagePaidAndStored <=>
              \A p \in Pages : book.image[p] # NoImage =>
                 /\ book.image[p] \in images
                 /\ rev[book.image[p].rev].status = "completed"
                 /\ rev[book.image[p].rev].page = p
<1>1. ASSUME NEW i
      PROVE  {x \in images : x.rev = i.rev /\ x.at = i.at} = {i} <=> i \in images
  <2>1. ASSUME i \in images PROVE {x \in images : x.rev = i.rev /\ x.at = i.at} = {i}
    BY <2>1 DEF Done
  <2>2. ASSUME {x \in images : x.rev = i.rev /\ x.at = i.at} = {i} PROVE i \in images
    BY <2>2
  <2> QED
    BY <2>1, <2>2
<1> QED
  BY <1>1 DEF ShownImagePaidAndStored

LEMMA ShownStep ==
    ASSUME CallInv, ShownImagePaidAndStored, [Next]_vars
    PROVE  ShownImagePaidAndStored'
<1>1. /\ TypeOK /\ RowTypeOK /\ WorkerTypeOK /\ DeliveriesGood /\ Done /\ Done' /\ Surroundings
      /\ images \subseteq images'
  BY DoneStep, AllRows, ImagesStay, TypeParts DEF CallInv, Typed
<1>2. ASSUME NEW p \in Pages, book'.image[p] # NoImage
      PROVE  /\ book'.image[p] \in images'
             /\ rev'[book'.image[p].rev].status = "completed"
             /\ rev'[book'.image[p].rev].page = p
  <2>1. CASE book'.image[p] = book.image[p]
    <3> DEFINE i == book.image[p]
    <3>1. i \in images /\ rev[i.rev].status = "completed" /\ rev[i.rev].page = p
      BY <1>1, <1>2, <2>1, ShownMeans
    <3>2. i.rev \in Revisions
      BY <1>1, <3>1 DEF Done
    <3>3. rev'[i.rev].status = "completed"
      BY <1>1, <3>1, <3>2, EndedStay
    <3>4. rev'[i.rev].page = p
      BY <1>1, <3>1, <3>2 DEF Surroundings, RowStep
    <3> QED
      BY <1>1, <2>1, <3>1, <3>3, <3>4
  <2>2. ASSUME NEW w \in Workers, PublishRevision(w), p = worker[w].row.page,
               book'.image[p] = PaintedBy(w)
        PROVE  /\ book'.image[p] \in images'
               /\ rev'[book'.image[p].rev].status = "completed"
               /\ rev'[book'.image[p].rev].page = p
    <3>1. w \in Busy /\ At(w, "publish") /\ worker[w].rev \in Revisions
      BY <1>1, <2>2 DEF PublishRevision, Busy, At, WorkerTypeOK
    <3>2. PaintedBy(w) \in images /\ worker[w].row.page = rev[worker[w].rev].page
      BY <1>1, <3>1 DEF DeliveriesGood, Good, ImageGood, BaseGood, Holding, HasRow, At, PaintedBy
    <3>3. rev'[worker[w].rev] = [rev[worker[w].rev] EXCEPT !.status = "completed"]
      BY <1>1, <2>2, <3>1 DEF PublishRevision, RowTypeOK
    <3>4. /\ rev'[worker[w].rev].status = "completed"
          /\ rev'[worker[w].rev].page = rev[worker[w].rev].page
      BY <1>1, <3>1, <3>3 DEF RowTypeOK, Rows
    <3>5. PaintedBy(w).rev = worker[w].rev
      BY DEF PaintedBy
    <3> QED
      BY <1>1, <2>2, <3>2, <3>4, <3>5
  <2> QED
    BY <1>1, <1>2, <2>1, <2>2, ImageCases
<1>3. Done' => (ShownImagePaidAndStored' <=>
                  \A p \in Pages : book'.image[p] # NoImage =>
                     /\ book'.image[p] \in images'
                     /\ rev'[book'.image[p].rev].status = "completed"
                     /\ rev'[book'.image[p].rev].page = p)
  <2>1. \A i : Done' => ({x \in images' : x.rev = i.rev /\ x.at = i.at} = {i} <=> i \in images')
    <3> TAKE i
    <3>1. ASSUME Done', i \in images' PROVE {x \in images' : x.rev = i.rev /\ x.at = i.at} = {i}
      BY <3>1 DEF Done
    <3>2. ASSUME {x \in images' : x.rev = i.rev /\ x.at = i.at} = {i} PROVE i \in images'
      BY <3>2
    <3> QED
      BY <3>1, <3>2
  <2> QED
    BY <2>1 DEF ShownImagePaidAndStored
<1> QED
  BY <1>1, <1>2, <1>3

-----------------------------------------------------------------------------
(* Rows, reservation, credits and pages agree *)

BooksInv == CallInv /\ ReservationMatches /\ CreditInv /\ ShownImagePaidAndStored

LEMMA BooksInit == Init => BooksInv
<1> SUFFICES ASSUME Init PROVE BooksInv
  OBVIOUS
<1>1. \A r \in Revisions : rev[r].status = "none"
  BY DEF Init, NoRow
<1>2. ReservationMatches
  BY <1>1, PageRevisionAssumption DEF Init, ReservationMatches, Live
<1>3. CreditInv
  <2>1. {x \in ledger : x.kind = "charge"} = {} /\ {x \in ledger : x.kind = "refund"} = {}
    BY DEF Init
  <2>2. Cardinality({}) = 0 /\ IsFiniteSet(ledger)
    BY FS_EmptySet DEF Init
  <2>3. credits = InitialCredits /\ InitialCredits \in Nat
    BY PageRevisionAssumption DEF Init
  <2>4. credits = InitialCredits - Cardinality({x \in ledger : x.kind = "charge"})
                    + Cardinality({x \in ledger : x.kind = "refund"})
    BY <2>1, <2>2, <2>3
  <2> QED
    BY <1>1, <2>2, <2>4 DEF Init, CreditInv, RefundOnFailure
<1>4. ShownImagePaidAndStored
  BY DEF Init, ShownImagePaidAndStored
<1> QED
  BY <1>2, <1>3, <1>4, CallInit DEF BooksInv

LEMMA BooksStep == BooksInv /\ [Next]_vars => BooksInv'
BY CallStep, ReservationStep, CreditStep, ShownStep DEF BooksInv, CallInv, Typed

LEMMA BooksKept == Spec => []BooksInv
BY BooksInit, BooksStep, PTL DEF Spec

\* A revision is queued or running exactly while the book is reserved for it;
\* a credit is taken by confirming and given back by failing, once each, however
\* deliveries, sweeps, deletions and publications race; and a page shows only an
\* image that is stored as it was published, of a revision that was completed.
THEOREM RevisionBooks == Spec => []RevisionBooksAgree
<1>1. BooksInv => RevisionBooksAgree
  BY DEF BooksInv, CallInv, Typed, CreditInv, RevisionBooksAgree
<1> QED
  BY <1>1, BooksKept, PTL

-----------------------------------------------------------------------------
(* One logical call *)

OneCaller == \A a, b \in sent : a.rev = b.rev => a.fence = b.fence
WithinQuote == \A r \in Revisions : Cardinality(Requests(sent, r)) <= AuthorizedDispatches

OneCallInv == BooksInv /\ OneCaller /\ WithinQuote

\* A delivery's last request is still one of those its quote covers.
LEMMA QuoteCovers ==
    ASSUME NEW L \in Nat, NEW T \in Nat, NEW retries \in Nat, NEW limited \in Nat, NEW n \in Nat,
           limited <= L, retries <= T, n <= (1 + L) * retries + limited
    PROVE  n + 1 <= (1 + L) * (1 + T)
<1>1. PICK k \in Nat : T = retries + k
  <2>1. T - retries \in Nat /\ T = retries + (T - retries)
    OBVIOUS
  <2> QED
    BY <2>1
<1>2. (1 + L) * T = (1 + L) * retries + (1 + L) * k
  BY <1>1
<1>3. (1 + L) * k \in Nat /\ (1 + L) * retries \in Nat /\ (1 + L) * T \in Nat
  BY <1>1
<1>4. (1 + L) * (1 + T) = (1 + L) * T + 1 + L
  OBVIOUS
<1> DEFINE a == (1 + L) * retries
           b == (1 + L) * k
           c == (1 + L) * T
<1>5. a \in Nat /\ b \in Nat /\ c \in Nat /\ c = a + b /\ n <= a + limited
      /\ (1 + L) * (1 + T) = c + 1 + L
  BY <1>2, <1>3, <1>4
<1>6. n + 1 <= c + 1 + L
  <2> HIDE DEF a, b, c
  <2> QED
    BY <1>5
<1> QED
  BY <1>5, <1>6

LEMMA OneCallStep ==
    ASSUME OneCallInv, [Next]_vars
    PROVE  OneCallInv'
<1>1. /\ Typed /\ TypeOK /\ DeliveriesGood /\ Surroundings /\ BooksInv'
  BY BooksStep, AllRows DEF OneCallInv, BooksInv, CallInv, Typed
<1>2. AuthorizedDispatches' = AuthorizedDispatches
  BY <1>1 DEF Surroundings, LimitsStay, AuthorizedDispatches
<1>3. CASE sent' = sent
  BY <1>1, <1>2, <1>3 DEF OneCallInv, OneCaller, WithinQuote
<1>4. ASSUME NEW w \in Workers, Send(w) PROVE OneCaller' /\ WithinQuote'
  <2> DEFINE d == worker[w]
             x == [rev |-> d.rev, fence |-> d.fence, n |-> Cardinality(sent)]
  <2>1. At(w, "permit") /\ w \in Busy /\ Sending(w) /\ sent' = sent \cup {x}
    BY <1>4 DEF Send, At, Busy, Sending
  <2>2. /\ \A y \in sent : y.rev = d.rev => y.fence = d.fence
        /\ Cardinality(Requests(sent, d.rev)) <= (1 + left.limiterRetries) * d.retries + d.limited
        /\ d.limited <= left.limiterRetries /\ d.retries <= left.transportRetries
    <3>1. /\ \A y \in Requests(sent, d.rev) : y.fence = d.fence
          /\ Cardinality(Requests(sent, d.rev)) <= Made(d)
          /\ d.limited <= left.limiterRetries /\ d.retries <= left.transportRetries
      BY <1>1, <2>1 DEF DeliveriesGood, Good, CallGood, ClaimGood
    <3>2. (1 + left.limiterRetries) * d.retries \in Int /\ d.limited \in Nat
      BY <1>1, <2>1, DeliveryNumbers DEF TypeOK, Scenario
    <3>3. Made(d) = (1 + left.limiterRetries) * d.retries + d.limited + 0
      BY <2>1 DEF Made, At
    <3>4. Made(d) = (1 + left.limiterRetries) * d.retries + d.limited
      BY <3>2, <3>3
    <3> QED
      BY <3>1, <3>4 DEF Requests
  <2>3. OneCaller'
    <3>1. \A a, b \in sent \cup {x} : a.rev = b.rev => a.fence = b.fence
      BY <2>2 DEF OneCallInv, OneCaller
    <3> QED
      BY <2>1, <3>1 DEF OneCaller
  <2>4. ASSUME NEW r \in Revisions
        PROVE  Cardinality(Requests(sent', r)) <= AuthorizedDispatches
    <3>1. CASE r # d.rev
      <4>1. Requests(sent', r) = Requests(sent, r)
        BY <2>1, <3>1 DEF Requests
      <4> QED
        BY <4>1 DEF OneCallInv, WithinQuote
    <3>2. CASE r = d.rev
      <4> DEFINE S == Requests(sent, r)
      <4>1. Requests(sent', r) = S \cup {x}
        BY <2>1, <3>2 DEF Requests
      <4>2. IsFiniteSet(S) /\ Cardinality(S) \in Nat
        BY <1>1, FS_Subset, FS_CardinalityType DEF Requests, Typed
      <4>3. /\ d.retries \in Nat /\ d.limited \in Nat
            /\ left.limiterRetries \in Nat /\ left.transportRetries \in Nat
        BY <1>1, <2>1, DeliveryNumbers DEF TypeOK, Scenario
      <4>4. Cardinality(S) + 1 <= AuthorizedDispatches
        BY <2>2, <3>2, <4>2, <4>3, QuoteCovers DEF AuthorizedDispatches
      <4>5. AuthorizedDispatches \in Nat
        BY <4>3 DEF AuthorizedDispatches
      <4> HIDE DEF S, x
      <4>6. Cardinality(S \cup {x}) = Cardinality(S) \/ Cardinality(S \cup {x}) = Cardinality(S) + 1
        BY <4>2, FS_AddElement
      <4> QED
        BY <4>1, <4>2, <4>4, <4>5, <4>6
    <3> QED
      BY <3>1, <3>2
  <2> QED
    BY <1>2, <2>3, <2>4 DEF WithinQuote
<1> QED
  BY <1>1, <1>3, <1>4, OnlySendSends DEF OneCallInv

LEMMA OneCallInit == Init => OneCallInv
<1> SUFFICES ASSUME Init PROVE OneCallInv
  OBVIOUS
<1>1. left.limiterRetries \in Nat /\ left.transportRetries \in Nat
  BY PageRevisionAssumption DEF Init, Scenario
<1>2. AuthorizedDispatches \in Nat
  BY <1>1 DEF AuthorizedDispatches
<1>3. \A r \in Revisions : Requests(sent, r) = {}
  BY DEF Init, Requests
<1>4. WithinQuote
  BY <1>2, <1>3, FS_EmptySet DEF WithinQuote
<1> QED
  BY <1>4, BooksInit DEF Init, OneCallInv, OneCaller

LEMMA OneCallMeans == OneCallInv => OneLogicalCall
<1> SUFFICES ASSUME OneCallInv PROVE OneLogicalCall
  OBVIOUS
<1>1. \A x \in sent : [kind |-> "charge", rev |-> x.rev] \in ledger
  <2> TAKE x \in sent
  <2>1. x.rev \in Revisions /\ rev[x.rev].dispatches > 0
    BY DEF OneCallInv, BooksInv, CallInv, Typed, TypeOK, Done
  <2>2. rev[x.rev].status \notin {"none", "quoted"}
    BY <2>1 DEF OneCallInv, BooksInv, CallInv, RowsGood, RowGood
  <2> QED
    BY <2>1, <2>2 DEF OneCallInv, BooksInv, CreditInv, RefundOnFailure
<1> QED
  BY <1>1 DEF OneCallInv, OneCaller, WithinQuote, Requests, OneLogicalCall

\* Whatever BullMQ redelivers and the recovery pass queues again, one delivery of
\* a revision calls the provider, within the requests its quote covers, and the
\* owner was charged for it.
THEOREM OneCall == Spec => []OneLogicalCall
BY OneCallInit, OneCallStep, OneCallMeans, PTL DEF Spec

-----------------------------------------------------------------------------
(* Recovery passes *)

\* What a pass has read and decided, against the rows and jobs as they are now.
SweepGood(s) ==
    LET c == sweeper[s] IN
    /\ c.fence <= rev[c.rev].fence
    /\ c.expired /\ rev[c.rev].fence = c.fence /\ rev[c.rev].status = "running" =>
          rev[c.rev].deadlinePassed
    /\ ~c.expired => c.fence > 0
    /\ c.step = "fail" /\ ~c.expired =>
          \A w \in Workers : worker[w].rev = c.rev /\ worker[w].fence = c.fence => ~HoldsLock(w)

SweepsGood == \A s \in Sweepers : sweeper[s].step # "idle" => SweepGood(s)

VerdictInv == BooksInv /\ SweepsGood

\* A delivery keeps its job and claim, is a new one, or has just claimed.
LEMMA DeliveryMoves ==
    ASSUME TypeOK, [Next]_vars, NEW w \in Workers
    PROVE  \/ worker'[w] = worker[w]
           \/ worker'[w].step = "idle"
           \/ worker'[w].fence = 0
           \/ /\ worker[w].step # "idle" /\ UNCHANGED job
              /\ worker'[w].rev = worker[w].rev /\ worker'[w].token = worker[w].token
              /\ worker'[w].fence \in {worker[w].fence, rev[worker[w].rev].fence + 1}
<1> DEFINE d == worker[w]
<1>1. WorkerTypeOK /\ worker \in [Workers -> Deliveries] /\ d \in Deliveries
  BY TypeParts DEF WorkerTypeOK
<1>2. CASE OwnerNext \/ QueueNext \/ ClockNext \/ SweeperNext \/ UNCHANGED vars
  BY <1>2
  DEF OwnerNext, CreateQuote, Confirm, EditDetails, RemoveBook, StartGeneration,
      EndGeneration, RequestHardDeletion, OtherWrite, ReadPage, PublishEdit, EditFails,
      QueueNext, Dispatch, DispatchUnmarked, Stall,
      ClockNext, QuoteExpires, QueueWaitExpires, LeaseExpires, DeadlinePasses, Turns,
      SweeperNext, SelectRevision, Decide, RecoverRevision, SweepStops, vars
<1>3. ASSUME NEW v \in Workers, v # w, WorkerStep(v) PROVE worker'[w] = worker[w]
  BY <1>1, <1>3
  DEF WorkerStep, PickUp, Claim, Load, Adopt, ReserveOperation, ReserveHttpAttempt, Send, Answer,
      FinishOperation, SaveImage, Checkpoint, ConfirmStored, PublishRevision,
      PublicationFails, Fail, Resolve, WorkerCrash, Fenced, Refused, Leave, Goto
<1>4. CASE \E r \in Revisions : PickUp(w, r)
  BY <1>1, <1>4 DEF PickUp, Idle
<1>5. CASE Resolve(w) \/ WorkerCrash(w)
  BY <1>1, <1>5 DEF Resolve, WorkerCrash, Idle
<1>6. ASSUME NEW step, Leave(w, step), d.step # "idle", UNCHANGED job
      PROVE  /\ worker[w].step # "idle" /\ UNCHANGED job
             /\ worker'[w].rev = worker[w].rev /\ worker'[w].token = worker[w].token
             /\ worker'[w].fence = worker[w].fence
  BY <1>1, <1>6 DEF Leave, Idle
<1>7. ASSUME NEW step, Goto(w, step), d.step # "idle", UNCHANGED job
      PROVE  /\ worker[w].step # "idle" /\ UNCHANGED job
             /\ worker'[w].rev = worker[w].rev /\ worker'[w].token = worker[w].token
             /\ worker'[w].fence = worker[w].fence
  BY <1>1, <1>7 DEF Goto, Deliveries
<1>8. CASE Claim(w)
  <2>1. d.step # "idle" /\ UNCHANGED job
    BY <1>8 DEF Claim, At
  <2>2. CASE worker' = [worker EXCEPT ![w].step = "load", ![w].fence = rev[d.rev].fence + 1]
    BY <1>1, <2>1, <2>2 DEF Deliveries
  <2> QED
    BY <1>6, <1>8, <2>1, <2>2 DEF Claim
<1>9. CASE Load(w)
  <2>1. d.step # "idle" /\ UNCHANGED job
    BY <1>9 DEF Load, At
  <2>2. CASE worker' = [worker EXCEPT ![w].step = "adopt", ![w].row = rev[d.rev],
                                      ![w].base = book.edition]
    BY <1>1, <2>1, <2>2 DEF Deliveries
  <2> QED
    BY <1>6, <1>9, <2>1, <2>2 DEF Load
<1>10. CASE Adopt(w)
  <2>1. d.step # "idle" /\ UNCHANGED job
    BY <1>10 DEF Adopt, At
  <2>2. ASSUME NEW step, NEW key, NEW by,
               worker' = [worker EXCEPT ![w].step = step, ![w].key = key, ![w].by = by]
        PROVE  /\ worker'[w].rev = d.rev /\ worker'[w].token = d.token /\ worker'[w].fence = d.fence
    BY <1>1, <2>2 DEF Deliveries
  <2>3. ASSUME NEW step, NEW key, worker' = [worker EXCEPT ![w].step = step, ![w].key = key]
        PROVE  /\ worker'[w].rev = d.rev /\ worker'[w].token = d.token /\ worker'[w].fence = d.fence
    BY <1>1, <2>3 DEF Deliveries
  <2> QED
    BY <1>6, <1>10, <2>1, <2>2, <2>3 DEF Adopt
<1>11. CASE Answer(w)
  <2>1. d.step # "idle" /\ UNCHANGED job
    BY <1>11 DEF Answer, At
  <2>2. worker'[w].rev = d.rev /\ worker'[w].token = d.token /\ worker'[w].fence = d.fence
    BY <1>1, <1>11 DEF Answer, Deliveries
  <2> QED
    BY <2>1, <2>2
<1>12. CASE SaveImage(w)
  <2>1. d.step # "idle" /\ UNCHANGED job
    BY <1>12 DEF SaveImage, At
  <2>2. CASE worker' = [worker EXCEPT ![w].step = "checkpoint", ![w].by = d.fence]
    BY <1>1, <2>1, <2>2 DEF Deliveries
  <2> QED
    BY <1>6, <1>12, <2>1, <2>2 DEF SaveImage
<1>13. CASE \/ ReserveOperation(w) \/ ReserveHttpAttempt(w) \/ Send(w) \/ FinishOperation(w)
            \/ Checkpoint(w) \/ ConfirmStored(w)
  <2>1. d.step # "idle" /\ UNCHANGED job /\ \E step : Leave(w, step) \/ Goto(w, step)
    BY <1>13
    DEF ReserveOperation, ReserveHttpAttempt, Send, FinishOperation, Checkpoint, ConfirmStored,
        Fenced, Refused, At
  <2> QED
    BY <1>6, <1>7, <2>1
<1>14. CASE PublishRevision(w) \/ PublicationFails(w) \/ Fail(w)
  <2>1. d.step # "idle" /\ UNCHANGED job /\ \E step : Leave(w, step)
    BY <1>14 DEF PublishRevision, PublicationFails, Fail, Refused, At
  <2> QED
    BY <1>6, <2>1
<1> QED
  BY <1>2, <1>3, <1>4, <1>5, <1>8, <1>9, <1>10, <1>11, <1>12, <1>13, <1>14, StepCases
  DEF WorkerStep

\* An active job was active before, under the same token, or has been picked up.
LEMMA JobMoves ==
    ASSUME TypeOK, [Next]_vars, NEW r \in Revisions, job'[r].state = "active"
    PROVE  \/ job[r].state = "active" /\ job'[r].token = job[r].token
           \/ job'[r].token = job[r].token + 1
<1>1. job \in [Revisions -> Jobs] /\ job[r] \in Jobs /\ WorkerTypeOK /\ OtherTypeOK
  BY TypeParts DEF QueueTypeOK
<1>2. ASSUME NEW q \in Revisions, job' = [job EXCEPT ![q] = Enqueued(@)]
      PROVE  job[r].state = "active" /\ job'[r].token = job[r].token
  BY <1>1, <1>2 DEF Enqueued
<1>3. CASE job' = job
  BY <1>3
<1>4. CASE QueueNext
  <2>1. ASSUME NEW q \in Revisions, Stall(q)
        PROVE  job[r].state = "active" /\ job'[r].token = job[r].token
    BY <1>1, <2>1 DEF Stall, StalledJob, Jobs
  <2> QED
    BY <1>2, <1>4, <2>1 DEF QueueNext, Dispatch, DispatchUnmarked
<1>5. ASSUME NEW s \in Sweepers, RecoverRevision(s)
      PROVE  job[r].state = "active" /\ job'[r].token = job[r].token
  <2>1. sweeper[s].rev \in Revisions
    BY <1>1, <1>5 DEF RecoverRevision, OtherTypeOK
  <2> QED
    BY <1>2, <1>5, <2>1 DEF RecoverRevision
<1>6. ASSUME NEW w \in Workers, NEW q \in Revisions, PickUp(w, q)
      PROVE  \/ job[r].state = "active" /\ job'[r].token = job[r].token
             \/ job'[r].token = job[r].token + 1
  BY <1>1, <1>6 DEF PickUp, Jobs
<1>7. ASSUME NEW w \in Workers, Resolve(w)
      PROVE  job[r].state = "active" /\ job'[r].token = job[r].token
  BY <1>1, <1>7 DEF Resolve, Jobs
<1>8. CASE OwnerNext \/ ClockNext \/ UNCHANGED vars
  BY <1>3, <1>8
  DEF OwnerNext, CreateQuote, Confirm, EditDetails, RemoveBook, StartGeneration,
      EndGeneration, RequestHardDeletion, OtherWrite, ReadPage, PublishEdit, EditFails,
      ClockNext, QuoteExpires, QueueWaitExpires, LeaseExpires, DeadlinePasses, Turns, vars
<1>9. ASSUME NEW s \in Sweepers, (\E q \in Revisions : SelectRevision(s, q)) \/ Decide(s) \/ SweepStops(s)
      PROVE  job' = job
  BY <1>9 DEF SelectRevision, Decide, SweepStops
<1>10. ASSUME NEW w \in Workers, WorkerStep(w), ~Resolve(w), ~\E q \in Revisions : PickUp(w, q)
       PROVE  job' = job
  BY <1>10
  DEF WorkerStep, Claim, Load, Adopt, ReserveOperation, ReserveHttpAttempt, Send, Answer,
      FinishOperation, SaveImage, Checkpoint, ConfirmStored, PublishRevision,
      PublicationFails, Fail, WorkerCrash, Fenced, Refused
<1> QED
  BY <1>3, <1>4, <1>5, <1>6, <1>7, <1>8, <1>9, <1>10, StepCases DEF SweeperNext

\* A claim that holds its lock held it before, or is newer than the row was.
LEMMA LocksMove ==
    ASSUME TypeOK, TypeOK', DeliveriesGood, [Next]_vars, NEW w \in Workers,
           HoldsLock(w)', worker'[w].fence > 0
    PROVE  \/ /\ HoldsLock(w) /\ worker'[w].rev = worker[w].rev
              /\ worker'[w].fence = worker[w].fence
           \/ worker'[w].fence = rev[worker'[w].rev].fence + 1
<1>1. /\ worker'[w].step # "idle" /\ job'[worker'[w].rev].state = "active"
      /\ job'[worker'[w].rev].token = worker'[w].token
  BY DEF HoldsLock
<1>2. CASE worker'[w] = worker[w]
  <2> DEFINE r == worker[w].rev
  <2>1. w \in Busy /\ r \in Revisions /\ worker[w].token \in Nat /\ job[r].token \in Nat
    BY <1>1, <1>2, DeliveryNumbers DEF Busy
  <2>2. worker[w].token <= job[r].token
    BY <2>1 DEF DeliveriesGood, Good, ClaimGood
  <2>3. job[r].state = "active" /\ job'[r].token = job[r].token
    BY <1>1, <1>2, <2>1, <2>2, JobMoves
  <2> QED
    BY <1>1, <1>2, <2>3 DEF HoldsLock
<1>3. CASE /\ worker[w].step # "idle" /\ UNCHANGED job
           /\ worker'[w].rev = worker[w].rev /\ worker'[w].token = worker[w].token
           /\ worker'[w].fence \in {worker[w].fence, rev[worker[w].rev].fence + 1}
  BY <1>1, <1>3 DEF HoldsLock
<1> QED
  BY <1>1, <1>2, <1>3, DeliveryMoves

LEMMA SweepKept ==
    ASSUME VerdictInv, [Next]_vars, NEW s \in Sweepers, sweeper[s].step # "idle",
           sweeper'[s] = sweeper[s]
    PROVE  SweepGood(s)'
<1> DEFINE c == sweeper[s]
<1>1. /\ TypeOK /\ TypeOK' /\ DeliveriesGood /\ Surroundings /\ SweepGood(s)
  BY AllRows DEF VerdictInv, BooksInv, CallInv, Typed, SweepsGood
<1>2. /\ c.rev \in Revisions /\ c.fence \in Nat
      /\ rev[c.rev].fence \in Nat /\ rev'[c.rev].fence \in Nat
  BY <1>1 DEF TypeOK, Sweeps, Rows
<1>3. RowStep(rev[c.rev], rev'[c.rev])
  BY <1>1, <1>2 DEF Surroundings
<1>4. c.fence <= rev'[c.rev].fence
  BY <1>1, <1>2, <1>3 DEF SweepGood, RowStep
<1>5. ASSUME c.expired, rev'[c.rev].fence = c.fence, rev'[c.rev].status = "running"
      PROVE  rev'[c.rev].deadlinePassed
  <2>1. rev[c.rev].fence = c.fence
    BY <1>1, <1>2, <1>3, <1>5 DEF SweepGood, RowStep
  <2> QED
    BY <1>1, <1>3, <1>5, <2>1 DEF SweepGood, RowStep
<1>6. ASSUME c.step = "fail", ~c.expired, NEW w \in Workers,
             worker'[w].rev = c.rev, worker'[w].fence = c.fence, HoldsLock(w)'
      PROVE  FALSE
  <2>1. c.fence > 0 /\ c.fence <= rev[c.rev].fence
    BY <1>1, <1>6 DEF SweepGood
  <2>2. HoldsLock(w) /\ worker[w].rev = c.rev /\ worker[w].fence = c.fence
    BY <1>1, <1>2, <1>6, <2>1, LocksMove
  <2> QED
    BY <1>1, <1>6, <2>2 DEF SweepGood
<1>7. ~c.expired => c.fence > 0
  BY <1>1 DEF SweepGood
<1> QED
  BY <1>4, <1>5, <1>6, <1>7 DEF SweepGood

LEMMA SelectGood ==
    ASSUME VerdictInv, NEW s \in Sweepers, NEW r \in Revisions, SelectRevision(s, r)
    PROVE  SweepGood(s)'
<1>1. TypeOK /\ RowsGood /\ rev[r] \in Rows /\ rev[r].fence \in Nat /\ rev' = rev
  BY DEF VerdictInv, BooksInv, CallInv, Typed, TypeOK, Rows, SelectRevision, rowVars
<1>2. /\ sweeper'[s].step = "candidate" /\ sweeper'[s].rev = r /\ sweeper'[s].fence = rev[r].fence
      /\ sweeper'[s].expired = (rev[r].status = "queued" \/ rev[r].deadlinePassed)
  BY <1>1 DEF SelectRevision, TypeOK
<1>3. ~sweeper'[s].expired => rev[r].fence > 0
  BY <1>1, <1>2 DEF SelectRevision, LooksAbandoned, RowsGood, RowGood
<1>4. ASSUME sweeper'[s].expired, rev[r].status = "running" PROVE rev[r].deadlinePassed
  BY <1>2, <1>4
<1>5. sweeper'[s].fence <= rev'[sweeper'[s].rev].fence
  BY <1>1, <1>2
<1>6. sweeper'[s].step # "fail"
  BY <1>2
<1> QED
  BY <1>1, <1>2, <1>3, <1>4, <1>5, <1>6 DEF SweepGood

LEMMA DecideGood ==
    ASSUME VerdictInv, NEW s \in Sweepers, Decide(s), sweeper'[s].step # "idle"
    PROVE  SweepGood(s)'
<1> DEFINE c == sweeper[s]
<1>1. /\ TypeOK /\ c.step = "candidate" /\ SweepGood(s) /\ c \in Sweeps
      /\ UNCHANGED <<rev, job, worker>>
  BY DEF VerdictInv, BooksInv, CallInv, Typed, TypeOK, Decide, SweepsGood, rowVars
<1>2. /\ ~(~c.expired /\ JobPending(c.rev))
      /\ sweeper'[s] = [c EXCEPT !.step = IF c.expired \/ c.lost THEN "fail" ELSE "enqueue"]
  BY <1>1 DEF Decide, TypeOK, NoSweep
<1>3. sweeper'[s].rev = c.rev /\ sweeper'[s].fence = c.fence /\ sweeper'[s].expired = c.expired
  BY <1>1, <1>2 DEF Sweeps
<1>4. ~c.expired => \A w \in Workers : worker[w].rev = c.rev => ~HoldsLock(w)
  BY <1>2 DEF JobPending, HoldsLock
<1>5. \A w \in Workers : HoldsLock(w)' <=> HoldsLock(w)
  BY <1>1 DEF HoldsLock
<1> QED
  BY <1>1, <1>3, <1>4, <1>5 DEF SweepGood

LEMMA VerdictStep ==
    ASSUME VerdictInv, [Next]_vars
    PROVE  VerdictInv'
<1>1. BooksInv' /\ OtherTypeOK
  BY BooksStep, TypeParts DEF VerdictInv, BooksInv, CallInv, Typed
<1>2. ASSUME NEW s \in Sweepers, sweeper'[s].step # "idle" PROVE SweepGood(s)'
  <2>1. CASE sweeper'[s] = sweeper[s]
    BY <1>2, <2>1, SweepKept
  <2>2. ASSUME NEW r \in Revisions, SelectRevision(s, r) PROVE SweepGood(s)'
    BY <2>2, SelectGood
  <2>3. CASE Decide(s)
    BY <1>2, <2>3, DecideGood
  <2>4. CASE RecoverRevision(s) \/ SweepStops(s)
    BY <1>1, <1>2, <2>4 DEF RecoverRevision, SweepStops, NoSweep, OtherTypeOK
  <2>5. CASE SweeperNext
    <3>1. PICK z \in Sweepers :
             \/ \E r \in Revisions : SelectRevision(z, r)
             \/ Decide(z) \/ RecoverRevision(z) \/ SweepStops(z)
      BY <2>5 DEF SweeperNext
    <3>2. z # s => sweeper'[s] = sweeper[s]
      BY <1>1, <3>1 DEF SelectRevision, Decide, RecoverRevision, SweepStops, OtherTypeOK
    <3> QED
      BY <2>1, <2>2, <2>3, <2>4, <3>1, <3>2
  <2>6. CASE OwnerNext \/ QueueNext \/ ClockNext \/ UNCHANGED vars
    <3>1. sweeper' = sweeper
      BY <2>6
      DEF OwnerNext, CreateQuote, Confirm, EditDetails, RemoveBook, StartGeneration,
          EndGeneration, RequestHardDeletion, OtherWrite, ReadPage, PublishEdit, EditFails,
          QueueNext, Dispatch, DispatchUnmarked, Stall,
          ClockNext, QuoteExpires, QueueWaitExpires, LeaseExpires, DeadlinePasses, Turns, vars
    <3> QED
      BY <2>1, <3>1
  <2>7. ASSUME NEW w \in Workers, WorkerStep(w) PROVE SweepGood(s)'
    <3>1. sweeper' = sweeper
      BY <2>7
      DEF WorkerStep, PickUp, Claim, Load, Adopt, ReserveOperation, ReserveHttpAttempt, Send,
          Answer, FinishOperation, SaveImage, Checkpoint, ConfirmStored, PublishRevision,
          PublicationFails, Fail, Resolve, WorkerCrash, Fenced, Refused
    <3> QED
      BY <2>1, <3>1
  <2> QED
    BY <2>5, <2>6, <2>7, StepCases
<1> QED
  BY <1>1, <1>2 DEF VerdictInv, SweepsGood

LEMMA VerdictInit == Init => VerdictInv
BY BooksInit DEF VerdictInv, SweepsGood, Init, NoSweep

-----------------------------------------------------------------------------
(* Verdicts *)

EndedFinal ==
    \A r \in Revisions :
       /\ rev[r].status \in {"completed", "failed"} => rev'[r].status = rev[r].status
       /\ \A p \in Pages : book'.image[p] # book.image[p] /\ book'.image[p].rev = r =>
             rev[r].status = "running"

LEMMA EndedFinalStep ==
    ASSUME TypeOK, [Next]_vars
    PROVE  EndedFinal
<1>1. ASSUME NEW r \in Revisions, NEW p \in Pages,
             book'.image[p] # book.image[p], book'.image[p].rev = r
      PROVE  rev[r].status = "running"
  <2>1. book'.image[p] # NoImage
    BY <1>1, PageRevisionAssumption DEF NoImage
  <2>2. PICK w \in Workers : PublishRevision(w) /\ book'.image[p] = PaintedBy(w)
    BY <1>1, <2>1, ImageCases
  <2>3. worker[w].rev = r
    BY <1>1, <2>2 DEF PaintedBy
  <2> QED
    BY <2>2, <2>3 DEF PublishRevision, Owns
<1> QED
  BY <1>1, EndedStay DEF EndedFinal

LiveNotFailed ==
    \A w \in Workers :
       /\ HoldsLock(w) /\ Owns(w)
       /\ rev'[worker[w].rev].status = "failed"
       /\ ~rev[worker[w].rev].deadlinePassed
       /\ book'.deletion # "requested"
       => worker'[w] # worker[w]

\* Whose verdict a failed revision is.
LEMMA FailedBy ==
    ASSUME TypeOK, [Next]_vars, NEW r \in Revisions,
           rev[r].status = "running", rev'[r].status = "failed"
    PROVE  \/ RequestHardDeletion
           \/ \E v \in Workers :
                 Fail(v) /\ worker[v].rev = r /\ worker[v].fence = rev[r].fence
           \/ \E s \in Sweepers :
                 /\ sweeper[s].step = "fail" /\ sweeper[s].rev = r
                 /\ sweeper[s].fence = rev[r].fence
<1>1. RowTypeOK /\ WorkerTypeOK /\ OtherTypeOK
  BY TypeParts
<1>2. ASSUME NEW q \in Revisions, NEW f, FailAndRefund(q, f)
      PROVE  q = r /\ f = rev[r].fence
  BY <1>1, <1>2 DEF FailAndRefund, RowTypeOK, rowVars
<1>3. CASE OwnerNext
  <2>1. ASSUME NEW q \in Revisions, NEW p \in Pages, CreateQuote(q, p) PROVE FALSE
    BY <1>1, <2>1 DEF CreateQuote, RowTypeOK
  <2>2. ASSUME NEW q \in Revisions, Confirm(q) PROVE FALSE
    BY <1>1, <2>2 DEF Confirm, RowTypeOK
  <2> QED
    BY <1>3, <2>1, <2>2
    DEF OwnerNext, EditDetails, RemoveBook, StartGeneration, EndGeneration, ReadPage,
        PublishEdit, EditFails, rowVars
<1>4. ASSUME Quiet PROVE FALSE
  BY <1>4 DEF Quiet, StatusKept
<1>5. ASSUME UNCHANGED rowVars PROVE FALSE
  BY <1>5 DEF rowVars
<1>6. CASE QueueNext \/ UNCHANGED vars
  BY <1>6 DEF QueueNext, Dispatch, DispatchUnmarked, Stall, rowVars, vars
<1>7. CASE ClockNext
  BY <1>4, <1>7, QuietClock
<1>8. CASE SweeperNext
  <2>1. PICK s \in Sweepers : RecoverRevision(s)
    BY <1>5, <1>8 DEF SweeperNext, SelectRevision, Decide, SweepStops
  <2>2. /\ sweeper[s].step = "fail" /\ sweeper[s].rev \in Revisions
        /\ FailAndRefund(sweeper[s].rev, sweeper[s].fence)
    BY <1>1, <1>5, <2>1 DEF RecoverRevision, OtherTypeOK
  <2> QED
    BY <1>2, <2>2
<1>9. ASSUME NEW v \in Workers, WorkerStep(v)
      PROVE  Fail(v) /\ worker[v].rev = r /\ worker[v].fence = rev[r].fence
  <2>1. CASE PublishRevision(v)
    BY <1>1, <2>1 DEF PublishRevision, RowTypeOK
  <2>2. CASE Fail(v)
    <3>1. worker[v].rev \in Revisions /\ FailAndRefund(worker[v].rev, worker[v].fence)
      BY <1>1, <1>5, <2>2 DEF Fail, At, WorkerTypeOK
    <3> QED
      BY <1>2, <2>2, <3>1
  <2> QED
    BY <1>4, <1>9, <2>1, <2>2, QuietWorker
<1> QED
  BY <1>3, <1>6, <1>7, <1>8, <1>9, StepCases

LEMMA LiveNotFailedStep ==
    ASSUME VerdictInv, [Next]_vars
    PROVE  LiveNotFailed
<1> SUFFICES ASSUME NEW w \in Workers, HoldsLock(w), Owns(w),
                    rev'[worker[w].rev].status = "failed",
                    ~rev[worker[w].rev].deadlinePassed, book'.deletion # "requested",
                    worker'[w] = worker[w]
             PROVE  FALSE
  BY DEF LiveNotFailed
<1> DEFINE r == worker[w].rev
<1>1. /\ TypeOK /\ RowTypeOK /\ WorkerTypeOK /\ RowsGood /\ DeliveriesGood /\ SweepsGood
  BY TypeParts DEF VerdictInv, BooksInv, CallInv, Typed
<1>2. /\ w \in Busy /\ r \in Revisions /\ rev[r].status = "running"
      /\ rev[r].fence = worker[w].fence /\ worker[w].fence > 0
  BY <1>1 DEF HoldsLock, Owns, Busy, WorkerTypeOK, RowsGood, RowGood
<1>3. ASSUME RequestHardDeletion PROVE FALSE
  <2>1. PICK stamp \in Stamps :
           book' = [book EXCEPT !.deletion = "requested", !.updatedAt = stamp,
                                !.activeRun = FALSE, !.activeRevision = NoRevision]
    BY <1>3 DEF RequestHardDeletion
  <2> QED
    BY <1>1, <2>1 DEF RowTypeOK, Books
<1>4. ASSUME NEW v \in Workers, Fail(v), worker[v].rev = r, worker[v].fence = rev[r].fence
      PROVE  FALSE
  <2>1. CASE v = w
    <3>1. worker'[w].step = "resolve" /\ worker[w].step = "fail"
      BY <1>1, <1>4, <2>1 DEF Fail, At, Leave, Idle, WorkerTypeOK
    <3> QED
      BY <3>1
  <2>2. CASE v # w
    BY <1>1, <1>2, <1>4, <2>2 DEF DeliveriesGood, Alone, Fail, At, Busy
  <2> QED
    BY <2>1, <2>2
<1>5. ASSUME NEW s \in Sweepers, sweeper[s].step = "fail", sweeper[s].rev = r,
             sweeper[s].fence = rev[r].fence
      PROVE  FALSE
  BY <1>1, <1>2, <1>5 DEF SweepsGood, SweepGood
<1> QED
  BY <1>1, <1>2, <1>3, <1>4, <1>5, FailedBy

\* A revision that ended stays as it ended and reaches the page only by its own
\* publication; no recovery pass, acting on what it read before, fails a revision
\* whose delivery still holds its job within the deadline.
THEOREM Verdicts == Spec => VerdictsStand
<1>1. TypeOK /\ [Next]_vars => [EndedFinal]_vars
  BY EndedFinalStep
<1>2. VerdictInv /\ [Next]_vars => [LiveNotFailed]_vars
  BY LiveNotFailedStep
<1>3. VerdictInv => TypeOK
  BY DEF VerdictInv, BooksInv, CallInv, Typed
<1>4. Spec => []VerdictInv
  BY VerdictInit, VerdictStep, PTL DEF Spec
<1>5. Spec => EndedRevisionsFinal
  BY <1>1, <1>3, <1>4, PTL DEF Spec, EndedRevisionsFinal, EndedFinal
<1>6. Spec => LiveDeliveryNotFailed
  BY <1>2, <1>4, PTL DEF Spec, LiveDeliveryNotFailed, LiveNotFailed
<1> QED
  BY <1>5, <1>6 DEF VerdictsStand

=============================================================================
