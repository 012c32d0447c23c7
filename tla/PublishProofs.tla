---------------------------- MODULE PublishProofs ----------------------------
(***************************************************************************)
(* Publish, for every fan-out, number of callbacks, retry limit and length  *)
(* of history.  Part 1: types, what each kind of write to the receipts of   *)
(* one adaptation does to a sound history, IInv is inductive, and the       *)
(* safety properties it implies.  Part 2: what a step can do to one         *)
(* channel, whoever takes it (leave it alone, move its row, add a receipt   *)
(* or write to one).  Every action is one of these kinds for each channel;  *)
(* what holds of a channel is shown once for each kind, and under the       *)
(* mapping of PublishRefines every kind is a step DeliveryContract allows.  *)
(* The last parts are about the item that folds the channels, the decisions *)
(* of people, and the ids of jobs.                                          *)
(***************************************************************************)
EXTENDS PublishInvariant, PublishRefines, SequenceTheorems, FiniteSetTheorems, TLAPS

(***************************************************************************)
(* Type correctness, and lemmas on receipts that the other parts share      *)
(***************************************************************************)

\* An update in place of one receipt keeps a history of receipts.
LEMMA ReplaceReceipt ==
    ASSUME NEW rows \in Seq(Receipt), NEW i \in DOMAIN rows, NEW row \in Receipt
    PROVE  /\ [rows EXCEPT ![i] = row] \in Seq(Receipt)
           /\ DOMAIN [rows EXCEPT ![i] = row] = DOMAIN rows
  BY ExceptSeq

\* Appending one does too.
LEMMA AppendReceipt ==
    ASSUME NEW rows \in Seq(Receipt), NEW row \in Receipt
    PROVE  /\ Append(rows, row) \in Seq(Receipt)
           /\ DOMAIN Append(rows, row) = DOMAIN rows \cup {Len(rows) + 1}
           /\ \A i \in DOMAIN rows : Append(rows, row)[i] = rows[i]
           /\ Append(rows, row)[Len(rows) + 1] = row
  BY AppendProperties, LenProperties

LEMMA NewReceiptType ==
    ASSUME NEW st \in ReceiptStatuses, NEW att \in Nat, NEW human \in BOOLEAN
    PROVE  NewReceipt(st, att, human) \in Receipt
  BY DEF NewReceipt, Receipt

\* resolveClaim keeps a history of receipts.
LEMMA ResolveClaimType ==
    ASSUME NEW rows \in Seq(Receipt), NEW claim \in Nat,
           NEW st \in ReceiptStatuses, NEW att \in Nat
    PROVE  ResolveClaim(rows, claim, st, att) \in Seq(Receipt)
<1>1. CASE Claimed(rows, claim) = {}
  <2>1. ResolveClaim(rows, claim, st, att) = Append(rows, NewReceipt(st, att, FALSE))
    BY <1>1 DEF ResolveClaim
  <2> QED
    BY <2>1, NewReceiptType, AppendReceipt
<1>2. CASE Claimed(rows, claim) # {}
  <2> DEFINE new(i) == IF i \in Claimed(rows, claim)
                       THEN [rows[i] EXCEPT !.st = st, !.att = att] ELSE rows[i]
  <2>1. ASSUME NEW i \in 1..Len(rows)
        PROVE  new(i) \in Receipt
    <3>1. rows[i] \in Receipt
      BY ElementOfSeq
    <3>2. [rows[i] EXCEPT !.st = st, !.att = att] \in Receipt
      BY <3>1 DEF Receipt
    <3> QED
      BY <3>1, <3>2
  <2>2. ResolveClaim(rows, claim, st, att) = [i \in 1..Len(rows) |-> new(i)]
    BY <1>2, LenProperties DEF ResolveClaim
  <2>3. Len(rows) \in Nat
    BY LenProperties
  <2>4. [i \in 1..Len(rows) |-> new(i)] \in Seq(Receipt)
    <3> HIDE DEF new
    <3> QED
      BY <2>1, <2>3, IsASeq
  <2> QED
    BY <2>2, <2>4
<1> QED
  BY <1>1, <1>2

\* ... and never shortens it.
LEMMA ResolveClaimDomain ==
    ASSUME NEW rows \in Seq(Receipt), NEW claim \in Nat,
           NEW st \in ReceiptStatuses, NEW att \in Nat
    PROVE  DOMAIN rows \subseteq DOMAIN ResolveClaim(rows, claim, st, att)
<1>1. CASE Claimed(rows, claim) = {}
  BY <1>1, NewReceiptType, AppendReceipt DEF ResolveClaim
<1>2. CASE Claimed(rows, claim) # {}
  BY <1>2 DEF ResolveClaim
<1> QED
  BY <1>1, <1>2

TypeInv == TypeOK /\ WorkersOwnRows

LEMMA InitType == Init => TypeInv
<1> SUFFICES ASSUME Init PROVE TypeInv
  OBVIOUS
<1>1. Idle \in Worker
  BY DEF Idle, Worker, PCs, Statuses, Replies
<1>2. <<>> \in Seq(Receipt)
  BY EmptySeq
<1>3. worker \in [Handlers -> Worker]
  BY <1>1 DEF Init
<1>4. receipts \in [Adaptations -> Seq(Receipt)]
  BY <1>2 DEF Init
<1>5. TypeOK
  BY <1>3, <1>4 DEF Init, TypeOK, ItemStatuses, Statuses
<1>6. WorkersOwnRows
  BY DEF Init, WorkersOwnRows, Idle
<1> QED
  BY <1>5, <1>6 DEF TypeInv

LEMMA CancelledType ==
    ASSUME jobs \subseteq Job, NEW A
    PROVE  Cancelled(A) \subseteq Job
  BY DEF Cancelled, Job

LEMMA NewJobType ==
    ASSUME NEW a \in Adaptations, NEW n \in Nat, NEW at \in Nat
    PROVE  NewJob(a, n, at) \in Job
  BY PublishAssumption DEF NewJob, Job

\* A step that leaves the callbacks alone and only lengthens histories keeps
\* every callback's rows.
LEMMA OwnRowsKept ==
    ASSUME TypeInv, UNCHANGED worker,
           \A a \in Adaptations : DOMAIN receipts[a] \subseteq DOMAIN receipts'[a]
    PROVE  WorkersOwnRows'
  BY DEF TypeInv, TypeOK, WorkersOwnRows

LEMMA NextItemStatusType ==
    ASSUME item \in ItemStatuses, NEW sts
    PROVE  NextItemStatus(sts) \in ItemStatuses
  BY DEF NextItemStatus, ItemStatuses

LEMMA RecomputeItemType ==
    ASSUME item \in ItemStatuses, archivedFrom \in ItemStatuses, NEW sts, RecomputeItem(sts)
    PROVE  item' \in ItemStatuses /\ archivedFrom' \in ItemStatuses
  BY NextItemStatusType DEF RecomputeItem

\* What a person decides.
LEMMA PersonType == TypeInv /\ PersonStep => TypeInv'
<1> SUFFICES ASSUME TypeInv, PersonStep PROVE TypeInv'
  OBVIOUS
<1> USE DEF TypeOK, ItemStatuses, Statuses, Outstanding
<1>0. TypeOK
  BY DEF TypeInv
<1>1. ASSUME NEW s \in Slots \cup {0}, Approve(s) PROVE TypeInv'
  <2>1. s \in Nat
    BY PublishAssumption DEF Slots
  <2>2. \A a \in Automatic : a \in Adaptations /\ NextJob(a) \in Nat
    BY <1>0 DEF Automatic, Sendable, NextJob
  <2>3. jobs' \subseteq Job
    <3>1. jobs' = Cancelled({a \in Automatic : status[a] = "scheduled"})
                    \cup {NewJob(a, NextJob(a), s) : a \in Automatic}
      BY <1>1 DEF Approve
    <3> QED
      BY <1>0, <2>1, <2>2, <3>1, CancelledType, NewJobType
  <2>4. /\ status' \in [Adaptations -> Statuses]
        /\ slot' \in [Adaptations -> Nat]
        /\ attempt' \in [Adaptations -> Nat]
    BY <1>0, <1>1, <2>1, <2>2 DEF Approve
  <2>5. /\ UNCHANGED <<archivedFrom, receipts, cleared, deadLetters, worker, now>>
        /\ item' = "approved"
        /\ decisions' = decisions + 1
    BY <1>1 DEF Approve, Decide
  <2>6. TypeOK'
    BY <1>0, <2>3, <2>4, <2>5
  <2> QED
    BY <2>5, <2>6, OwnRowsKept DEF TypeInv
<1>2. ASSUME NEW a \in Adaptations, NEW s \in Slots, Reschedule(a, s) PROVE TypeInv'
  <2>1. s \in Nat
    BY PublishAssumption DEF Slots
  <2>2. jobs' \subseteq Job
    BY <1>0, <1>2, <2>1, CancelledType, NewJobType DEF Reschedule
  <2>3. slot' \in [Adaptations -> Nat] /\ attempt' \in [Adaptations -> Nat]
    BY <1>0, <1>2, <2>1 DEF Reschedule
  <2>4. UNCHANGED <<item, archivedFrom, status, receipts, cleared, deadLetters, worker, now>>
    BY <1>2 DEF Reschedule, Decide, itemVars
  <2>5. decisions' \in Nat
    BY <1>0, <1>2 DEF Reschedule, Decide
  <2>6. TypeOK'
    BY <1>0, <2>2, <2>3, <2>4, <2>5
  <2> QED
    BY <1>2, <2>6, OwnRowsKept DEF TypeInv, Reschedule, Decide
<1>3. ASSUME NEW a \in Adaptations, CancelSchedule(a) PROVE TypeInv'
  <2>1. TypeOK'
    BY <1>0, <1>3, CancelledType DEF CancelSchedule, Decide, itemVars
  <2> QED
    BY <1>3, <2>1, OwnRowsKept DEF TypeInv, CancelSchedule, Decide
<1>4. CASE Retract
  <2>1. TypeOK'
    BY <1>0, <1>4, CancelledType DEF Retract, Decide
  <2> QED
    BY <1>4, <2>1, OwnRowsKept DEF TypeInv, Retract, Decide
<1>5. CASE Reject
  <2>1. TypeOK'
    BY <1>0, <1>5, CancelledType DEF Reject, Decide
  <2> QED
    BY <1>5, <2>1, OwnRowsKept DEF TypeInv, Reject, Decide
<1>6. CASE Archive
  BY <1>0, <1>6, OwnRowsKept DEF TypeInv, Archive, Decide, rowVars
<1>7. CASE Restore
  BY <1>0, <1>7, OwnRowsKept DEF TypeInv, Restore, Decide, rowVars
<1>8. ASSUME NEW a \in Adaptations, NEW delivered \in BOOLEAN, AssertDelivery(a, delivered)
      PROVE  TypeInv'
  <2> DEFINE row == NewReceipt(IF delivered THEN "published" ELSE "failed", attempt[a], TRUE)
  <2>1. row \in Receipt
    BY <1>0, NewReceiptType DEF ReceiptStatuses
  <2>2. receipts' = [receipts EXCEPT ![a] = Append(receipts[a], row)]
    BY <1>8 DEF AssertDelivery
  <2> HIDE DEF row
  <2>3. /\ receipts' \in [Adaptations -> Seq(Receipt)]
        /\ \A b \in Adaptations : DOMAIN receipts[b] \subseteq DOMAIN receipts'[b]
    BY <1>0, <2>1, <2>2, AppendReceipt
  <2>4. cleared' \in [Adaptations -> Nat]
    BY <1>0, <1>8, LenProperties DEF AssertDelivery
  <2>5. /\ UNCHANGED <<archivedFrom, attempt, slot, jobs, deadLetters, worker, now>>
        /\ item' \in ItemStatuses
        /\ status' \in [Adaptations -> Statuses]
        /\ decisions' = decisions + 1
    BY <1>0, <1>8, NextItemStatusType DEF AssertDelivery, Decide
  <2>6. TypeOK'
    BY <1>0, <2>3, <2>4, <2>5
  <2> QED
    BY <2>3, <2>5, <2>6, OwnRowsKept DEF TypeInv
<1>9. ASSUME NEW a \in Adaptations, ConfirmManual(a) PROVE TypeInv'
  <2> DEFINE row == NewReceipt("published", attempt[a], TRUE)
  <2>1. row \in Receipt
    BY <1>0, NewReceiptType DEF ReceiptStatuses
  <2>2. receipts' = [receipts EXCEPT ![a] = Append(receipts[a], row)]
    BY <1>9 DEF ConfirmManual
  <2> HIDE DEF row
  <2>3. /\ receipts' \in [Adaptations -> Seq(Receipt)]
        /\ \A b \in Adaptations : DOMAIN receipts[b] \subseteq DOMAIN receipts'[b]
    BY <1>0, <2>1, <2>2, AppendReceipt
  <2>4. /\ UNCHANGED <<archivedFrom, attempt, slot, cleared, jobs, deadLetters, worker, now>>
        /\ item' \in ItemStatuses
        /\ status' \in [Adaptations -> Statuses]
        /\ decisions' = decisions + 1
    BY <1>0, <1>9, NextItemStatusType DEF ConfirmManual, Decide
  <2>5. TypeOK'
    BY <1>0, <2>3, <2>4
  <2> QED
    BY <2>3, <2>4, <2>5, OwnRowsKept DEF TypeInv
<1> QED
  BY <1>1, <1>2, <1>3, <1>4, <1>5, <1>6, <1>7, <1>8, <1>9 DEF PersonStep

\* The rows transactions write.
RowsTyped ==
    /\ item' \in ItemStatuses
    /\ archivedFrom' \in ItemStatuses
    /\ status' \in [Adaptations -> Statuses]
    /\ attempt' \in [Adaptations -> Nat]
    /\ slot' \in [Adaptations -> Nat]
    /\ receipts' \in [Adaptations -> Seq(Receipt)]

HistoryKept == \A a \in Adaptations : DOMAIN receipts[a] \subseteq DOMAIN receipts'[a]

LEMMA WithReceiptType ==
    ASSUME receipts \in [Adaptations -> Seq(Receipt)],
           NEW a \in Adaptations, NEW i \in DOMAIN receipts[a], NEW row \in Receipt,
           receipts' = WithReceipt(a, i, row)
    PROVE  receipts' \in [Adaptations -> Seq(Receipt)] /\ HistoryKept
<1>1. receipts[a] \in Seq(Receipt)
  OBVIOUS
<1>2. /\ [receipts[a] EXCEPT ![i] = row] \in Seq(Receipt)
      /\ DOMAIN [receipts[a] EXCEPT ![i] = row] = DOMAIN receipts[a]
  BY <1>1, ReplaceReceipt
<1> QED
  BY <1>2 DEF WithReceipt, HistoryKept

\* A callback that moves to a well-formed state keeps every callback's rows.
LEMMA WorkerMoves ==
    ASSUME TypeInv, HistoryKept, NEW h \in Handlers, NEW w \in Worker,
           worker' = [worker EXCEPT ![h] = w],
           w.pc # "idle" => w.a \in Adaptations,
           w.pc \in {"claimed", "replied"} => w.claim \in DOMAIN receipts'[w.a]
    PROVE  worker' \in [Handlers -> Worker] /\ WorkersOwnRows'
  BY DEF TypeInv, TypeOK, WorkersOwnRows, HistoryKept

LEMMA WorkerLeaves ==
    ASSUME TypeInv, HistoryKept, NEW h \in Handlers, worker[h].pc # "idle",
           NEW pc \in {"returning", "throwing"}, Leave(h, pc)
    PROVE  worker' \in [Handlers -> Worker] /\ WorkersOwnRows'
<1> DEFINE w == [Idle EXCEPT !.pc = pc, !.a = worker[h].a, !.n = worker[h].n]
<1>1. worker[h] \in Worker
  BY DEF TypeInv, TypeOK
<1>2. w \in Worker
  BY <1>1 DEF Worker, Idle, PCs, Statuses, Replies
<1>3. w.pc = pc /\ w.a = worker[h].a
  BY DEF Idle
<1>4. w.a \in Adaptations
  BY <1>3 DEF TypeInv, WorkersOwnRows
<1>5. worker' = [worker EXCEPT ![h] = w]
  BY DEF Leave
<1> HIDE DEF w
<1> QED
  BY <1>2, <1>3, <1>4, <1>5, WorkerMoves

LEMMA WorkerRests ==
    ASSUME TypeInv, HistoryKept, NEW h \in Handlers, worker' = [worker EXCEPT ![h] = Idle]
    PROVE  worker' \in [Handlers -> Worker] /\ WorkersOwnRows'
<1>1. Idle \in Worker /\ Idle.pc = "idle"
  BY DEF Idle, Worker, PCs, Statuses, Replies
<1> QED
  BY <1>1, WorkerMoves

\* markFailed writes well-formed rows and deletes none.
LEMMA MarkFailedType ==
    ASSUME TypeInv, NEW h \in Handlers, worker[h].pc # "idle",
           NEW outcome \in {"failed", "unknown"}, MarkFailed(h, outcome)
    PROVE  RowsTyped /\ HistoryKept
<1> DEFINE w    == worker[h]
           rows == receipts[w.a]
<1>1. /\ w \in Worker /\ w.a \in Adaptations /\ w.claim \in Nat /\ w.att \in Nat
      /\ rows \in Seq(Receipt)
      /\ receipts \in [Adaptations -> Seq(Receipt)]
  BY DEF TypeInv, TypeOK, WorkersOwnRows, Worker
<1>2. CASE FenceHeld(h)
  <2>1. FailedAttempt(w.a) \in Nat
    BY <1>1 DEF FailedAttempt, TypeInv, TypeOK
  <2>2. outcome \in ReceiptStatuses
    BY DEF ReceiptStatuses
  <2>3. /\ status' = [status EXCEPT ![w.a] = "failed"]
        /\ attempt' = [attempt EXCEPT ![w.a] = FailedAttempt(w.a)]
        /\ receipts' = [receipts EXCEPT ![w.a] =
                          ResolveClaim(rows, w.claim, outcome, FailedAttempt(w.a))]
        /\ RecomputeItem(status')
        /\ UNCHANGED slot
    BY <1>2 DEF MarkFailed
  <2> HIDE DEF w, rows
  <2>4. item' \in ItemStatuses /\ archivedFrom' \in ItemStatuses
    BY <2>3, RecomputeItemType DEF TypeInv, TypeOK
  <2>5. receipts' \in [Adaptations -> Seq(Receipt)]
    BY <1>1, <2>1, <2>2, <2>3, ResolveClaimType
  <2>6. HistoryKept
    BY <1>1, <2>1, <2>2, <2>3, ResolveClaimDomain DEF rows, HistoryKept
  <2> QED
    BY <2>1, <2>3, <2>4, <2>5, <2>6 DEF RowsTyped, TypeInv, TypeOK, Statuses
<1>3. CASE ~ FenceHeld(h)
  <2> DEFINE row == [rows[w.claim] EXCEPT !.st = outcome, !.att = w.att,
                                          !.superseded = (outcome = "unknown")]
  <2>1. CASE w.claim \in RowsIn(rows, {"in_flight"})
    <3>1. w.claim \in DOMAIN rows
      BY <2>1 DEF RowsIn
    <3>2. rows[w.claim] \in Receipt
      BY <1>1, <3>1, ElementOfSeq, LenProperties
    <3>3. row \in Receipt
      BY <1>1, <3>2 DEF Receipt, ReceiptStatuses
    <3>4. receipts' = WithReceipt(w.a, w.claim, row)
      BY <1>3, <2>1 DEF MarkFailed
    <3>5. UNCHANGED <<item, archivedFrom, status, attempt, slot>>
      BY <1>3, <2>1 DEF MarkFailed, itemVars, rowVars
    <3> HIDE DEF row
    <3>6. receipts' \in [Adaptations -> Seq(Receipt)] /\ HistoryKept
      BY <1>1, <3>1, <3>3, <3>4, WithReceiptType DEF TypeInv, TypeOK
    <3> QED
      BY <3>5, <3>6 DEF RowsTyped, TypeInv, TypeOK
  <2>2. CASE w.claim \notin RowsIn(rows, {"in_flight"})
    BY <1>3, <2>2 DEF MarkFailed, itemVars, rowVars, RowsTyped, HistoryKept, TypeInv, TypeOK
  <2> QED
    BY <2>1, <2>2
<1> QED
  BY <1>2, <1>3

\* The row of a callback's own claim.
LEMMA OwnReceipt ==
    ASSUME TypeInv, NEW h \in Handlers, worker[h].pc \in {"claimed", "replied"}
    PROVE  /\ worker[h] \in Worker
           /\ worker[h].a \in Adaptations
           /\ worker[h].claim \in DOMAIN receipts[worker[h].a]
           /\ receipts[worker[h].a][worker[h].claim] \in Receipt
<1>1. /\ worker[h] \in Worker
      /\ worker[h].a \in Adaptations
      /\ worker[h].claim \in DOMAIN receipts[worker[h].a]
      /\ receipts[worker[h].a] \in Seq(Receipt)
  BY DEF TypeInv, TypeOK, WorkersOwnRows
<1> QED
  BY <1>1, ElementOfSeq, LenProperties

\* What TypeOK says of the variables a callback does not write to.
LEMMA HandlerElsewhere ==
    ASSUME TypeInv, RowsTyped, UNCHANGED Elsewhere, worker' \in [Handlers -> Worker]
    PROVE  TypeOK'
  BY DEF TypeInv, TypeOK, RowsTyped, Elsewhere, queueVars

\* A step that only reads the database.
LEMMA DatabaseReadOnly ==
    ASSUME TypeInv, UNCHANGED Database
    PROVE  RowsTyped /\ HistoryKept
  BY DEF TypeInv, TypeOK, Database, itemVars, rowVars, RowsTyped, HistoryKept

LEMMA FailJobsType ==
    ASSUME jobs \subseteq Job, deadLetters \subseteq Adaptations,
           NEW J \in SUBSET jobs, FailJobs(J)
    PROVE  jobs' \subseteq Job /\ deadLetters' \subseteq Adaptations
<1>1. ASSUME NEW j \in J
      PROVE  (IF j.left = 0 THEN [j EXCEPT !.state = "dead"]
              ELSE [j EXCEPT !.state = "waiting", !.left = @ - 1]) \in Job
  <2>1. j \in Job
    OBVIOUS
  <2>2. CASE j.left = 0
    BY <2>1, <2>2 DEF Job
  <2>3. CASE j.left # 0
    <3>1. j.left - 1 \in Nat
      BY <2>1, <2>3 DEF Job
    <3>2. [j EXCEPT !.state = "waiting", !.left = j.left - 1] \in Job
      BY <2>1, <3>1 DEF Job
    <3> QED
      BY <2>3, <3>2
  <2> QED
    BY <2>2, <2>3
<1> QED
  BY <1>1 DEF FailJobs, Job

\* What a callback does.
LEMMA HandlerType == \A h \in Handlers : TypeInv /\ HandlerStep(h) => TypeInv'
<1> SUFFICES ASSUME NEW h \in Handlers, TypeInv, HandlerStep(h) PROVE TypeInv'
  OBVIOUS
<1> DEFINE w == worker[h]
<1>0. /\ TypeOK
      /\ w \in Worker
      /\ w.pc # "idle" => w.a \in Adaptations
  BY DEF TypeInv, TypeOK, WorkersOwnRows
<1>1. CASE Load(h)
  <2>0. UNCHANGED Elsewhere /\ RowsTyped /\ HistoryKept /\ w.pc = "fetched"
    BY <1>1, DatabaseReadOnly DEF Load
  <2>1. CASE Leave(h, "returning")
    BY <2>0, <2>1, WorkerLeaves, HandlerElsewhere DEF TypeInv
  <2>2. CASE ~ Leave(h, "returning")
    <3>1. PICK due \in {"early", "now", "late"} :
            worker' = [worker EXCEPT ![h] = [w EXCEPT !.pc = "loaded", !.st = status[w.a],
                         !.att = attempt[w.a], !.slot = slot[w.a], !.due = due]]
      BY <1>1, <2>2 DEF Load
    <3> DEFINE v == [w EXCEPT !.pc = "loaded", !.st = status[w.a],
                         !.att = attempt[w.a], !.slot = slot[w.a], !.due = due]
    <3>2. v \in Worker /\ v.a = w.a /\ v.pc = "loaded"
      BY <1>0, <2>0 DEF TypeOK, Worker, PCs
    <3> HIDE DEF v
    <3> QED
      BY <1>0, <2>0, <3>1, <3>2, WorkerMoves, HandlerElsewhere DEF TypeInv, v
  <2> QED
    BY <2>1, <2>2
<1>2. CASE CheckSent(h)
  <2>0. UNCHANGED Elsewhere /\ RowsTyped /\ HistoryKept /\ w.pc = "loaded"
    BY <1>2, DatabaseReadOnly DEF CheckSent
  <2>1. CASE Leave(h, "returning")
    BY <2>0, <2>1, WorkerLeaves, HandlerElsewhere DEF TypeInv
  <2>2. CASE ~ Leave(h, "returning")
    <3>1. PICK pc \in {"unsupported", "ready"} : worker' = [worker EXCEPT ![h].pc = pc]
      BY <1>2, <2>2 DEF CheckSent, Goto
    <3> DEFINE v == [w EXCEPT !.pc = pc]
    <3>2. v \in Worker /\ v.a = w.a /\ v.pc = pc
      BY <1>0 DEF Worker, PCs
    <3>3. worker' = [worker EXCEPT ![h] = v]
      BY <1>0, <3>1 DEF TypeOK
    <3> HIDE DEF v
    <3> QED
      BY <1>0, <2>0, <3>2, <3>3, WorkerMoves, HandlerElsewhere DEF TypeInv
  <2> QED
    BY <2>1, <2>2
<1>3. CASE Mark(h)
  <2>0. /\ UNCHANGED Elsewhere /\ w.pc = "ready"
        /\ UNCHANGED <<item, archivedFrom, slot, receipts>>
    BY <1>3 DEF Mark, itemVars
  <2>1. HistoryKept
    BY <2>0 DEF HistoryKept
  <2>a. attempt[w.a] + 1 \in Nat
    BY <1>0, <2>0 DEF TypeOK
  <2>b. \/ UNCHANGED <<status, attempt>>
        \/ /\ status' = [status EXCEPT ![w.a] = "publishing"]
           /\ attempt' = [attempt EXCEPT ![w.a] = attempt[w.a] + 1]
    BY <1>3 DEF Mark
  <2>2. RowsTyped
    BY <1>0, <2>0, <2>a, <2>b DEF RowsTyped, TypeOK, Statuses
  <2>3. CASE Leave(h, "returning")
    BY <2>0, <2>1, <2>2, <2>3, WorkerLeaves, HandlerElsewhere DEF TypeInv
  <2>4. CASE ~ Leave(h, "returning")
    <3> DEFINE v == [w EXCEPT !.pc = "marked", !.slot = 0, !.st = "publishing",
                              !.att = attempt[w.a] + 1]
    <3>1. worker' = [worker EXCEPT ![h] = v]
      BY <1>3, <2>4 DEF Mark
    <3>2. v \in Worker /\ v.a = w.a /\ v.pc = "marked"
      BY <1>0, <2>a DEF Worker, PCs, Statuses
    <3> HIDE DEF v
    <3> QED
      BY <1>0, <2>0, <2>1, <2>2, <3>1, <3>2, WorkerMoves, HandlerElsewhere DEF TypeInv
  <2> QED
    BY <2>3, <2>4
<1>4. CASE Claim(h)
  <2>0. /\ UNCHANGED Elsewhere /\ w.pc = "marked"
        /\ UNCHANGED <<item, archivedFrom, status, attempt, slot>>
    BY <1>4 DEF Claim, itemVars, rowVars
  <2>1. CASE Goto(h, "unclaimed") /\ UNCHANGED receipts
    <3> DEFINE v == [w EXCEPT !.pc = "unclaimed"]
    <3>1. v \in Worker /\ v.a = w.a /\ v.pc = "unclaimed"
      BY <1>0 DEF Worker, PCs
    <3>2. worker' = [worker EXCEPT ![h] = v]
      BY <1>0, <2>1 DEF Goto, TypeOK
    <3>3. RowsTyped /\ HistoryKept
      BY <2>0, <2>1, DatabaseReadOnly DEF Database, itemVars, rowVars
    <3> HIDE DEF v
    <3> QED
      BY <1>0, <2>0, <3>1, <3>2, <3>3, WorkerMoves, HandlerElsewhere DEF TypeInv
  <2>2. CASE ~ (Goto(h, "unclaimed") /\ UNCHANGED receipts)
    <3> DEFINE v == [w EXCEPT !.pc = "claimed", !.claim = Len(receipts[w.a]) + 1]
               row == NewReceipt("in_flight", attempt[w.a], FALSE)
    <3>1. /\ receipts' = [receipts EXCEPT ![w.a] = Append(receipts[w.a], row)]
          /\ worker' = [worker EXCEPT ![h] = v]
      BY <1>4, <2>2 DEF Claim
    <3>2. row \in Receipt
      BY <1>0, <2>0, NewReceiptType DEF TypeOK, ReceiptStatuses
    <3>3. receipts[w.a] \in Seq(Receipt) /\ Len(receipts[w.a]) \in Nat
      BY <1>0, <2>0, LenProperties DEF TypeOK
    <3>a. Len(receipts[w.a]) + 1 \in Nat
      BY <3>3
    <3>b. w \in [pc : PCs, a : Adaptations \cup {None}, n : Nat, st : Statuses, att : Nat,
                 slot : Nat, due : {"early", "now", "late"}, claim : Nat, reply : Replies]
      BY <1>0 DEF Worker
    <3>4. v \in Worker /\ v.a = w.a /\ v.claim = Len(receipts[w.a]) + 1
      <4> DEFINE m == Len(receipts[w.a]) + 1
      <4> HIDE DEF m
      <4>1. [w EXCEPT !.pc = "claimed", !.claim = m] \in Worker
        BY <3>a, <3>b DEF Worker, PCs, m
      <4> QED
        BY <3>b, <4>1 DEF m
    <3> HIDE DEF v, row
    <3>5. /\ receipts' \in [Adaptations -> Seq(Receipt)]
          /\ HistoryKept
          /\ Len(receipts[w.a]) + 1 \in DOMAIN receipts'[w.a]
      BY <1>0, <2>0, <3>1, <3>2, <3>3, AppendReceipt DEF TypeOK, HistoryKept
    <3>6. RowsTyped
      BY <1>0, <2>0, <3>5 DEF TypeOK, RowsTyped
    <3> QED
      BY <1>0, <2>0, <3>1, <3>4, <3>5, <3>6, WorkerMoves, HandlerElsewhere DEF TypeInv
  <2> QED
    BY <2>1, <2>2
<1>5. ASSUME NEW reply \in Replies \ {"none"}, NEW posted \in BOOLEAN, Send(h, reply, posted)
      PROVE  TypeInv'
  <2> DEFINE row == [receipts[w.a][w.claim] EXCEPT !.posted = posted]
             v   == [w EXCEPT !.pc = "replied", !.reply = reply]
  <2>0. /\ UNCHANGED Elsewhere /\ w.pc = "claimed"
        /\ UNCHANGED <<item, archivedFrom, status, attempt, slot>>
        /\ receipts' = WithReceipt(w.a, w.claim, row)
        /\ worker' = [worker EXCEPT ![h] = v]
    BY <1>5 DEF Send, itemVars, rowVars
  <2>1. row \in Receipt
    BY <2>0, OwnReceipt DEF Receipt
  <2>2. v \in Worker /\ v.a = w.a /\ v.claim = w.claim
    BY <1>0 DEF Worker, PCs
  <2> HIDE DEF row, v
  <2>3. receipts' \in [Adaptations -> Seq(Receipt)] /\ HistoryKept
    BY <1>0, <2>0, <2>1, OwnReceipt, WithReceiptType DEF TypeOK
  <2>4. RowsTyped /\ w.claim \in DOMAIN receipts'[w.a] /\ w.a \in Adaptations
    BY <1>0, <2>0, <2>3, OwnReceipt DEF RowsTyped, TypeOK, HistoryKept
  <2> QED
    BY <2>0, <2>2, <2>3, <2>4, WorkerMoves, HandlerElsewhere DEF TypeInv
<1>6. CASE RecordFailure(h)
  <2>1. /\ w.pc # "idle" /\ Verdict(h) \in {"failed", "unknown"}
        /\ MarkFailed(h, Verdict(h))
        /\ Leave(h, "returning") /\ UNCHANGED Elsewhere
    BY <1>6 DEF RecordFailure, Verdict
  <2>2. RowsTyped /\ HistoryKept
    BY <2>1, MarkFailedType
  <2> QED
    BY <2>1, <2>2, WorkerLeaves, HandlerElsewhere DEF TypeInv
<1>7. CASE RecordPublished(h)
  <2> DEFINE row == [receipts[w.a][w.claim] EXCEPT !.st = "published", !.ext = TRUE]
  <2>0. /\ UNCHANGED <<attempt, slot>> /\ UNCHANGED Elsewhere
        /\ w.pc = "replied" /\ Leave(h, "returning")
    BY <1>7 DEF RecordPublished
  <2>1. CASE UNCHANGED <<itemVars, status, receipts>>
    BY <2>0, <2>1, DatabaseReadOnly, WorkerLeaves, HandlerElsewhere
    DEF TypeInv, Database, itemVars, rowVars
  <2>2. CASE ~ UNCHANGED <<itemVars, status, receipts>>
    <3>1. /\ status' = [status EXCEPT ![w.a] = "published"]
          /\ receipts' = WithReceipt(w.a, w.claim, row)
          /\ RecomputeItem(status')
      BY <1>7, <2>2 DEF RecordPublished
    <3>2. row \in Receipt
      BY <2>0, OwnReceipt DEF Receipt, ReceiptStatuses
    <3> HIDE DEF row
    <3>3. receipts' \in [Adaptations -> Seq(Receipt)] /\ HistoryKept
      BY <1>0, <2>0, <3>1, <3>2, OwnReceipt, WithReceiptType DEF TypeOK
    <3>4. item' \in ItemStatuses /\ archivedFrom' \in ItemStatuses
      BY <1>0, <3>1, RecomputeItemType DEF TypeOK
    <3>5. RowsTyped
      BY <1>0, <2>0, <3>1, <3>3, <3>4 DEF RowsTyped, TypeOK, Statuses
    <3> QED
      BY <2>0, <3>3, <3>5, WorkerLeaves, HandlerElsewhere DEF TypeInv
  <2> QED
    BY <2>1, <2>2
<1>8. CASE RecordAccepted(h)
  <2> DEFINE old == receipts[w.a][w.claim]
             row(held) == [old EXCEPT !.st = "unknown", !.ext = TRUE,
                             !.superseded = @ \/ (old.st = "in_flight" /\ ~ held)]
  <2>0. /\ UNCHANGED <<attempt, slot>> /\ UNCHANGED Elsewhere
        /\ w.pc = "replied" /\ Leave(h, "returning")
    BY <1>8 DEF RecordAccepted
  <2>1. CASE UNCHANGED <<itemVars, status, receipts>>
    BY <2>0, <2>1, DatabaseReadOnly, WorkerLeaves, HandlerElsewhere
    DEF TypeInv, Database, itemVars, rowVars
  <2>2. CASE ~ UNCHANGED <<itemVars, status, receipts>>
    <3>1. PICK held \in BOOLEAN :
            /\ status' = IF held THEN [status EXCEPT ![w.a] = "failed"] ELSE status
            /\ receipts' = WithReceipt(w.a, w.claim, row(held))
            /\ IF held THEN RecomputeItem(status') ELSE UNCHANGED itemVars
      BY <1>8, <2>2 DEF RecordAccepted
    <3>2. row(held) \in Receipt
      BY <2>0, OwnReceipt DEF Receipt, ReceiptStatuses
    <3> HIDE DEF row
    <3>3. receipts' \in [Adaptations -> Seq(Receipt)] /\ HistoryKept
      BY <1>0, <2>0, <3>1, <3>2, OwnReceipt, WithReceiptType DEF TypeOK
    <3>4. item' \in ItemStatuses /\ archivedFrom' \in ItemStatuses
      BY <1>0, <3>1, RecomputeItemType DEF TypeOK, itemVars
    <3>5. RowsTyped
      BY <1>0, <2>0, <3>1, <3>3, <3>4 DEF RowsTyped, TypeOK, Statuses
    <3> QED
      BY <2>0, <3>3, <3>5, WorkerLeaves, HandlerElsewhere DEF TypeInv
  <2> QED
    BY <2>1, <2>2
<1>9. CASE ReleaseAndThrow(h)
  <2> DEFINE row == [receipts[w.a][w.claim] EXCEPT !.st = "released"]
  <2>0. /\ UNCHANGED <<item, archivedFrom, status, attempt, slot>> /\ UNCHANGED Elsewhere
        /\ w.pc = "replied" /\ Leave(h, "throwing")
        /\ receipts' \in {receipts, WithReceipt(w.a, w.claim, row)}
    BY <1>9 DEF ReleaseAndThrow, itemVars, rowVars
  <2>1. row \in Receipt
    BY <2>0, OwnReceipt DEF Receipt, ReceiptStatuses
  <2> HIDE DEF row
  <2>2. receipts' \in [Adaptations -> Seq(Receipt)] /\ HistoryKept
    <3>1. CASE receipts' = receipts
      BY <1>0, <3>1 DEF TypeOK, HistoryKept
    <3>2. CASE receipts' = WithReceipt(w.a, w.claim, row)
      BY <1>0, <2>0, <2>1, <3>2, OwnReceipt, WithReceiptType DEF TypeOK
    <3> QED
      BY <2>0, <3>1, <3>2
  <2>3. RowsTyped
    BY <1>0, <2>0, <2>2 DEF RowsTyped, TypeOK
  <2> QED
    BY <2>0, <2>2, <2>3, WorkerLeaves, HandlerElsewhere DEF TypeInv
<1>10. CASE LoseWrite(h)
  <2>1. /\ w.pc # "idle" /\ UNCHANGED Elsewhere /\ RowsTyped /\ HistoryKept
        /\ \E pc \in {"returning", "throwing"} : Leave(h, pc)
    BY <1>10, DatabaseReadOnly DEF LoseWrite, Verdict
  <2> QED
    BY <2>1, WorkerLeaves, HandlerElsewhere DEF TypeInv
<1>11. CASE DatabaseError(h)
  <2>1. /\ w.pc # "idle" /\ UNCHANGED Elsewhere /\ RowsTyped /\ HistoryKept
        /\ Leave(h, "throwing")
    BY <1>11, DatabaseReadOnly DEF DatabaseError
  <2> QED
    BY <2>1, WorkerLeaves, HandlerElsewhere DEF TypeInv
<1>12. CASE Exhaust(h)
  <2>1. /\ w.pc # "idle" /\ worker' = [worker EXCEPT ![h] = Idle]
        /\ MarkFailed(h, Unreported(w.a)) \/ UNCHANGED Database
        /\ UNCHANGED <<cleared, jobs, now, decisions>>
        /\ deadLetters' = deadLetters \ {w.a}
    BY <1>12 DEF Exhaust
  <2>2. RowsTyped /\ HistoryKept
    BY <2>1, MarkFailedType, DatabaseReadOnly DEF Unreported
  <2>3. worker' \in [Handlers -> Worker] /\ WorkersOwnRows'
    BY <2>1, <2>2, WorkerRests
  <2> QED
    BY <1>0, <2>1, <2>2, <2>3 DEF TypeInv, TypeOK, RowsTyped
<1>13. CASE Complete(h)
  <2>1. /\ worker' = [worker EXCEPT ![h] = Idle]
        /\ UNCHANGED Database
        /\ UNCHANGED <<cleared, deadLetters, now, decisions>>
    BY <1>13 DEF Complete, Database
  <2>2. jobs' \subseteq Job
    BY <1>0, <1>13 DEF Complete, TypeOK, Job
  <2>3. worker' \in [Handlers -> Worker] /\ WorkersOwnRows' /\ RowsTyped
    BY <2>1, WorkerRests, DatabaseReadOnly
  <2> QED
    BY <1>0, <2>1, <2>2, <2>3 DEF TypeInv, TypeOK, RowsTyped
<1>14. CASE Fail(h)
  <2>1. /\ worker' = [worker EXCEPT ![h] = Idle]
        /\ UNCHANGED Database
        /\ UNCHANGED <<cleared, now, decisions>>
        /\ FailJobs({j \in JobsOf(h) : j.state # "dead"})
    BY <1>14 DEF Fail, Database
  <2>2. jobs' \subseteq Job /\ deadLetters' \subseteq Adaptations
    BY <1>0, <2>1, FailJobsType DEF TypeOK, JobsOf
  <2>3. worker' \in [Handlers -> Worker] /\ WorkersOwnRows' /\ RowsTyped
    BY <2>1, WorkerRests, DatabaseReadOnly
  <2> QED
    BY <1>0, <2>1, <2>2, <2>3 DEF TypeInv, TypeOK, RowsTyped
<1> QED
  BY <1>1, <1>2, <1>3, <1>4, <1>5, <1>6, <1>7, <1>8, <1>9, <1>10, <1>11, <1>12, <1>13, <1>14
  DEF HandlerStep

LEMMA QueueType ==
    TypeInv /\ (\/ \E a \in Adaptations : FetchOf(a) \/ TakeDeadLetterOf(a) \/ DropDeadLetter(a)
                \/ \E h \in Handlers : Crash(h)
                \/ \E j \in jobs : Timeout(j) \/ DropJob(j)
                \/ Tick) => TypeInv'
<1> SUFFICES ASSUME TypeInv PROVE
      (\/ \E a \in Adaptations : FetchOf(a) \/ TakeDeadLetterOf(a) \/ DropDeadLetter(a)
       \/ \E h \in Handlers : Crash(h)
       \/ \E j \in jobs : Timeout(j) \/ DropJob(j)
       \/ Tick) => TypeInv'
  OBVIOUS
<1>0. TypeOK
  BY DEF TypeInv
<1>a. Idle \in Worker
  BY DEF Idle, Worker, PCs, Statuses, Replies
<1>1. ASSUME NEW h \in Handlers, NEW j \in jobs, Fetch(h, j) PROVE TypeInv'
  <2> DEFINE v == [Idle EXCEPT !.pc = "fetched", !.a = j.a, !.n = j.n]
  <2>1. /\ worker' = [worker EXCEPT ![h] = v]
        /\ UNCHANGED Database
        /\ UNCHANGED <<cleared, deadLetters, now, decisions>>
        /\ jobs' = (jobs \ {j}) \cup {[j EXCEPT !.state = "active"]}
    BY <1>1 DEF Fetch, Database
  <2>2. jobs' \subseteq Job /\ j.a \in Adaptations /\ j.n \in Nat
    BY <1>0, <2>1 DEF TypeOK, Job
  <2>3. v \in Worker /\ v.a = j.a /\ v.pc = "fetched"
    BY <1>a, <2>2 DEF Worker, PCs, Idle
  <2> HIDE DEF v
  <2>4. worker' \in [Handlers -> Worker] /\ WorkersOwnRows' /\ RowsTyped
    BY <2>1, <2>2, <2>3, WorkerMoves, DatabaseReadOnly
  <2> QED
    BY <1>0, <2>1, <2>2, <2>4 DEF TypeInv, TypeOK, RowsTyped
<1>2. ASSUME NEW h \in Handlers, NEW a \in Adaptations, TakeDeadLetter(h, a) PROVE TypeInv'
  <2> DEFINE v == [Idle EXCEPT !.pc = "exhausting", !.a = a,
                               !.st = "publishing", !.att = attempt[a]]
  <2>1. /\ worker' \in {worker, [worker EXCEPT ![h] = v]}
        /\ UNCHANGED Database
        /\ UNCHANGED <<cleared, jobs, now, decisions>>
        /\ deadLetters' \subseteq deadLetters
    BY <1>2 DEF TakeDeadLetter, Database
  <2>2. v \in Worker /\ v.a = a /\ v.pc = "exhausting"
    BY <1>0, <1>a DEF TypeOK, Worker, PCs, Idle, Statuses
  <2> HIDE DEF v
  <2>3. RowsTyped /\ HistoryKept
    BY <2>1, DatabaseReadOnly
  <2>4. worker' \in [Handlers -> Worker] /\ WorkersOwnRows'
    <3>1. CASE worker' = worker
      BY <1>0, <2>3, <3>1, OwnRowsKept DEF TypeOK, HistoryKept
    <3>2. CASE worker' = [worker EXCEPT ![h] = v]
      BY <2>2, <2>3, <3>2, WorkerMoves
    <3> QED
      BY <2>1, <3>1, <3>2
  <2> QED
    BY <1>0, <2>1, <2>3, <2>4 DEF TypeInv, TypeOK, RowsTyped
<1>3. ASSUME NEW h \in Handlers, Crash(h) PROVE TypeInv'
  <2>1. /\ worker' = [worker EXCEPT ![h] = Idle]
        /\ UNCHANGED Database
        /\ UNCHANGED <<cleared, jobs, deadLetters, now, decisions>>
    BY <1>3 DEF Crash, Database, queueVars
  <2>2. worker' \in [Handlers -> Worker] /\ WorkersOwnRows' /\ RowsTyped
    BY <2>1, WorkerRests, DatabaseReadOnly
  <2> QED
    BY <1>0, <2>1, <2>2 DEF TypeInv, TypeOK, RowsTyped
<1>4. ASSUME NEW j \in jobs, Timeout(j) \/ DropJob(j) PROVE TypeInv'
  <2>1. /\ UNCHANGED Database
        /\ UNCHANGED <<cleared, worker, now, decisions>>
    BY <1>4 DEF Timeout, DropJob, Database
  <2>2. jobs' \subseteq Job /\ deadLetters' \subseteq Adaptations
    BY <1>0, <1>4, FailJobsType DEF TypeOK, Timeout, DropJob
  <2>3. RowsTyped /\ HistoryKept
    BY <2>1, DatabaseReadOnly
  <2> QED
    BY <1>0, <2>1, <2>2, <2>3, OwnRowsKept DEF TypeInv, TypeOK, RowsTyped, HistoryKept
<1>5. ASSUME NEW a \in Adaptations, DropDeadLetter(a) PROVE TypeInv'
  <2>1. /\ UNCHANGED Database
        /\ UNCHANGED <<cleared, jobs, worker, now, decisions>>
        /\ deadLetters' \subseteq deadLetters
    BY <1>5 DEF DropDeadLetter, Database
  <2>2. RowsTyped /\ HistoryKept
    BY <2>1, DatabaseReadOnly
  <2> QED
    BY <1>0, <2>1, <2>2, OwnRowsKept DEF TypeInv, TypeOK, RowsTyped, HistoryKept
<1>6. CASE Tick
  <2>1. /\ UNCHANGED Database
        /\ UNCHANGED <<cleared, jobs, deadLetters, worker, decisions>>
        /\ now' = now + 1
    BY <1>6 DEF Tick, Database, queueVars
  <2>2. RowsTyped /\ HistoryKept
    BY <2>1, DatabaseReadOnly
  <2> QED
    BY <1>0, <2>1, <2>2, OwnRowsKept DEF TypeInv, TypeOK, RowsTyped, HistoryKept
<1> QED
  BY <1>1, <1>2, <1>3, <1>4, <1>5, <1>6 DEF FetchOf, TakeDeadLetterOf

LEMMA SweepType == TypeInv /\ SweepStep => TypeInv'
<1> SUFFICES ASSUME TypeInv, NEW S \in SUBSET Adaptations, Sweep(S) PROVE TypeInv'
  BY DEF SweepStep, SweepAbandoned, SweepStranded
<1> DEFINE rows(a) == IF a \in S THEN ResolveClaim(receipts[a], 0, Unreported(a), attempt[a])
                      ELSE receipts[a]
<1>0. TypeOK
  BY DEF TypeInv
<1>1. ASSUME NEW a \in Adaptations
      PROVE  rows(a) \in Seq(Receipt) /\ DOMAIN receipts[a] \subseteq DOMAIN rows(a)
  <2>1. receipts[a] \in Seq(Receipt) /\ attempt[a] \in Nat /\ Unreported(a) \in ReceiptStatuses
    BY <1>0 DEF TypeOK, ReceiptStatuses, Unreported
  <2> QED
    BY <2>1, ResolveClaimType, ResolveClaimDomain
<1>2. receipts' = [a \in Adaptations |-> rows(a)]
  BY DEF Sweep
<1>3. /\ UNCHANGED <<attempt, slot, cleared, jobs, deadLetters, worker, now, decisions>>
      /\ status' = [a \in Adaptations |-> IF a \in S THEN "failed" ELSE status[a]]
      /\ RecomputeItem(status')
  BY DEF Sweep, Elsewhere, queueVars
<1> HIDE DEF rows
<1>4. receipts' \in [Adaptations -> Seq(Receipt)] /\ HistoryKept
  BY <1>1, <1>2 DEF HistoryKept
<1>5. item' \in ItemStatuses /\ archivedFrom' \in ItemStatuses
  BY <1>0, <1>3, RecomputeItemType DEF TypeOK
<1>6. TypeOK'
  BY <1>0, <1>3, <1>4, <1>5 DEF TypeOK, Statuses
<1> QED
  BY <1>3, <1>4, <1>6, OwnRowsKept DEF TypeInv, HistoryKept

LEMMA StepType == TypeInv /\ [Next]_vars => TypeInv'
<1>1. CASE UNCHANGED vars
  BY <1>1 DEF vars, TypeInv, TypeOK, WorkersOwnRows
<1> QED
  BY <1>1, PersonType, HandlerType, QueueType, SweepType DEF Next

\* Every variable keeps its type and every callback past its claim a row of its
\* own, whatever the fan-out, the number of workers and the bounds.
THEOREM TypeCorrect == Spec => [](TypeOK /\ WorkersOwnRows)
<1>1. Spec => []TypeInv
  BY InitType, StepType, PTL DEF Spec
<1> QED
  BY <1>1, PTL DEF TypeInv

(***************************************************************************)
(* Writes to the receipts of one adaptation                                 *)
(***************************************************************************)

LEMMA RowType ==
    ASSUME NEW rows \in Seq(Receipt), NEW i \in DOMAIN rows
    PROVE  rows[i] \in Receipt /\ i \in 1..Len(rows)
  BY ElementOfSeq, LenProperties

\* The newest finished receipt decides: when it is the last row, and unknown.
LEMMA LastRowUnknown ==
    ASSUME NEW rows \in Seq(Receipt), Len(rows) \in DOMAIN rows,
           rows[Len(rows)].st = "unknown"
    PROVE  LastUnknown(rows)
<1> DEFINE finished == RowsIn(rows, {"published", "failed", "unknown"})
<1>1. Len(rows) \in finished
  BY DEF RowsIn
<1>2. \A j \in finished : j \in 1..Len(rows)
  BY LenProperties DEF RowsIn
<1>3. \A j \in finished : j <= Len(rows)
  BY <1>2, LenProperties
<1> QED
  BY <1>1, <1>3 DEF LastUnknown

\* A sound history with nothing live and nothing in flight suits any status.
LEMMA QuietHistory ==
    ASSUME NEW rows \in Seq(Receipt), NEW clear \in Nat, NEW st, NEW st2,
           SoundHistory(st, rows, clear),
           Live(rows, clear) = {}, RowsIn(rows, {"in_flight"}) = {}
    PROVE  SoundHistory(st2, rows, clear)
  BY DEF SoundHistory

\* When a history is quiet.
LEMMA Quiet ==
    ASSUME NEW rows \in Seq(Receipt), NEW clear \in Nat, NEW st,
           SoundHistory(st, rows, clear),
           \/ st \in {"pending", "manual_ready", "scheduled", "queued"}
           \/ st = "publishing" /\ RowsIn(rows, {"in_flight"}) = {}
           \/ st = "failed" /\ ~ LastUnknown(rows)
    PROVE  Live(rows, clear) = {} /\ RowsIn(rows, {"in_flight"}) = {}
  BY DEF SoundHistory

\* A write that changes neither the verdict of a row nor who gave it.
LEMMA SameVerdict ==
    ASSUME NEW rows \in Seq(Receipt), NEW clear \in Nat, NEW st,
           SoundHistory(st, rows, clear),
           NEW i \in DOMAIN rows, NEW row \in Receipt,
           row.st = rows[i].st, row.human = rows[i].human,
           row.superseded = rows[i].superseded,
           row.posted => row.st \in MayBeLive /\ ~ row.human
    PROVE  SoundHistory(st, [rows EXCEPT ![i] = row], clear)
<1> DEFINE new == [rows EXCEPT ![i] = row]
<1>1. DOMAIN new = DOMAIN rows /\ Len(new) = Len(rows)
  BY ExceptSeq, LenProperties
<1>2. \A j \in DOMAIN rows : /\ new[j].st = rows[j].st
                             /\ new[j].human = rows[j].human
                             /\ new[j].superseded = rows[j].superseded
                             /\ j # i => new[j] = rows[j]
                             /\ j = i => new[j] = row
  OBVIOUS
<1> HIDE DEF new
<1>3. \A S : RowsIn(new, S) = RowsIn(rows, S)
  BY <1>1, <1>2 DEF RowsIn
<1>4. Live(new, clear) = Live(rows, clear)
  BY <1>1, <1>2 DEF Live
<1>5. LastUnknown(rows) => LastUnknown(new)
  BY <1>2, <1>3 DEF LastUnknown, RowsIn
<1>6. SoundHistory(st, new, clear)
  BY <1>1, <1>2, <1>3, <1>4, <1>5 DEF SoundHistory
<1> QED
  BY <1>6 DEF new

\* A write that ends the claim in flight: as unknown, with the delivery failed;
\* as published, with the delivery published; or as anything that is not live.
LEMMA EndClaim ==
    ASSUME NEW rows \in Seq(Receipt), NEW clear \in Nat, NEW st, NEW st2,
           SoundHistory(st, rows, clear),
           NEW i \in DOMAIN rows, rows[i].st = "in_flight",
           NEW row \in Receipt, row.st # "in_flight",
           row.posted => row.st \in MayBeLive /\ ~ row.human,
           \/ st2 = "failed" /\ row.st = "unknown"
           \/ st2 = "published"
           \/ row.st \notin MayBeLive
           \/ row.superseded
    PROVE  SoundHistory(st2, [rows EXCEPT ![i] = row], clear)
<1> DEFINE new == [rows EXCEPT ![i] = row]
<1>1. DOMAIN new = DOMAIN rows /\ Len(new) = Len(rows)
  BY ExceptSeq, LenProperties
<1>2. new[i] = row /\ \A j \in DOMAIN rows : j # i => new[j] = rows[j]
  OBVIOUS
<1>3. new \in Seq(Receipt)
  BY ReplaceReceipt
<1>4. i = Len(rows) /\ st = "publishing"
  BY DEF SoundHistory, RowsIn
<1> HIDE DEF new
<1>5. RowsIn(new, {"in_flight"}) = {}
  BY <1>1, <1>2, <1>4 DEF SoundHistory, RowsIn
<1>6. Live(new, clear) \subseteq {i}
  <2>1. Live(rows, clear) \subseteq {i}
    BY <1>4 DEF SoundHistory, RowsIn
  <2> QED
    BY <1>1, <1>2, <2>1 DEF Live
<1>7. row.st \notin MayBeLive \/ row.superseded => Live(new, clear) = {}
  BY <1>1, <1>2, <1>6 DEF Live
<1>8. \A j \in DOMAIN new : new[j].posted => new[j].st \in MayBeLive /\ ~ new[j].human
  BY <1>1, <1>2 DEF SoundHistory
<1>9. row.st = "unknown" => LastUnknown(new)
  BY <1>1, <1>2, <1>3, <1>4, LastRowUnknown
<1>10. SoundHistory(st2, new, clear)
  BY <1>5, <1>6, <1>7, <1>8, <1>9 DEF SoundHistory
<1> QED
  BY <1>10 DEF new

\* claimSend: the one row in flight is the newest, on a publishing adaptation.
LEMMA AppendClaim ==
    ASSUME NEW rows \in Seq(Receipt), NEW clear \in Nat, NEW att \in Nat,
           SoundHistory("publishing", rows, clear), RowsIn(rows, {"in_flight"}) = {}
    PROVE  SoundHistory("publishing", Append(rows, NewReceipt("in_flight", att, FALSE)), clear)
<1> DEFINE row == NewReceipt("in_flight", att, FALSE)
           new == Append(rows, row)
           n   == Len(rows) + 1
<1>1. row \in Receipt /\ row.st = "in_flight" /\ ~ row.posted
  BY NewReceiptType DEF ReceiptStatuses, NewReceipt
<1> HIDE DEF row
<1>2. /\ DOMAIN new = DOMAIN rows \cup {n} /\ Len(new) = n
      /\ \A i \in DOMAIN rows : new[i] = rows[i]
      /\ new[n] = row
  BY <1>1, AppendReceipt, AppendProperties
<1> HIDE DEF new, n
<1>3. RowsIn(new, {"in_flight"}) = {n}
  BY <1>1, <1>2 DEF RowsIn
<1>4. Live(rows, clear) = {}
  BY DEF SoundHistory
<1>5. Live(new, clear) \subseteq {n}
  BY <1>2, <1>4 DEF Live
<1>6. \A j \in DOMAIN new : new[j].posted => new[j].st \in MayBeLive /\ ~ new[j].human
  BY <1>1, <1>2 DEF SoundHistory
<1>7. SoundHistory("publishing", new, clear)
  BY <1>2, <1>3, <1>5, <1>6 DEF SoundHistory
<1> QED
  BY <1>7 DEF new, row

\* A receipt appended when nothing is in flight: it is nobody's live post, or
\* the unknown end of a delivery with nothing live so far.  A person's verdict
\* may also move the line up to which claims are vouched for.
LEMMA AppendEnd ==
    ASSUME NEW rows \in Seq(Receipt), NEW clear \in Nat, NEW att \in Nat, NEW st,
           NEW end \in {"failed", "published", "unknown"}, NEW human \in BOOLEAN,
           NEW st2 \in {"failed", "published"}, NEW clear2 \in {clear, Len(rows)},
           SoundHistory(st, rows, clear), RowsIn(rows, {"in_flight"}) = {},
           \/ end = "failed" /\ Live(rows, clear) = {}
           \/ end = "unknown" /\ st2 = "failed" /\ Live(rows, clear) = {}
           \/ human /\ st2 = "published" /\ clear2 = clear
           \/ human /\ clear2 = Len(rows)
    PROVE  SoundHistory(st2, Append(rows, NewReceipt(end, att, human)), clear2)
<1> DEFINE row == NewReceipt(end, att, human)
           new == Append(rows, row)
           n   == Len(rows) + 1
<1>1. /\ row \in Receipt /\ row.st = end /\ row.human = human
      /\ ~ row.posted /\ ~ row.superseded
  BY NewReceiptType DEF ReceiptStatuses, NewReceipt
<1> HIDE DEF row
<1>2. /\ DOMAIN new = DOMAIN rows \cup {n} /\ Len(new) = n
      /\ \A i \in DOMAIN rows : new[i] = rows[i]
      /\ new[n] = row /\ n \notin DOMAIN rows /\ new \in Seq(Receipt)
      /\ \A i \in DOMAIN rows : i \in 1..Len(rows)
  BY <1>1, AppendReceipt, AppendProperties, LenProperties
<1>3. \A i \in DOMAIN rows : i > Len(rows) => FALSE
  BY <1>2, LenProperties
<1> HIDE DEF new, n
<1>4. RowsIn(new, {"in_flight"}) = {}
  BY <1>1, <1>2 DEF RowsIn
<1>5. \A j \in DOMAIN new : new[j].posted => new[j].st \in MayBeLive /\ ~ new[j].human
  BY <1>1, <1>2 DEF SoundHistory
<1>6. end = "failed" \/ human => n \notin Live(new, clear2)
  BY <1>1, <1>2 DEF Live, MayBeLive
<1>7. clear2 = clear => Live(new, clear2) \subseteq Live(rows, clear) \cup {n}
  BY <1>2 DEF Live
<1>8. clear2 = Len(rows) => Live(new, clear2) \subseteq {n}
  BY <1>2, <1>3 DEF Live
<1>9. end = "unknown" => LastUnknown(new)
  BY <1>1, <1>2, LastRowUnknown
<1>10. SoundHistory(st2, new, clear2)
  BY <1>4, <1>5, <1>6, <1>7, <1>8, <1>9 DEF SoundHistory
<1> QED
  BY <1>10 DEF new, row

\* A receipt that is nobody's live post leaves a quiet history quiet.
LEMMA AppendQuiet ==
    ASSUME NEW rows \in Seq(Receipt), NEW clear \in Nat, NEW att \in Nat,
           NEW end \in {"failed", "published", "unknown"}, NEW human \in BOOLEAN,
           NEW clear2 \in {clear, Len(rows)},
           RowsIn(rows, {"in_flight"}) = {}, Live(rows, clear) = {},
           end = "failed" \/ human
    PROVE  /\ RowsIn(Append(rows, NewReceipt(end, att, human)), {"in_flight"}) = {}
           /\ Live(Append(rows, NewReceipt(end, att, human)), clear2) = {}
<1> DEFINE row == NewReceipt(end, att, human)
           new == Append(rows, row)
           n   == Len(rows) + 1
<1>1. /\ row \in Receipt /\ row.st = end /\ row.human = human
  BY NewReceiptType DEF ReceiptStatuses, NewReceipt
<1> HIDE DEF row
<1>2. /\ DOMAIN new = DOMAIN rows \cup {n}
      /\ \A i \in DOMAIN rows : new[i] = rows[i]
      /\ new[n] = row
      /\ \A i \in DOMAIN rows : i \in 1..Len(rows)
  BY <1>1, AppendReceipt, LenProperties
<1>3. \A i \in DOMAIN rows : i > Len(rows) => FALSE
  BY <1>2, LenProperties
<1> HIDE DEF new, n
<1>4. RowsIn(new, {"in_flight"}) = {}
  BY <1>1, <1>2 DEF RowsIn
<1>5. Live(new, clear2) = {}
  BY <1>1, <1>2, <1>3 DEF Live, MayBeLive
<1> QED
  BY <1>4, <1>5 DEF new, row

\* A receipt as resolveClaim leaves it.
Ended(row, end, att) == [row EXCEPT !.st = end, !.att = att]

\* resolveClaim updates one row: the claim in flight is unique.
LEMMA ResolveOne ==
    ASSUME NEW rows \in Seq(Receipt), NEW clear \in Nat, NEW st,
           SoundHistory(st, rows, clear),
           NEW claim \in Nat, NEW end, NEW att, NEW i \in Claimed(rows, claim)
    PROVE  /\ i \in DOMAIN rows /\ rows[i].st = "in_flight"
           /\ Claimed(rows, claim) = {i}
           /\ ResolveClaim(rows, claim, end, att) =
                [rows EXCEPT ![i] = Ended(rows[i], end, att)]
<1>1. i \in DOMAIN rows /\ rows[i].st = "in_flight"
  BY DEF Claimed, RowsIn
<1>2. \A j \in Claimed(rows, claim) : j = i
  BY DEF Claimed, RowsIn, SoundHistory
<1>3. Claimed(rows, claim) = {i}
  BY <1>2
<1>4. ResolveClaim(rows, claim, end, att) =
        [j \in DOMAIN rows |-> IF j = i THEN Ended(rows[i], end, att) ELSE rows[j]]
  BY <1>1, <1>3 DEF ResolveClaim, Ended
<1> QED
  BY <1>1, <1>3, <1>4

\* What resolveClaim does to each receipt that was there.
LEMMA ResolveRow ==
    ASSUME NEW rows \in Seq(Receipt), NEW claim \in Nat,
           NEW end \in {"failed", "unknown"}, NEW att \in Nat, NEW i \in DOMAIN rows
    PROVE  /\ i \notin Claimed(rows, claim) =>
                ResolveClaim(rows, claim, end, att)[i] = rows[i]
           /\ i \in Claimed(rows, claim) =>
                ResolveClaim(rows, claim, end, att)[i] = Ended(rows[i], end, att)
<1>1. CASE Claimed(rows, claim) = {}
  <2>1. NewReceipt(end, att, FALSE) \in Receipt
    BY NewReceiptType DEF ReceiptStatuses
  <2>2. Append(rows, NewReceipt(end, att, FALSE))[i] = rows[i]
    BY <2>1, AppendReceipt
  <2> QED
    BY <1>1, <2>2 DEF ResolveClaim
<1>2. CASE Claimed(rows, claim) # {}
  BY <1>2 DEF ResolveClaim, Ended
<1> QED
  BY <1>1, <1>2

\* A delivery that ends as failed, through resolveClaim: its own claim, or any,
\* recorded as failed only when the platform has created nothing.
LEMMA ResolveEnd ==
    ASSUME NEW rows \in Seq(Receipt), NEW clear \in Nat, NEW st,
           SoundHistory(st, rows, clear),
           NEW claim \in Nat, NEW end \in {"failed", "unknown"}, NEW att \in Nat,
           \A i \in Claimed(rows, claim) : end = "unknown" \/ ~ rows[i].posted,
           Claimed(rows, claim) = {} =>
             Live(rows, clear) = {} /\ RowsIn(rows, {"in_flight"}) = {}
    PROVE  SoundHistory("failed", ResolveClaim(rows, claim, end, att), clear)
<1>1. CASE Claimed(rows, claim) = {}
  <2>1. SoundHistory("failed", Append(rows, NewReceipt(end, att, FALSE)), clear)
    BY <1>1, AppendEnd
  <2> QED
    BY <1>1, <2>1 DEF ResolveClaim
<1>2. ASSUME NEW i \in Claimed(rows, claim)
      PROVE  SoundHistory("failed", ResolveClaim(rows, claim, end, att), clear)
  <2> DEFINE row == Ended(rows[i], end, att)
  <2>1. /\ i \in DOMAIN rows /\ rows[i].st = "in_flight"
        /\ ResolveClaim(rows, claim, end, att) = [rows EXCEPT ![i] = row]
    BY <1>2, ResolveOne
  <2>2. rows[i] \in Receipt /\ (rows[i].posted => ~ rows[i].human)
    BY <2>1, RowType DEF SoundHistory
  <2>3. /\ row \in Receipt /\ row.st = end
        /\ row.posted = rows[i].posted /\ row.human = rows[i].human
    BY <2>2 DEF Receipt, ReceiptStatuses, Ended
  <2>4. row.posted => row.st = "unknown"
    BY <1>2, <2>3
  <2> HIDE DEF row
  <2>5. SoundHistory("failed", [rows EXCEPT ![i] = row], clear)
    BY <2>1, <2>2, <2>3, <2>4, EndClaim DEF MayBeLive
  <2> QED
    BY <2>1, <2>5
<1> QED
  BY <1>1, <1>2

(***************************************************************************)
(* What one callback may rely on while others act.                          *)
(***************************************************************************)
CountsAdvance ==
    \A a \in Adaptations :
        /\ attempt[a] <= attempt'[a]
        /\ status'[a] = "publishing" /\ attempt'[a] = attempt[a] => status[a] = "publishing"

RowKept(a, i) ==
    /\ receipts'[a][i].human = receipts[a][i].human
    /\ receipts'[a][i].posted = receipts[a][i].posted
    /\ \/ receipts'[a][i].st = receipts[a][i].st
       \/ /\ receipts[a][i].st = "in_flight"
          /\ receipts'[a][i].st = "unknown"
          /\ status'[a] # "publishing"

Owned(h, a, i) == worker[h].pc \in Claimants /\ worker[h].a = a /\ worker[h].claim = i

CallbackSound(g) ==
    /\ FenceSound(worker[g], attempt[worker[g].a], now)
    /\ worker[g].pc \in Claimants =>
         ClaimSound(worker[g], receipts[worker[g].a][worker[g].claim],
                    status[worker[g].a], attempt[worker[g].a])

LEMMA CallbacksEach == Callbacks <=> \A g \in Handlers : CallbackSound(g)
  BY DEF Callbacks, CallbackSound

\* A callback that does not move, and whose receipt is kept, stays sound.
LEMMA CallbackKept ==
    ASSUME IInv, TypeInv', CountsAdvance, now <= now',
           NEW g \in Handlers, worker'[g] = worker[g],
           worker[g].pc \in Claimants => RowKept(worker[g].a, worker[g].claim)
    PROVE  CallbackSound(g)'
<1> DEFINE w == worker[g]
<1>1. /\ w \in Worker /\ CallbackSound(g)
      /\ now \in Nat /\ now' \in Nat
  BY CallbacksEach DEF IInv, Safe, TypeOK, TypeInv
<1>2. w.att \in Nat /\ w.slot \in Nat
  BY <1>1 DEF Worker
<1>3. ASSUME w.pc # "idle"
      PROVE  /\ w.a \in Adaptations
             /\ attempt[w.a] \in Nat /\ attempt'[w.a] \in Nat
             /\ attempt[w.a] <= attempt'[w.a]
             /\ status'[w.a] = "publishing" /\ attempt'[w.a] = attempt[w.a]
                  => status[w.a] = "publishing"
  <2>1. w.a \in Adaptations
    BY <1>3 DEF IInv, WorkersOwnRows
  <2> QED
    BY <2>1 DEF CountsAdvance, IInv, TypeInv, TypeOK
<1>4. FenceSound(w, attempt'[w.a], now')
  <2>1. w.pc \in Attempting => w.att <= attempt'[w.a]
    <3>1. SUFFICES ASSUME w.pc \in Attempting PROVE w.att <= attempt'[w.a]
      OBVIOUS
    <3>2. w.att <= attempt[w.a] /\ w.pc # "idle"
      BY <1>1, <3>1 DEF CallbackSound, FenceSound, Attempting, Claimants
    <3> QED
      BY <1>2, <1>3, <3>2
  <2>2. w.pc \in {"loaded", "ready"} /\ w.due # "early" => w.slot <= now'
    BY <1>1, <1>2 DEF CallbackSound, FenceSound
  <2> QED
    BY <1>1, <2>1, <2>2 DEF CallbackSound, FenceSound
<1>5. ASSUME w.pc \in Claimants
      PROVE  ClaimSound(w, receipts'[w.a][w.claim], status'[w.a], attempt'[w.a])
  <2>1. /\ ClaimSound(w, receipts[w.a][w.claim], status[w.a], attempt[w.a])
        /\ w.att <= attempt[w.a] /\ w.pc # "idle"
    BY <1>1, <1>5 DEF CallbackSound, FenceSound, Attempting, Claimants
  <2>2. status'[w.a] = "publishing" /\ attempt'[w.a] = w.att
          => status[w.a] = "publishing" /\ attempt[w.a] = w.att
    BY <1>2, <1>3, <2>1
  <2> QED
    BY <1>5, <2>1, <2>2 DEF RowKept, ClaimSound
<1> QED
  BY <1>4, <1>5 DEF CallbackSound

\* Steps no callback takes.
LEMMA CallbacksSame ==
    ASSUME IInv, TypeInv', CountsAdvance, now <= now', worker' = worker,
           \A a \in Adaptations : \A i \in DOMAIN receipts[a] : RowKept(a, i)
    PROVE  Callbacks' /\ ClaimsDistinct'
<1>1. ASSUME NEW g \in Handlers PROVE CallbackSound(g)'
  <2>1. worker[g].pc \in Claimants =>
          worker[g].a \in Adaptations /\ worker[g].claim \in DOMAIN receipts[worker[g].a]
    BY DEF IInv, WorkersOwnRows, Claimants
  <2> QED
    BY <2>1, CallbackKept
<1>2. ClaimsDistinct'
  BY DEF IInv, Safe, ClaimsDistinct
<1> QED
  BY <1>1, <1>2 DEF Callbacks, CallbackSound

\* Steps of callback h, which at most touch its own receipt, end its own claim,
\* or claim a receipt that is new.
LEMMA CallbacksAfter ==
    ASSUME IInv, TypeInv', CountsAdvance, UNCHANGED now, NEW h \in Handlers,
           \A g \in Handlers : g # h => worker'[g] = worker[g],
           \A a \in Adaptations : \A i \in DOMAIN receipts[a] :
               RowKept(a, i) \/ Owned(h, a, i),
           CallbackSound(h)',
           worker'[h].pc \in Claimants =>
               \/ Owned(h, worker'[h].a, worker'[h].claim)
               \/ worker'[h].claim \notin DOMAIN receipts[worker'[h].a]
    PROVE  Callbacks' /\ ClaimsDistinct'
<1>1. ASSUME NEW g \in Handlers, worker[g].pc \in Claimants
      PROVE  worker[g].a \in Adaptations /\ worker[g].claim \in DOMAIN receipts[worker[g].a]
  BY <1>1 DEF IInv, WorkersOwnRows, Claimants
<1>2. ASSUME NEW g \in Handlers PROVE CallbackSound(g)'
  <2>1. CASE g = h
    BY <2>1
  <2>2. CASE g # h
    <3>1. worker[g].pc \in Claimants => RowKept(worker[g].a, worker[g].claim)
      BY <1>1, <2>2 DEF IInv, Safe, ClaimsDistinct, Owned
    <3>2. now <= now'
      BY DEF IInv, TypeOK
    <3> QED
      BY <2>2, <3>1, <3>2, CallbackKept
  <2> QED
    BY <2>1, <2>2
<1>3. ClaimsDistinct'
  <2> SUFFICES ASSUME NEW f \in Handlers, NEW g \in Handlers,
                      worker'[f].pc \in Claimants, worker'[g].pc \in Claimants,
                      worker'[f].a = worker'[g].a, worker'[f].claim = worker'[g].claim,
                      f # g
               PROVE  FALSE
    BY DEF ClaimsDistinct
  <2>1. CASE f # h /\ g # h
    BY <2>1 DEF IInv, Safe, ClaimsDistinct
  <2>2. ASSUME NEW o \in Handlers, o # h, worker'[o].pc \in Claimants,
               worker'[h].pc \in Claimants,
               worker'[o].a = worker'[h].a, worker'[o].claim = worker'[h].claim
        PROVE  FALSE
    <3>1. worker'[o] = worker[o] /\ worker[o].claim \in DOMAIN receipts[worker[o].a]
      BY <1>1, <2>2
    <3>2. Owned(h, worker'[h].a, worker'[h].claim)
      BY <2>2, <3>1
    <3> QED
      BY <2>2, <3>1, <3>2 DEF IInv, Safe, ClaimsDistinct, Owned
  <2> QED
    BY <2>1, <2>2
<1> QED
  BY <1>2, <1>3 DEF Callbacks, CallbackSound

\* A callback that returns, throws or rests claims nothing.
LEMMA LeaveSound ==
    ASSUME NEW h \in Handlers, TypeOK, NEW pc \in {"returning", "throwing"}, Leave(h, pc)
    PROVE  /\ CallbackSound(h)' /\ worker'[h].pc \notin Claimants
           /\ \A g \in Handlers : g # h => worker'[g] = worker[g]
<1>1. /\ worker'[h].pc = pc /\ worker'[h].claim = 0
      /\ \A g \in Handlers : g # h => worker'[g] = worker[g]
  BY DEF Leave, Idle, TypeOK
<1> QED
  BY <1>1 DEF CallbackSound, FenceSound, Attempting, Claimants

LEMMA RestSound ==
    ASSUME NEW h \in Handlers, TypeOK, worker' = [worker EXCEPT ![h] = Idle]
    PROVE  /\ CallbackSound(h)' /\ worker'[h].pc \notin Claimants
           /\ \A g \in Handlers : g # h => worker'[g] = worker[g]
<1>1. /\ worker'[h] = Idle
      /\ \A g \in Handlers : g # h => worker'[g] = worker[g]
  BY DEF TypeOK
<1> QED
  BY <1>1 DEF CallbackSound, FenceSound, Attempting, Claimants, Idle

(***************************************************************************)
(* What people decide.                                                      *)
(***************************************************************************)
Waiting == {"pending", "manual_ready", "scheduled", "queued"}

\* What a delivery that has not started, or ended with a known outcome, has in
\* its history.
LEMMA QuietNow ==
    ASSUME IInv, NEW a \in Adaptations,
           \/ status[a] \in Waiting
           \/ status[a] = "publishing" /\ InFlight(a) = {}
           \/ status[a] = "failed" /\ ~ OutcomeUnknown(a)
    PROVE  QuietRow(a)
<1>1. /\ SoundHistory(status[a], receipts[a], cleared[a])
      /\ receipts[a] \in Seq(Receipt) /\ cleared[a] \in Nat
  BY DEF IInv, Safe, Histories, TypeOK
<1>2. ASSUME status[a] = "failed", LastUnknown(receipts[a])
      PROVE  OutcomeUnknown(a)
  <2>1. PICK i \in Finished(a) : /\ receipts[a][i].st = "unknown"
                                 /\ \A j \in Finished(a) : j <= i
    BY <1>2 DEF LastUnknown, Finished
  <2>2. \A j \in Finished(a) : j \in 1..Len(receipts[a])
    BY <1>1, LenProperties DEF Finished, RowsIn
  <2>3. Latest(Finished(a)) \in Finished(a) /\ i <= Latest(Finished(a))
    BY <2>1 DEF Latest
  <2>4. Latest(Finished(a)) = i
    <3>1. Latest(Finished(a)) <= i
      BY <2>1, <2>3
    <3>2. i \in Int /\ Latest(Finished(a)) \in Int
      BY <1>1, <2>2, <2>3, LenProperties
    <3> QED
      BY <2>3, <3>1, <3>2
  <2> QED
    BY <1>2, <2>1, <2>4 DEF OutcomeUnknown
<1> QED
  BY <1>1, <1>2, Quiet DEF QuietRow, Waiting, InFlight

\* A decision that writes no receipt.
LEMMA StatusOnly ==
    ASSUME IInv, TypeInv', UNCHANGED <<receipts, cleared, worker, now>>, CountsAdvance,
           \A a \in Adaptations : status'[a] = status[a] \/ QuietRow(a),
           PublishingAuthorised'
    PROVE  Safe'
<1>1. Histories'
  <2> SUFFICES ASSUME NEW a \in Adaptations
               PROVE  SoundHistory(status'[a], receipts[a], cleared[a])
    BY DEF Histories
  <2>1. /\ SoundHistory(status[a], receipts[a], cleared[a])
        /\ receipts[a] \in Seq(Receipt) /\ cleared[a] \in Nat
    BY DEF IInv, Safe, Histories, TypeOK
  <2> QED
    BY <2>1, QuietHistory DEF QuietRow
<1>2. UnsupportedNeverSent'
  BY DEF IInv, Safe, UnsupportedNeverSent, QuietRow
<1>3. Callbacks' /\ ClaimsDistinct'
  <2>1. now <= now' /\ \A a \in Adaptations : \A i \in DOMAIN receipts[a] : RowKept(a, i)
    BY DEF RowKept, IInv, TypeOK
  <2> QED
    BY <2>1, CallbacksSame
<1> QED
  BY <1>1, <1>2, <1>3 DEF Safe

\* Every other adaptation keeps its status and its history.
OthersKept(a) ==
    \A b \in Adaptations \ {a} : UNCHANGED <<status[b], receipts[b], cleared[b]>>

\* A decision that appends a person's receipt to a delivery that is not under way.
LEMMA PersonReceipt ==
    ASSUME IInv, TypeInv', NEW a \in Adaptations,
           NEW end \in {"failed", "published"}, status[a] # "publishing",
           OthersKept(a), status'[a] = end,
           receipts'[a] = Append(receipts[a], NewReceipt(end, attempt[a], TRUE)),
           \/ end = "published" /\ cleared'[a] = cleared[a]
           \/ cleared'[a] = Len(receipts[a]),
           UNCHANGED <<attempt, worker, now>>, PublishingAuthorised'
    PROVE  Safe'
<1> DEFINE row == NewReceipt(end, attempt[a], TRUE)
<1>0. /\ SoundHistory(status[a], receipts[a], cleared[a])
      /\ receipts[a] \in Seq(Receipt) /\ cleared[a] \in Nat /\ attempt[a] \in Nat
  BY DEF IInv, Safe, Histories, TypeOK
<1>1. RowsIn(receipts[a], {"in_flight"}) = {}
  BY <1>0 DEF SoundHistory
<1>a. cleared'[a] \in {cleared[a], Len(receipts[a])}
  OBVIOUS
<1>2. /\ SoundHistory(end, receipts'[a], cleared'[a])
      /\ Live(receipts[a], cleared[a]) = {} =>
           /\ RowsIn(receipts'[a], {"in_flight"}) = {}
           /\ Live(receipts'[a], cleared'[a]) = {}
  <2> DEFINE new == Append(receipts[a], NewReceipt(end, attempt[a], TRUE))
  <2>1. ASSUME NEW c \in {cleared[a], Len(receipts[a])},
               (end = "published" /\ c = cleared[a]) \/ c = Len(receipts[a])
        PROVE  SoundHistory(end, new, c)
    BY <1>0, <1>1, <2>1, AppendEnd
  <2>2. ASSUME NEW c \in {cleared[a], Len(receipts[a])},
               Live(receipts[a], cleared[a]) = {}
        PROVE  RowsIn(new, {"in_flight"}) = {} /\ Live(new, c) = {}
    BY <1>0, <1>1, <2>2, AppendQuiet
  <2> QED
    BY <1>a, <2>1, <2>2
<1>3. Histories'
  BY <1>2 DEF Histories, IInv, Safe, OthersKept
<1>4. UnsupportedNeverSent'
  <2>1. a \in Unsupported => QuietRow(a)'
    BY <1>2 DEF QuietRow, IInv, Safe, UnsupportedNeverSent
  <2> QED
    BY <2>1, PublishAssumption
    DEF IInv, Safe, UnsupportedNeverSent, OthersKept, QuietRow
<1>5. \A b \in Adaptations : \A i \in DOMAIN receipts[b] : RowKept(b, i)
  <2>1. row \in Receipt
    BY <1>0, NewReceiptType DEF ReceiptStatuses
  <2>2. receipts'[a] = Append(receipts[a], row)
    OBVIOUS
  <2> HIDE DEF row
  <2>3. \A i \in DOMAIN receipts[a] : Append(receipts[a], row)[i] = receipts[a][i]
    BY <1>0, <2>1, AppendReceipt
  <2> QED
    BY <2>2, <2>3 DEF RowKept, OthersKept
<1>6. CountsAdvance /\ now <= now'
  BY DEF CountsAdvance, IInv, TypeOK, OthersKept
<1>7. Callbacks' /\ ClaimsDistinct'
  BY <1>5, <1>6, CallbacksSame
<1> QED
  BY <1>3, <1>4, <1>7 DEF Safe

LEMMA PersonSafe == IInv /\ TypeInv' /\ PersonStep => Safe'
<1> SUFFICES ASSUME IInv, TypeInv', PersonStep PROVE Safe'
  OBVIOUS
<1>0. /\ status \in [Adaptations -> Statuses] /\ attempt \in [Adaptations -> Nat]
      /\ slot \in [Adaptations -> Nat] /\ cleared \in [Adaptations -> Nat]
      /\ receipts \in [Adaptations -> Seq(Receipt)] /\ now \in Nat
      /\ PublishingAuthorised
  BY DEF IInv, Safe, TypeOK
<1> USE DEF Waiting
<1>1. ASSUME NEW s \in Slots \cup {0}, Approve(s) PROVE Safe'
  <2>0. /\ UNCHANGED <<receipts, cleared, worker, now>> /\ item' = "approved"
        /\ status' = [a \in Adaptations |->
                        IF a \in Automatic THEN (IF s = 0 THEN "queued" ELSE "scheduled")
                        ELSE IF a \in Sendable THEN "manual_ready" ELSE status[a]]
        /\ slot' = [a \in Adaptations |->
                        IF a \in Automatic THEN s ELSE IF a \in Sendable THEN 0 ELSE slot[a]]
        /\ attempt' = [a \in Adaptations |->
                        IF a \in Automatic THEN NextJob(a) ELSE attempt[a]]
    BY <1>1 DEF Approve, Decide
  <2>1. Automatic \subseteq Sendable
    BY DEF Automatic
  <2>2. \A a \in Adaptations : status'[a] = status[a] \/ QuietRow(a)
    BY <2>0, <2>1, QuietNow DEF Sendable
  <2>3. \A a \in Adaptations : status'[a] = "publishing" =>
          status[a] = "publishing" /\ slot'[a] = slot[a]
    BY <2>0, <2>1
  <2>4. CountsAdvance
    BY <1>0, <2>0, <2>3 DEF CountsAdvance, NextJob
  <2>5. PublishingAuthorised'
    BY <1>0, <2>0, <2>3 DEF PublishingAuthorised
  <2> QED
    BY <2>0, <2>2, <2>4, <2>5, StatusOnly
<1>2. ASSUME NEW a \in Adaptations, NEW s \in Slots, Reschedule(a, s) PROVE Safe'
  <2>0. /\ UNCHANGED <<item, status, receipts, cleared, worker, now>>
        /\ status[a] = "scheduled"
        /\ slot' = [slot EXCEPT ![a] = s]
        /\ attempt' = [attempt EXCEPT ![a] = attempt[a] + 1]
    BY <1>2 DEF Reschedule, Reschedulable, Decide, itemVars
  <2>1. CountsAdvance
    BY <1>0, <2>0 DEF CountsAdvance
  <2>2. PublishingAuthorised'
    BY <1>0, <2>0 DEF PublishingAuthorised
  <2> QED
    BY <2>0, <2>1, <2>2, StatusOnly
<1>3. ASSUME NEW a \in Adaptations, CancelSchedule(a) PROVE Safe'
  <2>0. /\ UNCHANGED <<item, receipts, cleared, worker, now>>
        /\ status[a] = "scheduled"
        /\ status' = [status EXCEPT ![a] = "pending"]
        /\ slot' = [slot EXCEPT ![a] = 0]
        /\ attempt' = [attempt EXCEPT ![a] = attempt[a] + 1]
    BY <1>3 DEF CancelSchedule, Reschedulable, Decide, itemVars
  <2>1. CountsAdvance
    BY <1>0, <2>0 DEF CountsAdvance
  <2>2. PublishingAuthorised'
    BY <1>0, <2>0 DEF PublishingAuthorised
  <2>3. \A b \in Adaptations : status'[b] = status[b] \/ QuietRow(b)
    BY <1>0, <2>0, QuietNow
  <2> QED
    BY <2>0, <2>1, <2>2, <2>3, StatusOnly
<1>4. CASE Retract
  <2> DEFINE hadJob == {a \in Adaptations : status[a] \in {"scheduled", "queued"}}
  <2>0. /\ UNCHANGED <<receipts, cleared, worker, now>>
        /\ \A a \in Adaptations : status[a] \in {"pending", "scheduled", "queued"}
        /\ status' = [a \in Adaptations |-> "pending"]
        /\ attempt' = [a \in Adaptations |->
                          IF a \in hadJob THEN attempt[a] + 1 ELSE attempt[a]]
    BY <1>4 DEF Retract, Decide
  <2>1. CountsAdvance
    BY <1>0, <2>0 DEF CountsAdvance
  <2>2. PublishingAuthorised'
    BY <2>0 DEF PublishingAuthorised
  <2>3. \A b \in Adaptations : QuietRow(b)
    BY <2>0, QuietNow
  <2> QED
    BY <2>0, <2>1, <2>2, <2>3, StatusOnly
<1>5. CASE Reject
  <2> DEFINE stopped == {a \in Adaptations : status[a] \in Outstanding \cup {"manual_ready"}}
  <2>0. /\ UNCHANGED <<receipts, cleared, worker, now>>
        /\ \A a \in stopped : status[a] = "publishing" => InFlight(a) = {}
        /\ status' = [a \in Adaptations |-> IF a \in stopped THEN "pending" ELSE status[a]]
        /\ attempt' = [a \in Adaptations |->
                          IF status[a] \in Outstanding THEN attempt[a] + 1 ELSE attempt[a]]
    BY <1>5 DEF Reject, Decide
  <2>1. \A a \in Adaptations : status'[a] # "publishing"
    BY <2>0 DEF Outstanding
  <2>2. CountsAdvance
    BY <1>0, <2>0, <2>1 DEF CountsAdvance
  <2>3. PublishingAuthorised'
    BY <2>1 DEF PublishingAuthorised
  <2>4. \A b \in stopped : QuietRow(b)
    BY <2>0, QuietNow DEF Outstanding
  <2>5. \A b \in Adaptations : status'[b] = status[b] \/ QuietRow(b)
    BY <2>0, <2>4
  <2> QED
    BY <2>0, <2>2, <2>3, <2>5, StatusOnly
<1>6. CASE Archive
  <2>0. /\ UNCHANGED <<status, attempt, slot, receipts, cleared, worker, now>>
        /\ \A a \in Adaptations : status[a] # "publishing"
    BY <1>6 DEF Archive, Decide, rowVars, Outstanding
  <2>1. CountsAdvance /\ PublishingAuthorised'
    BY <1>0, <2>0 DEF CountsAdvance, PublishingAuthorised
  <2> QED
    BY <2>0, <2>1, StatusOnly
<1>7. CASE Restore
  <2>0. /\ UNCHANGED <<status, attempt, slot, receipts, cleared, worker, now>>
        /\ item = "archived"
    BY <1>7 DEF Restore, Decide, rowVars
  <2>1. CountsAdvance /\ PublishingAuthorised'
    BY <1>0, <2>0 DEF CountsAdvance, PublishingAuthorised
  <2> QED
    BY <2>0, <2>1, StatusOnly
<1>8. ASSUME NEW a \in Adaptations, NEW delivered \in BOOLEAN, AssertDelivery(a, delivered)
      PROVE  Safe'
  <2> DEFINE end == IF delivered THEN "published" ELSE "failed"
  <2>0. /\ UNCHANGED <<attempt, slot, worker, now>>
        /\ item # "archived" /\ OutcomeUnknown(a)
        /\ status' = [status EXCEPT ![a] = end]
        /\ receipts' = [receipts EXCEPT ![a] =
                           Append(receipts[a], NewReceipt(end, attempt[a], TRUE))]
        /\ cleared' = [cleared EXCEPT ![a] =
                          IF delivered THEN cleared[a] ELSE Len(receipts[a])]
        /\ item' = NextItemStatus(status')
    BY <1>8 DEF AssertDelivery, Decide
  <2>1. end \in {"failed", "published"} /\ (delivered <=> end = "published")
    OBVIOUS
  <2>2. status[a] = "failed"
    BY <2>0 DEF OutcomeUnknown
  <2>3. /\ OthersKept(a) /\ status'[a] = end
        /\ receipts'[a] = Append(receipts[a], NewReceipt(end, attempt[a], TRUE))
        /\ cleared'[a] = IF delivered THEN cleared[a] ELSE Len(receipts[a])
    BY <1>0, <2>0 DEF OthersKept
  <2>4. PublishingAuthorised'
    <3>1. item' \in {item, "published", "failed", "partially_published"}
      BY <2>0 DEF NextItemStatus
    <3>2. \A b \in Adaptations : status'[b] = "publishing" => status[b] = "publishing"
      BY <2>1, <2>3 DEF OthersKept
    <3> QED
      BY <1>0, <2>0, <3>1, <3>2 DEF PublishingAuthorised
  <2> HIDE DEF end
  <2> QED
    BY <2>0, <2>1, <2>2, <2>3, <2>4, PersonReceipt
<1>9. ASSUME NEW a \in Adaptations, ConfirmManual(a) PROVE Safe'
  <2>0. /\ UNCHANGED <<attempt, slot, cleared, worker, now>>
        /\ status[a] = "manual_ready"
        /\ status' = [status EXCEPT ![a] = "published"]
        /\ receipts' = [receipts EXCEPT ![a] =
                           Append(receipts[a], NewReceipt("published", attempt[a], TRUE))]
        /\ item' = NextItemStatus(status')
    BY <1>9 DEF ConfirmManual, Decide
  <2>1. /\ OthersKept(a) /\ status'[a] = "published"
        /\ receipts'[a] = Append(receipts[a], NewReceipt("published", attempt[a], TRUE))
    BY <1>0, <2>0 DEF OthersKept
  <2>2. PublishingAuthorised'
    <3>1. item' \in {item, "published", "failed", "partially_published"}
      BY <2>0 DEF NextItemStatus
    <3>2. \A b \in Adaptations : status'[b] = "publishing" => status[b] = "publishing"
      BY <2>1 DEF OthersKept
    <3> QED
      BY <1>0, <2>0, <3>1, <3>2 DEF PublishingAuthorised
  <2> QED
    BY <2>0, <2>1, <2>2, PersonReceipt
<1> QED
  BY <1>1, <1>2, <1>3, <1>4, <1>5, <1>6, <1>7, <1>8, <1>9 DEF PersonStep

(***************************************************************************)
(* What callbacks write.                                                    *)
(***************************************************************************)
\* Every receipt is kept, save that callback h may rewrite its own claim.
RowsKeptBut(h) ==
    \A a \in Adaptations : \A i \in DOMAIN receipts[a] : RowKept(a, i) \/ Owned(h, a, i)

\* Nobody takes an attempt, and the item at most learns how deliveries ended.
NothingStarts ==
    /\ \A a \in Adaptations : status'[a] = "publishing" => status[a] = "publishing"
    /\ item' \in {item, "published", "failed", "partially_published"}

\* The writes to one adaptation leave it sound and everyone else alone.
SoundWrite(h, a) ==
    /\ OthersKept(a)
    /\ SoundHistory(status'[a], receipts'[a], cleared'[a])
    /\ a \in Unsupported => /\ Live(receipts'[a], cleared'[a]) = {}
                            /\ RowsIn(receipts'[a], {"in_flight"}) = {}
    /\ CountsAdvance
    /\ RowsKeptBut(h)

LEMMA WriteSafe ==
    ASSUME IInv, TypeInv', NEW h \in Handlers, NEW a \in Adaptations, SoundWrite(h, a),
           PublishingAuthorised', UNCHANGED now,
           CallbackSound(h)',
           \A g \in Handlers : g # h => worker'[g] = worker[g],
           worker'[h].pc \in Claimants =>
               \/ Owned(h, worker'[h].a, worker'[h].claim)
               \/ worker'[h].claim \notin DOMAIN receipts[worker'[h].a]
    PROVE  Safe'
<1>1. Histories'
  BY DEF IInv, Safe, Histories, SoundWrite, OthersKept
<1>2. UnsupportedNeverSent'
  BY PublishAssumption
  DEF IInv, Safe, UnsupportedNeverSent, SoundWrite, OthersKept, QuietRow
<1>3. Callbacks' /\ ClaimsDistinct'
  BY CallbacksAfter DEF SoundWrite, RowsKeptBut
<1> QED
  BY <1>1, <1>2, <1>3 DEF Safe

LEMMA AuthorisedKept ==
    ASSUME IInv, NothingStarts, UNCHANGED <<slot, now>>
    PROVE  PublishingAuthorised'
  BY DEF IInv, Safe, PublishingAuthorised, NothingStarts

LEMMA RecomputeStarts ==
    ASSUME NEW sts, RecomputeItem(sts)
    PROVE  item' \in {item, "published", "failed", "partially_published"}
  BY DEF RecomputeItem, NextItemStatus

\* Steps that write to no row of the item.
LEMMA ReadOnlySafe ==
    ASSUME IInv, UNCHANGED <<Database, cleared>>, now \in Nat, now' \in Nat, now <= now'
    PROVE  /\ Histories' /\ UnsupportedNeverSent' /\ PublishingAuthorised'
           /\ CountsAdvance
           /\ \A a \in Adaptations : \A i \in DOMAIN receipts[a] : RowKept(a, i)
<1>1. UNCHANGED <<item, status, attempt, slot, receipts, cleared>>
  BY DEF Database, itemVars, rowVars
<1>2. Histories' /\ UnsupportedNeverSent'
  BY <1>1 DEF IInv, Safe, Histories, UnsupportedNeverSent, QuietRow
<1>3. PublishingAuthorised'
  BY <1>1 DEF IInv, Safe, PublishingAuthorised, TypeOK
<1>4. CountsAdvance
  BY <1>1 DEF CountsAdvance, IInv, TypeOK
<1>5. \A a \in Adaptations : \A i \in DOMAIN receipts[a] : RowKept(a, i)
  BY <1>1 DEF RowKept
<1> QED
  BY <1>2, <1>3, <1>4, <1>5

LEMMA ReadOnlyStep ==
    ASSUME IInv, TypeInv', UNCHANGED <<Database, cleared, now>>, NEW h \in Handlers,
           CallbackSound(h)', worker'[h].pc \notin Claimants,
           \A g \in Handlers : g # h => worker'[g] = worker[g]
    PROVE  Safe'
<1>1. now \in Nat /\ now' \in Nat /\ now <= now'
  BY DEF IInv, TypeOK
<1>2. /\ Histories' /\ UnsupportedNeverSent' /\ PublishingAuthorised'
      /\ CountsAdvance
      /\ \A a \in Adaptations : \A i \in DOMAIN receipts[a] : RowKept(a, i)
  BY <1>1, ReadOnlySafe
<1>3. Callbacks' /\ ClaimsDistinct'
  BY <1>2, CallbacksAfter
<1> QED
  BY <1>2, <1>3 DEF Safe

\* What a callback that is about to record something knows.
LEMMA Knows ==
    ASSUME IInv, NEW h \in Handlers, worker[h].pc # "idle"
    PROVE  LET w == worker[h]
           IN  /\ w \in Worker /\ w.a \in Adaptations
               /\ w.claim \in Nat /\ w.att \in Nat
               /\ receipts[w.a] \in Seq(Receipt)
               /\ cleared[w.a] \in Nat /\ attempt[w.a] \in Nat
               /\ SoundHistory(status[w.a], receipts[w.a], cleared[w.a])
               /\ FenceSound(w, attempt[w.a], now)
               /\ w.pc \in Claimants =>
                    /\ w.claim \in DOMAIN receipts[w.a]
                    /\ receipts[w.a][w.claim] \in Receipt
                    /\ ClaimSound(w, receipts[w.a][w.claim], status[w.a], attempt[w.a])
               /\ 0 \notin DOMAIN receipts[w.a]
<1> DEFINE w == worker[h]
<1>1. /\ w \in Worker /\ w.a \in Adaptations
      /\ w.pc \in Claimants => w.claim \in DOMAIN receipts[w.a]
  BY DEF IInv, TypeOK, WorkersOwnRows, Claimants
<1>2. /\ receipts[w.a] \in Seq(Receipt) /\ cleared[w.a] \in Nat /\ attempt[w.a] \in Nat
      /\ w.claim \in Nat /\ w.att \in Nat
      /\ SoundHistory(status[w.a], receipts[w.a], cleared[w.a])
  BY <1>1 DEF IInv, Safe, Histories, TypeOK, Worker
<1>3. CallbackSound(h)
  BY CallbacksEach DEF IInv, Safe
<1>4. 0 \notin DOMAIN receipts[w.a]
  BY <1>2, LenProperties
<1>5. w.pc \in Claimants => receipts[w.a][w.claim] \in Receipt
  BY <1>1, <1>2, RowType
<1> QED
  BY <1>1, <1>2, <1>3, <1>4, <1>5 DEF CallbackSound

\* With its fence held, a callback past its claim owns the claim in flight; any
\* other that fails the delivery finds nothing live besides what is in flight.
LEMMA FailsQuietly ==
    ASSUME IInv, NEW h \in Handlers, FenceHeld(h),
           worker[h].pc \in Attempting \cup {"unsupported", "exhausting"},
           Claimed(receipts[worker[h].a], worker[h].claim) = {}
    PROVE  QuietRow(worker[h].a)
<1> DEFINE w == worker[h]
<1>1. w.pc # "idle"
  BY DEF Attempting, Claimants
<1>2. /\ w.a \in Adaptations /\ w \in Worker
      /\ FenceSound(w, attempt[w.a], now)
      /\ w.pc \in Claimants =>
           /\ w.claim \in DOMAIN receipts[w.a]
           /\ ClaimSound(w, receipts[w.a][w.claim], status[w.a], attempt[w.a])
  BY <1>1, Knows
<1>3. w.pc \notin Claimants
  BY <1>2 DEF FenceHeld, FenceSound, ClaimSound, Attempting, Claimants, Claimed, RowsIn
<1>4. w.claim = 0 /\ RowsIn(receipts[w.a], {"in_flight"}) = {}
  BY <1>2, <1>3 DEF FenceSound, Claimed
<1>5. CASE w.pc = "unsupported"
  BY <1>2, <1>5 DEF FenceSound, IInv, Safe, UnsupportedNeverSent
<1>6. CASE w.pc # "unsupported"
  <2>1. status[w.a] = "publishing"
    BY <1>2, <1>6 DEF FenceSound, FenceHeld
  <2> QED
    BY <1>2, <1>4, <2>1, QuietNow DEF InFlight
<1> QED
  BY <1>5, <1>6

\* markFailed, called by a callback whose verdict fits what it knows: failed only
\* if the claims it ends were not posted, unknown for whoever else's they are.
LEMMA MarkFailedSafe ==
    ASSUME IInv, TypeInv', UNCHANGED cleared,
           NEW h \in Handlers, NEW outcome \in {"failed", "unknown"},
           MarkFailed(h, outcome),
           worker[h].pc \in Attempting \cup {"unsupported", "exhausting"},
           outcome = "failed" =>
             \A i \in Claimed(receipts[worker[h].a], worker[h].claim) :
                 ~ receipts[worker[h].a][i].posted /\ worker[h].pc \in Claimants,
           outcome = "unknown" => worker[h].a \notin Unsupported
    PROVE  SoundWrite(h, worker[h].a) /\ NothingStarts /\ UNCHANGED slot
<1> DEFINE w    == worker[h]
           rows == receipts[w.a]
<1>0. w.pc # "idle"
  BY DEF Attempting, Claimants
<1>1. /\ w.a \in Adaptations /\ w.claim \in Nat /\ w.att \in Nat
      /\ rows \in Seq(Receipt) /\ cleared[w.a] \in Nat /\ attempt[w.a] \in Nat
      /\ SoundHistory(status[w.a], rows, cleared[w.a])
      /\ FenceSound(w, attempt[w.a], now)
      /\ 0 \notin DOMAIN rows
  BY <1>0, Knows
<1>a. w.pc \notin Claimants => w.claim = 0
  BY <1>1 DEF FenceSound
<1>2. CASE FenceHeld(h)
  <2> DEFINE n == FailedAttempt(w.a)
  <2>1. /\ status' = [status EXCEPT ![w.a] = "failed"]
        /\ attempt' = [attempt EXCEPT ![w.a] = n]
        /\ receipts' = [receipts EXCEPT ![w.a] = ResolveClaim(rows, w.claim, outcome, n)]
        /\ RecomputeItem(status') /\ UNCHANGED slot
    BY <1>2 DEF MarkFailed
  <2>2. n \in Nat /\ n >= attempt[w.a]
    BY <1>1 DEF FailedAttempt
  <2> HIDE DEF n
  <2>3. /\ OthersKept(w.a)
        /\ status'[w.a] = "failed" /\ attempt'[w.a] = n
        /\ receipts'[w.a] = ResolveClaim(rows, w.claim, outcome, n)
        /\ cleared'[w.a] = cleared[w.a]
        /\ \A b \in Adaptations : b # w.a => attempt'[b] = attempt[b]
    BY <1>1, <2>1 DEF OthersKept, IInv, TypeOK
  <2>4. Claimed(rows, w.claim) = {} => QuietRow(w.a)
    BY <1>2, FailsQuietly
  <2>5. SoundHistory("failed", ResolveClaim(rows, w.claim, outcome, n), cleared[w.a])
    BY <1>1, <2>2, <2>4, ResolveEnd DEF QuietRow
  <2>6. w.a \in Unsupported => /\ Live(receipts'[w.a], cleared'[w.a]) = {}
                               /\ RowsIn(receipts'[w.a], {"in_flight"}) = {}
    <3>1. SUFFICES ASSUME w.a \in Unsupported
                   PROVE  /\ Live(receipts'[w.a], cleared'[w.a]) = {}
                          /\ RowsIn(receipts'[w.a], {"in_flight"}) = {}
      OBVIOUS
    <3>2. outcome = "failed" /\ Claimed(rows, w.claim) = {}
      BY <1>1, <3>1 DEF FenceSound, Attempting
    <3>3. receipts'[w.a] = Append(rows, NewReceipt("failed", n, FALSE))
      BY <2>3, <3>2 DEF ResolveClaim
    <3>4. RowsIn(rows, {"in_flight"}) = {} /\ Live(rows, cleared[w.a]) = {}
      BY <2>4, <3>2 DEF QuietRow
    <3>5. /\ RowsIn(Append(rows, NewReceipt("failed", n, FALSE)), {"in_flight"}) = {}
          /\ Live(Append(rows, NewReceipt("failed", n, FALSE)), cleared[w.a]) = {}
      BY <1>1, <2>2, <3>4, AppendQuiet
    <3> QED
      BY <2>3, <3>3, <3>5
  <2>7. CountsAdvance
    BY <2>2, <2>3 DEF CountsAdvance, OthersKept, IInv, TypeOK
  <2>8. RowsKeptBut(h)
    <3>1. ASSUME NEW i \in DOMAIN rows PROVE RowKept(w.a, i) \/ Owned(h, w.a, i)
      <4>1. CASE i \notin Claimed(rows, w.claim)
        <5>1. ResolveClaim(rows, w.claim, outcome, n)[i] = rows[i]
          BY <1>1, <2>2, <4>1, ResolveRow
        <5> QED
          BY <2>3, <5>1 DEF RowKept
      <4>2. CASE i \in Claimed(rows, w.claim) /\ w.pc \in Claimants
        <5>1. w.claim = i
          BY <1>0, <1>1, <4>2, Knows DEF Claimed
        <5> QED
          BY <4>2, <5>1 DEF Owned
      <4>3. CASE i \in Claimed(rows, w.claim) /\ w.pc \notin Claimants
        <5>1. outcome = "unknown" /\ rows[i].st = "in_flight"
          BY <4>3 DEF Claimed, RowsIn
        <5>2. receipts'[w.a][i] = Ended(rows[i], outcome, n)
          BY <1>1, <2>2, <2>3, <4>3, ResolveRow
        <5>3. rows[i] \in Receipt
          BY <1>1, RowType
        <5>4. /\ receipts'[w.a][i].st = "unknown"
              /\ receipts'[w.a][i].human = rows[i].human
              /\ receipts'[w.a][i].posted = rows[i].posted
          BY <5>1, <5>2, <5>3 DEF Ended, Receipt
        <5> QED
          BY <2>3, <5>1, <5>4 DEF RowKept
      <4> QED
        BY <4>1, <4>2, <4>3
    <3> QED
      BY <2>3, <3>1 DEF RowsKeptBut, RowKept, OthersKept
  <2>9. NothingStarts
    BY <2>1, <2>3, RecomputeStarts DEF NothingStarts, OthersKept
  <2> QED
    BY <2>1, <2>3, <2>5, <2>6, <2>7, <2>8, <2>9 DEF SoundWrite
<1>3. CASE ~ FenceHeld(h) /\ w.claim \notin RowsIn(rows, {"in_flight"})
  <2>1. UNCHANGED <<item, status, attempt, slot, receipts, cleared>>
    BY <1>3 DEF MarkFailed, itemVars, rowVars
  <2>2. OthersKept(w.a) /\ SoundHistory(status'[w.a], receipts'[w.a], cleared'[w.a])
    BY <1>1, <2>1 DEF OthersKept
  <2>3. w.a \in Unsupported => /\ Live(receipts'[w.a], cleared'[w.a]) = {}
                               /\ RowsIn(receipts'[w.a], {"in_flight"}) = {}
    BY <2>1 DEF QuietRow, IInv, Safe, UnsupportedNeverSent
  <2>4. CountsAdvance
    BY <2>1 DEF CountsAdvance, IInv, TypeOK
  <2>5. RowsKeptBut(h)
    BY <2>1 DEF RowsKeptBut, RowKept
  <2>6. NothingStarts
    BY <2>1 DEF NothingStarts
  <2> QED
    BY <2>1, <2>2, <2>3, <2>4, <2>5, <2>6 DEF SoundWrite
<1>4. CASE ~ FenceHeld(h) /\ w.claim \in RowsIn(rows, {"in_flight"})
  <2> DEFINE row == [rows[w.claim] EXCEPT !.st = outcome, !.att = w.att,
                                          !.superseded = (outcome = "unknown")]
  <2>1. /\ receipts' = WithReceipt(w.a, w.claim, row)
        /\ UNCHANGED <<item, status, attempt, slot>>
    BY <1>4 DEF MarkFailed, itemVars, rowVars
  <2>2. /\ w.claim \in DOMAIN rows /\ rows[w.claim].st = "in_flight"
        /\ w.pc \in Claimants
    BY <1>1, <1>a, <1>4 DEF RowsIn
  <2>3. rows[w.claim] \in Receipt /\ ~ rows[w.claim].human
    BY <1>0, <2>2, Knows DEF ClaimSound
  <2>4. /\ row \in Receipt /\ row.st = outcome /\ row.human = rows[w.claim].human
        /\ row.posted = rows[w.claim].posted /\ (row.superseded <=> outcome = "unknown")
    BY <1>1, <2>3 DEF Receipt, ReceiptStatuses
  <2>5. row.posted => row.st = "unknown"
    BY <1>4, <2>4 DEF Claimed
  <2> HIDE DEF row
  <2>6. SoundHistory(status[w.a], [rows EXCEPT ![w.claim] = row], cleared[w.a])
    BY <1>1, <2>2, <2>3, <2>4, <2>5, EndClaim DEF MayBeLive
  <2>7. /\ OthersKept(w.a) /\ receipts'[w.a] = [rows EXCEPT ![w.claim] = row]
        /\ \A i \in DOMAIN rows : i # w.claim => receipts'[w.a][i] = rows[i]
    BY <1>1, <2>1 DEF OthersKept, WithReceipt, IInv, TypeOK
  <2>8. RowsKeptBut(h)
    BY <2>1, <2>2, <2>7 DEF RowsKeptBut, RowKept, Owned, OthersKept
  <2>9. CountsAdvance /\ NothingStarts
    BY <2>1 DEF CountsAdvance, NothingStarts, IInv, TypeOK
  <2>10. w.a \notin Unsupported
    BY <1>1, <2>2 DEF FenceSound, Attempting
  <2> QED
    BY <2>1, <2>6, <2>7, <2>8, <2>9, <2>10 DEF SoundWrite
<1> QED
  BY <1>2, <1>3, <1>4

\* A callback rewrites the receipt of its own claim.
LEMMA OwnWrite ==
    ASSUME IInv, NEW h \in Handlers, NEW a \in Adaptations, a = worker[h].a,
           worker[h].pc \in Claimants, NEW row \in Receipt,
           receipts' = WithReceipt(a, worker[h].claim, row),
           UNCHANGED <<attempt, cleared>>,
           \A b \in Adaptations \ {a} : status'[b] = status[b],
           status'[a] = "publishing" => status[a] = "publishing",
           SoundHistory(status'[a], [receipts[a] EXCEPT ![worker[h].claim] = row], cleared[a])
    PROVE  SoundWrite(h, a)
<1> DEFINE i == worker[h].claim
<1>0. a \notin Unsupported /\ i \in DOMAIN receipts[a]
  BY Knows DEF FenceSound, Attempting, Claimants
<1>1. /\ OthersKept(a) /\ receipts'[a] = [receipts[a] EXCEPT ![i] = row]
      /\ cleared'[a] = cleared[a]
      /\ \A b \in Adaptations : b # a => receipts'[b] = receipts[b]
  BY DEF OthersKept, WithReceipt, IInv, TypeOK
<1>2. \A j \in DOMAIN receipts[a] : j # i => receipts'[a][j] = receipts[a][j]
  BY <1>1
<1>3. RowsKeptBut(h)
  BY <1>1, <1>2 DEF RowsKeptBut, RowKept, Owned
<1>4. CountsAdvance
  BY DEF CountsAdvance, IInv, TypeOK
<1> QED
  BY <1>0, <1>1, <1>3, <1>4 DEF SoundWrite

LEMMA LoadSafe ==
    ASSUME IInv, TypeInv', NEW h \in Handlers, Load(h) PROVE Safe'
<1> DEFINE a   == worker[h].a
           due == IF slot[a] = 0 THEN "now"
                  ELSE IF slot[a] > now THEN "early"
                  ELSE IF now - slot[a] > MaxLateness THEN "late" ELSE "now"
<1>0. /\ UNCHANGED <<Database, cleared, now>> /\ worker[h].pc = "fetched" /\ TypeOK
      /\ worker \in [Handlers -> Worker]
  BY DEF Load, Elsewhere, IInv, TypeOK
<1>1. CASE Leave(h, "returning")
  BY <1>0, <1>1, LeaveSound, ReadOnlyStep
<1>2. CASE worker' = [worker EXCEPT ![h].pc = "loaded", ![h].st = status[a],
                         ![h].att = attempt[a], ![h].slot = slot[a], ![h].due = due]
  <2>1. slot[a] \in Nat /\ now \in Nat /\ worker[h].claim = 0
    BY <1>0, Knows DEF TypeOK, FenceSound, Claimants
  <2>2. due # "early" => slot[a] <= now
    BY <2>1
  <2> HIDE DEF due
  <2>3. /\ worker'[h].pc = "loaded" /\ worker'[h].slot = slot[a]
        /\ worker'[h].due = due /\ worker'[h].claim = 0
        /\ \A g \in Handlers : g # h => worker'[g] = worker[g]
    BY <1>0, <1>2, <2>1 DEF Worker
  <2>4. CallbackSound(h)'
    BY <1>0, <2>2, <2>3 DEF CallbackSound, FenceSound, Attempting, Claimants
  <2> QED
    BY <1>0, <2>3, <2>4, ReadOnlyStep DEF Claimants
<1> QED
  BY <1>1, <1>2 DEF Load

LEMMA CheckSentSafe ==
    ASSUME IInv, TypeInv', NEW h \in Handlers, CheckSent(h) PROVE Safe'
<1> DEFINE w == worker[h]
           pc == IF w.a \in Unsupported THEN "unsupported" ELSE "ready"
<1>0. /\ UNCHANGED <<Database, cleared, now>> /\ w.pc = "loaded" /\ TypeOK
      /\ worker \in [Handlers -> Worker]
      /\ FenceSound(w, attempt[w.a], now)
  BY Knows DEF CheckSent, Elsewhere, IInv, TypeOK
<1>1. CASE Leave(h, "returning")
  BY <1>0, <1>1, LeaveSound, ReadOnlyStep
<1>2. CASE Goto(h, pc) /\ w.due # "early"
  <2>1. /\ worker'[h] = [w EXCEPT !.pc = pc]
        /\ \A g \in Handlers : g # h => worker'[g] = worker[g]
    BY <1>0, <1>2 DEF Goto
  <2>2. /\ worker'[h].pc = pc /\ worker'[h].slot = w.slot /\ worker'[h].due = w.due
        /\ worker'[h].claim = w.claim /\ worker'[h].a = w.a
    BY <1>0, <2>1 DEF Worker
  <2>3. CallbackSound(h)'
    BY <1>0, <1>2, <2>2 DEF CallbackSound, FenceSound, Attempting, Claimants
  <2> QED
    BY <1>0, <2>1, <2>2, <2>3, ReadOnlyStep DEF Claimants
<1> QED
  BY <1>1, <1>2 DEF CheckSent

LEMMA MarkSafe ==
    ASSUME IInv, TypeInv', NEW h \in Handlers, Mark(h) PROVE Safe'
<1> DEFINE w == worker[h]
<1>0. /\ UNCHANGED <<item, archivedFrom, slot, receipts, cleared, now>> /\ w.pc = "ready"
      /\ TypeOK /\ worker \in [Handlers -> Worker]
      /\ w.a \in Adaptations /\ FenceSound(w, attempt[w.a], now)
  BY Knows DEF Mark, Elsewhere, IInv, TypeOK, itemVars
<1>1. CASE Leave(h, "returning") /\ UNCHANGED <<status, attempt>>
  <2>1. UNCHANGED <<Database, cleared, now>>
    BY <1>0, <1>1 DEF Database, itemVars, rowVars
  <2> QED
    BY <1>0, <1>1, <2>1, LeaveSound, ReadOnlyStep
<1>2. ASSUME NEW a \in Adaptations, a = w.a, item \notin {"rejected", "archived"},
             status[a] \in Outstanding, slot[a] = w.slot,
             status' = [status EXCEPT ![a] = "publishing"],
             attempt' = [attempt EXCEPT ![a] = attempt[a] + 1],
             worker' = [worker EXCEPT ![h].pc = "marked", ![h].slot = 0,
                          ![h].st = "publishing", ![h].att = attempt[a] + 1]
      PROVE  Safe'
  <2>1. /\ OthersKept(a) /\ status'[a] = "publishing" /\ attempt'[a] = attempt[a] + 1
        /\ attempt[a] \in Nat
        /\ \A b \in Adaptations : b # a => attempt'[b] = attempt[b]
    BY <1>0, <1>2 DEF OthersKept, TypeOK
  <2>2. a \notin Unsupported /\ w.slot <= now /\ w.claim = 0
    BY <1>0, <1>2 DEF FenceSound, Claimants
  <2>3. SoundHistory(status[a], receipts[a], cleared[a])
        /\ receipts[a] \in Seq(Receipt) /\ cleared[a] \in Nat
    BY DEF IInv, Safe, Histories, TypeOK
  <2>4. SoundHistory("publishing", receipts[a], cleared[a])
    <3>1. CASE status[a] = "publishing"
      BY <2>3, <3>1
    <3>2. CASE status[a] # "publishing"
      <4>1. QuietRow(a)
        BY <1>2, <3>2, QuietNow DEF Outstanding, Waiting
      <4> QED
        BY <2>3, <4>1, QuietHistory DEF QuietRow
    <3> QED
      BY <3>1, <3>2
  <2>5. CountsAdvance
    BY <2>1 DEF CountsAdvance, OthersKept, IInv, TypeOK
  <2>6. SoundWrite(h, a)
    BY <1>0, <2>1, <2>2, <2>4, <2>5 DEF SoundWrite, RowsKeptBut, RowKept
  <2>7. PublishingAuthorised'
    BY <1>0, <1>2, <2>1, <2>2 DEF IInv, Safe, PublishingAuthorised, OthersKept
  <2>8. /\ worker'[h].pc = "marked" /\ worker'[h].st = "publishing"
        /\ worker'[h].att = attempt[a] + 1 /\ worker'[h].a = a /\ worker'[h].claim = 0
        /\ \A g \in Handlers : g # h => worker'[g] = worker[g]
    BY <1>0, <1>2, <2>2 DEF Worker
  <2>9. CallbackSound(h)'
    BY <2>1, <2>2, <2>8 DEF CallbackSound, FenceSound, Attempting, Claimants
  <2>10. worker'[h].pc \notin Claimants
    BY <2>8 DEF Claimants
  <2> QED
    BY <1>0, <2>6, <2>7, <2>8, <2>9, <2>10, WriteSafe
<1> QED
  <2>1. ~ (Leave(h, "returning") /\ UNCHANGED <<status, attempt>>) =>
          /\ item \notin {"rejected", "archived"}
          /\ status[w.a] \in Outstanding /\ slot[w.a] = w.slot
          /\ status' = [status EXCEPT ![w.a] = "publishing"]
          /\ attempt' = [attempt EXCEPT ![w.a] = attempt[w.a] + 1]
          /\ worker' = [worker EXCEPT ![h].pc = "marked", ![h].slot = 0,
                          ![h].st = "publishing", ![h].att = attempt[w.a] + 1]
    BY DEF Mark
  <2> QED
    BY <1>0, <1>1, <1>2, <2>1

LEMMA ClaimSafe ==
    ASSUME IInv, TypeInv', NEW h \in Handlers, Claim(h) PROVE Safe'
<1> DEFINE w == worker[h]
<1>0. /\ UNCHANGED <<item, archivedFrom, status, attempt, slot, cleared, now>>
      /\ w.pc = "marked" /\ TypeOK /\ worker \in [Handlers -> Worker]
      /\ w.a \in Adaptations /\ w \in Worker /\ FenceSound(w, attempt[w.a], now)
  BY Knows DEF Claim, Elsewhere, IInv, TypeOK, itemVars, rowVars
<1>1. CASE Goto(h, "unclaimed") /\ UNCHANGED receipts
  <2>1. /\ worker'[h] = [w EXCEPT !.pc = "unclaimed"]
        /\ \A g \in Handlers : g # h => worker'[g] = worker[g]
    BY <1>0, <1>1 DEF Goto
  <2>2. /\ worker'[h].pc = "unclaimed" /\ worker'[h].st = w.st /\ worker'[h].att = w.att
        /\ worker'[h].claim = w.claim /\ worker'[h].a = w.a
    BY <1>0, <2>1 DEF Worker
  <2>3. CallbackSound(h)'
    BY <1>0, <2>2 DEF CallbackSound, FenceSound, Attempting, Claimants
  <2>4. UNCHANGED <<Database, cleared, now>>
    BY <1>0, <1>1 DEF Database, itemVars, rowVars
  <2> QED
    BY <2>1, <2>2, <2>3, <2>4, ReadOnlyStep DEF Claimants
<1>2. ASSUME NEW a \in Adaptations, a = w.a, MayClaim(h),
             receipts' = [receipts EXCEPT ![a] =
                            Append(receipts[a], NewReceipt("in_flight", attempt[a], FALSE))],
             worker' = [worker EXCEPT ![h].pc = "claimed",
                                      ![h].claim = Len(receipts[a]) + 1]
      PROVE  Safe'
  <2> DEFINE row == NewReceipt("in_flight", attempt[a], FALSE)
             n   == Len(receipts[a]) + 1
  <2>1. /\ SoundHistory(status[a], receipts[a], cleared[a])
        /\ receipts[a] \in Seq(Receipt) /\ cleared[a] \in Nat /\ attempt[a] \in Nat
    BY DEF IInv, Safe, Histories, TypeOK
  <2>2. /\ status[a] = "publishing" /\ attempt[a] = w.att /\ w.st = "publishing"
        /\ RowsIn(receipts[a], {"in_flight"}) = {} /\ a \notin Unsupported
    BY <1>0, <1>2 DEF MayClaim, FenceHeld, InFlight, FenceSound, Attempting
  <2>3. SoundHistory("publishing", Append(receipts[a], row), cleared[a])
    BY <2>1, <2>2, AppendClaim
  <2>4. /\ row \in Receipt /\ row.st = "in_flight" /\ ~ row.human /\ ~ row.posted
    BY <2>1, NewReceiptType DEF ReceiptStatuses, NewReceipt
  <2>5. receipts'[a] = Append(receipts[a], row) /\ OthersKept(a)
    BY <1>0, <1>2 DEF OthersKept, TypeOK
  <2> HIDE DEF row
  <2>6. /\ \A i \in DOMAIN receipts[a] : Append(receipts[a], row)[i] = receipts[a][i]
        /\ Append(receipts[a], row)[n] = row /\ n \notin DOMAIN receipts[a]
    BY <2>1, <2>4, AppendReceipt
  <2>7. RowsKeptBut(h)
    BY <2>5, <2>6 DEF RowsKeptBut, RowKept, OthersKept
  <2>8. CountsAdvance /\ NothingStarts
    BY <1>0 DEF CountsAdvance, NothingStarts, IInv, TypeOK
  <2>9. SoundWrite(h, a)
    BY <1>0, <2>2, <2>3, <2>5, <2>7, <2>8 DEF SoundWrite
  <2>10. /\ worker'[h].pc = "claimed" /\ worker'[h].st = w.st /\ worker'[h].att = w.att
         /\ worker'[h].claim = n /\ worker'[h].a = a
         /\ \A g \in Handlers : g # h => worker'[g] = worker[g]
    BY <1>0, <1>2 DEF Worker
  <2> HIDE DEF n
  <2>11. ClaimSound(worker'[h], receipts'[a][n], status'[a], attempt'[a])
    BY <2>4, <2>5, <2>6 DEF ClaimSound
  <2>12. FenceSound(worker'[h], attempt'[a], now')
    BY <1>0, <1>2, <2>2, <2>10 DEF FenceSound, Attempting, Claimants
  <2>13. CallbackSound(h)'
    BY <2>10, <2>11, <2>12 DEF CallbackSound
  <2>14. PublishingAuthorised'
    BY <1>0, <2>8, AuthorisedKept
  <2> QED
    BY <1>0, <2>6, <2>9, <2>10, <2>13, <2>14, WriteSafe
<1> QED
  <2>1. ~ (Goto(h, "unclaimed") /\ UNCHANGED receipts) =>
          /\ MayClaim(h)
          /\ receipts' = [receipts EXCEPT ![w.a] =
               Append(receipts[w.a], NewReceipt("in_flight", attempt[w.a], FALSE))]
          /\ worker' = [worker EXCEPT ![h].pc = "claimed",
                                      ![h].claim = Len(receipts[w.a]) + 1]
    BY DEF Claim
  <2> QED
    BY <1>0, <1>1, <1>2, <2>1

LEMMA SendSafe ==
    ASSUME IInv, TypeInv', NEW h \in Handlers,
           NEW reply \in Replies, NEW posted \in BOOLEAN, Send(h, reply, posted)
    PROVE  Safe'
<1> DEFINE w == worker[h]
<1>0. /\ UNCHANGED <<item, archivedFrom, status, attempt, slot, cleared, now>>
      /\ w.pc = "claimed" /\ worker \in [Handlers -> Worker]
      /\ reply \in {"permanent", "transient"} => ~ posted
      /\ receipts' = WithReceipt(w.a, w.claim,
                       [receipts[w.a][w.claim] EXCEPT !.posted = posted])
      /\ worker' = [worker EXCEPT ![h].pc = "replied", ![h].reply = reply]
  BY DEF Send, Elsewhere, IInv, TypeOK, itemVars, rowVars
<1>1. PICK a \in Adaptations : a = w.a
  BY <1>0, Knows
<1> DEFINE i   == w.claim
           row == [receipts[a][i] EXCEPT !.posted = posted]
<1>2. /\ w \in Worker /\ receipts[a] \in Seq(Receipt) /\ cleared[a] \in Nat
      /\ SoundHistory(status[a], receipts[a], cleared[a])
      /\ FenceSound(w, attempt[a], now)
      /\ i \in DOMAIN receipts[a] /\ receipts[a][i] \in Receipt
      /\ ClaimSound(w, receipts[a][i], status[a], attempt[a])
  BY <1>0, <1>1, Knows DEF Claimants
<1>3. /\ row \in Receipt /\ row.st = receipts[a][i].st /\ row.human = receipts[a][i].human
      /\ row.superseded = receipts[a][i].superseded /\ row.posted = posted
  BY <1>2 DEF Receipt
<1>4. receipts' = WithReceipt(a, i, row)
  BY <1>0, <1>1
<1> HIDE DEF row
<1>5. SoundHistory(status[a], [receipts[a] EXCEPT ![i] = row], cleared[a])
  BY <1>2, <1>3, SameVerdict DEF ClaimSound, MayBeLive
<1>6. SoundWrite(h, a)
  BY <1>0, <1>1, <1>3, <1>4, <1>5, OwnWrite DEF Claimants
<1>7. /\ worker'[h].pc = "replied" /\ worker'[h].st = w.st /\ worker'[h].att = w.att
      /\ worker'[h].claim = i /\ worker'[h].a = a /\ worker'[h].reply = reply
      /\ \A g \in Handlers : g # h => worker'[g] = worker[g]
  BY <1>0, <1>1, <1>2 DEF Worker
<1>8. receipts'[a][i] = row
  BY <1>2, <1>4 DEF WithReceipt, IInv, TypeOK
<1>9. ClaimSound(worker'[h], receipts'[a][i], status'[a], attempt'[a])
  BY <1>0, <1>2, <1>3, <1>7, <1>8 DEF ClaimSound
<1>10. FenceSound(worker'[h], attempt'[a], now')
  BY <1>0, <1>2, <1>7 DEF FenceSound, Attempting, Claimants
<1>11. CallbackSound(h)'
  BY <1>7, <1>9, <1>10 DEF CallbackSound
<1>12. PublishingAuthorised'
  BY <1>0, AuthorisedKept DEF NothingStarts
<1>13. Owned(h, worker'[h].a, worker'[h].claim)
  BY <1>0, <1>1, <1>7 DEF Owned, Claimants
<1> QED
  BY <1>0, <1>6, <1>7, <1>11, <1>12, <1>13, WriteSafe

\* A callback that fails its delivery and forgets it.
LEMMA FailedWriteSafe ==
    ASSUME IInv, TypeInv', NEW h \in Handlers, worker[h].pc # "idle",
           SoundWrite(h, worker[h].a), NothingStarts, UNCHANGED <<slot, now>>,
           CallbackSound(h)', worker'[h].pc \notin Claimants,
           \A g \in Handlers : g # h => worker'[g] = worker[g]
    PROVE  Safe'
<1>1. PICK a \in Adaptations : a = worker[h].a
  BY Knows
<1>2. SoundWrite(h, a)
  BY <1>1 DEF SoundWrite, OthersKept
<1>3. PublishingAuthorised'
  BY AuthorisedKept
<1> QED
  BY <1>2, <1>3, WriteSafe

LEMMA RecordFailureSafe ==
    ASSUME IInv, TypeInv', NEW h \in Handlers, RecordFailure(h) PROVE Safe'
<1> DEFINE w == worker[h]
<1>0. /\ UNCHANGED <<cleared, now>> /\ TypeOK /\ MarkFailed(h, Verdict(h))
      /\ Verdict(h) # "none" /\ Leave(h, "returning")
  BY DEF RecordFailure, Elsewhere, IInv
<1>1. /\ Verdict(h) \in {"failed", "unknown"}
      /\ w.pc \in Attempting \cup {"unsupported", "exhausting"}
      /\ Verdict(h) = "failed" => \/ w.pc = "unsupported"
                                  \/ w.pc = "claimed"
                                  \/ w.pc = "replied" /\ w.reply = "permanent"
      /\ Verdict(h) = "unknown" => w.pc \in Attempting
  BY <1>0 DEF Verdict, Attempting, Claimants
<1>2. /\ w.pc # "idle" /\ w.a \in Adaptations /\ FenceSound(w, attempt[w.a], now)
      /\ 0 \notin DOMAIN receipts[w.a]
      /\ w.pc \in Claimants =>
           /\ w.claim \in DOMAIN receipts[w.a]
           /\ ClaimSound(w, receipts[w.a][w.claim], status[w.a], attempt[w.a])
  <2>1. w.pc # "idle"
    BY <1>1 DEF Attempting, Claimants
  <2> QED
    BY <2>1, Knows
<1>3. Verdict(h) = "unknown" => w.a \notin Unsupported
  BY <1>1, <1>2 DEF FenceSound
<1>4. ASSUME Verdict(h) = "failed", NEW i \in Claimed(receipts[w.a], w.claim)
      PROVE  ~ receipts[w.a][i].posted /\ w.pc \in Claimants
  <2>1. w.pc # "unsupported"
    BY <1>2, <1>4 DEF FenceSound, IInv, Safe, UnsupportedNeverSent, QuietRow, Claimed
  <2>2. w.pc \in Claimants /\ (w.pc = "claimed" \/ w.reply = "permanent")
    BY <1>1, <1>4, <2>1 DEF Claimants
  <2>3. i = w.claim
    BY <1>2, <1>4, <2>2 DEF Claimed
  <2> QED
    BY <1>2, <2>2, <2>3 DEF ClaimSound
<1>5. SoundWrite(h, w.a) /\ NothingStarts /\ UNCHANGED slot
  BY <1>0, <1>1, <1>3, <1>4, MarkFailedSafe
<1> QED
  BY <1>0, <1>2, <1>5, LeaveSound, FailedWriteSafe

LEMMA ExhaustSafe ==
    ASSUME IInv, TypeInv', NEW h \in Handlers, Exhaust(h) PROVE Safe'
<1> DEFINE w       == worker[h]
           outcome == Unreported(w.a)
<1>0. /\ UNCHANGED <<cleared, now>> /\ TypeOK /\ w.pc = "exhausting"
      /\ worker' = [worker EXCEPT ![h] = Idle] /\ w.a \in Adaptations
  BY Knows DEF Exhaust, IInv
<1>1. CASE UNCHANGED Database
  BY <1>0, <1>1, RestSound, ReadOnlyStep
<1>2. CASE MarkFailed(h, outcome)
  <2>1. /\ outcome \in {"failed", "unknown"}
        /\ outcome = "failed" => Claimed(receipts[w.a], w.claim) = {}
        /\ outcome = "unknown" => w.a \notin Unsupported
    BY <1>0 DEF Unreported, Claimed, InFlight, IInv, Safe, UnsupportedNeverSent, QuietRow
  <2> HIDE DEF outcome
  <2>2. SoundWrite(h, w.a) /\ NothingStarts /\ UNCHANGED slot
    BY <1>0, <1>2, <2>1, MarkFailedSafe
  <2> QED
    BY <1>0, <2>2, RestSound, FailedWriteSafe
<1> QED
  BY <1>1, <1>2 DEF Exhaust

\* A callback that writes to its own claim, and to the status of its delivery,
\* and returns or throws.
LEMMA ReceiptWriteSafe ==
    ASSUME IInv, TypeInv', NEW h \in Handlers, NEW a \in Adaptations, a = worker[h].a,
           worker[h].pc \in Claimants, NEW row \in Receipt,
           receipts' = WithReceipt(a, worker[h].claim, row),
           status' = status \/ \E end \in {"failed", "published"} :
                                  status' = [status EXCEPT ![a] = end],
           item' \in {item, "published", "failed", "partially_published"},
           SoundHistory(status'[a], [receipts[a] EXCEPT ![worker[h].claim] = row], cleared[a]),
           UNCHANGED <<attempt, slot, cleared, now>>,
           CallbackSound(h)', worker'[h].pc \notin Claimants,
           \A g \in Handlers : g # h => worker'[g] = worker[g]
    PROVE  Safe'
<1>1. /\ \A b \in Adaptations \ {a} : status'[b] = status[b]
      /\ status'[a] = "publishing" => status[a] = "publishing"
  BY DEF IInv, TypeOK
<1>2. SoundWrite(h, a)
  BY <1>1, OwnWrite
<1>3. PublishingAuthorised'
  BY <1>1, AuthorisedKept DEF NothingStarts
<1> QED
  BY <1>2, <1>3, WriteSafe

\* What a callback knows of its claim when the platform has answered.
LEMMA KnowsClaim ==
    ASSUME IInv, NEW h \in Handlers, NEW a \in Adaptations, a = worker[h].a,
           worker[h].pc = "replied"
    PROVE  /\ receipts[a] \in Seq(Receipt) /\ cleared[a] \in Nat
           /\ SoundHistory(status[a], receipts[a], cleared[a])
           /\ worker[h].claim \in DOMAIN receipts[a]
           /\ receipts[a][worker[h].claim] \in Receipt
           /\ ~ receipts[a][worker[h].claim].human
           /\ FenceHeld(h) => /\ receipts[a][worker[h].claim].st = "in_flight"
                              /\ status[a] = "publishing"
           /\ worker[h].reply = "transient" => ~ receipts[a][worker[h].claim].posted
<1> DEFINE w == worker[h]
<1>1. /\ receipts[a] \in Seq(Receipt) /\ cleared[a] \in Nat
      /\ SoundHistory(status[a], receipts[a], cleared[a])
      /\ w.claim \in DOMAIN receipts[a]
      /\ receipts[a][w.claim] \in Receipt
      /\ ClaimSound(w, receipts[a][w.claim], status[a], attempt[a])
      /\ FenceSound(w, attempt[a], now)
  BY Knows DEF Claimants
<1>2. FenceHeld(h) => status[a] = "publishing" /\ attempt[a] = w.att
  BY <1>1 DEF FenceHeld, FenceSound, Attempting, Claimants
<1> QED
  BY <1>1, <1>2 DEF ClaimSound

LEMMA RecordPublishedSafe ==
    ASSUME IInv, TypeInv', NEW h \in Handlers, RecordPublished(h) PROVE Safe'
<1> DEFINE i == worker[h].claim
<1>0. /\ UNCHANGED <<attempt, slot, cleared, now>> /\ Leave(h, "returning")
      /\ worker[h].pc = "replied" /\ TypeOK
  BY DEF RecordPublished, Elsewhere, IInv
<1>1. PICK a \in Adaptations : a = worker[h].a
  BY <1>0, Knows
<1> DEFINE row == [receipts[a][i] EXCEPT !.st = "published", !.ext = TRUE]
<1>2. CASE UNCHANGED <<itemVars, status, receipts>>
  <2>1. UNCHANGED <<Database, cleared, now>>
    BY <1>0, <1>2 DEF Database, rowVars
  <2> QED
    BY <1>0, <2>1, LeaveSound, ReadOnlyStep
<1>3. CASE /\ receipts[a][i].st = "in_flight"
           /\ status' = [status EXCEPT ![a] = "published"]
           /\ receipts' = WithReceipt(a, i, row)
           /\ RecomputeItem(status')
  <2>1. /\ receipts[a] \in Seq(Receipt) /\ cleared[a] \in Nat /\ i \in DOMAIN receipts[a]
        /\ SoundHistory(status[a], receipts[a], cleared[a])
        /\ receipts[a][i] \in Receipt /\ ~ receipts[a][i].human
    BY <1>0, <1>1, KnowsClaim
  <2>2. /\ row \in Receipt /\ row.st = "published" /\ ~ row.human
    BY <2>1 DEF Receipt, ReceiptStatuses
  <2> HIDE DEF row
  <2>3. SoundHistory("published", [receipts[a] EXCEPT ![i] = row], cleared[a])
    BY <1>3, <2>1, <2>2, EndClaim DEF MayBeLive
  <2>4. status'[a] = "published"
    BY <1>3 DEF IInv, TypeOK
  <2>5. item' \in {item, "published", "failed", "partially_published"}
    BY <1>3, RecomputeStarts
  <2>6. SoundHistory(status'[a], [receipts[a] EXCEPT ![i] = row], cleared[a])
    BY <2>3, <2>4
  <2> QED
    BY <1>0, <1>1, <1>3, <2>2, <2>5, <2>6, LeaveSound, ReceiptWriteSafe DEF Claimants
<1> QED
  BY <1>1, <1>2, <1>3 DEF RecordPublished

LEMMA RecordAcceptedSafe ==
    ASSUME IInv, TypeInv', NEW h \in Handlers, RecordAccepted(h) PROVE Safe'
<1> DEFINE i == worker[h].claim
<1>0. /\ UNCHANGED <<attempt, slot, cleared, now>> /\ Leave(h, "returning")
      /\ worker[h].pc = "replied" /\ TypeOK
  BY DEF RecordAccepted, Elsewhere, IInv
<1>1. PICK a \in Adaptations : a = worker[h].a
  BY <1>0, Knows
<1> DEFINE old == receipts[a][i]
           row == [old EXCEPT !.st = "unknown", !.ext = TRUE,
                     !.superseded = old.superseded
                                      \/ (old.st = "in_flight" /\ ~ FenceHeld(h))]
<1>2. CASE UNCHANGED <<itemVars, status, receipts>>
  <2>1. UNCHANGED <<Database, cleared, now>>
    BY <1>0, <1>2 DEF Database, rowVars
  <2> QED
    BY <1>0, <2>1, LeaveSound, ReadOnlyStep
<1>3. CASE /\ old.st \in {"in_flight", "unknown"}
           /\ receipts' = WithReceipt(a, i, row)
           /\ status' = IF FenceHeld(h) THEN [status EXCEPT ![a] = "failed"] ELSE status
           /\ IF FenceHeld(h) THEN RecomputeItem(status') ELSE UNCHANGED itemVars
  <2>1. /\ receipts[a] \in Seq(Receipt) /\ cleared[a] \in Nat /\ i \in DOMAIN receipts[a]
        /\ SoundHistory(status[a], receipts[a], cleared[a])
        /\ old \in Receipt /\ ~ old.human
        /\ FenceHeld(h) => old.st = "in_flight"
    BY <1>0, <1>1, KnowsClaim
  <2>2. /\ row \in Receipt /\ row.st = "unknown" /\ ~ row.human
        /\ row.human = old.human
        /\ old.st = "in_flight" /\ ~ FenceHeld(h) => row.superseded
        /\ old.st = "unknown" => row.superseded = old.superseded
    BY <2>1 DEF Receipt, ReceiptStatuses
  <2> HIDE DEF row, old
  <2>3. SoundHistory(status'[a], [receipts[a] EXCEPT ![i] = row], cleared[a])
    <3>1. CASE FenceHeld(h)
      <4>1. status'[a] = "failed"
        BY <1>3, <3>1 DEF IInv, TypeOK
      <4>2. SoundHistory("failed", [receipts[a] EXCEPT ![i] = row], cleared[a])
        BY <2>1, <2>2, <3>1, EndClaim DEF MayBeLive, old
      <4> QED
        BY <4>1, <4>2
    <3>2. CASE ~ FenceHeld(h) /\ old.st = "in_flight"
      <4>1. SoundHistory(status[a], [receipts[a] EXCEPT ![i] = row], cleared[a])
        BY <2>1, <2>2, <3>2, EndClaim DEF MayBeLive, old
      <4> QED
        BY <1>3, <3>2, <4>1
    <3>3. CASE ~ FenceHeld(h) /\ old.st = "unknown"
      <4>1. SoundHistory(status[a], [receipts[a] EXCEPT ![i] = row], cleared[a])
        BY <2>1, <2>2, <3>3, SameVerdict DEF MayBeLive, old
      <4> QED
        BY <1>3, <3>3, <4>1
    <3> QED
      BY <1>3, <3>1, <3>2, <3>3
  <2>4. item' \in {item, "published", "failed", "partially_published"}
    BY <1>3, RecomputeStarts DEF itemVars
  <2>5. status' = status \/ \E end \in {"failed", "published"} :
                               status' = [status EXCEPT ![a] = end]
    BY <1>3
  <2> QED
    BY <1>0, <1>1, <1>3, <2>2, <2>3, <2>4, <2>5, LeaveSound, ReceiptWriteSafe DEF Claimants
<1> QED
  BY <1>1, <1>2, <1>3 DEF RecordAccepted

LEMMA ReleaseAndThrowSafe ==
    ASSUME IInv, TypeInv', NEW h \in Handlers, ReleaseAndThrow(h) PROVE Safe'
<1> DEFINE i == worker[h].claim
<1>0. /\ UNCHANGED <<itemVars, status, attempt, slot, cleared, now>> /\ Leave(h, "throwing")
      /\ worker[h].pc = "replied" /\ worker[h].reply = "transient" /\ TypeOK
  BY DEF ReleaseAndThrow, Elsewhere, IInv, rowVars
<1>1. PICK a \in Adaptations : a = worker[h].a
  BY <1>0, Knows
<1> DEFINE row == [receipts[a][i] EXCEPT !.st = "released"]
<1>2. CASE UNCHANGED receipts
  <2>1. UNCHANGED <<Database, cleared, now>>
    BY <1>0, <1>2 DEF Database, rowVars
  <2> QED
    BY <1>0, <2>1, LeaveSound, ReadOnlyStep
<1>3. CASE receipts[a][i].st = "in_flight" /\ receipts' = WithReceipt(a, i, row)
  <2>1. /\ receipts[a] \in Seq(Receipt) /\ cleared[a] \in Nat /\ i \in DOMAIN receipts[a]
        /\ SoundHistory(status[a], receipts[a], cleared[a])
        /\ receipts[a][i] \in Receipt /\ ~ receipts[a][i].posted
    BY <1>0, <1>1, KnowsClaim
  <2>2. /\ row \in Receipt /\ row.st = "released" /\ ~ row.posted
    BY <2>1 DEF Receipt, ReceiptStatuses
  <2> HIDE DEF row
  <2>3. SoundHistory(status[a], [receipts[a] EXCEPT ![i] = row], cleared[a])
    BY <1>3, <2>1, <2>2, EndClaim DEF MayBeLive
  <2>4. SoundHistory(status'[a], [receipts[a] EXCEPT ![i] = row], cleared[a])
    BY <1>0, <2>3
  <2>5. item' \in {item, "published", "failed", "partially_published"} /\ status' = status
    BY <1>0 DEF itemVars
  <2> QED
    BY <1>0, <1>1, <1>3, <2>2, <2>4, <2>5, LeaveSound, ReceiptWriteSafe DEF Claimants
<1> QED
  BY <1>1, <1>2, <1>3 DEF ReleaseAndThrow

\* The rest of a callback's life writes to no row.
LEMMA EndingSafe ==
    ASSUME IInv, TypeInv', NEW h \in Handlers,
           LoseWrite(h) \/ DatabaseError(h) \/ Complete(h) \/ Fail(h) \/ Crash(h)
    PROVE  Safe'
<1>1. UNCHANGED <<Database, cleared, now>> /\ TypeOK
  BY DEF LoseWrite, DatabaseError, Complete, Fail, Crash, Elsewhere, Database, IInv
<1>2. \/ Leave(h, "returning") \/ Leave(h, "throwing")
      \/ worker' = [worker EXCEPT ![h] = Idle]
  BY DEF LoseWrite, DatabaseError, Complete, Fail, Crash
<1>3. /\ CallbackSound(h)' /\ worker'[h].pc \notin Claimants
      /\ \A g \in Handlers : g # h => worker'[g] = worker[g]
  BY <1>1, <1>2, LeaveSound, RestSound
<1> QED
  BY <1>1, <1>3, ReadOnlyStep

LEMMA HandlerSafe ==
    ASSUME IInv, TypeInv', NEW h \in Handlers, HandlerStep(h) PROVE Safe'
<1>1. ASSUME NEW reply \in Replies, NEW posted \in BOOLEAN, Send(h, reply, posted)
      PROVE  Safe'
  BY <1>1, SendSafe
<1> QED
  BY <1>1, LoadSafe, CheckSentSafe, MarkSafe, ClaimSafe, RecordFailureSafe,
     RecordPublishedSafe, RecordAcceptedSafe, ReleaseAndThrowSafe, ExhaustSafe, EndingSafe
  DEF HandlerStep

(***************************************************************************)
(* The queue, the clock and the sweeps.                                     *)
(***************************************************************************)
LEMMA QueueSafe ==
    ASSUME IInv, TypeInv',
           \/ \E h \in Handlers, j \in jobs : Fetch(h, j)
           \/ \E h \in Handlers, a \in Adaptations : TakeDeadLetter(h, a)
           \/ \E a \in Adaptations : DropDeadLetter(a)
           \/ \E j \in jobs : Timeout(j)
           \/ \E j \in jobs : DropJob(j)
           \/ Tick
    PROVE  Safe'
<1>0. worker \in [Handlers -> Worker] /\ now \in Nat /\ now' \in Nat
  BY DEF IInv, TypeOK, TypeInv
<1>1. ASSUME NEW h \in Handlers, NEW j \in jobs, Fetch(h, j) PROVE Safe'
  <2>1. UNCHANGED <<Database, cleared, now>>
    BY <1>1 DEF Fetch, Database
  <2>2. /\ worker'[h].pc = "fetched" /\ worker'[h].claim = 0
        /\ \A g \in Handlers : g # h => worker'[g] = worker[g]
    BY <1>0, <1>1 DEF Fetch, Idle
  <2>3. CallbackSound(h)'
    BY <2>2 DEF CallbackSound, FenceSound, Attempting, Claimants
  <2> QED
    BY <2>1, <2>2, <2>3, ReadOnlyStep DEF Claimants
<1>2. ASSUME UNCHANGED <<Database, cleared>>, UNCHANGED worker, now <= now'
      PROVE  Safe'
  <2>1. /\ Histories' /\ UnsupportedNeverSent' /\ PublishingAuthorised'
        /\ CountsAdvance
        /\ \A a \in Adaptations : \A i \in DOMAIN receipts[a] : RowKept(a, i)
    BY <1>0, <1>2, ReadOnlySafe
  <2>2. Callbacks' /\ ClaimsDistinct'
    BY <1>2, <2>1, CallbacksSame
  <2> QED
    BY <2>1, <2>2 DEF Safe
<1>3. ASSUME NEW h \in Handlers, NEW a \in Adaptations, TakeDeadLetter(h, a) PROVE Safe'
  <2>0. UNCHANGED <<Database, cleared, now>>
    BY <1>3 DEF TakeDeadLetter
  <2>1. UNCHANGED <<Database, cleared, now>> /\ now <= now'
    BY <1>0, <2>0
  <2>2. CASE status[a] = "publishing"
    <3>1. /\ worker'[h].pc = "exhausting" /\ worker'[h].claim = 0
          /\ worker'[h].st = "publishing"
          /\ \A g \in Handlers : g # h => worker'[g] = worker[g]
      BY <1>0, <1>3, <2>2 DEF TakeDeadLetter, Idle
    <3>2. CallbackSound(h)'
      BY <3>1 DEF CallbackSound, FenceSound, Attempting, Claimants
    <3> QED
      BY <2>1, <3>1, <3>2, ReadOnlyStep DEF Claimants
  <2>3. CASE status[a] # "publishing"
    BY <1>2, <1>3, <2>1, <2>3 DEF TakeDeadLetter
  <2> QED
    BY <2>2, <2>3
<1>4. ASSUME \/ \E a \in Adaptations : DropDeadLetter(a)
             \/ \E j \in jobs : Timeout(j)
             \/ \E j \in jobs : DropJob(j)
             \/ Tick
      PROVE  Safe'
  <2>1. UNCHANGED <<Database, cleared>> /\ UNCHANGED worker
    BY <1>4 DEF DropDeadLetter, Timeout, DropJob, Tick, Database, queueVars
  <2>2. now' = now \/ now' = now + 1
    BY <1>4 DEF DropDeadLetter, Timeout, DropJob, Tick
  <2>3. now <= now'
    BY <1>0, <2>2
  <2> QED
    BY <1>2, <2>1, <2>3
<1> QED
  BY <1>1, <1>3, <1>4

LEMMA SweepSafe ==
    ASSUME IInv, TypeInv', SweepStep PROVE Safe'
<1>1. PICK S \in SUBSET Adaptations :
        Sweep(S) /\ \A a \in S : status[a] \in {"publishing", "queued", "scheduled"}
  BY DEF SweepStep, SweepAbandoned, SweepStranded, Abandoned, Stranded
<1>0. /\ UNCHANGED <<attempt, slot, cleared, now, worker>>
      /\ \A a \in Adaptations \ S : UNCHANGED <<status[a], receipts[a], cleared[a]>>
      /\ \A a \in S :
           /\ status'[a] = "failed" /\ cleared'[a] = cleared[a]
           /\ receipts'[a] = ResolveClaim(receipts[a], 0, Unreported(a), attempt[a])
      /\ RecomputeItem(status')
  BY <1>1 DEF Sweep, Elsewhere
<1>2. ASSUME NEW a \in S
      PROVE  /\ SoundHistory(status'[a], receipts'[a], cleared'[a])
             /\ a \in Unsupported => /\ Live(receipts'[a], cleared'[a]) = {}
                                     /\ RowsIn(receipts'[a], {"in_flight"}) = {}
             /\ \A i \in DOMAIN receipts[a] : RowKept(a, i)
  <2> DEFINE rows == receipts[a]
             end  == Unreported(a)
  <2>1. /\ a \in Adaptations /\ SoundHistory(status[a], rows, cleared[a])
        /\ rows \in Seq(Receipt) /\ cleared[a] \in Nat /\ attempt[a] \in Nat /\ 0 \in Nat
    BY DEF IInv, Safe, Histories, TypeOK
  <2>2. /\ Claimed(rows, 0) = InFlight(a)
        /\ end \in {"failed", "unknown"} /\ (end = "unknown" <=> InFlight(a) # {})
    BY DEF Claimed, InFlight, Unreported
  <2>3. Claimed(rows, 0) = {} => QuietRow(a)
    BY <1>1, <2>1, <2>2, QuietNow DEF Waiting
  <2>4. receipts'[a] = ResolveClaim(rows, 0, end, attempt[a])
    BY <1>0
  <2> HIDE DEF end
  <2>5. SoundHistory("failed", ResolveClaim(rows, 0, end, attempt[a]), cleared[a])
    BY <2>1, <2>2, <2>3, ResolveEnd DEF QuietRow
  <2>6. ASSUME a \in Unsupported
        PROVE  /\ Live(receipts'[a], cleared'[a]) = {}
               /\ RowsIn(receipts'[a], {"in_flight"}) = {}
    <3>1. /\ Live(rows, cleared[a]) = {} /\ RowsIn(rows, {"in_flight"}) = {}
          /\ end = "failed" /\ Claimed(rows, 0) = {}
      BY <2>2, <2>6 DEF IInv, Safe, UnsupportedNeverSent, QuietRow, InFlight
    <3>2. /\ Live(Append(rows, NewReceipt("failed", attempt[a], FALSE)), cleared[a]) = {}
          /\ RowsIn(Append(rows, NewReceipt("failed", attempt[a], FALSE)), {"in_flight"}) = {}
      BY <2>1, <3>1, AppendQuiet
    <3>3. receipts'[a] = Append(rows, NewReceipt("failed", attempt[a], FALSE))
      BY <2>4, <3>1 DEF ResolveClaim
    <3> QED
      BY <1>0, <3>2, <3>3
  <2>7. ASSUME NEW i \in DOMAIN rows PROVE RowKept(a, i)
    <3>1. CASE i \notin Claimed(rows, 0)
      <4>1. receipts'[a][i] = rows[i]
        BY <2>1, <2>2, <2>4, <3>1, ResolveRow
      <4> QED
        BY <4>1 DEF RowKept
    <3>2. CASE i \in Claimed(rows, 0)
      <4>1. end = "unknown" /\ rows[i].st = "in_flight"
        BY <2>2, <3>2 DEF Claimed, RowsIn
      <4>2. receipts'[a][i] = Ended(rows[i], end, attempt[a])
        BY <2>1, <2>2, <2>4, <3>2, ResolveRow
      <4>3. rows[i] \in Receipt
        BY <2>1, RowType
      <4>4. /\ receipts'[a][i].st = "unknown"
            /\ receipts'[a][i].human = rows[i].human
            /\ receipts'[a][i].posted = rows[i].posted
        BY <4>1, <4>2, <4>3 DEF Ended, Receipt
      <4> QED
        BY <1>0, <4>1, <4>4 DEF RowKept
    <3> QED
      BY <3>1, <3>2
  <2> QED
    BY <1>0, <2>4, <2>5, <2>6, <2>7
<1>3. Histories' /\ UnsupportedNeverSent'
  <2>1. Histories'
    BY <1>0, <1>2 DEF IInv, Safe, Histories
  <2>2. UnsupportedNeverSent'
    BY <1>0, <1>2, PublishAssumption DEF IInv, Safe, UnsupportedNeverSent, QuietRow
  <2> QED
    BY <2>1, <2>2
<1>4. NothingStarts /\ CountsAdvance
  <2>1. \A a \in Adaptations : status'[a] = "publishing" => status[a] = "publishing"
    BY <1>0
  <2> QED
    BY <1>0, <2>1, RecomputeStarts DEF NothingStarts, CountsAdvance, IInv, TypeOK
<1>5. PublishingAuthorised'
  BY <1>0, <1>4, AuthorisedKept
<1>6. \A a \in Adaptations : \A i \in DOMAIN receipts[a] : RowKept(a, i)
  BY <1>0, <1>2 DEF RowKept
<1>7. Callbacks' /\ ClaimsDistinct'
  <2>1. now <= now'
    BY <1>0 DEF IInv, TypeOK
  <2> QED
    BY <1>0, <1>4, <1>6, <2>1, CallbacksSame
<1> QED
  BY <1>3, <1>5, <1>7 DEF Safe

(***************************************************************************)
(* The invariant and what it implies.                                       *)
(***************************************************************************)
LEMMA InitSafe == Init => Safe
<1> SUFFICES ASSUME Init PROVE Safe
  OBVIOUS
<1>1. \A a \in Adaptations : receipts[a] = <<>> /\ status[a] = "pending"
  BY DEF Init
<1>2. DOMAIN <<>> = {}
  OBVIOUS
<1>3. \A a \in Adaptations : QuietRow(a)
  BY <1>1, <1>2 DEF QuietRow, Live, RowsIn
<1>4. Histories
  BY <1>1, <1>2, <1>3 DEF Histories, SoundHistory, QuietRow
<1>5. \A h \in Handlers : worker[h] = Idle
  BY DEF Init
<1>6. UnsupportedNeverSent /\ PublishingAuthorised
  BY <1>1, <1>3, PublishAssumption DEF UnsupportedNeverSent, PublishingAuthorised
<1>7. Callbacks /\ ClaimsDistinct
  BY <1>5 DEF Callbacks, ClaimsDistinct, FenceSound, Attempting, Claimants, Idle
<1> QED
  BY <1>4, <1>6, <1>7 DEF Safe

LEMMA StepSafe == IInv /\ TypeInv' /\ [Next]_vars => Safe'
<1> SUFFICES ASSUME IInv, TypeInv', [Next]_vars PROVE Safe'
  OBVIOUS
<1>1. CASE PersonStep
  BY <1>1, PersonSafe
<1>2. ASSUME NEW h \in Handlers, HandlerStep(h) \/ Crash(h) PROVE Safe'
  BY <1>2, HandlerSafe, EndingSafe
<1>3. ASSUME \/ \E h \in Handlers, j \in jobs : Fetch(h, j)
             \/ \E h \in Handlers, a \in Adaptations : TakeDeadLetter(h, a)
             \/ \E a \in Adaptations : DropDeadLetter(a)
             \/ \E j \in jobs : Timeout(j)
             \/ \E j \in jobs : DropJob(j)
             \/ Tick
      PROVE  Safe'
  BY <1>3, QueueSafe
<1>4. CASE SweepStep
  BY <1>4, SweepSafe
<1>5. CASE UNCHANGED vars
  <2>1. UNCHANGED <<item, status, attempt, slot, receipts, cleared, worker, now>>
    BY <1>5 DEF vars
  <2>2. UNCHANGED <<receipts, cleared, worker, now>> /\ CountsAdvance
        /\ \A a \in Adaptations : status'[a] = status[a] \/ QuietRow(a)
    BY <2>1 DEF CountsAdvance, IInv, TypeOK
  <2>3. PublishingAuthorised'
    BY <2>1 DEF IInv, Safe, PublishingAuthorised
  <2> QED
    BY <2>2, <2>3, StatusOnly
<1> QED
  BY <1>1, <1>2, <1>3, <1>4, <1>5 DEF Next, FetchOf, TakeDeadLetterOf

\* The invariant is inductive: every reachable state satisfies all of it, for any
\* fan-out, number of callbacks, retry limit and bounds.
THEOREM InvariantHolds == Spec => []IInv
<1>1. Init => IInv
  BY InitType, InitSafe DEF IInv, TypeInv
<1>2. IInv /\ [Next]_vars => IInv'
  <2>1. IInv => TypeInv
    BY DEF IInv, TypeInv
  <2>2. IInv /\ [Next]_vars => TypeInv'
    BY <2>1, StepType
  <2>3. IInv /\ [Next]_vars => Safe'
    BY <2>2, StepSafe
  <2> QED
    BY <2>2, <2>3 DEF IInv, TypeInv
<1> QED
  BY <1>1, <1>2, PTL DEF Spec

\* A post nobody vouched for is a receipt that may be live.
LEMMA UnsettledLive ==
    ASSUME IInv, NEW a \in Adaptations
    PROVE  Unsettled(a) \ Superseded(a) \subseteq Live(receipts[a], cleared[a])
<1>1. SoundHistory(status[a], receipts[a], cleared[a])
  BY DEF IInv, Safe, Histories
<1> QED
  BY <1>1 DEF SoundHistory, Unsettled, Superseded, Live

\* No interleaving of retries, late callbacks, crashes, sweeps and decisions puts
\* two posts of one adaptation on the platform that nobody settled, save claims
\* superseded while unknown.
THEOREM NeverPostedTwice == Spec => []AtMostOnePost
<1>1. IInv => AtMostOnePost
  <2> SUFFICES ASSUME IInv, NEW a \in Adaptations,
                      NEW i \in Unsettled(a) \ Superseded(a),
                      NEW j \in Unsettled(a) \ Superseded(a)
               PROVE  i = j
    BY DEF AtMostOnePost
  <2>1. SoundHistory(status[a], receipts[a], cleared[a])
    BY DEF IInv, Safe, Histories
  <2> QED
    BY <2>1, UnsettledLive DEF SoundHistory
<1> QED
  BY <1>1, InvariantHolds, PTL

\* What is offered for another send as failed has nothing live behind it.
THEOREM FailureIsClean == Spec => []FailedLeftNothingLive
<1>1. IInv => FailedLeftNothingLive
  <2> SUFFICES ASSUME IInv, NEW a \in Adaptations,
                      status[a] = "failed" /\ ~ OutcomeUnknown(a)
               PROVE  Unsettled(a) \ Superseded(a) = {}
    BY DEF FailedLeftNothingLive
  <2>1. Live(receipts[a], cleared[a]) = {}
    BY QuietNow DEF QuietRow
  <2> QED
    BY <2>1, UnsettledLive
<1> QED
  BY <1>1, InvariantHolds, PTL

\* A claim in flight is always on a publishing adaptation of an item nobody has
\* rejected or archived, and never before its slot.
THEOREM ClaimsAuthorised == Spec => []LiveClaimAuthorised
<1>1. IInv => LiveClaimAuthorised
  <2> SUFFICES ASSUME IInv, NEW a \in Adaptations, NEW i \in InFlight(a)
               PROVE  /\ status[a] = "publishing"
                      /\ item \notin {"rejected", "archived"}
                      /\ slot[a] <= now
    BY DEF LiveClaimAuthorised
  <2>1. status[a] = "publishing"
    BY DEF IInv, Safe, Histories, SoundHistory, InFlight
  <2> QED
    BY <2>1 DEF IInv, Safe, PublishingAuthorised
<1> QED
  BY <1>1, InvariantHolds, PTL

(***************************************************************************)
(* The kinds                                                                *)
(***************************************************************************)
Adds(a, st, human) ==
    receipts'[a] = Append(receipts[a], NewReceipt(st, attempt'[a], human))

\* A write to receipt i, and to no other.
Writes(a, i) == receipts'[a] = [receipts[a] EXCEPT ![i] = receipts'[a][i]]

Stays(a) ==
    /\ UNCHANGED <<status[a], receipts[a], cleared[a]>>
    /\ status[a] = "failed" => attempt'[a] = attempt[a]

\* Sent, taken back, or marked as publishing: the receipts stay as they are.
Moves(a) ==
    /\ UNCHANGED <<receipts[a], cleared[a]>>
    /\ \/ /\ status[a] \in {"pending", "failed", "scheduled"} /\ ~ OutcomeUnknown(a)
          /\ status'[a] \in IF a \in Manual THEN {"manual_ready"} ELSE {"queued", "scheduled"}
       \/ /\ status[a] \in {"pending", "manual_ready"} \cup Outstanding
          /\ status[a] = "publishing" => InFlight(a) = {}
          /\ status'[a] = "pending"
       \/ status[a] \in Outstanding /\ status'[a] = "publishing"

Claims(a) ==
    /\ a \notin Unsupported /\ status[a] = "publishing" /\ InFlight(a) = {}
    /\ UNCHANGED <<status[a], cleared[a]>>
    /\ Adds(a, "in_flight", FALSE)

\* A claim learns whether its post exists, or its provider's ids; its verdict stays.
Notes(a) ==
    /\ UNCHANGED <<status[a], cleared[a], attempt[a]>>
    /\ \E i \in DOMAIN receipts[a] :
          LET old == receipts[a][i]
              new == receipts'[a][i]
          IN  /\ Writes(a, i)
              /\ old.st \in {"in_flight", "unknown"} /\ ~ old.human
              /\ new.st = old.st /\ new.human = old.human /\ new.att = old.att
              /\ new.superseded = old.superseded /\ (old.posted => new.posted)

\* A delivery ends with no claim in flight, and leaves a receipt that says so.
Fails(a) ==
    /\ InFlight(a) = {}
    /\ status'[a] = "failed" /\ cleared'[a] = cleared[a]
    /\ \/ /\ status[a] = "publishing" /\ a \notin Unsupported
          /\ Adds(a, "unknown", FALSE)
       \/ /\ status[a] \in Outstanding \/ a \in Unsupported
          /\ Adds(a, "failed", FALSE)

\* The claim in flight ends: with its delivery, or alone when it has been overtaken.
Ends(a) ==
    /\ cleared'[a] = cleared[a]
    /\ \E i \in InFlight(a) :
          LET old == receipts[a][i]
              new == receipts'[a][i]
          IN  /\ Writes(a, i)
              /\ new.posted = old.posted /\ new.human = old.human
              /\ \/ /\ status'[a] = "failed" /\ new.st \in {"failed", "unknown"}
                    /\ new.st = "failed" => ~ old.posted
                    /\ new.att = attempt'[a] /\ new.superseded = old.superseded
                 \/ /\ status'[a] = "published" /\ new.st = "published"
                    /\ old.posted /\ new.superseded = old.superseded
                 \/ /\ status'[a] = status[a]
                    /\ \/ new.st = "unknown" /\ new.superseded
                       \/ new.st \in {"failed", "released"} /\ ~ old.posted

\* A person says what became of an unknown delivery, or that they posted it themselves.
Settles(a) ==
    /\ OutcomeUnknown(a)
    /\ \/ /\ status'[a] = "published" /\ cleared'[a] = cleared[a]
          /\ Adds(a, "published", TRUE)
       \/ /\ status'[a] = "failed" /\ cleared'[a] = Len(receipts[a])
          /\ Adds(a, "failed", TRUE)

Confirms(a) ==
    /\ a \in Manual /\ status[a] = "manual_ready"
    /\ status'[a] = "published" /\ cleared'[a] = cleared[a]
    /\ Adds(a, "published", TRUE)

KindOfStep(a) ==
    \/ Stays(a) \/ Moves(a) \/ Claims(a) \/ Notes(a)
    \/ Fails(a) \/ Ends(a) \/ Settles(a) \/ Confirms(a)

(***************************************************************************)
(* What holds of a channel                                                  *)
(***************************************************************************)
\* The newest finished receipt tells how the latest attempt ended.
LastWord(a) ==
    \E i \in Finished(a) : (\A j \in Finished(a) : j <= i) /\ receipts[a][i].att = attempt[a]

ChannelSound(a) ==
    /\ a \in Manual => status[a] \in {"pending", "manual_ready", "published"}
    /\ a \in Unsupported =>
          status[a] # "published" /\ \A i \in DOMAIN receipts[a] : receipts[a][i].st = "failed"
    /\ cleared[a] <= Len(receipts[a])
    /\ \A i \in InFlight(a) : i > cleared[a] /\ ~ receipts[a][i].superseded
    /\ status[a] # "published" => RowsIn(receipts[a], {"published"}) = {}
    /\ status[a] = "published" => \E i \in DOMAIN receipts[a] : RowsIn(receipts[a], {"published"}) = {i}
    /\ status[a] = "failed" => LastWord(a)

ChannelsSound == \A a \in Adaptations : ChannelSound(a)

\* A platform that answered "published" has created the post.
RepliesSound ==
    \A h \in Handlers :
        worker[h].pc = "replied" /\ worker[h].reply = "published"
            => receipts[worker[h].a][worker[h].claim].posted

(***************************************************************************)
(* Every step is of one kind for each channel.                              *)
(***************************************************************************)
LEMMA RowFacts ==
    ASSUME IInv, NEW a \in Adaptations
    PROVE  /\ receipts[a] \in Seq(Receipt) /\ Len(receipts[a]) \in Nat
           /\ DOMAIN receipts[a] = 1..Len(receipts[a])
           /\ status[a] \in Statuses /\ attempt[a] \in Nat /\ cleared[a] \in Nat
           /\ \A i \in DOMAIN receipts[a] : receipts[a][i] \in Receipt
           /\ SoundHistory(status[a], receipts[a], cleared[a])
<1>1. /\ receipts[a] \in Seq(Receipt) /\ status[a] \in Statuses /\ attempt[a] \in Nat
      /\ cleared[a] \in Nat /\ SoundHistory(status[a], receipts[a], cleared[a])
  BY DEF IInv, TypeOK, Safe, Histories
<1> QED
  BY <1>1, RowType, LenProperties

LEMMA ReadOnlyStays ==
    ASSUME UNCHANGED <<Database, cleared>>, NEW a \in Adaptations
    PROVE  KindOfStep(a)
  BY DEF KindOfStep, Stays, Database, rowVars, itemVars

LEMMA PersonKinds ==
    ASSUME IInv, PersonStep, NEW a \in Adaptations
    PROVE  KindOfStep(a)
<1>0. /\ status \in [Adaptations -> Statuses] /\ attempt \in [Adaptations -> Nat]
      /\ cleared \in [Adaptations -> Nat] /\ receipts \in [Adaptations -> Seq(Receipt)]
  BY DEF IInv, TypeOK
<1>1. ASSUME NEW s \in Slots \cup {0}, Approve(s) PROVE KindOfStep(a)
  <2>0. /\ UNCHANGED <<receipts, cleared>>
        /\ status'[a] = IF a \in Automatic THEN (IF s = 0 THEN "queued" ELSE "scheduled")
                        ELSE IF a \in Sendable THEN "manual_ready" ELSE status[a]
        /\ attempt'[a] = IF a \in Automatic THEN NextJob(a) ELSE attempt[a]
    BY <1>1 DEF Approve
  <2>1. CASE a \in Sendable
    <3>1. Moves(a)
      BY <2>0, <2>1 DEF Moves, Automatic, Sendable
    <3> QED
      BY <3>1 DEF KindOfStep
  <2>2. CASE a \notin Sendable
    BY <2>0, <2>2 DEF Automatic, KindOfStep, Stays
  <2> QED
    BY <2>1, <2>2
<1>2. ASSUME NEW b \in Adaptations, NEW s \in Slots, Reschedule(b, s) PROVE KindOfStep(a)
  <2>1. Stays(a)
    BY <1>0, <1>2 DEF Reschedule, Reschedulable, Stays
  <2> QED
    BY <2>1 DEF KindOfStep
<1>3. ASSUME NEW b \in Adaptations, CancelSchedule(b) PROVE KindOfStep(a)
  <2>0. /\ UNCHANGED <<receipts, cleared>> /\ status[b] = "scheduled"
        /\ status' = [status EXCEPT ![b] = "pending"]
        /\ attempt' = [attempt EXCEPT ![b] = @ + 1]
    BY <1>3 DEF CancelSchedule, Reschedulable
  <2>1. CASE a = b
    <3>1. Moves(a)
      BY <1>0, <2>0, <2>1 DEF Moves, Outstanding
    <3> QED
      BY <3>1 DEF KindOfStep
  <2>2. CASE a # b
    BY <1>0, <2>0, <2>2 DEF KindOfStep, Stays
  <2> QED
    BY <2>1, <2>2
<1>4. ASSUME Retract PROVE KindOfStep(a)
  <2>1. Moves(a)
    BY <1>4 DEF Retract, Moves, Outstanding
  <2> QED
    BY <2>1 DEF KindOfStep
<1>5. ASSUME Reject PROVE KindOfStep(a)
  <2>1. CASE status[a] \in Outstanding \cup {"manual_ready"}
    <3>1. Moves(a)
      BY <1>5, <2>1 DEF Reject, Moves
    <3> QED
      BY <3>1 DEF KindOfStep
  <2>2. CASE status[a] \notin Outstanding \cup {"manual_ready"}
    BY <1>5, <2>2 DEF Reject, KindOfStep, Stays
  <2> QED
    BY <2>1, <2>2
<1>6. ASSUME Archive \/ Restore PROVE KindOfStep(a)
  BY <1>6 DEF Archive, Restore, rowVars, KindOfStep, Stays
<1>7. ASSUME NEW b \in Adaptations, NEW delivered \in BOOLEAN, AssertDelivery(b, delivered)
      PROVE  KindOfStep(a)
  <2> DEFINE verdict == IF delivered THEN "published" ELSE "failed"
  <2>0. /\ OutcomeUnknown(b) /\ attempt' = attempt
        /\ status' = [status EXCEPT ![b] = verdict]
        /\ cleared' = [cleared EXCEPT ![b] = IF delivered THEN @ ELSE Len(receipts[b])]
        /\ receipts' = [receipts EXCEPT ![b] =
                           Append(@, NewReceipt(verdict, attempt[b], TRUE))]
    BY <1>7 DEF AssertDelivery
  <2>1. CASE a = b
    <3>1. Settles(a)
      BY <1>0, <2>0, <2>1 DEF Settles, Adds
    <3> QED
      BY <3>1 DEF KindOfStep
  <2>2. CASE a # b
    BY <1>0, <2>0, <2>2 DEF KindOfStep, Stays
  <2> QED
    BY <2>1, <2>2
<1>8. ASSUME NEW b \in Adaptations, ConfirmManual(b) PROVE KindOfStep(a)
  <2>1. CASE a = b
    <3>1. Confirms(a)
      BY <1>0, <1>8, <2>1 DEF ConfirmManual, Confirms, Adds
    <3> QED
      BY <3>1 DEF KindOfStep
  <2>2. CASE a # b
    BY <1>0, <1>8, <2>2 DEF ConfirmManual, KindOfStep, Stays
  <2> QED
    BY <2>1, <2>2
<1> QED
  BY <1>1, <1>2, <1>3, <1>4, <1>5, <1>6, <1>7, <1>8 DEF PersonStep

\* A delivery that ends through resolveClaim: with the claim it finds, or with a
\* receipt of its own when there is none.
LEMMA ResolveKind ==
    ASSUME IInv, NEW a \in Adaptations, NEW claim \in Nat, NEW end \in {"failed", "unknown"},
           status'[a] = "failed", cleared'[a] = cleared[a],
           receipts'[a] = ResolveClaim(receipts[a], claim, end, attempt'[a]),
           attempt'[a] \in Nat,
           \A i \in Claimed(receipts[a], claim) : end = "unknown" \/ ~ receipts[a][i].posted,
           Claimed(receipts[a], claim) = {} => InFlight(a) = {},
           end = "unknown" /\ InFlight(a) = {} => status[a] = "publishing" /\ a \notin Unsupported,
           end = "failed" /\ InFlight(a) = {} => status[a] \in Outstanding \/ a \in Unsupported
    PROVE  KindOfStep(a)
<1> DEFINE rows == receipts[a]
<1>1. CASE Claimed(rows, claim) = {}
  <2>1. Adds(a, end, FALSE)
    BY <1>1 DEF ResolveClaim, Adds
  <2>2. Fails(a)
    BY <1>1, <2>1 DEF Fails
  <2> QED
    BY <2>2 DEF KindOfStep
<1>2. ASSUME NEW i \in Claimed(rows, claim) PROVE KindOfStep(a)
  <2>1. /\ i \in DOMAIN rows /\ rows[i].st = "in_flight"
        /\ receipts'[a] = [rows EXCEPT ![i] = Ended(rows[i], end, attempt'[a])]
    <3>1. SoundHistory(status[a], rows, cleared[a])
      BY RowFacts
    <3>2. Claimed(rows, claim) = {i} /\ i \in DOMAIN rows /\ rows[i].st = "in_flight"
      BY <1>2, <3>1 DEF SoundHistory, Claimed, RowsIn
    <3>3. receipts'[a] = [j \in DOMAIN rows |-> IF j \in Claimed(rows, claim)
                            THEN Ended(rows[j], end, attempt'[a]) ELSE rows[j]]
      BY <3>2, Zenon DEF ResolveClaim, Ended
    <3> HIDE DEF rows
    <3>4. receipts'[a] = [j \in DOMAIN rows |->
                            IF j = i THEN Ended(rows[i], end, attempt'[a]) ELSE rows[j]]
      BY <3>2, <3>3
    <3> QED
      BY <3>2, <3>4 DEF rows
  <2>2. rows[i] \in Receipt
    BY <2>1, RowFacts
  <2>3. /\ receipts'[a][i] = Ended(rows[i], end, attempt'[a])
        /\ i \in InFlight(a)
    BY <2>1 DEF InFlight, RowsIn
  <2>4. LET new == receipts'[a][i]
        IN  /\ new.st = end /\ new.att = attempt'[a] /\ new.posted = rows[i].posted
            /\ new.human = rows[i].human /\ new.superseded = rows[i].superseded
    BY <2>2, <2>3 DEF Ended, Receipt
  <2>5. Writes(a, i)
    BY <2>1, <2>3 DEF Writes
  <2>6. Ends(a)
    BY <1>2, <2>3, <2>4, <2>5 DEF Ends
  <2> QED
    BY <2>6 DEF KindOfStep
<1> QED
  BY <1>1, <1>2

LEMMA OtherStays ==
    ASSUME NEW a \in Adaptations,
           UNCHANGED <<status[a], attempt[a], receipts[a], cleared[a]>>
    PROVE  KindOfStep(a)
  BY DEF KindOfStep, Stays

\* A callback's write to one receipt leaves the other channels alone.
LEMMA OneRow ==
    ASSUME IInv, NEW a \in Adaptations, NEW i \in DOMAIN receipts[a], NEW row \in Receipt,
           receipts' = WithReceipt(a, i, row)
    PROVE  /\ Writes(a, i) /\ receipts'[a][i] = row
           /\ \A b \in Adaptations : b # a => receipts'[b] = receipts[b]
<1>1. /\ receipts'[a] = [receipts[a] EXCEPT ![i] = row]
      /\ \A b \in Adaptations : b # a => receipts'[b] = receipts[b]
  BY DEF WithReceipt, IInv, TypeOK
<1> QED
  BY <1>1, RowFacts DEF Writes

LEMMA MarkFailedKind ==
    ASSUME IInv, UNCHANGED cleared,
           NEW h \in Handlers, NEW outcome \in {"failed", "unknown"},
           MarkFailed(h, outcome),
           worker[h].pc \in Attempting \cup {"unsupported", "exhausting"},
           outcome = "failed" =>
             \A i \in Claimed(receipts[worker[h].a], worker[h].claim) :
                 ~ receipts[worker[h].a][i].posted,
           outcome = "unknown" /\ FenceHeld(h) => worker[h].pc \in Attempting \/
                 Claimed(receipts[worker[h].a], worker[h].claim) # {},
           NEW a \in Adaptations
    PROVE  KindOfStep(a)
<1> DEFINE w    == worker[h]
           rows == receipts[w.a]
<1>0. w.pc # "idle"
  BY DEF Attempting, Claimants
<1>1. /\ w.a \in Adaptations /\ w.claim \in Nat /\ w.att \in Nat
      /\ FenceSound(w, attempt[w.a], now) /\ 0 \notin DOMAIN rows
      /\ status \in [Adaptations -> Statuses] /\ attempt \in [Adaptations -> Nat]
      /\ receipts \in [Adaptations -> Seq(Receipt)]
  BY <1>0, Knows DEF IInv, TypeOK
<1>2. CASE FenceHeld(h)
  <2> DEFINE n == FailedAttempt(w.a)
  <2>1. /\ status' = [status EXCEPT ![w.a] = "failed"]
        /\ attempt' = [attempt EXCEPT ![w.a] = n]
        /\ receipts' = [receipts EXCEPT ![w.a] = ResolveClaim(rows, w.claim, outcome, n)]
    BY <1>2 DEF MarkFailed
  <2>2. n \in Nat
    BY <1>1 DEF FailedAttempt
  <2> HIDE DEF n
  <2>3. CASE a # w.a
    BY <1>1, <2>1, <2>3, OtherStays
  <2>4. CASE a = w.a
    <3>1. /\ status'[a] = "failed" /\ attempt'[a] = n /\ cleared'[a] = cleared[a]
          /\ receipts'[a] = ResolveClaim(receipts[a], w.claim, outcome, attempt'[a])
      BY <1>1, <2>1, <2>4
    <3>2. Claimed(receipts[a], w.claim) = {} => InFlight(a) = {}
      BY <1>2, <2>4, FailsQuietly DEF QuietRow, InFlight
    <3>3. Claimed(receipts[a], w.claim) \subseteq InFlight(a)
      BY DEF Claimed, InFlight
    <3>4. w.pc # "unsupported" => status[a] = "publishing"
      BY <1>1, <1>2, <2>4 DEF FenceSound, FenceHeld
    <3>5. /\ w.pc \in Attempting => a \notin Unsupported
          /\ w.pc = "unsupported" => a \in Unsupported /\ w.pc \notin Attempting
      BY <1>1, <2>4 DEF FenceSound, Attempting, Claimants
    <3>6. outcome = "unknown" /\ InFlight(a) = {} => status[a] = "publishing" /\ a \notin Unsupported
      BY <1>2, <2>4, <3>3, <3>4, <3>5
    <3>7. outcome = "failed" /\ InFlight(a) = {} => status[a] \in Outstanding \/ a \in Unsupported
      BY <3>4, <3>5 DEF Outstanding
    <3> QED
      BY <1>1, <2>2, <2>4, <3>1, <3>2, <3>6, <3>7, ResolveKind
  <2> QED
    BY <2>3, <2>4
<1>3. CASE ~ FenceHeld(h)
  <2> DEFINE row == [rows[w.claim] EXCEPT !.st = outcome, !.att = w.att,
                                          !.superseded = (outcome = "unknown")]
  <2>1. /\ UNCHANGED <<status, attempt>>
        /\ receipts' = IF w.claim \in RowsIn(rows, {"in_flight"})
                       THEN WithReceipt(w.a, w.claim, row) ELSE receipts
    BY <1>3 DEF MarkFailed, rowVars
  <2>2. CASE w.claim \in RowsIn(rows, {"in_flight"})
    <3>1. /\ w.claim \in DOMAIN rows /\ rows[w.claim] \in Receipt
          /\ w.claim \in Claimed(rows, w.claim)
      BY <1>1, <2>2, RowFacts DEF RowsIn, Claimed
    <3>2. /\ row \in Receipt /\ row.st = outcome /\ row.posted = rows[w.claim].posted
          /\ row.human = rows[w.claim].human /\ (row.superseded <=> outcome = "unknown")
      BY <1>1, <3>1 DEF Receipt, ReceiptStatuses
    <3> HIDE DEF row
    <3>3. /\ Writes(w.a, w.claim) /\ receipts'[w.a][w.claim] = row
          /\ \A b \in Adaptations : b # w.a => receipts'[b] = receipts[b]
      BY <1>1, <2>1, <2>2, <3>1, <3>2, OneRow
    <3>4. CASE a = w.a
      <4>1. w.claim \in InFlight(a) /\ cleared'[a] = cleared[a] /\ status'[a] = status[a]
        BY <2>1, <2>2, <3>4 DEF InFlight
      <4>2. /\ receipts'[a][w.claim].posted = receipts[a][w.claim].posted
            /\ receipts'[a][w.claim].human = receipts[a][w.claim].human
            /\ \/ receipts'[a][w.claim].st = "unknown" /\ receipts'[a][w.claim].superseded
               \/ receipts'[a][w.claim].st = "failed" /\ ~ receipts[a][w.claim].posted
        BY <3>1, <3>2, <3>3, <3>4
      <4>3. Ends(a)
        BY <3>3, <3>4, <4>1, <4>2 DEF Ends
      <4> QED
        BY <4>3 DEF KindOfStep
    <3>5. CASE a # w.a
      BY <2>1, <3>3, <3>5, OtherStays
    <3> QED
      BY <3>4, <3>5
  <2>3. CASE w.claim \notin RowsIn(rows, {"in_flight"})
    BY <2>1, <2>3, OtherStays
  <2> QED
    BY <2>2, <2>3
<1> QED
  BY <1>2, <1>3

LEMMA MarkKind ==
    ASSUME IInv, NEW h \in Handlers, Mark(h), NEW a \in Adaptations PROVE KindOfStep(a)
<1> DEFINE b == worker[h].a
<1>0. /\ UNCHANGED <<receipts, cleared>> /\ b \in Adaptations
      /\ status \in [Adaptations -> Statuses] /\ attempt \in [Adaptations -> Nat]
  BY Knows DEF Mark, Elsewhere, IInv, TypeOK
<1>1. CASE UNCHANGED <<status, attempt>>
  BY <1>0, <1>1, OtherStays
<1>2. CASE /\ status[b] \in Outstanding /\ status' = [status EXCEPT ![b] = "publishing"]
           /\ attempt' = [attempt EXCEPT ![b] = @ + 1]
  <2>1. CASE a = b
    <3>1. Moves(a)
      BY <1>0, <1>2, <2>1 DEF Moves
    <3> QED
      BY <3>1 DEF KindOfStep
  <2>2. CASE a # b
    BY <1>0, <1>2, <2>2, OtherStays
  <2> QED
    BY <2>1, <2>2
<1> QED
  BY <1>1, <1>2 DEF Mark

LEMMA ClaimKind ==
    ASSUME IInv, NEW h \in Handlers, Claim(h), NEW a \in Adaptations PROVE KindOfStep(a)
<1> DEFINE b == worker[h].a
<1>0. /\ UNCHANGED <<status, attempt, cleared>> /\ b \in Adaptations
      /\ worker[h].pc = "marked" /\ FenceSound(worker[h], attempt[b], now)
      /\ receipts \in [Adaptations -> Seq(Receipt)]
  BY Knows DEF Claim, Elsewhere, rowVars, IInv, TypeOK
<1>1. CASE UNCHANGED receipts
  BY <1>0, <1>1, OtherStays
<1>2. CASE /\ MayClaim(h)
           /\ receipts' = [receipts EXCEPT ![b] =
                             Append(@, NewReceipt("in_flight", attempt[b], FALSE))]
  <2>1. CASE a = b
    <3>1. a \notin Unsupported /\ status[a] = "publishing" /\ InFlight(a) = {}
      BY <1>0, <1>2, <2>1 DEF MayClaim, FenceHeld, FenceSound, Attempting
    <3>2. Claims(a)
      BY <1>0, <1>2, <2>1, <3>1 DEF Claims, Adds
    <3> QED
      BY <3>2 DEF KindOfStep
  <2>2. CASE a # b
    BY <1>0, <1>2, <2>2, OtherStays
  <2> QED
    BY <2>1, <2>2
<1> QED
  BY <1>1, <1>2 DEF Claim

LEMMA SendKind ==
    ASSUME IInv, NEW h \in Handlers, NEW reply \in Replies, NEW posted \in BOOLEAN,
           Send(h, reply, posted), NEW a \in Adaptations
    PROVE  KindOfStep(a)
<1> DEFINE b == worker[h].a
           i == worker[h].claim
           old == receipts[b][i]
           row == [old EXCEPT !.posted = posted]
<1>0. /\ UNCHANGED <<status, attempt, cleared>> /\ b \in Adaptations
      /\ i \in DOMAIN receipts[b] /\ old \in Receipt
      /\ old.st \in {"in_flight", "unknown"} /\ ~ old.human /\ ~ old.posted
      /\ receipts' = WithReceipt(b, i, row)
  BY Knows DEF Send, Elsewhere, rowVars, ClaimSound, Claimants
<1>1. /\ row \in Receipt /\ row.st = old.st /\ row.human = old.human /\ row.att = old.att
      /\ row.superseded = old.superseded
  BY <1>0 DEF Receipt
<1> HIDE DEF row
<1>2. /\ Writes(b, i) /\ receipts'[b][i] = row
      /\ \A c \in Adaptations : c # b => receipts'[c] = receipts[c]
  BY <1>0, <1>1, OneRow
<1>3. CASE a = b
  <2>1. Notes(a)
    BY <1>0, <1>1, <1>2, <1>3 DEF Notes
  <2> QED
    BY <2>1 DEF KindOfStep
<1>4. CASE a # b
  BY <1>0, <1>2, <1>4, OtherStays
<1> QED
  BY <1>3, <1>4

LEMMA RecordFailureKind ==
    ASSUME IInv, NEW h \in Handlers, RecordFailure(h), NEW a \in Adaptations
    PROVE  KindOfStep(a)
<1> DEFINE w == worker[h]
<1>0. UNCHANGED cleared /\ MarkFailed(h, Verdict(h)) /\ Verdict(h) # "none"
  BY DEF RecordFailure, Elsewhere
<1>1. /\ Verdict(h) \in {"failed", "unknown"}
      /\ w.pc \in Attempting \cup {"unsupported", "exhausting"}
      /\ Verdict(h) = "failed" => \/ w.pc = "unsupported"
                                  \/ w.pc = "claimed"
                                  \/ w.pc = "replied" /\ w.reply = "permanent"
      /\ Verdict(h) = "unknown" => w.pc \in Attempting
  BY <1>0 DEF Verdict, Attempting, Claimants
<1>2. /\ w.pc # "idle" /\ w.a \in Adaptations /\ FenceSound(w, attempt[w.a], now)
      /\ 0 \notin DOMAIN receipts[w.a]
      /\ w.pc \in Claimants =>
           /\ w.claim \in DOMAIN receipts[w.a]
           /\ ClaimSound(w, receipts[w.a][w.claim], status[w.a], attempt[w.a])
  <2>1. w.pc # "idle"
    BY <1>1 DEF Attempting, Claimants
  <2> QED
    BY <2>1, Knows
<1>3. ASSUME Verdict(h) = "failed", NEW i \in Claimed(receipts[w.a], w.claim)
      PROVE  ~ receipts[w.a][i].posted
  <2>1. w.pc # "unsupported"
    BY <1>2, <1>3 DEF FenceSound, IInv, Safe, UnsupportedNeverSent, QuietRow, Claimed
  <2>2. w.pc \in Claimants /\ (w.pc = "claimed" \/ w.reply = "permanent")
    BY <1>1, <1>3, <2>1 DEF Claimants
  <2>3. i = w.claim
    BY <1>2, <1>3, <2>2 DEF Claimed
  <2> QED
    BY <1>2, <2>2, <2>3 DEF ClaimSound
<1> QED
  BY <1>0, <1>1, <1>3, MarkFailedKind

LEMMA ExhaustKind ==
    ASSUME IInv, NEW h \in Handlers, Exhaust(h), NEW a \in Adaptations PROVE KindOfStep(a)
<1> DEFINE w       == worker[h]
           outcome == Unreported(w.a)
<1>0. UNCHANGED cleared /\ w.pc = "exhausting" /\ w.a \in Adaptations
      /\ FenceSound(w, attempt[w.a], now)
  BY Knows DEF Exhaust
<1>1. CASE UNCHANGED Database
  BY <1>0, <1>1, ReadOnlyStays
<1>2. CASE MarkFailed(h, outcome)
  <2>1. /\ outcome \in {"failed", "unknown"} /\ w.claim = 0
        /\ Claimed(receipts[w.a], w.claim) = InFlight(w.a)
        /\ outcome = "failed" <=> InFlight(w.a) = {}
    BY <1>0 DEF Unreported, Claimed, InFlight, FenceSound, Claimants
  <2> HIDE DEF outcome
  <2> QED
    BY <1>0, <1>2, <2>1, MarkFailedKind
<1> QED
  BY <1>1, <1>2 DEF Exhaust

\* With the fence held the claim of a callback that was answered is in flight.
LEMMA Answered ==
    ASSUME IInv, NEW h \in Handlers, worker[h].pc = "replied"
    PROVE  LET w == worker[h]
               a == w.a
           IN  /\ a \in Adaptations /\ w.claim \in DOMAIN receipts[a]
               /\ receipts[a][w.claim] \in Receipt
               /\ receipts[a][w.claim].st \in {"in_flight", "unknown"}
               /\ ~ receipts[a][w.claim].human
               /\ w.reply = "transient" => ~ receipts[a][w.claim].posted
               /\ FenceHeld(h) => receipts[a][w.claim].st = "in_flight" /\ w.att = attempt[a]
  BY Knows DEF Claimants, ClaimSound, FenceHeld, FenceSound, Attempting

LEMMA RecordPublishedKind ==
    ASSUME IInv, RepliesSound, NEW h \in Handlers, RecordPublished(h), NEW a \in Adaptations
    PROVE  KindOfStep(a)
<1> DEFINE b == worker[h].a
           i == worker[h].claim
           old == receipts[b][i]
           row == [old EXCEPT !.st = "published", !.ext = TRUE]
<1>0. /\ UNCHANGED <<attempt, cleared>> /\ b \in Adaptations
      /\ i \in DOMAIN receipts[b] /\ old \in Receipt /\ old.posted
      /\ status \in [Adaptations -> Statuses]
  BY Answered DEF RecordPublished, Elsewhere, RepliesSound, IInv, TypeOK
<1>1. CASE UNCHANGED <<status, receipts>>
  BY <1>0, <1>1, OtherStays
<1>2. CASE /\ old.st = "in_flight" /\ status' = [status EXCEPT ![b] = "published"]
           /\ receipts' = WithReceipt(b, i, row)
  <2>1. /\ row \in Receipt /\ row.st = "published" /\ row.posted = old.posted
        /\ row.human = old.human /\ row.superseded = old.superseded
    BY <1>0 DEF Receipt, ReceiptStatuses
  <2> HIDE DEF row
  <2>2. /\ Writes(b, i) /\ receipts'[b][i] = row
        /\ \A c \in Adaptations : c # b => receipts'[c] = receipts[c]
    BY <1>0, <1>2, <2>1, OneRow
  <2>3. CASE a = b
    <3>1. i \in InFlight(a) /\ status'[a] = "published" /\ cleared'[a] = cleared[a]
      BY <1>0, <1>2, <2>3 DEF InFlight, RowsIn
    <3>2. Ends(a)
      BY <1>0, <2>1, <2>2, <2>3, <3>1 DEF Ends
    <3> QED
      BY <3>2 DEF KindOfStep
  <2>4. CASE a # b
    BY <1>0, <1>2, <2>2, <2>4, OtherStays
  <2> QED
    BY <2>3, <2>4
<1> QED
  BY <1>1, <1>2 DEF RecordPublished

LEMMA RecordAcceptedKind ==
    ASSUME IInv, NEW h \in Handlers, RecordAccepted(h), NEW a \in Adaptations
    PROVE  KindOfStep(a)
<1> DEFINE b == worker[h].a
           i == worker[h].claim
           old == receipts[b][i]
           row == [old EXCEPT !.st = "unknown", !.ext = TRUE,
                     !.superseded = @ \/ (old.st = "in_flight" /\ ~ FenceHeld(h))]
<1>0. /\ UNCHANGED <<attempt, cleared>> /\ b \in Adaptations
      /\ i \in DOMAIN receipts[b] /\ old \in Receipt /\ ~ old.human
      /\ old.st \in {"in_flight", "unknown"}
      /\ FenceHeld(h) => old.st = "in_flight" /\ worker[h].att = attempt[b]
      /\ status \in [Adaptations -> Statuses]
  BY Answered DEF RecordAccepted, Elsewhere, IInv, TypeOK
<1>1. CASE UNCHANGED <<status, receipts>>
  BY <1>0, <1>1, OtherStays
<1>2. CASE /\ old.att = worker[h].att
           /\ status' = IF FenceHeld(h) THEN [status EXCEPT ![b] = "failed"] ELSE status
           /\ receipts' = WithReceipt(b, i, row)
  <2>1. /\ row \in Receipt /\ row.st = "unknown" /\ row.posted = old.posted
        /\ row.human = old.human /\ row.att = old.att
        /\ old.st = "in_flight" /\ ~ FenceHeld(h) => row.superseded
        /\ FenceHeld(h) \/ old.st = "unknown" => row.superseded = old.superseded
    BY <1>0 DEF Receipt, ReceiptStatuses
  <2> HIDE DEF row
  <2>2. /\ Writes(b, i) /\ receipts'[b][i] = row
        /\ \A c \in Adaptations : c # b => receipts'[c] = receipts[c]
    BY <1>0, <1>2, <2>1, OneRow
  <2>3. CASE a = b /\ old.st = "in_flight"
    <3>1. /\ i \in InFlight(a) /\ cleared'[a] = cleared[a]
          /\ status'[a] = IF FenceHeld(h) THEN "failed" ELSE status[a]
      BY <1>0, <1>2, <2>3 DEF InFlight, RowsIn
    <3>2. CASE FenceHeld(h)
      <4>1. row.att = attempt'[a]
        BY <1>0, <1>2, <2>1, <2>3, <3>2
      <4>2. Ends(a)
        BY <2>1, <2>2, <2>3, <3>1, <3>2, <4>1 DEF Ends
      <4> QED
        BY <4>2 DEF KindOfStep
    <3>3. CASE ~ FenceHeld(h)
      <4>1. Ends(a)
        BY <2>1, <2>2, <2>3, <3>1, <3>3 DEF Ends
      <4> QED
        BY <4>1 DEF KindOfStep
    <3> QED
      BY <3>2, <3>3
  <2>4. CASE a = b /\ old.st = "unknown"
    <3>1. status' = status
      BY <1>0, <1>2, <2>4
    <3>2. Notes(a)
      BY <1>0, <2>1, <2>2, <2>4, <3>1 DEF Notes
    <3> QED
      BY <3>2 DEF KindOfStep
  <2>5. CASE a # b
    BY <1>0, <1>2, <2>2, <2>5, OtherStays
  <2> QED
    BY <1>0, <2>3, <2>4, <2>5
<1> QED
  BY <1>1, <1>2 DEF RecordAccepted

LEMMA ReleaseAndThrowKind ==
    ASSUME IInv, NEW h \in Handlers, ReleaseAndThrow(h), NEW a \in Adaptations
    PROVE  KindOfStep(a)
<1> DEFINE b == worker[h].a
           i == worker[h].claim
           old == receipts[b][i]
           row == [old EXCEPT !.st = "released"]
<1>0. /\ UNCHANGED <<status, attempt, cleared>> /\ b \in Adaptations
      /\ i \in DOMAIN receipts[b] /\ old \in Receipt /\ ~ old.posted
  BY Answered DEF ReleaseAndThrow, Elsewhere, rowVars
<1>1. CASE UNCHANGED receipts
  BY <1>0, <1>1, OtherStays
<1>2. CASE old.st = "in_flight" /\ receipts' = WithReceipt(b, i, row)
  <2>1. /\ row \in Receipt /\ row.st = "released" /\ row.posted = old.posted
        /\ row.human = old.human
    BY <1>0 DEF Receipt, ReceiptStatuses
  <2> HIDE DEF row
  <2>2. /\ Writes(b, i) /\ receipts'[b][i] = row
        /\ \A c \in Adaptations : c # b => receipts'[c] = receipts[c]
    BY <1>0, <1>2, <2>1, OneRow
  <2>3. CASE a = b
    <3>1. i \in InFlight(a) /\ status'[a] = status[a] /\ cleared'[a] = cleared[a]
      BY <1>0, <1>2, <2>3 DEF InFlight, RowsIn
    <3>2. Ends(a)
      BY <1>0, <2>1, <2>2, <2>3, <3>1 DEF Ends
    <3> QED
      BY <3>2 DEF KindOfStep
  <2>4. CASE a # b
    BY <1>0, <2>2, <2>4, OtherStays
  <2> QED
    BY <2>3, <2>4
<1> QED
  BY <1>1, <1>2 DEF ReleaseAndThrow

LEMMA SweepKind ==
    ASSUME IInv, SweepStep, NEW a \in Adaptations PROVE KindOfStep(a)
<1>1. PICK S \in SUBSET Adaptations :
        Sweep(S) /\ \A b \in S : status[b] \in Outstanding
  BY DEF SweepStep, SweepAbandoned, SweepStranded, Abandoned, Stranded, Outstanding
<1>0. /\ UNCHANGED <<attempt, cleared>> /\ attempt[a] \in Nat
      /\ a \notin S => UNCHANGED <<status[a], receipts[a]>>
      /\ a \in S => /\ status'[a] = "failed"
                    /\ receipts'[a] = ResolveClaim(receipts[a], 0, Unreported(a), attempt[a])
  BY <1>1 DEF Sweep, Elsewhere, IInv, TypeOK
<1>2. CASE a \notin S
  BY <1>0, <1>2, OtherStays
<1>3. CASE a \in S
  <2> DEFINE end == Unreported(a)
  <2>1. /\ end \in {"failed", "unknown"}
        /\ Claimed(receipts[a], 0) = InFlight(a)
        /\ end = "failed" <=> InFlight(a) = {}
    BY DEF Unreported, Claimed, InFlight
  <2>2. receipts'[a] = ResolveClaim(receipts[a], 0, end, attempt'[a]) /\ attempt'[a] \in Nat
    BY <1>0, <1>3
  <2> HIDE DEF end
  <2>3. 0 \in Nat
    OBVIOUS
  <2> QED
    BY <1>0, <1>1, <1>3, <2>1, <2>2, <2>3, ResolveKind
<1> QED
  BY <1>2, <1>3

LEMMA StepKinds ==
    ASSUME IInv, RepliesSound, [Next]_vars, NEW a \in Adaptations PROVE KindOfStep(a)
<1>1. ASSUME NEW h \in Handlers, HandlerStep(h) PROVE KindOfStep(a)
  <2>1. ASSUME NEW reply \in Replies \ {"none"}, NEW posted \in BOOLEAN, Send(h, reply, posted)
        PROVE  KindOfStep(a)
    BY <2>1, SendKind
  <2>2. ASSUME Load(h) \/ CheckSent(h) \/ LoseWrite(h) \/ DatabaseError(h) \/ Complete(h) \/ Fail(h)
        PROVE  KindOfStep(a)
    <3>1. UNCHANGED <<Database, cleared>>
      BY <2>2 DEF Load, CheckSent, LoseWrite, DatabaseError, Complete, Fail, Elsewhere, Database
    <3> QED
      BY <3>1, ReadOnlyStays
  <2> QED
    BY <1>1, <2>1, <2>2, MarkKind, ClaimKind, RecordFailureKind, RecordPublishedKind,
       RecordAcceptedKind, ReleaseAndThrowKind, ExhaustKind DEF HandlerStep
<1>2. ASSUME \/ \E h \in Handlers : Crash(h)
             \/ \E b \in Adaptations : FetchOf(b) \/ TakeDeadLetterOf(b) \/ DropDeadLetter(b)
             \/ \E j \in jobs : Timeout(j) \/ DropJob(j)
             \/ Tick \/ UNCHANGED vars
      PROVE  KindOfStep(a)
  <2>1. UNCHANGED <<Database, cleared>>
    BY <1>2 DEF Crash, FetchOf, Fetch, TakeDeadLetterOf, TakeDeadLetter, DropDeadLetter,
                Timeout, DropJob, Tick, vars, Database, itemVars, rowVars
  <2> QED
    BY <2>1, ReadOnlyStays
<1> QED
  BY <1>1, <1>2, PersonKinds, SweepKind DEF Next

(***************************************************************************)
(* Each kind keeps what holds of a channel.                                 *)
(***************************************************************************)
Newest(a) == Len(receipts[a]) + 1

\* The history of a channel has grown by one receipt.
Grown(a, st, human) ==
    /\ Newest(a) \in Nat /\ Len(receipts'[a]) = Newest(a) /\ DOMAIN receipts'[a] = 1..Newest(a)
    /\ \A i \in DOMAIN receipts[a] :
          i \in 1..Newest(a) /\ i < Newest(a) /\ receipts'[a][i] = receipts[a][i]
    /\ \A i \in 1..Newest(a) : i = Newest(a) \/ i \in DOMAIN receipts[a]
    /\ receipts'[a][Newest(a)] = NewReceipt(st, attempt'[a], human)

LEMMA AddsFacts ==
    ASSUME IInv, NEW a \in Adaptations, NEW st, NEW human, Adds(a, st, human)
    PROVE  Grown(a, st, human)
<1>1. receipts[a] \in Seq(Receipt) /\ Len(receipts[a]) \in Nat
      /\ DOMAIN receipts[a] = 1..Len(receipts[a])
  BY RowFacts
<1>2. receipts'[a] = Append(receipts[a], NewReceipt(st, attempt'[a], human))
  BY DEF Adds
<1> DEFINE new == NewReceipt(st, attempt'[a], human)
<1> HIDE DEF new
<1>3. /\ Len(Append(receipts[a], new)) = Len(receipts[a]) + 1
      /\ DOMAIN Append(receipts[a], new) = 1..(Len(receipts[a]) + 1)
      /\ \A i \in 1..Len(receipts[a]) : Append(receipts[a], new)[i] = receipts[a][i]
      /\ Append(receipts[a], new)[Len(receipts[a]) + 1] = new
  BY <1>1
<1> QED
  BY <1>1, <1>2, <1>3 DEF new, Grown, Newest

LEMMA WritesFacts ==
    ASSUME IInv, NEW a \in Adaptations, NEW i \in DOMAIN receipts[a], Writes(a, i)
    PROVE  /\ DOMAIN receipts'[a] = DOMAIN receipts[a] /\ Len(receipts'[a]) = Len(receipts[a])
           /\ \A j \in DOMAIN receipts[a] : j # i => receipts'[a][j] = receipts[a][j]
<1>1. receipts[a] \in Seq(Receipt) /\ Len(receipts[a]) \in Nat
      /\ DOMAIN receipts[a] = 1..Len(receipts[a])
  BY RowFacts
<1> DEFINE new == receipts'[a][i]
<1>2. receipts'[a] = [receipts[a] EXCEPT ![i] = new]
  BY DEF Writes
<1> HIDE DEF new
<1> QED
  BY <1>1, <1>2

\* A claim in flight is the newest receipt and the only one, on a publishing row.
LEMMA InFlightFacts ==
    ASSUME IInv, NEW a \in Adaptations, NEW i \in InFlight(a)
    PROVE  /\ i \in DOMAIN receipts[a] /\ receipts[a][i].st = "in_flight"
           /\ i = Len(receipts[a]) /\ status[a] = "publishing" /\ InFlight(a) = {i}
<1>1. SoundHistory(status[a], receipts[a], cleared[a])
  BY RowFacts
<1> QED
  BY <1>1 DEF SoundHistory, InFlight, RowsIn

LEMMA StaysKeeps ==
    ASSUME NEW a \in Adaptations, ChannelSound(a), Stays(a) PROVE ChannelSound(a)'
  BY DEF ChannelSound, Stays, LastWord, InFlight, Finished, RowsIn

LEMMA MovesKeeps ==
    ASSUME NEW a \in Adaptations, ChannelSound(a), Moves(a) PROVE ChannelSound(a)'
<1>1. status'[a] \notin {"published", "failed"} /\ status[a] # "published"
      /\ UNCHANGED <<receipts[a], cleared[a]>>
  BY DEF Moves, Outstanding
<1>2. a \in Manual => status'[a] \in {"pending", "manual_ready", "published"}
  BY DEF Moves, ChannelSound, Outstanding
<1> QED
  BY <1>1, <1>2 DEF ChannelSound, InFlight, RowsIn

LEMMA ClaimsKeeps ==
    ASSUME IInv, NEW a \in Adaptations, ChannelSound(a), Claims(a) PROVE ChannelSound(a)'
<1> DEFINE n == Newest(a)
<1>0. Grown(a, "in_flight", FALSE)
  BY AddsFacts DEF Claims
<1>1. /\ n \in Nat /\ Len(receipts'[a]) = n /\ DOMAIN receipts'[a] = 1..n
      /\ \A i \in DOMAIN receipts[a] : i \in 1..n /\ i < n /\ receipts'[a][i] = receipts[a][i]
      /\ \A i \in 1..n : i = n \/ i \in DOMAIN receipts[a]
      /\ receipts'[a][n].st = "in_flight" /\ ~ receipts'[a][n].superseded
  BY <1>0 DEF Grown, NewReceipt
<1>2. /\ status[a] = "publishing" /\ status'[a] = "publishing" /\ cleared'[a] = cleared[a]
      /\ a \notin Unsupported
  BY DEF Claims
<1>3. Len(receipts[a]) \in Nat /\ cleared[a] \in Nat /\ cleared[a] < n
  BY RowFacts DEF ChannelSound, Newest
<1> HIDE DEF n
<1>4. \A i \in InFlight(a)' : i > cleared'[a] /\ ~ receipts'[a][i].superseded
  BY <1>1, <1>2, <1>3 DEF ChannelSound, InFlight, RowsIn
<1>5. RowsIn(receipts'[a], {"published"}) = {}
  BY <1>1, <1>2 DEF ChannelSound, RowsIn
<1> QED
  BY <1>1, <1>2, <1>3, <1>4, <1>5 DEF ChannelSound

LEMMA NotesKeeps ==
    ASSUME IInv, NEW a \in Adaptations, ChannelSound(a), Notes(a) PROVE ChannelSound(a)'
<1>1. PICK i \in DOMAIN receipts[a] :
        /\ Writes(a, i) /\ receipts[a][i].st \in {"in_flight", "unknown"}
        /\ receipts'[a][i].st = receipts[a][i].st /\ receipts'[a][i].att = receipts[a][i].att
        /\ receipts'[a][i].superseded = receipts[a][i].superseded
  BY DEF Notes
<1>2. /\ DOMAIN receipts'[a] = DOMAIN receipts[a] /\ Len(receipts'[a]) = Len(receipts[a])
      /\ \A j \in DOMAIN receipts[a] :
            /\ receipts'[a][j].st = receipts[a][j].st /\ receipts'[a][j].att = receipts[a][j].att
            /\ receipts'[a][j].superseded = receipts[a][j].superseded
  BY <1>1, WritesFacts
<1>3. UNCHANGED <<status[a], cleared[a], attempt[a]>>
  BY DEF Notes
<1>4. \A S : RowsIn(receipts'[a], S) = RowsIn(receipts[a], S)
  BY <1>2 DEF RowsIn
<1>5. status[a] = "failed" => LastWord(a)'
  BY <1>2, <1>3, <1>4 DEF ChannelSound, LastWord, Finished, RowsIn
<1>6. a \in Unsupported => \A j \in DOMAIN receipts'[a] : receipts'[a][j].st = "failed"
  BY <1>2 DEF ChannelSound
<1>7. \A j \in InFlight(a)' : j > cleared'[a] /\ ~ receipts'[a][j].superseded
  BY <1>2, <1>3, <1>4 DEF ChannelSound, InFlight, RowsIn
<1> QED
  BY <1>2, <1>3, <1>4, <1>5, <1>6, <1>7 DEF ChannelSound

LEMMA FailsKeeps ==
    ASSUME IInv, NEW a \in Adaptations, ChannelSound(a), Fails(a) PROVE ChannelSound(a)'
<1> DEFINE n == Newest(a)
<1>0. PICK end \in {"unknown", "failed"} :
        Adds(a, end, FALSE) /\ (a \in Unsupported => end = "failed")
  BY DEF Fails
<1>1. /\ n \in Nat /\ Len(receipts'[a]) = n /\ DOMAIN receipts'[a] = 1..n
      /\ \A i \in DOMAIN receipts[a] : i \in 1..n /\ i < n /\ receipts'[a][i] = receipts[a][i]
      /\ \A i \in 1..n : i = n \/ i \in DOMAIN receipts[a]
      /\ receipts'[a][n].st = end /\ receipts'[a][n].att = attempt'[a]
  <2>1. Grown(a, end, FALSE)
    BY <1>0, AddsFacts
  <2> QED
    BY <2>1 DEF Grown, NewReceipt
<1>2. /\ status'[a] = "failed" /\ cleared'[a] = cleared[a] /\ InFlight(a) = {}
      /\ status[a] \in {"publishing"} \cup Outstanding \/ a \in Unsupported
  BY DEF Fails
<1>3. /\ Len(receipts[a]) \in Nat /\ cleared[a] \in Nat /\ cleared[a] < n
      /\ a \notin Manual /\ status[a] # "published"
  BY <1>2, RowFacts, PublishAssumption DEF ChannelSound, Newest, Outstanding
<1> HIDE DEF n
<1>4. InFlight(a)' = {} /\ RowsIn(receipts'[a], {"published"}) = {}
  BY <1>0, <1>1, <1>2, <1>3 DEF ChannelSound, InFlight, RowsIn
<1>5. LastWord(a)'
  <2>1. n \in DOMAIN receipts'[a]
    BY <1>1, <1>3
  <2>2. n \in Finished(a)' /\ \A j \in Finished(a)' : j <= n
    BY <1>0, <1>1, <2>1 DEF Finished, RowsIn
  <2> QED
    BY <1>1, <2>2 DEF LastWord
<1>6. a \in Unsupported => \A i \in DOMAIN receipts'[a] : receipts'[a][i].st = "failed"
  BY <1>0, <1>1 DEF ChannelSound
<1> QED
  BY <1>1, <1>2, <1>3, <1>4, <1>5, <1>6 DEF ChannelSound

LEMMA EndsKeeps ==
    ASSUME IInv, NEW a \in Adaptations, ChannelSound(a), Ends(a) PROVE ChannelSound(a)'
<1>1. PICK i \in InFlight(a) :
        /\ Writes(a, i)
        /\ \/ /\ status'[a] = "failed" /\ receipts'[a][i].st \in {"failed", "unknown"}
              /\ receipts'[a][i].att = attempt'[a]
           \/ status'[a] = "published" /\ receipts'[a][i].st = "published"
           \/ status'[a] = status[a] /\ receipts'[a][i].st \in {"unknown", "failed", "released"}
  BY DEF Ends
<1>2. /\ i \in DOMAIN receipts[a] /\ i = Len(receipts[a]) /\ status[a] = "publishing"
      /\ InFlight(a) = {i} /\ receipts[a][i].st = "in_flight"
  BY InFlightFacts
<1>3. /\ DOMAIN receipts'[a] = DOMAIN receipts[a] /\ Len(receipts'[a]) = Len(receipts[a])
      /\ \A j \in DOMAIN receipts[a] : j # i => receipts'[a][j] = receipts[a][j]
  BY <1>1, <1>2, WritesFacts
<1>4. /\ a \notin Manual /\ a \notin Unsupported /\ cleared'[a] = cleared[a]
      /\ RowsIn(receipts[a], {"published"}) = {}
  BY <1>2 DEF ChannelSound, Ends
<1>5. InFlight(a)' = {}
  BY <1>1, <1>2, <1>3 DEF InFlight, RowsIn
<1>6. RowsIn(receipts'[a], {"published"}) = IF receipts'[a][i].st = "published" THEN {i} ELSE {}
  BY <1>2, <1>3, <1>4 DEF RowsIn
<1>7. ASSUME status'[a] = "failed" PROVE LastWord(a)'
  <2>1. \A j \in DOMAIN receipts[a] : j <= i
    BY <1>2, RowFacts
  <2>2. i \in Finished(a)'
    BY <1>1, <1>2, <1>3, <1>7 DEF Finished, RowsIn
  <2>3. \A j \in Finished(a)' : j <= i
    BY <1>3, <2>1 DEF Finished, RowsIn
  <2> QED
    BY <1>1, <1>2, <1>7, <2>2, <2>3 DEF LastWord
<1>8. cleared'[a] <= Len(receipts'[a])
  BY <1>3, <1>4 DEF ChannelSound
<1> QED
  BY <1>1, <1>2, <1>3, <1>4, <1>5, <1>6, <1>7, <1>8 DEF ChannelSound

\* A person's receipt on a row that is not publishing.
LEMMA PersonKeeps ==
    ASSUME IInv, NEW a \in Adaptations, ChannelSound(a),
           NEW end \in {"published", "failed"}, Adds(a, end, TRUE), status'[a] = end,
           status[a] \notin {"publishing", "published"}, a \notin Unsupported,
           a \in Manual => end = "published",
           cleared'[a] \in {cleared[a], Len(receipts[a])}
    PROVE  ChannelSound(a)'
<1> DEFINE n == Newest(a)
<1>1. /\ n \in Nat /\ Len(receipts'[a]) = n /\ DOMAIN receipts'[a] = 1..n
      /\ \A i \in DOMAIN receipts[a] : i \in 1..n /\ i < n /\ receipts'[a][i] = receipts[a][i]
      /\ \A i \in 1..n : i = n \/ i \in DOMAIN receipts[a]
      /\ receipts'[a][n].st = end /\ receipts'[a][n].att = attempt'[a]
  <2>1. Grown(a, end, TRUE)
    BY AddsFacts
  <2> QED
    BY <2>1 DEF Grown, NewReceipt
<1>2. n = Len(receipts[a]) + 1 /\ Len(receipts[a]) \in Nat /\ cleared[a] \in Nat
      /\ cleared[a] <= Len(receipts[a])
  BY RowFacts DEF ChannelSound, Newest
<1>3. InFlight(a) = {} /\ RowsIn(receipts[a], {"published"}) = {}
  BY InFlightFacts DEF ChannelSound
<1> HIDE DEF n
<1>4. n \in DOMAIN receipts'[a]
  BY <1>1, <1>2
<1>5. InFlight(a)' = {}
  BY <1>1, <1>3 DEF InFlight, RowsIn
<1>6. RowsIn(receipts'[a], {"published"}) = IF end = "published" THEN {n} ELSE {}
  BY <1>1, <1>3, <1>4 DEF RowsIn
<1>7. ASSUME end = "failed" PROVE LastWord(a)'
  <2>1. n \in Finished(a)' /\ \A j \in Finished(a)' : j <= n
    BY <1>1, <1>4, <1>7 DEF Finished, RowsIn
  <2> QED
    BY <1>1, <2>1 DEF LastWord
<1>8. cleared'[a] <= Len(receipts'[a])
  BY <1>1, <1>2
<1> QED
  BY <1>4, <1>5, <1>6, <1>7, <1>8 DEF ChannelSound

LEMMA SettlesKeeps ==
    ASSUME IInv, NEW a \in Adaptations, ChannelSound(a), Settles(a) \/ Confirms(a)
    PROVE  ChannelSound(a)'
<1>1. CASE Settles(a)
  <2>1. /\ status[a] = "failed" /\ a \notin Manual
    BY <1>1 DEF Settles, OutcomeUnknown, ChannelSound
  <2>2. PICK i \in Finished(a) : receipts[a][i].st = "unknown"
    <3>1. PICK i \in Finished(a) : \A j \in Finished(a) : j <= i
      BY <2>1 DEF ChannelSound, LastWord
    <3>2. Latest(Finished(a)) \in Finished(a)
      BY <3>1 DEF Latest
    <3> QED
      BY <1>1, <3>2 DEF Settles, OutcomeUnknown
  <2>3. a \notin Unsupported
    BY <2>2 DEF ChannelSound, Finished, RowsIn
  <2> QED
    BY <1>1, <2>1, <2>3, PersonKeeps DEF Settles
<1>2. CASE Confirms(a)
  BY <1>2, PersonKeeps, PublishAssumption DEF Confirms
<1> QED
  BY <1>1, <1>2

LEMMA KindKeeps ==
    ASSUME IInv, NEW a \in Adaptations, ChannelSound(a), KindOfStep(a) PROVE ChannelSound(a)'
  BY StaysKeeps, MovesKeeps, ClaimsKeeps, NotesKeeps, FailsKeeps, EndsKeeps, SettlesKeeps
  DEF KindOfStep

(***************************************************************************)
(* Callbacks that were answered.                                            *)
(***************************************************************************)
\* No kind of step takes back that a post exists, or what a finished receipt says.
LEMMA RowsStay ==
    ASSUME IInv, NEW a \in Adaptations, KindOfStep(a), NEW i \in DOMAIN receipts[a]
    PROVE  /\ i \in DOMAIN receipts'[a]
           /\ receipts[a][i].posted => receipts'[a][i].posted
           /\ i \in Finished(a) => receipts'[a][i].st = receipts[a][i].st
<1>1. CASE Stays(a) \/ Moves(a)
  BY <1>1 DEF Stays, Moves
<1>2. ASSUME NEW st, NEW human, Adds(a, st, human)
      PROVE  i \in DOMAIN receipts'[a] /\ receipts'[a][i] = receipts[a][i]
  BY <1>2, AddsFacts DEF Grown
<1>3. ASSUME NEW k \in DOMAIN receipts[a], Writes(a, k),
             receipts[a][k].posted => receipts'[a][k].posted,
             receipts'[a][k].st = receipts[a][k].st \/ receipts[a][k].st = "in_flight"
      PROVE  /\ i \in DOMAIN receipts'[a]
             /\ receipts[a][i].posted => receipts'[a][i].posted
             /\ i \in Finished(a) => receipts'[a][i].st = receipts[a][i].st
  BY <1>3, WritesFacts DEF Finished, RowsIn
<1>4. CASE Claims(a) \/ Fails(a) \/ Settles(a) \/ Confirms(a)
  BY <1>2, <1>4 DEF Claims, Fails, Settles, Confirms
<1>5. CASE Notes(a)
  BY <1>3, <1>5 DEF Notes
<1>6. CASE Ends(a)
  <2>1. PICK k \in InFlight(a) : Writes(a, k) /\ receipts'[a][k].posted = receipts[a][k].posted
    BY <1>6 DEF Ends
  <2>2. k \in DOMAIN receipts[a] /\ receipts[a][k].st = "in_flight"
    BY <2>1 DEF InFlight, RowsIn
  <2> QED
    BY <1>3, <2>1, <2>2
<1> QED
  BY <1>1, <1>4, <1>5, <1>6 DEF KindOfStep

\* Only the platform's answer makes a callback an answered one.
LEMMA AnsweredBySend ==
    ASSUME IInv, [Next]_vars, NEW h \in Handlers, worker'[h].pc = "replied"
    PROVE  \/ worker'[h] = worker[h]
           \/ \E reply \in Replies, posted \in BOOLEAN : Send(h, reply, posted)
<1>0. worker \in [Handlers -> Worker]
  BY DEF IInv, TypeOK
<1>1. ASSUME NEW g \in Handlers, HandlerStep(g) \/ Crash(g)
      PROVE  \/ worker'[h] = worker[h]
             \/ \E reply \in Replies, posted \in BOOLEAN : Send(h, reply, posted)
  <2>1. CASE \E reply \in Replies \ {"none"}, posted \in BOOLEAN : Send(g, reply, posted)
    <3>1. CASE g = h
      BY <2>1, <3>1
    <3>2. CASE g # h
      BY <1>0, <2>1, <3>2 DEF Send
    <3> QED
      BY <3>1, <3>2
  <2>2. CASE \/ Load(g) \/ CheckSent(g) \/ Mark(g) \/ Claim(g) \/ RecordFailure(g)
             \/ RecordPublished(g) \/ RecordAccepted(g) \/ ReleaseAndThrow(g)
             \/ LoseWrite(g) \/ DatabaseError(g) \/ Exhaust(g) \/ Complete(g) \/ Fail(g) \/ Crash(g)
    <3>1. g # h => worker'[h] = worker[h]
      BY <1>0, <2>2 DEF Load, CheckSent, Mark, Claim, RecordFailure, RecordPublished,
         RecordAccepted, ReleaseAndThrow, LoseWrite, DatabaseError, Exhaust, Complete, Fail,
         Crash, Leave, Goto
    <3>2. worker'[g].pc # "replied"
      <4>2. ASSUME NEW pc, Leave(g, pc) PROVE worker'[g].pc = pc
        BY <1>0, <4>2 DEF Leave, Idle
      <4>3. ASSUME NEW pc, Goto(g, pc) PROVE worker'[g].pc = pc
        BY <1>0, <4>3 DEF Goto, Worker
      <4>4. CASE RecordFailure(g) \/ RecordPublished(g) \/ RecordAccepted(g) \/ ReleaseAndThrow(g)
                 \/ LoseWrite(g) \/ DatabaseError(g)
        BY <4>2, <4>4 DEF RecordFailure, RecordPublished, RecordAccepted, ReleaseAndThrow,
           LoseWrite, DatabaseError
      <4>5. CASE Exhaust(g) \/ Complete(g) \/ Fail(g) \/ Crash(g)
        <5>1. worker'[g].pc = "idle"
          BY <1>0, <4>5 DEF Exhaust, Complete, Fail, Crash, Idle
        <5> QED
          BY <5>1
      <4>6. CASE Load(g)
        BY <1>0, <4>2, <4>6 DEF Load, Worker
      <4>7. CASE CheckSent(g)
        BY <4>2, <4>3, <4>7 DEF CheckSent
      <4>8. CASE Mark(g)
        BY <1>0, <4>2, <4>8 DEF Mark, Worker
      <4>9. CASE Claim(g)
        BY <1>0, <4>3, <4>9 DEF Claim, Worker
      <4> QED
        BY <2>2, <4>4, <4>5, <4>6, <4>7, <4>8, <4>9
    <3> QED
      BY <3>1, <3>2
  <2> QED
    BY <1>1, <2>1, <2>2 DEF HandlerStep
<1>2. ASSUME PersonStep \/ SweepStep \/ Tick \/ UNCHANGED vars
             \/ (\E a \in Adaptations : DropDeadLetter(a)) \/ (\E j \in jobs : Timeout(j) \/ DropJob(j))
      PROVE  worker'[h] = worker[h]
  BY <1>2 DEF PersonStep, Approve, Reschedule, CancelSchedule, Retract, Reject, Archive, Restore,
     AssertDelivery, ConfirmManual, Decide, SweepStep, SweepAbandoned, SweepStranded, Sweep,
     Tick, vars, DropDeadLetter, Timeout, DropJob
<1>3. ASSUME NEW a \in Adaptations, FetchOf(a) \/ TakeDeadLetterOf(a) PROVE worker'[h] = worker[h]
  BY <1>0, <1>3 DEF FetchOf, Fetch, TakeDeadLetterOf, TakeDeadLetter, Idle
<1> QED
  BY <1>1, <1>2, <1>3 DEF Next

LEMMA RepliesKept ==
    ASSUME IInv, RepliesSound, [Next]_vars PROVE RepliesSound'
<1> SUFFICES ASSUME NEW h \in Handlers, worker'[h].pc = "replied", worker'[h].reply = "published"
             PROVE  receipts'[worker'[h].a][worker'[h].claim].posted
  BY DEF RepliesSound
<1>1. CASE worker'[h] = worker[h]
  <2>1. /\ worker[h].a \in Adaptations /\ worker[h].claim \in DOMAIN receipts[worker[h].a]
        /\ receipts[worker[h].a][worker[h].claim].posted
    BY <1>1, Answered DEF RepliesSound
  <2> QED
    BY <1>1, <2>1, StepKinds, RowsStay
<1>2. ASSUME NEW reply \in Replies, NEW posted \in BOOLEAN, Send(h, reply, posted)
      PROVE  receipts'[worker'[h].a][worker'[h].claim].posted
  <2> DEFINE b == worker[h].a
             i == worker[h].claim
             row == [receipts[b][i] EXCEPT !.posted = posted]
  <2>1. /\ b \in Adaptations /\ i \in DOMAIN receipts[b] /\ receipts[b][i] \in Receipt
        /\ receipts' = WithReceipt(b, i, row) /\ worker \in [Handlers -> Worker]
        /\ worker' = [worker EXCEPT ![h].pc = "replied", ![h].reply = reply]
        /\ reply = "published" => posted
    BY <1>2, Knows DEF Send, Claimants, IInv, TypeOK
  <2>2. worker'[h].a = b /\ worker'[h].claim = i /\ worker'[h].reply = reply
    BY <2>1 DEF Worker
  <2>3. row \in Receipt /\ row.posted = posted
    BY <2>1 DEF Receipt
  <2> HIDE DEF row
  <2>4. receipts'[b][i] = row
    BY <2>1, <2>3, OneRow
  <2> QED
    BY <2>1, <2>2, <2>3, <2>4
<1> QED
  BY <1>1, <1>2, AnsweredBySend

(***************************************************************************)
(* The theorems                                                             *)
(***************************************************************************)
ChannelInv == ChannelsSound /\ RepliesSound

LEMMA ChannelInvInit == Init => ChannelInv
<1> SUFFICES ASSUME Init PROVE ChannelInv
  OBVIOUS
<1>1. /\ \A a \in Adaptations : receipts[a] = <<>> /\ status[a] = "pending" /\ cleared[a] = 0
      /\ \A h \in Handlers : worker[h].pc = "idle"
  BY DEF Init, Idle
<1>2. DOMAIN <<>> = {} /\ Len(<<>>) = 0
  OBVIOUS
<1>3. ASSUME NEW a \in Adaptations PROVE ChannelSound(a)
  <2>1. DOMAIN receipts[a] = {} /\ Len(receipts[a]) = 0 /\ status[a] = "pending" /\ cleared[a] = 0
    BY <1>1, <1>2
  <2> QED
    BY <2>1 DEF ChannelSound, InFlight, RowsIn
<1> QED
  BY <1>1, <1>3 DEF ChannelInv, ChannelsSound, RepliesSound

LEMMA ChannelInvStep == IInv /\ ChannelInv /\ [Next]_vars => ChannelInv'
  BY StepKinds, KindKeeps, RepliesKept DEF ChannelInv, ChannelsSound

\* Rows and receipts of every channel agree, whatever interleaves.
THEOREM ChannelsHold == Spec => [](ChannelsSound /\ RepliesSound)
<1>1. Spec => []ChannelInv
  BY ChannelInvInit, ChannelInvStep, InvariantHolds, PTL DEF Spec
<1> QED
  BY <1>1, PTL DEF ChannelInv

\* A row says published exactly when one of its receipts does: the worker's and a
\* person's word on a delivery never meet, and the unique index is never hit.
THEOREM PublishedIsToldOnce == Spec => []PublishedOnce
<1>1. ChannelInv => PublishedOnce
  <2> SUFFICES ASSUME ChannelInv, NEW a \in Adaptations
               PROVE  Cardinality(RowsIn(receipts[a], {"published"})) =
                          IF status[a] = "published" THEN 1 ELSE 0
    BY DEF PublishedOnce
  <2>1. ChannelSound(a)
    BY DEF ChannelInv, ChannelsSound
  <2>2. CASE status[a] = "published"
    BY <2>1, <2>2, FS_Singleton DEF ChannelSound
  <2>3. CASE status[a] # "published"
    BY <2>1, <2>3, FS_EmptySet DEF ChannelSound
  <2> QED
    BY <2>2, <2>3
<1> QED
  BY <1>1, ChannelsHold, PTL DEF ChannelInv

\* Whatever made an outcome unknown, a person can settle it: the newest finished
\* receipt stands at the attempt the row is at.
THEOREM UnknownCanBeSettled == Spec => []UnknownIsResolvable
<1>1. IInv /\ ChannelInv => UnknownIsResolvable
  <2> SUFFICES ASSUME IInv, ChannelInv, NEW a \in Adaptations, OutcomeUnknown(a)
               PROVE  receipts[a][Latest(Finished(a))].att = attempt[a]
    BY DEF UnknownIsResolvable
  <2>1. PICK i \in Finished(a) :
          (\A j \in Finished(a) : j <= i) /\ receipts[a][i].att = attempt[a]
    BY DEF ChannelInv, ChannelsSound, ChannelSound, LastWord, OutcomeUnknown
  <2>2. Finished(a) \subseteq Nat
    BY RowFacts DEF Finished, RowsIn
  <2>3. Latest(Finished(a)) \in Finished(a) /\ \A j \in Finished(a) : j <= Latest(Finished(a))
    BY <2>1 DEF Latest
  <2>4. Latest(Finished(a)) = i
    BY <2>1, <2>2, <2>3
  <2> QED
    BY <2>1, <2>4
<1> QED
  BY <1>1, ChannelsHold, InvariantHolds, PTL DEF ChannelInv

\* A finished receipt never changes its verdict, whoever still holds its claim.
THEOREM FinishedStays == Spec => ReceiptsAreFinal
<1>1. ASSUME IInv, ChannelInv, [Next]_vars,
             NEW a \in Adaptations, NEW i \in Finished(a)
      PROVE  receipts'[a][i].st = receipts[a][i].st
  <2>1. i \in DOMAIN receipts[a]
    BY DEF Finished, RowsIn
  <2> QED
    BY <1>1, <2>1, StepKinds, RowsStay DEF ChannelInv
<1>2. IInv /\ ChannelInv /\ [Next]_vars =>
        [\A a \in Adaptations : \A i \in Finished(a) : receipts'[a][i].st = receipts[a][i].st]_vars
  BY <1>1
<1> QED
  BY <1>2, ChannelsHold, InvariantHolds, PTL DEF ReceiptsAreFinal, Spec, ChannelInv

(***************************************************************************)
(* The refinement of DeliveryContract                                       *)
(***************************************************************************)
Posts(a) == Unsettled(a) \ Superseded(a)

\* A step of the contract for one channel, read off the mapping.
Allowed(a, told, told2, posts, posts2) ==
    \/ told2 = told /\ posts2 = posts
    \/ /\ told \in {"idle", "failed"} /\ posts = {}
       /\ told2 = "underway" /\ posts2 = posts
    \/ told = "underway" /\ posts = {} /\ told2 = "idle" /\ posts2 = posts
    \/ /\ told \in {"underway", "unknown", "delivered"} /\ posts = {}
       /\ told2 = told /\ \E p \in posts2 : posts2 = {p}
    \/ told = "underway" /\ posts # {} /\ told2 = "delivered" /\ posts2 = posts
    \/ /\ told = "underway" \/ (told = "idle" /\ a \in Unsupported)
       /\ posts = {} /\ told2 = "failed" /\ posts2 = posts
    \/ told = "underway" /\ told2 = "unknown" /\ posts2 = posts
    \/ told = "underway" /\ posts # {} /\ told2 = told /\ posts2 = {}
    \/ told = "unknown" /\ told2 = "delivered" /\ posts2 = posts
    \/ told = "unknown" /\ told2 = "failed" /\ posts2 = {}
    \/ a \in Manual /\ told = "idle" /\ told2 = "delivered" /\ posts2 = posts

AllowedNow(a) == Allowed(a, Answer(a), Answer(a)', Posts(a), Posts(a)')

LEMMA AllowedIsContract ==
    ASSUME \A a \in Adaptations : AllowedNow(a)
    PROVE  Contract!Next
  BY DEF AllowedNow, Allowed, Posts, Contract!Next, Contract!ChannelStep, Contract!Tell,
     Contract!Order, Contract!Recall, Contract!Post, Contract!Deliver, Contract!Fail,
     Contract!LoseTrack, Contract!Overtake, Contract!Settle, Contract!Confirm

(***************************************************************************)
(* The answer and the posts of a channel                                    *)
(***************************************************************************)
AnswerFor(st, unknown) ==
    CASE st \in {"pending", "manual_ready"} -> "idle"
      [] st \in Outstanding                 -> "underway"
      [] st = "published"                   -> "delivered"
      [] OTHER -> IF unknown THEN "unknown" ELSE "failed"

LEMMA AnswerIs ==
    ASSUME NEW a
    PROVE  /\ Answer(a)  = AnswerFor(status[a], OutcomeUnknown(a))
           /\ Answer(a)' = AnswerFor(status'[a], OutcomeUnknown(a)')
  BY DEF Answer, AnswerFor

LEMMA AnswerValues ==
    ASSUME NEW unknown
    PROVE  /\ \A st \in {"pending", "manual_ready"} : AnswerFor(st, unknown) = "idle"
           /\ \A st \in Outstanding : AnswerFor(st, unknown) = "underway"
           /\ AnswerFor("published", unknown) = "delivered"
           /\ unknown => AnswerFor("failed", unknown) = "unknown"
           /\ ~ unknown => AnswerFor("failed", unknown) = "failed"
  BY DEF AnswerFor, Outstanding

LEMMA LatestIs ==
    ASSUME NEW S, S \subseteq Nat, NEW i \in S, \A j \in S : j <= i
    PROVE  Latest(S) = i
<1>1. \E k \in S : \A j \in S : j <= k
  OBVIOUS
<1>2. Latest(S) \in S /\ \A j \in S : j <= Latest(S)
  BY <1>1, Zenon DEF Latest
<1>3. Latest(S) \in Nat /\ i \in Nat /\ Latest(S) <= i /\ i <= Latest(S)
  BY <1>2
<1> QED
  BY <1>3

\* What a sound row says of the posts it accounts for.
LEMMA PostsNow ==
    ASSUME IInv, NEW a \in Adaptations
    PROVE  /\ \A i, j \in Posts(a) : i = j
           /\ status[a] \in Waiting => Posts(a) = {}
           /\ status[a] = "publishing" => Posts(a) \subseteq InFlight(a)
           /\ status[a] = "failed" /\ ~ OutcomeUnknown(a) => Posts(a) = {}
           /\ a \in Unsupported => Posts(a) = {}
<1>1. Posts(a) \subseteq Live(receipts[a], cleared[a])
  BY UnsettledLive DEF Posts
<1>2. SoundHistory(status[a], receipts[a], cleared[a])
  BY RowFacts
<1>3. a \in Unsupported => Live(receipts[a], cleared[a]) = {}
  BY DEF IInv, Safe, UnsupportedNeverSent, QuietRow
<1>4. status[a] = "failed" /\ ~ OutcomeUnknown(a) => Live(receipts[a], cleared[a]) = {}
  BY QuietNow DEF QuietRow
<1> QED
  BY <1>1, <1>2, <1>3, <1>4 DEF SoundHistory, Waiting, InFlight

(***************************************************************************)
(* Kind by kind                                                             *)
(***************************************************************************)
\* Nothing is posted by adding a receipt, and what is added decides the answer.
LEMMA AddsPosts ==
    ASSUME IInv, NEW a \in Adaptations, NEW st, NEW human, Adds(a, st, human),
           cleared'[a] = cleared[a]
    PROVE  Posts(a)' = Posts(a)
<1>1. Grown(a, st, human)
  BY AddsFacts
<1>2. ~ receipts'[a][Newest(a)].posted
  BY <1>1 DEF Grown, NewReceipt
<1> QED
  BY <1>1, <1>2 DEF Grown, Posts, Unsettled, Superseded

LEMMA AddsAnswer ==
    ASSUME IInv, NEW a \in Adaptations, NEW st \in {"failed", "unknown"}, NEW human,
           Adds(a, st, human), status'[a] = "failed"
    PROVE  Answer(a)' = st
<1> DEFINE n == Newest(a)
<1>1. Grown(a, st, human)
  BY AddsFacts
<1>2. /\ n \in Nat /\ n \in DOMAIN receipts'[a] /\ \A i \in DOMAIN receipts'[a] : i <= n
      /\ receipts'[a][n].st = st /\ DOMAIN receipts'[a] \subseteq Nat
  BY <1>1, RowFacts DEF Grown, NewReceipt, Newest
<1> HIDE DEF n
<1>3. /\ n \in Finished(a)' /\ Finished(a)' \subseteq Nat
      /\ \A i \in Finished(a)' : i <= n
  BY <1>2 DEF Finished, RowsIn
<1>4. Latest(Finished(a)') = n
  BY <1>3, LatestIs
<1>5. OutcomeUnknown(a)' <=> st = "unknown"
  BY <1>2, <1>3, <1>4 DEF OutcomeUnknown
<1> QED
  BY <1>5, AnswerIs, AnswerValues

LEMMA StaysAllowed ==
    ASSUME NEW a \in Adaptations, Stays(a) PROVE AllowedNow(a)
<1>1. Answer(a)' = Answer(a)
  BY AnswerIs DEF Stays, OutcomeUnknown, Finished
<1>2. Posts(a)' = Posts(a)
  BY DEF Stays, Posts, Unsettled, Superseded
<1> QED
  BY <1>1, <1>2 DEF AllowedNow, Allowed

LEMMA MovesAllowed ==
    ASSUME IInv, NEW a \in Adaptations, ChannelSound(a), Moves(a) PROVE AllowedNow(a)
<1>1. Posts(a)' = Posts(a)
  BY DEF Moves, Posts, Unsettled, Superseded
<1>2. /\ status[a] \in Waiting => Posts(a) = {}
      /\ status[a] = "publishing" => Posts(a) \subseteq InFlight(a)
      /\ status[a] = "failed" /\ ~ OutcomeUnknown(a) => Posts(a) = {}
  BY PostsNow
<1>3. CASE /\ status[a] \in {"pending", "failed", "scheduled"} /\ ~ OutcomeUnknown(a)
           /\ status'[a] \in IF a \in Manual THEN {"manual_ready"} ELSE {"queued", "scheduled"}
  <2>1. Posts(a) = {}
    BY <1>2, <1>3 DEF Waiting
  <2>2. CASE a \in Manual
    <3>1. status[a] = "pending" /\ status'[a] = "manual_ready"
      BY <1>3, <2>2 DEF ChannelSound
    <3>2. Answer(a) = "idle" /\ Answer(a)' = "idle"
      BY <3>1, AnswerIs, AnswerValues
    <3> QED
      BY <1>1, <3>2 DEF AllowedNow, Allowed
  <2>3. CASE a \notin Manual
    <3>1. Answer(a)' = "underway"
      BY <1>3, <2>3, AnswerIs, AnswerValues DEF Outstanding
    <3>2. Answer(a) \in {"idle", "failed", "underway"}
      BY <1>3, AnswerIs, AnswerValues DEF Outstanding
    <3> QED
      BY <1>1, <2>1, <3>1, <3>2 DEF AllowedNow, Allowed
  <2> QED
    BY <2>2, <2>3
<1>4. CASE /\ status[a] \in {"pending", "manual_ready"} \cup Outstanding
           /\ status[a] = "publishing" => InFlight(a) = {}
           /\ status'[a] = "pending"
  <2>1. Answer(a)' = "idle"
    BY <1>4, AnswerIs, AnswerValues
  <2>2. CASE status[a] \in {"pending", "manual_ready"}
    <3>1. Answer(a) = "idle"
      BY <2>2, AnswerIs, AnswerValues
    <3> QED
      BY <1>1, <2>1, <3>1 DEF AllowedNow, Allowed
  <2>3. CASE status[a] \in Outstanding
    <3>1. Answer(a) = "underway"
      BY <2>3, AnswerIs, AnswerValues
    <3>2. Posts(a) = {}
      BY <1>2, <1>4, <2>3 DEF Waiting, Outstanding
    <3> QED
      BY <1>1, <2>1, <3>1, <3>2 DEF AllowedNow, Allowed
  <2> QED
    BY <1>4, <2>2, <2>3
<1>5. CASE status[a] \in Outstanding /\ status'[a] = "publishing"
  <2>1. Answer(a) = "underway" /\ Answer(a)' = "underway"
    BY <1>5, AnswerIs, AnswerValues DEF Outstanding
  <2> QED
    BY <1>1, <2>1 DEF AllowedNow, Allowed
<1> QED
  BY <1>3, <1>4, <1>5 DEF Moves

LEMMA ClaimsAllowed ==
    ASSUME IInv, NEW a \in Adaptations, Claims(a) PROVE AllowedNow(a)
<1>1. Posts(a)' = Posts(a)
  BY AddsPosts DEF Claims
<1>2. Answer(a) = "underway" /\ Answer(a)' = "underway"
  BY AnswerIs, AnswerValues DEF Claims, Outstanding
<1> QED
  BY <1>1, <1>2 DEF AllowedNow, Allowed

\* One post at most; none before a delivery or after a clean failure.
PostsSound ==
    \A a \in Adaptations :
        /\ \A i, j \in Posts(a) : i = j
        /\ status[a] \in Waiting => Posts(a) = {}
        /\ status[a] = "failed" /\ ~ OutcomeUnknown(a) => Posts(a) = {}

LEMMA PostsAreSound == IInv => PostsSound
  BY PostsNow DEF PostsSound

LEMMA PostsStaySound == IInv' => PostsSound'
  BY PostsAreSound, PTL

\* A failed row has a newest finished receipt.
LEMMA LastFinished ==
    ASSUME IInv, NEW a \in Adaptations, ChannelSound(a), status[a] = "failed"
    PROVE  /\ Latest(Finished(a)) \in Finished(a) /\ Finished(a) \subseteq DOMAIN receipts[a]
           /\ \A j \in Finished(a) : j <= Latest(Finished(a))
<1>1. PICK i \in Finished(a) : \A j \in Finished(a) : j <= i
  BY DEF ChannelSound, LastWord
<1>2. Latest(Finished(a)) \in Finished(a) /\ \A j \in Finished(a) : j <= Latest(Finished(a))
  BY <1>1, Zenon DEF Latest
<1> QED
  BY <1>2 DEF Finished, RowsIn

LEMMA NotesAllowed ==
    ASSUME IInv, IInv', NEW a \in Adaptations, ChannelSound(a), Notes(a) PROVE AllowedNow(a)
<1>1. PICK i \in DOMAIN receipts[a] :
        /\ Writes(a, i) /\ receipts'[a][i].st = receipts[a][i].st
        /\ receipts'[a][i].superseded = receipts[a][i].superseded
        /\ receipts[a][i].posted => receipts'[a][i].posted
  BY DEF Notes
<1>2. /\ DOMAIN receipts'[a] = DOMAIN receipts[a]
      /\ \A j \in DOMAIN receipts[a] :
            /\ receipts'[a][j].st = receipts[a][j].st
            /\ receipts'[a][j].superseded = receipts[a][j].superseded
            /\ receipts[a][j].posted => receipts'[a][j].posted
  BY <1>1, WritesFacts
<1>3. UNCHANGED <<status[a], cleared[a]>>
  BY DEF Notes
<1>4. OutcomeUnknown(a)' <=> OutcomeUnknown(a)
  <2>1. Finished(a)' = Finished(a)
    BY <1>2 DEF Finished, RowsIn
  <2>2. CASE status[a] = "failed"
    <3> DEFINE last == Latest(Finished(a))
    <3>1. last \in DOMAIN receipts[a] /\ Latest(Finished(a)') = last
      BY <2>1, <2>2, LastFinished
    <3>2. receipts'[a][last].st = receipts[a][last].st
      BY <1>2, <3>1
    <3> QED
      BY <1>3, <2>1, <3>1, <3>2 DEF OutcomeUnknown
  <2>3. CASE status[a] # "failed"
    BY <1>3, <2>3 DEF OutcomeUnknown
  <2> QED
    BY <2>2, <2>3
<1>5. Answer(a)' = Answer(a)
  BY <1>3, <1>4, AnswerIs DEF AnswerFor
<1>6. Posts(a) \subseteq Posts(a)'
  BY <1>2, <1>3 DEF Posts, Unsettled, Superseded
<1>7. /\ \A j, k \in Posts(a)' : j = k
      /\ status[a] \in Waiting => Posts(a)' = {}
      /\ status[a] = "failed" /\ ~ OutcomeUnknown(a) => Posts(a)' = {}
  BY <1>3, <1>4, PostsStaySound DEF PostsSound
<1>8. CASE Posts(a)' = Posts(a)
  BY <1>5, <1>8 DEF AllowedNow, Allowed
<1>9. CASE Posts(a)' # Posts(a)
  <2>1. PICK p \in Posts(a)' : p \notin Posts(a)
    BY <1>6, <1>9
  <2>2. Posts(a)' = {p} /\ Posts(a) = {}
    BY <1>6, <1>7, <2>1
  <2>3. /\ status[a] \in Statuses /\ status[a] \notin Waiting
        /\ status[a] = "failed" => OutcomeUnknown(a)
    BY <1>7, <2>1, RowFacts
  <2>4. Answer(a) \in {"underway", "unknown", "delivered"}
    BY <2>3, AnswerIs, AnswerValues DEF Statuses, Waiting, Outstanding
  <2> QED
    BY <1>5, <2>2, <2>4 DEF AllowedNow, Allowed
<1> QED
  BY <1>8, <1>9

LEMMA FailsAllowed ==
    ASSUME IInv, NEW a \in Adaptations, ChannelSound(a), Fails(a) PROVE AllowedNow(a)
<1>1. Posts(a)' = Posts(a)
  BY AddsPosts DEF Fails
<1>2. CASE status[a] = "publishing" /\ Adds(a, "unknown", FALSE)
  <2>1. Answer(a) = "underway" /\ Answer(a)' = "unknown"
    BY <1>2, AnswerIs, AnswerValues, AddsAnswer DEF Fails, Outstanding
  <2> QED
    BY <1>1, <2>1 DEF AllowedNow, Allowed
<1>3. CASE (status[a] \in Outstanding \/ a \in Unsupported) /\ Adds(a, "failed", FALSE)
  <2>1. Answer(a)' = "failed"
    BY <1>3, AddsAnswer DEF Fails
  <2>2. Posts(a) = {}
    BY <1>3, PostsNow DEF Fails, Waiting, Outstanding
  <2>3. \/ Answer(a) = "underway"
        \/ Answer(a) = "idle" /\ a \in Unsupported
        \/ Answer(a) = "failed"
    <3>1. CASE status[a] \in Outstanding
      BY <3>1, AnswerIs, AnswerValues
    <3>2. CASE status[a] \in {"pending", "manual_ready"}
      BY <1>3, <3>2, AnswerIs, AnswerValues DEF Outstanding
    <3>3. CASE status[a] = "failed"
      <4>1. a \in Unsupported
        BY <1>3, <3>3 DEF Outstanding
      <4>2. ~ OutcomeUnknown(a)
        BY <3>3, <4>1, LastFinished DEF ChannelSound, OutcomeUnknown
      <4> QED
        BY <3>3, <4>2, AnswerIs, AnswerValues
    <3>4. status[a] # "published" /\ status[a] \in Statuses
      BY <1>3, RowFacts DEF ChannelSound, Outstanding
    <3> QED
      BY <3>1, <3>2, <3>3, <3>4 DEF Statuses, Outstanding
  <2> QED
    BY <1>1, <2>1, <2>2, <2>3 DEF AllowedNow, Allowed
<1> QED
  BY <1>2, <1>3 DEF Fails

LEMMA EndsAllowed ==
    ASSUME IInv, NEW a \in Adaptations, ChannelSound(a), Ends(a) PROVE AllowedNow(a)
<1> DEFINE Old(i) == receipts[a][i]
           New(i) == receipts'[a][i]
<1>1. PICK i \in InFlight(a) :
        /\ Writes(a, i) /\ New(i).posted = Old(i).posted
        /\ \/ /\ status'[a] = "failed" /\ New(i).st \in {"failed", "unknown"}
              /\ New(i).st = "failed" => ~ Old(i).posted
              /\ New(i).superseded = Old(i).superseded
           \/ /\ status'[a] = "published" /\ Old(i).posted
              /\ New(i).superseded = Old(i).superseded
           \/ /\ status'[a] = status[a]
              /\ New(i).superseded \/ ~ Old(i).posted
  BY DEF Ends
<1>2. /\ i \in DOMAIN receipts[a] /\ i = Len(receipts[a]) /\ status[a] = "publishing"
      /\ InFlight(a) = {i} /\ i > cleared[a] /\ ~ Old(i).superseded
  BY InFlightFacts DEF ChannelSound
<1>3. /\ DOMAIN receipts'[a] = DOMAIN receipts[a] /\ cleared'[a] = cleared[a]
      /\ \A j \in DOMAIN receipts[a] : j # i => New(j) = Old(j)
  BY <1>1, <1>2, WritesFacts DEF Ends
<1>4. Posts(a) = IF Old(i).posted THEN {i} ELSE {}
  <2>1. Posts(a) \subseteq {i}
    BY <1>2, PostsNow
  <2>2. i \in Posts(a) <=> Old(i).posted
    BY <1>2 DEF Posts, Unsettled, Superseded
  <2> QED
    BY <2>1, <2>2
<1>5. Posts(a)' = IF Old(i).posted /\ ~ New(i).superseded THEN {i} ELSE {}
  <2>1. \A j \in DOMAIN receipts[a] : j # i => (j \in Posts(a)' <=> j \in Posts(a))
    BY <1>3 DEF Posts, Unsettled, Superseded
  <2>2. Posts(a)' \subseteq DOMAIN receipts[a]
    BY <1>3 DEF Posts, Unsettled
  <2>3. Posts(a)' \subseteq {i}
    BY <1>4, <2>1, <2>2
  <2>4. i \in Posts(a)' <=> Old(i).posted /\ ~ New(i).superseded
    BY <1>1, <1>2, <1>3 DEF Posts, Unsettled, Superseded
  <2> QED
    BY <2>3, <2>4
<1>6. Answer(a) = "underway"
  BY <1>2, AnswerIs, AnswerValues DEF Outstanding
<1>7. CASE /\ status'[a] = "failed" /\ New(i).st \in {"failed", "unknown"}
           /\ New(i).st = "failed" => ~ Old(i).posted
           /\ New(i).superseded = Old(i).superseded
  <2>1. /\ i \in Finished(a)' /\ Finished(a)' \subseteq Nat /\ \A j \in Finished(a)' : j <= i
    BY <1>2, <1>3, <1>7, RowFacts DEF Finished, RowsIn
  <2>2. Latest(Finished(a)') = i
    BY <2>1, LatestIs
  <2>3. OutcomeUnknown(a)' <=> New(i).st = "unknown"
    BY <1>7, <2>1, <2>2 DEF OutcomeUnknown
  <2>4. Answer(a)' = New(i).st
    BY <1>7, <2>3, AnswerIs, AnswerValues
  <2> QED
    BY <1>2, <1>4, <1>5, <1>6, <1>7, <2>4 DEF AllowedNow, Allowed
<1>8. CASE /\ status'[a] = "published" /\ Old(i).posted
           /\ New(i).superseded = Old(i).superseded
  <2>1. Answer(a)' = "delivered"
    BY <1>8, AnswerIs, AnswerValues
  <2> QED
    BY <1>2, <1>4, <1>5, <1>6, <1>8, <2>1 DEF AllowedNow, Allowed
<1>9. CASE /\ status'[a] = status[a]
           /\ New(i).superseded \/ ~ Old(i).posted
  <2>1. Answer(a)' = "underway"
    BY <1>2, <1>9, AnswerIs, AnswerValues DEF Outstanding
  <2> QED
    BY <1>4, <1>5, <1>6, <1>9, <2>1 DEF AllowedNow, Allowed
<1> QED
  BY <1>1, <1>7, <1>8, <1>9

LEMMA SettlesAllowed ==
    ASSUME IInv, NEW a \in Adaptations, Settles(a) PROVE AllowedNow(a)
<1>1. Answer(a) = "unknown"
  BY AnswerIs, AnswerValues DEF Settles, OutcomeUnknown
<1>2. CASE /\ status'[a] = "published" /\ cleared'[a] = cleared[a]
           /\ Adds(a, "published", TRUE)
  <2>1. Answer(a)' = "delivered"
    BY <1>2, AnswerIs, AnswerValues
  <2>2. Posts(a)' = Posts(a)
    BY <1>2, AddsPosts
  <2> QED
    BY <1>1, <2>1, <2>2 DEF AllowedNow, Allowed
<1>3. CASE /\ status'[a] = "failed" /\ cleared'[a] = Len(receipts[a])
           /\ Adds(a, "failed", TRUE)
  <2>1. Answer(a)' = "failed"
    BY <1>3, AddsAnswer
  <2>2. Grown(a, "failed", TRUE)
    BY <1>3, AddsFacts
  <2>3. /\ DOMAIN receipts'[a] = 1..Newest(a) /\ Newest(a) = Len(receipts[a]) + 1
        /\ ~ receipts'[a][Newest(a)].posted /\ Len(receipts[a]) \in Nat
    BY <2>2, RowFacts DEF Grown, NewReceipt, Newest
  <2>4. \A i \in Unsettled(a)' : FALSE
    BY <1>3, <2>3 DEF Unsettled
  <2>5. Posts(a)' = {}
    BY <2>4 DEF Posts
  <2> QED
    BY <1>1, <2>1, <2>5 DEF AllowedNow, Allowed
<1> QED
  BY <1>2, <1>3 DEF Settles

LEMMA ConfirmsAllowed ==
    ASSUME IInv, NEW a \in Adaptations, Confirms(a) PROVE AllowedNow(a)
<1>1. Answer(a) = "idle" /\ Answer(a)' = "delivered"
  BY AnswerIs, AnswerValues DEF Confirms
<1>2. Posts(a)' = Posts(a)
  BY AddsPosts DEF Confirms
<1> QED
  BY <1>1, <1>2 DEF AllowedNow, Allowed, Confirms

(***************************************************************************)
(* The refinement                                                           *)
(***************************************************************************)
LEMMA KindAllowed ==
    ASSUME IInv, IInv', NEW a \in Adaptations, ChannelSound(a), KindOfStep(a)
    PROVE  AllowedNow(a)
  BY StaysAllowed, MovesAllowed, ClaimsAllowed, NotesAllowed, FailsAllowed, EndsAllowed,
     SettlesAllowed, ConfirmsAllowed DEF KindOfStep

LEMMA ContractInit == Init => Contract!Init
<1> SUFFICES ASSUME Init PROVE Contract!Init
  OBVIOUS
<1>1. \A a \in Adaptations : status[a] = "pending" /\ receipts[a] = <<>>
  BY DEF Init
<1>2. \A a \in Adaptations : Answer(a) = "idle"
  BY <1>1, AnswerIs, AnswerValues
<1>3. \A a \in Adaptations : Unsettled(a) \ Superseded(a) = {}
  BY <1>1 DEF Unsettled
<1> QED
  BY <1>2, <1>3 DEF Contract!Init

LEMMA ContractStep == IInv /\ IInv' /\ ChannelInv /\ [Next]_vars => Contract!Next
  BY StepKinds, KindAllowed, AllowedIsContract DEF ChannelInv, ChannelsSound

\* Publish keeps the promises of DeliveryContract, whatever interleaves: every
\* step is, for each channel, one the contract allows or none at all.
THEOREM Implementation == Spec => ImplementsContract
<1>1. IInv /\ IInv' /\ ChannelInv /\ [Next]_vars => [Contract!Next]_Contract!contractVars
  BY ContractStep
<1> QED
  BY <1>1, ContractInit, ChannelsHold, InvariantHolds, PTL
  DEF ImplementsContract, Spec, Contract!Spec, ChannelInv


(***************************************************************************)
(* What no person does: callbacks, the queue, the clock and the sweeps.     *)
(***************************************************************************)
\* A callback or a sweep may move only a delivery under way; the dead end of an
\* adaptation without an adapter is reached from any status but published.
Movable(a) ==
    \/ status[a] \in Outstanding
    \/ a \in Unsupported /\ status[a] # "published"

\* An attempt is taken by Mark; the item does not notice.
TakesAttempts ==
    /\ UNCHANGED item
    /\ \A a \in Adaptations :
          \/ UNCHANGED <<status[a], attempt[a]>>
          \/ /\ status[a] \in Outstanding /\ status'[a] = "publishing"
             /\ attempt'[a] = attempt[a] + 1

\* Deliveries end, and the item is folded again in the same transaction.
EndsDeliveries ==
    /\ \E a \in Adaptations : Movable(a)
    /\ RecomputeItem(status')
    /\ \A a \in Adaptations :
          \/ UNCHANGED <<status[a], attempt[a]>>
          \/ /\ Movable(a) /\ status'[a] \in {"failed", "published"}
             /\ attempt'[a] \in Nat /\ attempt[a] <= attempt'[a]

Unattended == UNCHANGED <<slot, archivedFrom>> /\ (TakesAttempts \/ EndsDeliveries)

LEMMA RowsRest ==
    ASSUME UNCHANGED <<itemVars, rowVars>>
    PROVE  Unattended
  BY DEF Unattended, TakesAttempts, itemVars, rowVars

\* One delivery ends.
LEMMA OneEnds ==
    ASSUME IInv, NEW a \in Adaptations, Movable(a), NEW end \in {"failed", "published"},
           status' = [status EXCEPT ![a] = end], NEW n \in Nat, attempt[a] <= n,
           attempt' = [attempt EXCEPT ![a] = n], slot' = slot, RecomputeItem(status')
    PROVE  Unattended
<1>1. status \in [Adaptations -> Statuses] /\ attempt \in [Adaptations -> Nat]
  BY DEF IInv, TypeOK
<1>2. /\ status'[a] = end /\ attempt'[a] = n
      /\ \A b \in Adaptations : b # a => UNCHANGED <<status[b], attempt[b]>>
  BY <1>1
<1>3. UNCHANGED archivedFrom
  BY DEF RecomputeItem
<1> QED
  BY <1>2, <1>3 DEF Unattended, EndsDeliveries

LEMMA MarkFailedUnattended ==
    ASSUME IInv, ChannelInv, NEW h \in Handlers, worker[h].pc # "idle", NEW outcome,
           MarkFailed(h, outcome),
           \/ worker[h].pc \in Attempting \cup {"exhausting"}
           \/ worker[h].a \in Unsupported
    PROVE  Unattended
<1> DEFINE a == worker[h].a
<1>1. a \in Adaptations /\ attempt[a] \in Nat /\ FenceSound(worker[h], attempt[a], now)
  BY Knows
<1>2. CASE ~ FenceHeld(h)
  BY <1>2, RowsRest DEF MarkFailed
<1>3. CASE FenceHeld(h)
  <2>1. Movable(a)
    <3>1. status[a] = "publishing" \/ a \in Unsupported
      BY <1>1, <1>3 DEF FenceHeld, FenceSound
    <3>2. a \in Unsupported => status[a] # "published"
      BY <1>1 DEF ChannelInv, ChannelsSound, ChannelSound
    <3> QED
      BY <3>1, <3>2 DEF Movable, Outstanding
  <2>2. FailedAttempt(a) \in Nat /\ attempt[a] <= FailedAttempt(a)
    BY <1>1 DEF FailedAttempt
  <2>3. /\ status' = [status EXCEPT ![a] = "failed"]
        /\ attempt' = [attempt EXCEPT ![a] = FailedAttempt(a)]
        /\ slot' = slot /\ RecomputeItem(status')
    BY <1>3 DEF MarkFailed
  <2> QED
    BY <1>1, <2>1, <2>2, <2>3, OneEnds
<1> QED
  BY <1>2, <1>3

LEMMA HandlerUnattended ==
    ASSUME IInv, ChannelInv, NEW h \in Handlers, HandlerStep(h)
    PROVE  Unattended
<1>0. worker[h].pc # "idle" => /\ worker[h].a \in Adaptations
                               /\ attempt[worker[h].a] \in Nat
                               /\ FenceSound(worker[h], attempt[worker[h].a], now)
  BY Knows
<1>1. ASSUME NEW reply \in Replies, NEW posted \in BOOLEAN, Send(h, reply, posted)
      PROVE  Unattended
  BY <1>1, RowsRest DEF Send
<1>2. ASSUME \/ Load(h) \/ CheckSent(h) \/ LoseWrite(h) \/ DatabaseError(h)
             \/ Complete(h) \/ Fail(h) \/ Claim(h) \/ ReleaseAndThrow(h)
      PROVE  Unattended
  <2>1. UNCHANGED <<itemVars, rowVars>>
    BY <1>2 DEF Load, CheckSent, LoseWrite, DatabaseError, Complete, Fail, Claim,
                ReleaseAndThrow, Database
  <2> QED
    BY <2>1, RowsRest
<1>3. ASSUME Mark(h) PROVE Unattended
  <2>1. /\ worker[h].a \in Adaptations /\ UNCHANGED <<itemVars, slot>>
        /\ status \in [Adaptations -> Statuses] /\ attempt \in [Adaptations -> Nat]
    BY <1>0, <1>3 DEF Mark, IInv, TypeOK
  <2>2. TakesAttempts
    BY <1>3, <2>1 DEF Mark, TakesAttempts, itemVars
  <2> QED
    BY <2>1, <2>2 DEF Unattended, itemVars
<1>4. ASSUME RecordFailure(h) PROVE Unattended
  <2>1. MarkFailed(h, Verdict(h)) /\ Verdict(h) # "none"
    BY <1>4 DEF RecordFailure
  <2>2. worker[h].pc \in {"unsupported", "unclaimed", "claimed", "replied"}
    BY <2>1 DEF Verdict
  <2>3. worker[h].pc = "unsupported" => worker[h].a \in Unsupported
    BY <1>0 DEF FenceSound
  <2> QED
    BY <2>1, <2>2, <2>3, MarkFailedUnattended DEF Attempting, Claimants
<1>5. ASSUME Exhaust(h) PROVE Unattended
  <2>1. CASE UNCHANGED Database
    BY <2>1, RowsRest DEF Database
  <2>2. CASE MarkFailed(h, Unreported(worker[h].a))
    <3>1. worker[h].pc = "exhausting"
      BY <1>5 DEF Exhaust
    <3> QED
      BY <2>2, <3>1, MarkFailedUnattended
  <2> QED
    BY <1>5, <2>1, <2>2 DEF Exhaust
<1>6. ASSUME RecordPublished(h) \/ RecordAccepted(h) PROVE Unattended
  <2> DEFINE a == worker[h].a
  <2>1. /\ worker[h].pc = "replied" /\ UNCHANGED <<attempt, slot>>
        /\ \/ UNCHANGED <<itemVars, status>>
           \/ /\ FenceHeld(h) /\ RecomputeItem(status')
              /\ \E end \in {"failed", "published"} : status' = [status EXCEPT ![a] = end]
    BY <1>6 DEF RecordPublished, RecordAccepted
  <2>2. CASE UNCHANGED <<itemVars, status>>
    BY <2>1, <2>2, RowsRest DEF rowVars
  <2>3. ASSUME NEW end \in {"failed", "published"}, status' = [status EXCEPT ![a] = end],
               FenceHeld(h), RecomputeItem(status')
        PROVE  Unattended
    <3>1. /\ a \in Adaptations /\ attempt[a] \in Nat /\ status[a] = "publishing"
          /\ attempt \in [Adaptations -> Nat]
      BY <1>0, <2>1, <2>3 DEF FenceHeld, FenceSound, Attempting, Claimants, IInv, TypeOK
    <3>2. attempt' = [attempt EXCEPT ![a] = attempt[a]] /\ attempt[a] <= attempt[a]
      BY <2>1, <3>1
    <3>3. Movable(a)
      BY <3>1 DEF Movable, Outstanding
    <3> QED
      BY <2>1, <2>3, <3>1, <3>2, <3>3, OneEnds
  <2> QED
    BY <2>1, <2>2, <2>3
<1> QED
  BY <1>1, <1>2, <1>3, <1>4, <1>5, <1>6 DEF HandlerStep

LEMMA SweepUnattended ==
    ASSUME IInv, SweepStep PROVE Unattended
<1>1. PICK S \in SUBSET Adaptations :
        Sweep(S) /\ \A b \in S : status[b] \in Outstanding
  BY DEF SweepStep, SweepAbandoned, SweepStranded, Abandoned, Stranded, Outstanding
<1>2. /\ S # {} /\ UNCHANGED <<attempt, slot, archivedFrom>> /\ RecomputeItem(status')
      /\ \A a \in Adaptations : status'[a] = IF a \in S THEN "failed" ELSE status[a]
      /\ \A a \in Adaptations : attempt[a] \in Nat
  BY <1>1 DEF Sweep, RecomputeItem, IInv, TypeOK
<1>3. \A a \in S : a \in Adaptations /\ Movable(a) /\ status'[a] = "failed"
  BY <1>1, <1>2 DEF Movable
<1>4. \A a \in Adaptations : attempt'[a] = attempt[a] /\ attempt[a] <= attempt'[a]
  BY <1>2
<1>5. EndsDeliveries
  BY <1>2, <1>3, <1>4 DEF EndsDeliveries
<1> QED
  BY <1>2, <1>5 DEF Unattended

\* Whatever is not a decision of a person is of these two kinds.
LEMMA StepUnattended ==
    ASSUME IInv, ChannelInv, [Next]_vars PROVE PersonStep \/ Unattended
<1>1. ASSUME \/ \E h \in Handlers : Crash(h)
             \/ \E b \in Adaptations : FetchOf(b) \/ TakeDeadLetterOf(b) \/ DropDeadLetter(b)
             \/ \E j \in jobs : Timeout(j) \/ DropJob(j)
             \/ Tick \/ UNCHANGED vars
      PROVE  Unattended
  <2>1. UNCHANGED <<itemVars, rowVars>>
    BY <1>1 DEF Crash, FetchOf, Fetch, TakeDeadLetterOf, TakeDeadLetter, DropDeadLetter,
                Timeout, DropJob, Tick, vars, Database, itemVars, rowVars
  <2> QED
    BY <2>1, RowsRest
<1> QED
  BY <1>1, HandlerUnattended, SweepUnattended DEF Next

(***************************************************************************)
(* Human decisions stand.                                                   *)
(***************************************************************************)
\* An item nobody works on: nothing is under way and nothing waits for a person.
QuietItem ==
    item \in {"draft", "rejected", "archived", "published"} =>
        \A a \in Adaptations : status[a] \notin Outstanding \cup {"manual_ready"}

ItemSound == ItemTellsFanOut /\ archivedFrom # "archived" /\ QuietItem

\* What a fold of an item that is not archived can say.
LEMMA FoldSays ==
    ASSUME NEW sts, item # "archived", item' = NextItemStatus(sts), Adaptations # {},
           item # "published"
    PROVE  /\ item' = "published" <=> \A a \in Adaptations : sts[a] = "published"
           /\ item' \in {item, "published", "failed", "partially_published"}
<1>1. ASSUME \A a \in Adaptations : sts[a] = "failed"
      PROVE  ~ \A a \in Adaptations : sts[a] = "published"
  BY <1>1
<1> QED
  BY <1>1 DEF NextItemStatus

\* A channel without an adapter is never published, and neither is its item.
LEMMA ItemKeptUnattended ==
    ASSUME Adaptations # {}, ChannelInv', ItemSound, Unattended PROVE ItemSound'
<1>0. archivedFrom' = archivedFrom
  BY DEF Unattended
<1>1. CASE TakesAttempts
  <2>1. item' = item /\ \A a \in Adaptations : \/ status'[a] = status[a]
                                               \/ /\ status[a] \in Outstanding
                                                  /\ status'[a] = "publishing"
    BY <1>1 DEF TakesAttempts
  <2>2. \A a \in Adaptations : status'[a] = "published" <=> status[a] = "published"
    BY <2>1 DEF Outstanding
  <2>3. QuietItem'
    BY <2>1 DEF ItemSound, QuietItem, Outstanding
  <2> QED
    BY <1>0, <2>1, <2>2, <2>3 DEF ItemSound, ItemTellsFanOut
<1>2. CASE EndsDeliveries
  <2>1. PICK b \in Adaptations : Movable(b)
    BY <1>2 DEF EndsDeliveries
  <2>2. status[b] # "published"
    BY <2>1 DEF Movable, Outstanding
  <2>3. item # "published"
    BY <2>1, <2>2 DEF ItemSound, ItemTellsFanOut
  <2>4. \A a \in Adaptations : status'[a] = status[a] \/ status'[a] \in {"failed", "published"}
    BY <1>2 DEF EndsDeliveries
  <2>5. CASE item = "archived"
    <3>1. item' = item
      BY <1>2, <2>5 DEF EndsDeliveries, RecomputeItem
    <3>2. \A a \in Adaptations : Movable(a) => a \in Unsupported
      BY <2>5 DEF ItemSound, QuietItem, Movable
    <3>3. /\ status'[b] # "published"
          /\ \A a \in Adaptations : status'[a] = "published" => status[a] = "published"
      <4>1. \A a \in Unsupported : status'[a] # "published"
        BY PublishAssumption DEF ChannelInv, ChannelsSound, ChannelSound
      <4> QED
        BY <1>2, <2>1, <3>2, <4>1 DEF EndsDeliveries
    <3> QED
      BY <1>0, <2>2, <2>4, <2>5, <3>1, <3>3 DEF ItemSound, ItemTellsFanOut, QuietItem, Outstanding
  <2>6. CASE item # "archived"
    <3>1. item' = NextItemStatus(status')
      BY <1>2, <2>6 DEF EndsDeliveries, RecomputeItem
    <3>2. /\ item' = "published" <=> \A a \in Adaptations : status'[a] = "published"
          /\ item' \in {item, "published", "failed", "partially_published"}
      BY <2>3, <2>6, <3>1, FoldSays
    <3>3. QuietItem'
      <4>1. CASE item' = "published"
        BY <3>2, <4>1 DEF QuietItem, Outstanding
      <4>2. CASE item' = item
        BY <2>4, <4>2 DEF ItemSound, QuietItem, Outstanding
      <4> QED
        BY <3>2, <4>1, <4>2 DEF QuietItem
    <3> QED
      BY <1>0, <2>6, <3>2, <3>3 DEF ItemSound, ItemTellsFanOut
  <2> QED
    BY <2>5, <2>6
<1> QED
  BY <1>1, <1>2 DEF Unattended

LEMMA ItemKeptByPersons ==
    ASSUME Adaptations # {}, IInv, ChannelInv, ItemSound, PersonStep PROVE ItemSound'
<1>0. status \in [Adaptations -> Statuses]
  BY DEF IInv, TypeOK
<1>1. PICK b : b \in Adaptations
  OBVIOUS
<1>2. ASSUME NEW s \in Slots \cup {0}, Approve(s) PROVE ItemSound'
  <2>1. /\ item' = "approved" /\ archivedFrom' = archivedFrom /\ item \notin {"published", "archived"}
        /\ \A a \in Adaptations : \/ status'[a] = status[a]
                                  \/ status'[a] \in {"queued", "scheduled", "manual_ready"}
    BY <1>2 DEF Approve
  <2>2. \A a \in Adaptations : status'[a] = "published" => status[a] = "published"
    BY <2>1
  <2> QED
    BY <2>1, <2>2 DEF ItemSound, ItemTellsFanOut, QuietItem
<1>3. ASSUME NEW a \in Adaptations, NEW s \in Slots, Reschedule(a, s) PROVE ItemSound'
  BY <1>3 DEF Reschedule, itemVars, ItemSound, ItemTellsFanOut, QuietItem
<1>4. ASSUME NEW a \in Adaptations, CancelSchedule(a) PROVE ItemSound'
  <2>1. /\ UNCHANGED <<item, archivedFrom>> /\ item \in {"approved", "partially_published"}
        /\ status' = [status EXCEPT ![a] = "pending"] /\ status[a] = "scheduled"
    BY <1>4 DEF CancelSchedule, Reschedulable, itemVars
  <2>2. status'[a] # "published" /\ status[a] # "published"
    BY <1>0, <2>1
  <2> QED
    BY <2>1, <2>2 DEF ItemSound, ItemTellsFanOut, QuietItem
<1>5. ASSUME Retract PROVE ItemSound'
  <2>1. /\ item' = "draft" /\ archivedFrom' = archivedFrom
        /\ \A a \in Adaptations : status'[a] = "pending"
    BY <1>5 DEF Retract
  <2> QED
    BY <1>1, <2>1 DEF ItemSound, ItemTellsFanOut, QuietItem, Outstanding
<1>6. ASSUME Reject PROVE ItemSound'
  <2> DEFINE Stopped(a) == status[a] \in Outstanding \cup {"manual_ready"}
             live == \E a \in Adaptations : status[a] = "published"
  <2>1. /\ archivedFrom' = archivedFrom
        /\ live => \E a \in Adaptations : Stopped(a)
        /\ item' = IF live THEN "partially_published" ELSE "rejected"
        /\ \A a \in Adaptations : Stopped(a) => status'[a] = "pending"
        /\ \A a \in Adaptations : ~ Stopped(a) => status'[a] = status[a]
    BY <1>6, Zenon DEF Reject
  <2>2. CASE live
    <3>1. PICK c \in Adaptations : status'[c] = "pending"
      BY <2>1, <2>2, Zenon
    <3>2. item' = "partially_published"
      BY <2>1, <2>2
    <3>3. ItemTellsFanOut' /\ QuietItem'
      BY <3>1, <3>2 DEF ItemTellsFanOut, QuietItem
    <3> QED
      BY <2>1, <3>3 DEF ItemSound
  <2>3. CASE ~ live
    <3>1. status'[b] # "published"
      BY <1>1, <2>1, <2>3
    <3>2. \A a \in Adaptations : status'[a] \notin Outstanding \cup {"manual_ready"}
      BY <2>1 DEF Outstanding
    <3>3. item' = "rejected"
      BY <2>1, <2>3
    <3>4. ItemTellsFanOut' /\ QuietItem'
      BY <1>1, <3>1, <3>2, <3>3 DEF ItemTellsFanOut, QuietItem
    <3> QED
      BY <2>1, <3>4 DEF ItemSound
  <2> QED
    BY <2>2, <2>3
<1>7. ASSUME Archive PROVE ItemSound'
  BY <1>7 DEF Archive, rowVars, ItemSound, ItemTellsFanOut, QuietItem
<1>8. ASSUME Restore PROVE ItemSound'
  BY <1>8 DEF Restore, rowVars, ItemSound, ItemTellsFanOut, QuietItem
<1>9. ASSUME NEW a \in Adaptations, NEW end \in {"published", "failed"},
             status' = [status EXCEPT ![a] = end], item' = NextItemStatus(status'),
             UNCHANGED archivedFrom, item # "archived", status[a] # "published"
      PROVE  ItemSound'
  <2>1. item # "published"
    BY <1>9 DEF ItemSound, ItemTellsFanOut
  <2>2. /\ item' = "published" <=> \A c \in Adaptations : status'[c] = "published"
        /\ item' \in {item, "published", "failed", "partially_published"}
    BY <1>9, <2>1, FoldSays
  <2>3. \A c \in Adaptations : status'[c] = status[c] \/ status'[c] \in {"published", "failed"}
    BY <1>0, <1>9
  <2>4. QuietItem'
    <3>1. CASE item' = "published"
      BY <2>2, <3>1 DEF QuietItem, Outstanding
    <3>2. CASE item' = item
      BY <2>3, <3>2 DEF ItemSound, QuietItem, Outstanding
    <3> QED
      BY <2>2, <3>1, <3>2 DEF QuietItem
  <2> QED
    BY <1>9, <2>2, <2>4 DEF ItemSound, ItemTellsFanOut
<1>10. ASSUME NEW a \in Adaptations, NEW delivered \in BOOLEAN, AssertDelivery(a, delivered)
       PROVE  ItemSound'
  <2> DEFINE end == IF delivered THEN "published" ELSE "failed"
  <2>1. /\ status' = [status EXCEPT ![a] = end] /\ item' = NextItemStatus(status')
        /\ end \in {"published", "failed"}
        /\ UNCHANGED archivedFrom /\ item # "archived" /\ status[a] # "published"
    BY <1>10 DEF AssertDelivery, OutcomeUnknown
  <2> HIDE DEF end
  <2> QED
    BY <1>9, <2>1
<1>11. ASSUME NEW a \in Adaptations, ConfirmManual(a) PROVE ItemSound'
  <2>1. /\ status' = [status EXCEPT ![a] = "published"] /\ item' = NextItemStatus(status')
        /\ UNCHANGED archivedFrom /\ status[a] = "manual_ready"
    BY <1>11 DEF ConfirmManual
  <2>2. item # "archived"
    BY <2>1 DEF ItemSound, QuietItem
  <2> QED
    BY <1>9, <2>1, <2>2
<1> QED
  BY <1>2, <1>3, <1>4, <1>5, <1>6, <1>7, <1>8, <1>10, <1>11 DEF PersonStep

LEMMA ItemInit ==
    ASSUME Adaptations # {}, Init PROVE ItemSound
  BY DEF Init, ItemSound, ItemTellsFanOut, QuietItem, Outstanding

LEMMA ItemHolds == ASSUME Adaptations # {} PROVE Spec => []ItemSound
<1>1. Init => ItemSound
  BY ItemInit
<1>2. IInv /\ ChannelInv /\ ChannelInv' /\ ItemSound /\ [Next]_vars => ItemSound'
  BY StepUnattended, ItemKeptUnattended, ItemKeptByPersons
<1> QED
  BY <1>1, <1>2, InvariantHolds, ChannelsHold, PTL DEF Spec, ChannelInv

\* The item tells its fan-out: published exactly when every channel is, through
\* folds, archives and restores, for every fan-out that is not empty.
THEOREM ItemTellsTruth == Adaptations # {} => (Spec => []ItemTellsFanOut)
<1> SUFFICES ASSUME Adaptations # {} PROVE Spec => []ItemTellsFanOut
  OBVIOUS
<1> QED
  BY ItemHolds, PTL DEF ItemSound

\* What happens without a decision.
Stands ==
    decisions' = decisions =>
        /\ \A a \in Adaptations :
             status[a] \in {"pending", "failed", "published", "manual_ready"}
               => UNCHANGED <<status[a], attempt[a], slot[a]>>
        /\ item \in {"draft", "rejected", "archived", "published"} => item' = item

LEMMA StepStands ==
    ASSUME Unsupported = {}, Adaptations = {} \/ ItemSound, IInv, ChannelInv, [Next]_vars
    PROVE  Stands
<1> SUFFICES ASSUME decisions' = decisions PROVE Stands
  BY DEF Stands
<1>1. ~ PersonStep
  <2>1. PersonStep => Decide
    BY DEF PersonStep, Approve, Reschedule, CancelSchedule, Retract, Reject, Archive,
           Restore, AssertDelivery, ConfirmManual
  <2> QED
    BY <2>1 DEF Decide, IInv, TypeOK
<1>2. Unattended
  BY <1>1, StepUnattended
<1>3. \A a \in Adaptations : Movable(a) => status[a] \in Outstanding
  BY DEF Movable
<1>4. \A a \in Adaptations :
        status[a] \notin Outstanding => UNCHANGED <<status[a], attempt[a], slot[a]>>
  BY <1>2, <1>3 DEF Unattended, TakesAttempts, EndsDeliveries
<1>5. item \in {"draft", "rejected", "archived", "published"} => item' = item
  BY <1>2, <1>3 DEF Unattended, TakesAttempts, EndsDeliveries, ItemSound, QuietItem
<1> QED
  BY <1>4, <1>5 DEF Stands, Outstanding

\* What no person decides moves only deliveries under way, and leaves an item on
\* which nothing is under way as a person left it; every channel having an adapter.
THEOREM DecisionsStand == Unsupported = {} => (Spec => HumanDecisionStands)
<1> SUFFICES ASSUME Unsupported = {} PROVE Spec => HumanDecisionStands
  OBVIOUS
<1>1. Spec => [][Stands]_vars
  <2>1. CASE Adaptations = {}
    <3>1. IInv /\ ChannelInv /\ [Next]_vars => Stands
      BY <2>1, StepStands
    <3> QED
      BY <3>1, InvariantHolds, ChannelsHold, PTL DEF Spec, ChannelInv
  <2>2. CASE Adaptations # {}
    <3>1. IInv /\ ChannelInv /\ ItemSound /\ [Next]_vars => Stands
      BY StepStands
    <3> QED
      BY <2>2, <3>1, ItemHolds, InvariantHolds, ChannelsHold, PTL DEF Spec, ChannelInv
  <2> QED
    BY <2>1, <2>2
<1> QED
  BY <1>1, PTL DEF HumanDecisionStands, Stands

(***************************************************************************)
(* Job ids                                                                  *)
(***************************************************************************)
\* The job of the current attempt has been used up: its number may not be met again.
Used(a) == status[a] \in {"pending", "publishing", "published"} \/ OutcomeUnknown(a)

JobsSound ==
    /\ \A j \in jobs : /\ j.a \notin Manual
                       /\ j.n <= attempt[j.a]
                       /\ Used(j.a) => j.n < attempt[j.a]
    /\ \A a \in Adaptations : status[a] = "manual_ready" => a \in Manual

\* What a step does to an attempt count: whoever uses up a job advances it.
Counts(a) ==
    /\ attempt'[a] \in Nat /\ attempt[a] <= attempt'[a]
    /\ status'[a] = "publishing" => status[a] = "publishing" \/ attempt[a] < attempt'[a]
    /\ status'[a] = "pending" =>
         status[a] \in {"pending", "manual_ready"} \/ attempt[a] < attempt'[a]

\* A job descends from one of the same id, or was enqueued for the current attempt.
Descends(j) ==
    \/ \E k \in jobs : k.a = j.a /\ k.n = j.n
    \/ /\ j.a \in Adaptations \ Manual /\ j.n = attempt'[j.a]
       /\ status'[j.a] \in {"queued", "scheduled"}

LEMMA UnknownComesFrom ==
    ASSUME IInv, NEW a \in Adaptations, ChannelSound(a), KindOfStep(a)
    PROVE  /\ OutcomeUnknown(a)' => OutcomeUnknown(a) \/ status[a] = "publishing"
           /\ status'[a] = "published" =>
                \/ status[a] \in {"published", "publishing"}
                \/ OutcomeUnknown(a) \/ a \in Manual
           /\ status'[a] = "manual_ready" => status[a] = "manual_ready" \/ a \in Manual
<1>1. ASSUME Stays(a) PROVE OutcomeUnknown(a)' <=> OutcomeUnknown(a)
  BY <1>1 DEF Stays, OutcomeUnknown, Finished
<1>2. ASSUME Notes(a), status[a] = "failed" PROVE OutcomeUnknown(a)' <=> OutcomeUnknown(a)
  <2>1. PICK i \in DOMAIN receipts[a] : Writes(a, i) /\ receipts'[a][i].st = receipts[a][i].st
    BY <1>2 DEF Notes
  <2>2. /\ DOMAIN receipts'[a] = DOMAIN receipts[a]
        /\ \A j \in DOMAIN receipts[a] : receipts'[a][j].st = receipts[a][j].st
    BY <2>1, WritesFacts
  <2>3. Finished(a)' = Finished(a)
    BY <2>2 DEF Finished, RowsIn
  <2>4. Latest(Finished(a)) \in DOMAIN receipts[a] /\ Latest(Finished(a)') = Latest(Finished(a))
    BY <1>2, <2>3, LastFinished
  <2> QED
    BY <1>2, <2>2, <2>3, <2>4 DEF OutcomeUnknown, Notes
<1>3. ASSUME Fails(a) \/ Settles(a) PROVE OutcomeUnknown(a)' => status[a] = "publishing"
  <2>1. CASE Adds(a, "failed", FALSE) /\ status'[a] = "failed"
    BY <2>1, AddsAnswer, AnswerIs, AnswerValues
  <2>2. CASE Adds(a, "failed", TRUE) /\ status'[a] = "failed"
    BY <2>2, AddsAnswer, AnswerIs, AnswerValues
  <2> QED
    BY <1>3, <2>1, <2>2 DEF Fails, Settles, OutcomeUnknown
<1>4. ASSUME Ends(a) PROVE status[a] = "publishing"
  <2>1. InFlight(a) # {}
    BY <1>4 DEF Ends
  <2> QED
    BY <2>1, InFlightFacts
<1>5. CASE Stays(a)
  BY <1>1, <1>5 DEF Stays
<1>6. CASE Moves(a)
  BY <1>6 DEF Moves, OutcomeUnknown
<1>7. CASE Claims(a)
  BY <1>7 DEF Claims, OutcomeUnknown
<1>8. CASE Notes(a)
  BY <1>2, <1>8 DEF Notes, OutcomeUnknown
<1>9. CASE Fails(a)
  BY <1>3, <1>9 DEF Fails
<1>10. CASE Ends(a)
  BY <1>4, <1>10 DEF Ends
<1>11. CASE Settles(a)
  BY <1>3, <1>11 DEF Settles
<1>12. CASE Confirms(a)
  BY <1>12 DEF Confirms, OutcomeUnknown
<1> QED
  BY <1>5, <1>6, <1>7, <1>8, <1>9, <1>10, <1>11, <1>12 DEF KindOfStep

LEMMA CountsUnattended ==
    ASSUME IInv, Unattended, NEW a \in Adaptations PROVE Counts(a)
<1>1. attempt[a] \in Nat
  BY DEF IInv, TypeOK
<1> QED
  BY <1>1 DEF Unattended, TakesAttempts, EndsDeliveries, Counts

LEMMA CountsByPersons ==
    ASSUME IInv, PersonStep, NEW a \in Adaptations PROVE Counts(a)
<1>0. status \in [Adaptations -> Statuses] /\ attempt \in [Adaptations -> Nat]
  BY DEF IInv, TypeOK
<1>1. ASSUME NEW s \in Slots \cup {0}, Approve(s) PROVE Counts(a)
  BY <1>0, <1>1 DEF Approve, Automatic, NextJob, Counts
<1>2. ASSUME NEW b \in Adaptations, NEW s \in Slots, Reschedule(b, s) PROVE Counts(a)
  BY <1>0, <1>2 DEF Reschedule, Counts
<1>3. ASSUME NEW b \in Adaptations, CancelSchedule(b) PROVE Counts(a)
  BY <1>0, <1>3 DEF CancelSchedule, Counts
<1>4. ASSUME Retract PROVE Counts(a)
  <2>1. /\ status[a] \in {"pending", "scheduled", "queued"} /\ status'[a] = "pending"
        /\ attempt'[a] = IF status[a] \in {"scheduled", "queued"}
                         THEN attempt[a] + 1 ELSE attempt[a]
    BY <1>4 DEF Retract
  <2> QED
    BY <1>0, <2>1 DEF Counts
<1>5. ASSUME Reject PROVE Counts(a)
  <2>1. /\ status'[a] = IF status[a] \in Outstanding \cup {"manual_ready"}
                        THEN "pending" ELSE status[a]
        /\ attempt'[a] = IF status[a] \in Outstanding THEN attempt[a] + 1 ELSE attempt[a]
    BY <1>5 DEF Reject
  <2> QED
    BY <1>0, <2>1 DEF Counts
<1>6. ASSUME Archive \/ Restore PROVE Counts(a)
  BY <1>0, <1>6 DEF Archive, Restore, rowVars, Counts
<1>7. ASSUME NEW b \in Adaptations, NEW delivered \in BOOLEAN, AssertDelivery(b, delivered)
      PROVE  Counts(a)
  BY <1>0, <1>7 DEF AssertDelivery, Counts
<1>8. ASSUME NEW b \in Adaptations, ConfirmManual(b) PROVE Counts(a)
  BY <1>0, <1>8 DEF ConfirmManual, Counts
<1> QED
  BY <1>1, <1>2, <1>3, <1>4, <1>5, <1>6, <1>7, <1>8 DEF PersonStep

LEMMA StepCounts ==
    ASSUME IInv, ChannelInv, [Next]_vars, NEW a \in Adaptations PROVE Counts(a)
  BY StepUnattended, CountsUnattended, CountsByPersons

\* Cancelling and failing jobs keeps every id.
LEMMA CancelledIds ==
    ASSUME NEW A, NEW j \in Cancelled(A), jobs \subseteq Job
    PROVE  \E k \in jobs : k.a = j.a /\ k.n = j.n
<1>1. PICK k \in jobs : j = IF k.a \in A THEN [k EXCEPT !.state = "dead"] ELSE k
  BY DEF Cancelled
<1>2. k \in Job
  OBVIOUS
<1> QED
  BY <1>1, <1>2 DEF Job

LEMMA FailedIds ==
    ASSUME NEW J \in SUBSET jobs, FailJobs(J), NEW j \in jobs', jobs \subseteq Job
    PROVE  \E k \in jobs : k.a = j.a /\ k.n = j.n
<1>1. PICK k \in jobs : \/ j = k
                        \/ j = IF k.left = 0 THEN [k EXCEPT !.state = "dead"]
                               ELSE [k EXCEPT !.state = "waiting", !.left = @ - 1]
  BY DEF FailJobs
<1>2. k \in Job
  OBVIOUS
<1> QED
  BY <1>1, <1>2 DEF Job

\* A job enqueued for the attempt that the same transaction leaves.
LEMMA Enqueued ==
    ASSUME NEW a \in Adaptations \ Manual, NEW at, NEW j, j = NewJob(a, attempt'[a], at),
           status'[a] \in {"queued", "scheduled"}
    PROVE  Descends(j)
  BY DEF NewJob, Descends

LEMMA DescentByPersons ==
    ASSUME IInv, PersonStep, NEW j \in jobs' PROVE Descends(j)
<1>0. jobs \subseteq Job /\ attempt \in [Adaptations -> Nat] /\ status \in [Adaptations -> Statuses]
  BY DEF IInv, TypeOK
<1>1. ASSUME NEW A, j \in Cancelled(A) PROVE Descends(j)
  BY <1>0, <1>1, CancelledIds DEF Descends
<1>2. ASSUME NEW s \in Slots \cup {0}, Approve(s) PROVE Descends(j)
  <2>1. CASE j \in Cancelled({a \in Automatic : status[a] = "scheduled"})
    BY <1>1, <2>1
  <2>2. ASSUME NEW a \in Automatic, j = NewJob(a, NextJob(a), s) PROVE Descends(j)
    <3>1. a \in Adaptations \ Manual
      BY DEF Automatic, Sendable
    <3>2. attempt'[a] = NextJob(a) /\ status'[a] \in {"queued", "scheduled"}
      BY <1>2, <3>1 DEF Approve
    <3> QED
      BY <2>2, <3>1, <3>2, Enqueued
  <2> QED
    BY <1>2, <2>1, <2>2 DEF Approve
<1>3. ASSUME NEW a \in Adaptations, NEW s \in Slots, Reschedule(a, s) PROVE Descends(j)
  <2>1. /\ a \notin Manual /\ status'[a] = "scheduled" /\ attempt'[a] = attempt[a] + 1
        /\ j \in Cancelled({a}) \/ j = NewJob(a, attempt[a] + 1, s)
    BY <1>0, <1>3 DEF Reschedule, Reschedulable
  <2> QED
    BY <1>1, <2>1, Enqueued
<1>4. ASSUME NEW a \in Adaptations, CancelSchedule(a) PROVE Descends(j)
  BY <1>1, <1>4 DEF CancelSchedule
<1>5. ASSUME Retract \/ Reject PROVE Descends(j)
  BY <1>1, <1>5 DEF Retract, Reject
<1>6. ASSUME UNCHANGED jobs PROVE Descends(j)
  BY <1>6 DEF Descends
<1> QED
  BY <1>2, <1>3, <1>4, <1>5, <1>6 DEF PersonStep, Archive, Restore, AssertDelivery, ConfirmManual

LEMMA StepDescent ==
    ASSUME IInv, [Next]_vars, NEW j \in jobs' PROVE Descends(j)
<1>0. jobs \subseteq Job
  BY DEF IInv, TypeOK
<1>1. ASSUME UNCHANGED jobs PROVE Descends(j)
  BY <1>1 DEF Descends
<1>2. ASSUME NEW h \in Handlers, HandlerStep(h) PROVE Descends(j)
  <2>1. CASE UNCHANGED jobs
    BY <1>1, <2>1
  <2>2. CASE Fail(h)
    <3>1. FailJobs({k \in JobsOf(h) : k.state # "dead"})
      BY <2>2 DEF Fail
    <3>2. {k \in JobsOf(h) : k.state # "dead"} \in SUBSET jobs
      BY DEF JobsOf
    <3> QED
      BY <1>0, <3>1, <3>2, FailedIds DEF Descends
  <2>3. CASE Complete(h)
    <3>1. PICK k \in jobs : j = IF k \in JobsOf(h) /\ k.state = "active"
                                THEN [k EXCEPT !.state = "dead"] ELSE k
      BY <2>3 DEF Complete
    <3>2. k \in Job
      BY <1>0
    <3> QED
      BY <3>1, <3>2 DEF Job, Descends
  <2> QED
    BY <1>2, <2>1, <2>2, <2>3 DEF HandlerStep, Load, CheckSent, Mark, Claim, Send, RecordFailure,
       RecordPublished, RecordAccepted, ReleaseAndThrow, LoseWrite, DatabaseError, Exhaust,
       Elsewhere, queueVars
<1>3. ASSUME NEW h \in Handlers, NEW k \in jobs, Fetch(h, k) PROVE Descends(j)
  <2>1. j \in jobs \/ j = [k EXCEPT !.state = "active"]
    BY <1>3 DEF Fetch
  <2>2. k \in Job
    BY <1>0
  <2> QED
    BY <2>1, <2>2 DEF Job, Descends
<1>4. ASSUME NEW k \in jobs, Timeout(k) PROVE Descends(j)
  <2>1. FailJobs({k}) /\ {k} \in SUBSET jobs
    BY <1>4 DEF Timeout
  <2> QED
    BY <1>0, <2>1, FailedIds DEF Descends
<1>5. ASSUME NEW k \in jobs, DropJob(k) PROVE Descends(j)
  BY <1>5 DEF DropJob, Descends
<1>6. ASSUME \/ \E h \in Handlers : Crash(h)
             \/ \E b \in Adaptations : TakeDeadLetterOf(b) \/ DropDeadLetter(b)
             \/ SweepStep \/ Tick \/ UNCHANGED vars
      PROVE  Descends(j)
  BY <1>1, <1>6 DEF Crash, TakeDeadLetterOf, TakeDeadLetter, DropDeadLetter, SweepStep,
     SweepAbandoned, SweepStranded, Sweep, Tick, vars, Elsewhere, queueVars
<1> QED
  BY <1>2, <1>3, <1>4, <1>5, <1>6, DescentByPersons DEF Next, FetchOf

LEMMA JobsKept ==
    ASSUME IInv, IInv', ChannelInv, JobsSound, [Next]_vars PROVE JobsSound'
<1>1. ASSUME NEW a \in Adaptations
      PROVE  /\ attempt[a] \in Nat /\ Counts(a)
             /\ OutcomeUnknown(a)' => OutcomeUnknown(a) \/ status[a] = "publishing"
             /\ status'[a] = "published" =>
                  \/ status[a] \in {"published", "publishing"}
                  \/ OutcomeUnknown(a) \/ a \in Manual
             /\ status'[a] = "manual_ready" => a \in Manual
  <2>1. /\ ChannelSound(a) /\ KindOfStep(a)
    BY StepKinds DEF ChannelInv, ChannelsSound
  <2> QED
    BY <2>1, UnknownComesFrom, StepCounts DEF JobsSound, IInv, TypeOK
<1>2. ASSUME NEW j \in jobs'
      PROVE  /\ j.a \notin Manual
             /\ j.n <= attempt'[j.a]
             /\ Used(j.a)' => j.n < attempt'[j.a]
  <2>1. j.a \in Adaptations /\ j.n \in Nat
    BY DEF IInv, TypeOK, Job
  <2>2. CASE \E k \in jobs : k.a = j.a /\ k.n = j.n
    <3>1. j.a \notin Manual /\ j.n <= attempt[j.a] /\ (Used(j.a) => j.n < attempt[j.a])
      BY <2>2 DEF JobsSound
    <3>2. status[j.a] # "manual_ready"
      BY <2>1, <3>1 DEF JobsSound
    <3>3. Used(j.a)' => Used(j.a) \/ attempt[j.a] < attempt'[j.a]
      BY <1>1, <2>1, <3>1, <3>2 DEF Used, Counts
    <3> QED
      BY <1>1, <2>1, <3>1, <3>3 DEF Counts
  <2>3. CASE /\ j.a \in Adaptations \ Manual /\ j.n = attempt'[j.a]
             /\ status'[j.a] \in {"queued", "scheduled"}
    <3>1. ~ Used(j.a)'
      BY <2>3 DEF Used, OutcomeUnknown
    <3> QED
      BY <2>1, <2>3, <3>1
  <2> QED
    BY <2>2, <2>3, StepDescent DEF Descends
<1> QED
  BY <1>1, <1>2 DEF JobsSound

\* No job id runs ahead of attempt_count, and the next approve of a pending
\* adaptation, or the next claim of a running one, finds its number unused.
THEOREM JobIdsStayBehind == Spec => []JobIdsBehind
<1>1. Init => JobsSound
  BY DEF Init, JobsSound
<1>2. IInv /\ IInv' /\ ChannelInv /\ JobsSound /\ [Next]_vars => JobsSound'
  BY JobsKept
<1>3. JobsSound => JobIdsBehind
  BY DEF JobsSound, JobIdsBehind, Used
<1> QED
  BY <1>1, <1>2, <1>3, InvariantHolds, ChannelsHold, PTL DEF Spec, ChannelInv
==============================================================================
