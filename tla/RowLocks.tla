------------------------------ MODULE RowLocks ------------------------------
(***************************************************************************)
(* The transactions that touch the channels of a content item, statement by *)
(* statement under READ COMMITTED: what they lock and in which order, what  *)
(* they read once they hold it, and what the roll-up makes of an item whose *)
(* deliveries end at the same moment (docs/lock-order.md).                  *)
(*                                                                         *)
(* Every transaction has one shape: its adaptations, then for each of them  *)
(* the channel a receipt refers to and the item above.  Module Publish      *)
(* makes each of these transactions one step.                               *)
(***************************************************************************)
EXTENDS Integers, FiniteSets

CONSTANTS
    Rows,        \* adaptations, named by their ids: numbers
    ItemOf,      \* content_item_id
    ChannelOf,   \* channel_id
    Sessions,    \* connections that may be in a transaction at once
    MaxBegun,    \* bound: transactions begun
    None

RowLocksAssumption ==
    /\ Rows \subseteq Nat /\ IsFiniteSet(Rows) /\ IsFiniteSet(Sessions)
    /\ MaxBegun \in Nat
    /\ None \notin Rows \cup Sessions

VARIABLES
    status,   \* committed adaptation statuses; "gone" with its channel
    item,     \* committed item statuses
    was,      \* archived_from_status
    tx,       \* what each session is in the middle of
    held,     \* row locks each session holds
    begun     \* transactions begun so far

vars == <<status, item, was, tx, held, begun>>

Items    == {ItemOf[r] : r \in Rows}
UsedChannels == {ChannelOf[r] : r \in Rows}
RowsOf(i) == {r \in Rows : ItemOf[r] = i}

RowStatuses  == {"pending", "queued", "publishing", "published", "failed", "gone"}
ItemStatuses == {"approved", "published", "partially_published", "failed", "rejected",
                 "archived"}
Kinds == {"claim", "deliver", "assert", "approve", "reject", "archive", "restore",
          "delete_channel", "sweep_abandoned", "sweep_stranded"}
Sweeps == {"sweep_abandoned", "sweep_stranded"}
WholeItem == {"approve", "reject", "archive", "restore"}
Undecided == "undecided"

\* stage: locking rows, then parents; at: the row whose parents are being locked.
Idle == [kind |-> "none", of |-> None, todo |-> {}, mine |-> {}, left |-> {}, at |-> None,
         verdict |-> "failed", says |-> [i \in Items |-> Undecided]]

(***************************************************************************)
(* PostgreSQL's row locks                                                   *)
(***************************************************************************)
\* KEY SHARE < SHARE < NO KEY UPDATE < UPDATE.
Conflicts(m, n) ==
    \/ "update" \in {m, n}
    \/ m = "no_key_update" /\ n # "key_share"
    \/ n = "no_key_update" /\ m # "key_share"

Free(t, row, mode) ==
    \A u \in Sessions \ {t} : \A l \in held[u] : l.row = row => ~ Conflicts(l.mode, mode)

Hold(t, row, mode) == held' = [held EXCEPT ![t] = @ \cup {[row |-> row, mode |-> mode]}]
Holds(t, row)      == \E l \in held[t] : l.row = row

\* The row as a transaction sees it: its own write, else what is committed.
NewStatus(w) ==
    CASE w.kind = "claim" -> "publishing" [] w.kind = "approve" -> "queued"
      [] w.kind = "reject" -> "pending"   [] w.kind = "delete_channel" -> "gone"
      [] OTHER -> w.verdict
Writes(w) == w.kind \notin {"archive", "restore"}
Seen(w, r) == IF Writes(w) /\ r \in w.mine THEN NewStatus(w) ELSE status[r]

(***************************************************************************)
(* What each transaction locks                                              *)
(***************************************************************************)
Scope(kind, of) ==
    CASE kind \in {"claim", "deliver", "assert"} -> {of}
      [] kind = "delete_channel" -> {r \in Rows : ChannelOf[r] = of}
      [] kind \in Sweeps -> Rows
      [] OTHER -> RowsOf(of)

Wanted(kind) ==
    CASE kind = "claim" -> {"queued"}
      [] kind \in {"deliver", "sweep_abandoned"} -> {"publishing"}
      [] kind = "sweep_stranded" -> {"queued"}
      [] kind = "assert" -> {"failed"}
      [] kind = "approve" -> {"pending", "failed"}
      [] kind = "reject" -> {"queued", "publishing"}
      [] OTHER -> RowStatuses \ {"gone"}

\* A delivery's verdict is an UPDATE; the others SELECT ... FOR UPDATE.
RowMode(kind) == IF kind = "deliver" THEN "no_key_update" ELSE "update"

\* Faulty: the heap order of an UPDATE, or of a SELECT without ORDER BY.
NextRowUnordered(w, r) == r \in w.todo

\* ORDER BY id.
NextRow(w, r) == r \in w.todo /\ \A s \in w.todo : r <= s

\* A receipt of its own, INSERTed: FOR KEY SHARE on the channel.  The claim that a
\* delivery or a sweep resolves is already there or not.
MayInsert(w)  == w.kind \in {"deliver", "assert"} \cup Sweeps
MustInsert(w) == w.kind = "assert"

ItemMode(kind) == IF kind = "claim" THEN "share" ELSE "update"

\* Faulty: reads the siblings without the parent's lock.
ItemFreeAlways(t, i) == TRUE

ItemFree(t, i) == Free(t, <<"item", i>>, ItemMode(tx[t].kind))

(***************************************************************************)
(* What a transaction makes of an item                                      *)
(***************************************************************************)
NextItemStatus(S) ==
    IF S = {} THEN Undecided
    ELSE IF S = {"published"} THEN "published"
    ELSE IF S = {"failed"} THEN "failed"
    ELSE IF S \subseteq {"published", "failed"} THEN "partially_published"
    ELSE Undecided

\* recomputeItemStatus, under the item's lock; an archived item is left alone.
RollUp(w, i) ==
    IF item[i] = "archived" THEN Undecided
    ELSE NextItemStatus({Seen(w, r) : r \in RowsOf(i)} \ {"gone"})

\* Faulty: a queued channel does not keep an item from being archived.
RefusedSending(w, i) ==
    \/ w.kind \in {"approve", "reject"} /\ item[i] \in {"published", "archived"}
    \/ w.kind = "claim" /\ item[i] \in {"rejected", "archived"}
    \/ w.kind = "archive" /\ (item[i] = "archived" \/ \E r \in w.mine : status[r] = "publishing")
    \/ w.kind = "restore" /\ item[i] # "archived"

\* Faulty: a decision trusts what the page showed before the item was archived.
RefusedPublished(w, i) ==
    \/ w.kind \in {"approve", "reject"} /\ item[i] = "published"
    \/ w.kind = "claim" /\ item[i] \in {"rejected", "archived"}
    \/ w.kind = "archive" /\ (item[i] = "archived" \/ \E r \in w.mine : status[r] \in {"queued", "publishing"})
    \/ w.kind = "restore" /\ item[i] # "archived"

\* The refusals that are read off the item once it is locked.
Refused(w, i) ==
    \/ w.kind \in {"approve", "reject"} /\ item[i] \in {"published", "archived"}
    \/ w.kind = "claim" /\ item[i] \in {"rejected", "archived"}
    \/ w.kind = "archive" /\ \/ item[i] = "archived"
                             \/ \E r \in w.mine : status[r] \in {"queued", "publishing"}
    \/ w.kind = "restore" /\ item[i] # "archived"

Says(w, i) ==
    CASE w.kind = "approve" -> "approved"
      [] w.kind = "reject" -> IF \E r \in RowsOf(i) : status[r] = "published"
                              THEN "partially_published" ELSE "rejected"
      [] w.kind = "archive" -> "archived"
      [] w.kind = "restore" -> was[i]
      [] w.kind = "claim" -> Undecided
      [] OTHER -> RollUp(w, i)

(***************************************************************************)
(* One transaction, lock by lock                                            *)
(***************************************************************************)
Target(kind) ==
    CASE kind \in {"claim", "deliver", "assert"} -> Rows
      [] kind = "delete_channel" -> UsedChannels
      [] kind \in Sweeps -> {None}
      [] OTHER -> Items

\* An archived item has no unknown delivery to settle; read before any item lock.
Begin(t, kind, of, verdict) ==
    /\ tx[t].kind = "none" /\ begun < MaxBegun
    /\ verdict = "published" => kind \in {"deliver", "assert"}
    /\ tx' = [tx EXCEPT ![t] = [Idle EXCEPT !.kind = kind, !.of = of, !.verdict = verdict,
                 !.todo = {r \in Scope(kind, of) : status[r] \in Wanted(kind)}]]
    /\ begun' = begun + 1
    /\ UNCHANGED <<status, item, was, held>>

\* The row is locked, then its WHERE is evaluated again.
LockRow(t, r) ==
    LET w == tx[t]
        still == status[r] \in Wanted(w.kind)
                 /\ (w.kind = "assert" => item[ItemOf[r]] # "archived")
    IN  /\ w.kind # "none" /\ NextRow(w, r)
        /\ Free(t, <<"adaptation", r>>, RowMode(w.kind))
        /\ Hold(t, <<"adaptation", r>>, RowMode(w.kind))
        /\ tx' = [tx EXCEPT ![t].todo = @ \ {r},
                            ![t].mine = IF still THEN @ \cup {r} ELSE @,
                            ![t].left = IF still THEN @ \cup {r} ELSE @]
        /\ UNCHANGED <<status, item, was, begun>>

\* RETURNING promises no order: a sweep takes its rows' parents as they come.
LockChannel(t, r) ==
    LET w == tx[t]
    IN  /\ w.todo = {} /\ w.at = None /\ r \in w.left /\ MayInsert(w)
        /\ Free(t, <<"channel", ChannelOf[r]>>, "key_share")
        /\ Hold(t, <<"channel", ChannelOf[r]>>, "key_share")
        /\ tx' = [tx EXCEPT ![t].at = r]
        /\ UNCHANGED <<status, item, was, begun>>

SkipChannel(t, r) ==
    LET w == tx[t]
    IN  /\ w.todo = {} /\ w.at = None /\ r \in w.left
        /\ ~ MustInsert(w) /\ w.kind # "delete_channel"
        /\ tx' = [tx EXCEPT ![t].at = r]
        /\ UNCHANGED <<status, item, was, held, begun>>

\* The item's lock and, under it, the siblings' fresh snapshot.  Requests that name an
\* item lock it even when no row qualified.
LockItem(t, i) ==
    LET w == tx[t]
        wholeItem == w.kind \in WholeItem
        next == [w EXCEPT !.at = None, !.says[i] = Says(w, i),
                          !.left = IF wholeItem THEN {} ELSE @ \ {w.at}]
    IN  /\ w.todo = {}
        /\ IF wholeItem THEN i = w.of /\ ~ Holds(t, <<"item", i>>)
           ELSE w.at # None /\ i = ItemOf[w.at]
        /\ ItemFree(t, i)
        /\ IF Refused(w, i)
           THEN tx' = [tx EXCEPT ![t] = Idle] /\ held' = [held EXCEPT ![t] = {}]
           ELSE tx' = [tx EXCEPT ![t] = next] /\ Hold(t, <<"item", i>>, ItemMode(w.kind))
        /\ UNCHANGED <<status, item, was, begun>>

\* DELETE FROM channels, whose cascade reaches rows that are all locked already.
DeleteChannel(t) ==
    LET w == tx[t]
    IN  /\ w.kind = "delete_channel" /\ w.todo = {} /\ w.left # {}
        /\ Free(t, <<"channel", w.of>>, "update")
        /\ Hold(t, <<"channel", w.of>>, "update")
        /\ tx' = [tx EXCEPT ![t].left = {}]
        /\ UNCHANGED <<status, item, was, begun>>

Done(t) ==
    LET w == tx[t]
    IN  /\ w.kind # "none" /\ w.todo = {} /\ w.left = {} /\ w.at = None
        /\ w.kind \in WholeItem => Holds(t, <<"item", w.of>>)

Commit(t) ==
    LET w == tx[t]
    IN  /\ Done(t)
        /\ status' = [r \in Rows |-> Seen(w, r)]
        /\ item' = [i \in Items |-> IF w.says[i] = Undecided THEN item[i] ELSE w.says[i]]
        /\ was' = IF w.kind = "archive" THEN [was EXCEPT ![w.of] = item[w.of]] ELSE was
        /\ tx' = [tx EXCEPT ![t] = Idle]
        /\ held' = [held EXCEPT ![t] = {}]
        /\ UNCHANGED begun

\* A refusal read off another table, a lock timeout or a lost connection.
Rollback(t) ==
    /\ tx[t].kind # "none"
    /\ tx' = [tx EXCEPT ![t] = Idle]
    /\ held' = [held EXCEPT ![t] = {}]
    /\ UNCHANGED <<status, item, was, begun>>

(***************************************************************************)
(* Specification                                                            *)
(***************************************************************************)
Init ==
    /\ status \in [Rows -> {"queued", "publishing"}]
    /\ item = [i \in Items |-> "approved"] /\ was = item
    /\ tx = [t \in Sessions |-> Idle]
    /\ held = [t \in Sessions |-> {}]
    /\ begun = 0

Next ==
    \E t \in Sessions :
        \/ \E kind \in Kinds : \E of \in Target(kind), verdict \in {"published", "failed"} :
              Begin(t, kind, of, verdict)
        \/ \E r \in Rows : LockRow(t, r) \/ LockChannel(t, r) \/ SkipChannel(t, r)
        \/ \E i \in Items : LockItem(t, i)
        \/ DeleteChannel(t)
        \/ Commit(t) \/ Rollback(t)

Spec == Init /\ [][Next]_vars

(***************************************************************************)
(* Properties                                                               *)
(***************************************************************************)
TypeOK ==
    /\ status \in [Rows -> RowStatuses]
    /\ item \in [Items -> ItemStatuses] /\ was \in [Items -> ItemStatuses \ {"archived"}]
    /\ \A t \in Sessions :
          /\ tx[t].kind \in Kinds \cup {"none"}
          /\ tx[t].mine \cup tx[t].todo \subseteq Rows
          /\ tx[t].says \in [Items -> ItemStatuses \cup {Undecided}]
    /\ begun \in 0..MaxBegun

\* The locks a session asks for next.
AsksItem(t, i) ==
    LET w == tx[t]
    IN  \/ w.at # None /\ i = ItemOf[w.at]
        \/ w.kind \in WholeItem /\ w.todo = {} /\ i = w.of /\ ~ Holds(t, <<"item", i>>)

AsksChannel(t, c, mode) ==
    LET w == tx[t]
    IN  /\ w.todo = {} /\ w.at = None
        /\ \/ w.kind = "delete_channel" /\ w.left # {} /\ c = w.of /\ mode = "update"
           \/ MayInsert(w) /\ (\E r \in w.left : c = ChannelOf[r]) /\ mode = "key_share"

Asks(t) ==
    {[row |-> <<"adaptation", r>>, mode |-> RowMode(tx[t].kind)] :
        r \in {s \in tx[t].todo : NextRow(tx[t], s)}}
    \cup {[row |-> <<"item", i>>, mode |-> ItemMode(tx[t].kind)] : i \in {j \in Items : AsksItem(t, j)}}
    \cup {[row |-> <<"channel", q[1]>>, mode |-> q[2]] :
              q \in {p \in UsedChannels \X {"key_share", "update"} : AsksChannel(t, p[1], p[2])}}

Waits(t, u) ==
    t # u /\ \E a \in Asks(t), l \in held[u] : a.row = l.row /\ Conflicts(a.mode, l.mode)

\* No transactions wait in a circle, whatever deliveries, decisions, deletions and sweeps
\* overlap: PostgreSQL would kill one of them and a person would see an error.  The only
\* circles are those of two overlapping sweeps, which lock several items in no order.
NoDeadlock ==
    \A S \in (SUBSET Sessions) \ {{}} :
        (\A t \in S : \E u \in S : Waits(t, u))
            => Cardinality({t \in S : tx[t].kind \in Sweeps}) >= 2

\* The item reads published exactly when every channel of it does, although deliveries that
\* end at the same moment do not see each other's uncommitted verdict.
PublishedTogether ==
    \A i \in Items :
        item[i] # "archived" /\ (\A r \in RowsOf(i) : status[r] # "gone") =>
            (item[i] = "published" <=> \A r \in RowsOf(i) : status[r] = "published")

\* "approved means every adaptation was queued or scheduled": once every delivery of an
\* item is over, it carries their verdict, or a person's rejection.
ItemFoldsCommitted ==
    \A i \in Items :
        (/\ item[i] \notin {"archived", "rejected"}
         /\ \A r \in RowsOf(i) : status[r] # "gone")
            => NextItemStatus({status[r] : r \in RowsOf(i)}) \in {Undecided, item[i]}

\* Only a restore brings an archived item back: no late verdict, assertion or sweep.
ArchivedStays ==
    [][\A i \in Items : item[i] = "archived" =>
          \/ item'[i] = "archived"
          \/ \E t \in Sessions : tx[t].kind = "restore" /\ tx[t].of = i /\ tx'[t].kind = "none"]_vars

\* An archived item has nothing left to send, although what archive refuses on was read
\* before it had the item's lock.
ArchivedIsQuiet ==
    \A i \in Items : item[i] = "archived" =>
        \A r \in RowsOf(i) : status[r] \notin {"queued", "publishing"}
=============================================================================
