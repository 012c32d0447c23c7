--------------------------- MODULE RowLocksProofs ---------------------------
(***************************************************************************)
(* RowLocks, for any number of adaptations, items, channels, sessions and   *)
(* transactions.                                                            *)
(*                                                                         *)
(* The inductive invariant is LocksInv.  It says of every session what its  *)
(* locks are and in which order it takes them (LocksSound), that what it    *)
(* has read stays true while it holds the lock it read it under (RowsSound, *)
(* ItemsSound), and of the committed rows that an item's status follows its *)
(* channels although no transaction sees another's uncommitted verdict.     *)
(***************************************************************************)
EXTENDS RowLocks, FiniteSetTheorems, WellFoundedInduction, TLAPS

AdLock(k, r) == [row |-> <<"adaptation", r>>, mode |-> RowMode(k)]
ItLock(k, i) == [row |-> <<"item", i>>, mode |-> ItemMode(k)]
ChLock(c, m) == [row |-> <<"channel", c>>, mode |-> m]

HasRow(t, r)  == AdLock(tx[t].kind, r) \in held[t]
HasItem(t, i) == ItLock(tx[t].kind, i) \in held[t]

Complete(i) == \A r \in RowsOf(i) : status[r] # "gone"

Tx == [kind : Kinds \cup {"none"}, of : Rows \cup UsedChannels \cup Items \cup {None},
       todo : SUBSET Rows, mine : SUBSET Rows, left : SUBSET Rows, at : Rows \cup {None},
       verdict : {"published", "failed"}, says : [Items -> ItemStatuses \cup {Undecided}]]

TypesSound ==
    /\ status \in [Rows -> RowStatuses]
    /\ item \in [Items -> ItemStatuses] /\ was \in [Items -> ItemStatuses \ {"archived"}]
    /\ tx \in [Sessions -> Tx]
    /\ DOMAIN held = Sessions
    /\ begun \in 0..MaxBegun

\* No two sessions hold conflicting locks.
Excluded(t, u) ==
    t # u => \A l \in held[t], m \in held[u] : l.row = m.row => ~ Conflicts(l.mode, m.mode)

\* Adaptations by id, then channels, then items; only a sweep goes on after an item.
LockSound(t, l) ==
    LET w == tx[t]
    IN  \/ \E r \in Rows : l = AdLock(w.kind, r) /\ \A s \in w.todo : r < s
        \/ /\ w.todo = {} /\ w.kind # "delete_channel"
           /\ \E c \in UsedChannels : l = ChLock(c, "key_share")
        \/ /\ w.todo = {} /\ w.kind = "delete_channel" /\ w.left = {}
           /\ l = ChLock(w.of, "update")
        \/ /\ w.todo = {} /\ w.kind # "delete_channel"
           /\ w.kind \in Sweeps \/ (w.left = {} /\ w.at = None)
           /\ \E i \in Items : l = ItLock(w.kind, i)

LocksSound(t) == \A l \in held[t] : LockSound(t, l)

ScopeSound(t) ==
    LET w == tx[t]
    IN  /\ w.kind = "none" => w = Idle /\ held[t] = {}
        /\ w.kind # "none" => w.of \in Target(w.kind) /\ w.todo \cup w.mine \subseteq Scope(w.kind, w.of)
        /\ w.left \subseteq w.mine /\ w.at \in w.left \cup {None}
        /\ w.kind = "delete_channel" => w.at = None
        /\ w.verdict = "published" => w.kind \in {"deliver", "assert"}
        /\ w.kind = "archive" =>
              \A r \in RowsOf(w.of) : r \in w.todo \cup w.mine \/ status[r] = "gone"

\* A row that qualified is locked, qualifies still, and is written under its item's lock.
RowSound(t, r) ==
    LET w == tx[t]
    IN  /\ HasRow(t, r) /\ status[r] \in Wanted(w.kind)
        /\ r \in w.left \/ w.kind = "delete_channel" \/ HasItem(t, ItemOf[r])
        /\ w.kind = "assert" => item[ItemOf[r]] # "archived"

\* What was read off an item is true while its lock is held.
ItemSound(t, i) ==
    LET w == tx[t]
    IN  /\ ~ HasItem(t, i) => w.says[i] = Undecided
        /\ HasItem(t, i) =>
              /\ ~ Refused(w, i)
              /\ w.kind \in WholeItem => i = w.of
              /\ w.kind \notin WholeItem => \E r \in w.mine : ItemOf[r] = i
              /\ Complete(i) => w.says[i] = Says(w, i)
              /\ w.says[i] = "archived" <=> w.kind = "archive"
              /\ w.says[i] # Undecided => w.kind # "claim"
              /\ w.says[i] # Undecided /\ w.kind # "restore" => item[i] # "archived"

SessionSound(t) ==
    /\ LocksSound(t) /\ ScopeSound(t)
    /\ \A r \in tx[t].mine : RowSound(t, r)
    /\ \A i \in Items : ItemSound(t, i)

AllPublished(i) == \A r \in RowsOf(i) : status[r] = "published"

\* An item follows its channels; an archived one remembers that it did.
Follows(i) ==
    /\ Complete(i) =>
          IF item[i] = "archived" THEN was[i] = "published" <=> AllPublished(i)
                                  ELSE item[i] = "published" <=> AllPublished(i)
    /\ item[i] = "archived" => \A r \in RowsOf(i) : status[r] \notin {"queued", "publishing"}

LocksInv ==
    /\ TypesSound
    /\ \A t, u \in Sessions : Excluded(t, u)
    /\ \A t \in Sessions : SessionSound(t)
    /\ \A i \in Items : Follows(i)

(***************************************************************************)
(* Locks                                                                    *)
(***************************************************************************)
LEMMA Places ==
    /\ \A r, i : <<"adaptation", r>> # <<"item", i>>
    /\ \A r, c : <<"adaptation", r>> # <<"channel", c>>
    /\ \A i, c : <<"item", i>> # <<"channel", c>>
    /\ \A r, s : <<"adaptation", r>> = <<"adaptation", s>> => r = s
    /\ \A i, e : <<"item", i>> = <<"item", e>> => i = e
    /\ \A c, d : <<"channel", c>> = <<"channel", d>> => c = d
<1>1. \A k, r : <<k, r>>[1] = k /\ <<k, r>>[2] = r
  OBVIOUS
<1> QED
  BY <1>1

LEMMA LockFields ==
    /\ \A k, r : AdLock(k, r).row = <<"adaptation", r>> /\ AdLock(k, r).mode = RowMode(k)
    /\ \A k, i : ItLock(k, i).row = <<"item", i>> /\ ItLock(k, i).mode = ItemMode(k)
    /\ \A c, m : ChLock(c, m).row = <<"channel", c>> /\ ChLock(c, m).mode = m
  BY DEF AdLock, ItLock, ChLock

LEMMA LocksDiffer ==
    /\ \A k, r, j, i : AdLock(k, r) # ItLock(j, i)
    /\ \A k, r, c, m : AdLock(k, r) # ChLock(c, m)
    /\ \A j, i, c, m : ItLock(j, i) # ChLock(c, m)
    /\ \A k, r, j, s : AdLock(k, r) = AdLock(j, s) => r = s
    /\ \A k, i, j, e : ItLock(k, i) = ItLock(j, e) => i = e
  BY Places, LockFields

\* Two locks of one adaptation conflict; two of one item, unless both are claims.
LEMMA Modes ==
    ASSUME NEW k, NEW j
    PROVE  /\ Conflicts(RowMode(k), RowMode(j))
           /\ k # "claim" \/ j # "claim" => Conflicts(ItemMode(k), ItemMode(j))
  BY DEF Conflicts, RowMode, ItemMode

LEMMA RowExclusive ==
    ASSUME LocksInv, NEW t \in Sessions, NEW u \in Sessions, t # u,
           NEW r \in tx[t].mine, r \in tx[u].mine
    PROVE  FALSE
<1>1. AdLock(tx[t].kind, r) \in held[t] /\ AdLock(tx[u].kind, r) \in held[u]
  BY DEF LocksInv, SessionSound, RowSound, HasRow
<1>2. Excluded(t, u)
  BY DEF LocksInv
<1> QED
  BY <1>1, <1>2, Modes, LockFields DEF Excluded

LEMMA ItemExclusive ==
    ASSUME LocksInv, NEW t \in Sessions, NEW u \in Sessions, t # u, NEW i,
           HasItem(t, i), HasItem(u, i)
    PROVE  tx[t].kind = "claim" /\ tx[u].kind = "claim"
<1>1. Excluded(t, u)
  BY DEF LocksInv
<1>2. ItLock(tx[t].kind, i) \in held[t] /\ ItLock(tx[u].kind, i) \in held[u]
  BY DEF HasItem
<1>3. ~ Conflicts(ItemMode(tx[t].kind), ItemMode(tx[u].kind))
  BY <1>1, <1>2, LockFields DEF Excluded
<1> QED
  BY <1>3, Modes

\* An item lock that a session holds is the one its kind takes.
LEMMA HeldItem ==
    ASSUME NEW t \in Sessions, LocksSound(t), NEW i, Holds(t, <<"item", i>>)
    PROVE  HasItem(t, i)
<1>1. PICK l \in held[t] : l.row = <<"item", i>>
  BY DEF Holds
<1>2. LockSound(t, l)
  BY DEF LocksSound
<1>3. PICK e \in Items : l = ItLock(tx[t].kind, e)
  BY <1>1, <1>2, Places, LockFields DEF LockSound
<1> QED
  BY <1>1, <1>3, Places, LockFields DEF HasItem

LEMMA ItemsOfRows == \A r \in Rows : ItemOf[r] \in Items /\ r \in RowsOf(ItemOf[r])
  BY DEF Items, RowsOf

LEMMA ItemHasRows == \A i \in Items : \E r \in Rows : r \in RowsOf(i)
  BY DEF Items, RowsOf

LEMMA UsedItems ==
    ASSUME NEW i \in Items
    PROVE  \A r \in RowsOf(i) : r \in Rows /\ ItemOf[r] = i
  BY DEF RowsOf

(***************************************************************************)
(* A session whose rows and locks stay as they are                          *)
(***************************************************************************)
LEMMA Undisturbed ==
    ASSUME NEW u \in Sessions, SessionSound(u), tx'[u] = tx[u], held'[u] = held[u],
           status' = status, item' = item, was' = was
    PROVE  SessionSound(u)'
<1>1. LocksSound(u)'
  BY DEF SessionSound, LocksSound, LockSound
<1>2. ScopeSound(u)'
  BY DEF SessionSound, ScopeSound
<1>3. \A r \in tx[u].mine : RowSound(u, r)'
  <2> TAKE r \in tx[u].mine
  <2>1. RowSound(u, r)
    BY DEF SessionSound
  <2> QED
    BY <2>1 DEF RowSound, HasRow, HasItem
<1>4. \A i \in Items : ItemSound(u, i)'
  <2> TAKE i \in Items
  <2>1. ItemSound(u, i)
    BY DEF SessionSound
  <2>2. HasItem(u, i)' <=> HasItem(u, i)
    BY DEF HasItem
  <2>3. (Refused(tx[u], i) <=> Refused(tx[u], i)') /\ (Complete(i) <=> Complete(i)')
    BY DEF Refused, Complete
  <2>4. Says(tx[u], i)' = Says(tx[u], i)
    BY DEF Says, RollUp, Seen
  <2> QED
    BY <2>1, <2>2, <2>3, <2>4 DEF ItemSound
<1> QED
  BY <1>1, <1>2, <1>3, <1>4 DEF SessionSound

\* What a step of one session leaves to show when no row is written.
LEMMA StepOf ==
    ASSUME LocksInv, NEW t \in Sessions, UNCHANGED <<status, item, was>>,
           \A u \in Sessions \ {t} : tx'[u] = tx[u] /\ held'[u] = held[u],
           TypesSound', SessionSound(t)',
           \A u \in Sessions \ {t} : Excluded(t, u)'
    PROVE  LocksInv'
<1>1. \A u \in Sessions : SessionSound(u)'
  BY Undisturbed DEF LocksInv
<1>2. \A u, v \in Sessions : Excluded(u, v)'
  <2> TAKE u, v \in Sessions
  <2>1. CASE u # t /\ v # t
    BY <2>1 DEF LocksInv, Excluded
  <2>2. CASE u = t
    BY <2>2 DEF Excluded
  <2>3. CASE v = t
    BY <2>3 DEF Excluded, Conflicts
  <2> QED
    BY <2>1, <2>2, <2>3
<1>3. \A i \in Items : Follows(i)'
  BY DEF LocksInv, Follows, Complete, AllPublished
<1> QED
  BY <1>1, <1>2, <1>3 DEF LocksInv

\* A lock that was free conflicts with none.
LEMMA Gains ==
    ASSUME LocksInv, NEW t \in Sessions, NEW l, held' = [held EXCEPT ![t] = @ \cup {l}],
           Free(t, l.row, l.mode), DOMAIN held = Sessions
    PROVE  \A u \in Sessions \ {t} : Excluded(t, u)'
<1> TAKE u \in Sessions \ {t}
<1>1. held'[t] = held[t] \cup {l} /\ held'[u] = held[u]
  OBVIOUS
<1>2. Excluded(t, u)
  BY DEF LocksInv
<1>3. \A m \in held[u] : m.row = l.row => ~ Conflicts(m.mode, l.mode)
  BY DEF Free
<1> QED
  BY <1>1, <1>2, <1>3 DEF Excluded, Conflicts

(***************************************************************************)
(* Steps that write no row                                                  *)
(***************************************************************************)
LEMMA IdleTx == Idle \in Tx /\ Idle.kind = "none" /\ Idle.todo = {} /\ Idle.mine = {}
                /\ Idle.left = {} /\ Idle.at = None /\ Idle.verdict = "failed"
                /\ \A i \in Items : Idle.says[i] = Undecided
  BY DEF Idle, Tx, Kinds

\* A session without a transaction has nothing to keep true.
LEMMA IdleSound ==
    ASSUME NEW t \in Sessions, tx[t] = Idle, held[t] = {}
    PROVE  SessionSound(t)
<1>1. LocksSound(t)
  BY DEF LocksSound
<1>2. ScopeSound(t)
  BY IdleTx DEF ScopeSound
<1>3. \A r \in tx[t].mine : RowSound(t, r)
  BY IdleTx
<1>4. \A i \in Items : ItemSound(t, i)
  BY IdleTx DEF ItemSound, HasItem
<1> QED
  BY <1>1, <1>2, <1>3, <1>4 DEF SessionSound

LEMMA IdleSoundNext ==
    ASSUME NEW t \in Sessions, tx'[t] = Idle, held'[t] = {}
    PROVE  SessionSound(t)'
<1>1. LocksSound(t)'
  BY DEF LocksSound
<1>2. ScopeSound(t)'
  BY IdleTx DEF ScopeSound
<1>3. \A r \in tx'[t].mine : RowSound(t, r)'
  BY IdleTx
<1>4. \A i \in Items : ItemSound(t, i)'
  BY IdleTx DEF ItemSound, HasItem
<1> QED
  BY <1>1, <1>2, <1>3, <1>4 DEF SessionSound

LEMMA Shrinks ==
    ASSUME LocksInv, NEW t \in Sessions, held' = [held EXCEPT ![t] = {}]
    PROVE  \A u \in Sessions \ {t} : Excluded(t, u)'
<1>1. held'[t] = {}
  BY DEF LocksInv, TypesSound
<1> QED
  BY <1>1 DEF Excluded

LEMMA RollbackKeeps ==
    ASSUME LocksInv, NEW t \in Sessions, Rollback(t)
    PROVE  LocksInv'
<1> USE DEF Rollback
<1>1. TypesSound /\ DOMAIN held = Sessions /\ tx \in [Sessions -> Tx]
  BY DEF LocksInv, TypesSound
<1>2. \A u \in Sessions \ {t} : tx'[u] = tx[u] /\ held'[u] = held[u]
  BY <1>1
<1>3. TypesSound'
  BY <1>1, IdleTx DEF TypesSound
<1>4. SessionSound(t)'
  BY <1>1, IdleSoundNext
<1> QED
  BY <1>2, <1>3, <1>4, Shrinks, StepOf

LEMMA StatusWanted == \A kind \in Kinds : "gone" \notin Wanted(kind)
  BY DEF Wanted, Kinds, RowStatuses, Sweeps

LEMMA ScopesAreRows ==
    ASSUME NEW kind \in Kinds, NEW of \in Target(kind)
    PROVE  /\ of \in Rows \cup UsedChannels \cup Items \cup {None}
           /\ Scope(kind, of) \subseteq Rows
  BY DEF Target, Scope, RowsOf, Sweeps, Kinds

LEMMA BeginKeeps ==
    ASSUME RowLocksAssumption, LocksInv, NEW t \in Sessions, NEW kind \in Kinds, NEW of \in Target(kind),
           NEW verdict \in {"published", "failed"}, Begin(t, kind, of, verdict)
    PROVE  LocksInv'
<1> DEFINE todo == {r \in Scope(kind, of) : status[r] \in Wanted(kind)}
           next == [Idle EXCEPT !.kind = kind, !.of = of, !.verdict = verdict, !.todo = todo]
<1>1. TypesSound /\ DOMAIN held = Sessions /\ tx \in [Sessions -> Tx]
  BY DEF LocksInv, TypesSound
<1>2. /\ tx' = [tx EXCEPT ![t] = next] /\ held' = held /\ UNCHANGED <<status, item, was>>
      /\ begun' = begun + 1 /\ begun < MaxBegun /\ tx[t].kind = "none"
      /\ verdict = "published" => kind \in {"deliver", "assert"}
  BY DEF Begin
<1>3. /\ next.kind = kind /\ next.of = of /\ next.verdict = verdict /\ next.todo = todo
      /\ next.mine = {} /\ next.left = {} /\ next.at = None /\ next.says = Idle.says
  BY DEF Idle
<1>4. todo \subseteq Scope(kind, of) /\ todo \subseteq Rows
  BY ScopesAreRows
<1>5. next \in Tx
  BY <1>3, <1>4, ScopesAreRows, IdleTx DEF Tx, Idle
<1>6. tx'[t] = next /\ \A u \in Sessions \ {t} : tx'[u] = tx[u] /\ held'[u] = held[u]
  BY <1>1, <1>2
<1>7. TypesSound'
  BY <1>1, <1>2, <1>5 DEF TypesSound, RowLocksAssumption
<1>8. held'[t] = {}
  BY <1>2 DEF LocksInv, SessionSound, ScopeSound
<1>9. SessionSound(t)'
  <2>1. LocksSound(t)'
    BY <1>8 DEF LocksSound
  <2>2. kind = "archive" => \A r \in RowsOf(of) : r \in todo \/ status[r] = "gone"
    BY <1>1 DEF Scope, Wanted, Sweeps, RowsOf, TypesSound
  <2>3. ScopeSound(t)'
    BY <1>2, <1>3, <1>4, <1>6, <2>2 DEF ScopeSound, Kinds
  <2>4. \A r \in tx'[t].mine : RowSound(t, r)'
    BY <1>3, <1>6
  <2>5. \A i \in Items : ItemSound(t, i)'
    BY <1>3, <1>6, <1>8, IdleTx DEF ItemSound, HasItem
  <2> QED
    BY <2>1, <2>3, <2>4, <2>5 DEF SessionSound
<1>10. \A u \in Sessions \ {t} : Excluded(t, u)'
  BY <1>8 DEF Excluded
<1> QED
  BY <1>2, <1>6, <1>7, <1>9, <1>10, StepOf

LEMMA LockRowFields ==
    ASSUME TypesSound, NEW t \in Sessions, NEW r \in Rows, LockRow(t, r)
    PROVE  /\ tx'[t].kind = tx[t].kind /\ tx'[t].of = tx[t].of /\ tx'[t].at = tx[t].at
           /\ tx'[t].verdict = tx[t].verdict /\ tx'[t].says = tx[t].says
           /\ tx'[t].todo = tx[t].todo \ {r}
           /\ \/ tx'[t].mine = tx[t].mine /\ tx'[t].left = tx[t].left
                 /\ ~ (/\ status[r] \in Wanted(tx[t].kind)
                       /\ tx[t].kind = "assert" => item[ItemOf[r]] # "archived")
              \/ /\ tx'[t].mine = tx[t].mine \cup {r} /\ tx'[t].left = tx[t].left \cup {r}
                 /\ status[r] \in Wanted(tx[t].kind)
                 /\ tx[t].kind = "assert" => item[ItemOf[r]] # "archived"
           /\ tx'[t] \in Tx /\ tx' \in [Sessions -> Tx]
           /\ \A u \in Sessions \ {t} : tx'[u] = tx[u]
<1> DEFINE w == tx[t]
           still == status[r] \in Wanted(w.kind) /\ (w.kind = "assert" => item[ItemOf[r]] # "archived")
           next == [w EXCEPT !.todo = @ \ {r}, !.mine = IF still THEN @ \cup {r} ELSE @,
                             !.left = IF still THEN @ \cup {r} ELSE @]
<1>1. w \in Tx /\ tx \in [Sessions -> Tx]
  BY DEF TypesSound
<1>2. tx' = [tx EXCEPT ![t] = next]
  BY <1>1 DEF LockRow, Tx
<1>3. tx'[t] = next
  BY <1>1, <1>2
<1>4. /\ next.kind = w.kind /\ next.of = w.of /\ next.at = w.at /\ next.verdict = w.verdict
      /\ next.says = w.says /\ next.todo = w.todo \ {r}
      /\ next.mine = (IF still THEN w.mine \cup {r} ELSE w.mine)
      /\ next.left = (IF still THEN w.left \cup {r} ELSE w.left)
  BY <1>1 DEF Tx
<1>5. next \in Tx
  BY <1>1 DEF Tx
<1> QED
  BY <1>1, <1>2, <1>3, <1>4, <1>5

LEMMA LockRowKeeps ==
    ASSUME RowLocksAssumption, LocksInv, NEW t \in Sessions, NEW r \in Rows, LockRow(t, r)
    PROVE  LocksInv'
<1> DEFINE w == tx[t]
           new == AdLock(w.kind, r)
<1>1. TypesSound /\ DOMAIN held = Sessions /\ tx \in [Sessions -> Tx]
  BY DEF LocksInv, TypesSound
<1>2. /\ w.kind # "none" /\ r \in w.todo /\ \A s \in w.todo : r <= s
      /\ Free(t, new.row, new.mode) /\ held' = [held EXCEPT ![t] = @ \cup {new}]
      /\ UNCHANGED <<status, item, was, begun>>
  BY LockFields DEF LockRow, NextRow, Hold, AdLock
<1>3. held'[t] = held[t] \cup {new} /\ \A u \in Sessions \ {t} : held'[u] = held[u]
  BY <1>1, <1>2
<1>4. TypesSound'
  BY <1>1, <1>2, LockRowFields DEF TypesSound
<1>5. LocksSound(t) /\ ScopeSound(t) /\ (\A q \in w.mine : RowSound(t, q))
      /\ \A i \in Items : ItemSound(t, i)
  BY DEF LocksInv, SessionSound
<1>6. w.todo \subseteq Rows /\ w.mine \subseteq Rows
  BY <1>1 DEF Tx
<1>7. SessionSound(t)'
  <2>1. LocksSound(t)'
    <3> SUFFICES ASSUME NEW l \in held'[t]
                 PROVE  LockSound(t, l)'
      BY DEF LocksSound
    <3>1. CASE l = new
      <4>1. \A s \in tx'[t].todo : r < s
        BY <1>1, <1>2, <1>6, LockRowFields DEF RowLocksAssumption
      <4>2. l = AdLock(tx'[t].kind, r)
        BY <1>1, <3>1, LockRowFields
      <4> QED
        BY <4>1, <4>2 DEF LockSound
    <3>2. CASE l \in held[t]
      <4>1. PICK s \in Rows : l = AdLock(w.kind, s) /\ \A q \in w.todo : s < q
        BY <1>2, <1>5, <3>2 DEF LocksSound, LockSound
      <4>2. l = AdLock(tx'[t].kind, s) /\ \A q \in tx'[t].todo : s < q
        BY <1>1, <4>1, LockRowFields
      <4> QED
        BY <4>2 DEF LockSound
    <3> QED
      BY <1>3, <3>1, <3>2
  <2>2. ScopeSound(t)'
    <3>1. w.kind = "archive" => \A q \in RowsOf(w.of) : q \in tx'[t].todo \cup tx'[t].mine \/ status[q] = "gone"
      <4> SUFFICES ASSUME w.kind = "archive", NEW q \in RowsOf(w.of), q \notin tx'[t].todo \cup tx'[t].mine
                   PROVE  status[q] = "gone"
        OBVIOUS
      <4>1. q \in w.todo \cup w.mine \/ status[q] = "gone"
        BY <1>5 DEF ScopeSound
      <4>2. q \in Rows
        BY DEF RowsOf
      <4>3. q = r => status[r] \notin Wanted("archive")
        BY <1>1, LockRowFields
      <4>4. Wanted("archive") = RowStatuses \ {"gone"}
        BY DEF Wanted, Sweeps
      <4> QED
        BY <1>1, <4>1, <4>2, <4>3, <4>4, LockRowFields DEF TypesSound
    <3> QED
      BY <1>1, <1>2, <1>5, <3>1, LockRowFields DEF ScopeSound
  <2>3. \A q \in tx'[t].mine : RowSound(t, q)'
    <3> TAKE q \in tx'[t].mine
    <3>1. CASE q = r /\ r \notin w.mine
      <4>1. status[r] \in Wanted(w.kind) /\ (w.kind = "assert" => item[ItemOf[r]] # "archived")
            /\ r \in tx'[t].left
        BY <1>1, <3>1, LockRowFields
      <4> QED
        BY <1>1, <1>2, <1>3, <3>1, <4>1, LockRowFields DEF RowSound, HasRow
    <3>2. CASE q \in w.mine
      <4>1. RowSound(t, q)
        BY <1>5, <3>2
      <4> QED
        BY <1>1, <1>2, <1>3, <4>1, LockRowFields DEF RowSound, HasRow, HasItem
    <3> QED
      BY <1>1, <3>1, <3>2, LockRowFields
  <2>4. \A i \in Items : ItemSound(t, i)'
    <3> TAKE i \in Items
    <3>1. ~ HasItem(t, i)
      BY <1>2, <1>5, LocksDiffer DEF HasItem, LocksSound, LockSound
    <3>2. ~ HasItem(t, i)'
      BY <1>1, <1>3, <3>1, LockRowFields, LocksDiffer DEF HasItem
    <3>3. w.says[i] = Undecided
      BY <1>5, <3>1 DEF ItemSound
    <3> QED
      BY <1>1, <3>2, <3>3, LockRowFields DEF ItemSound
  <2> QED
    BY <2>1, <2>2, <2>3, <2>4 DEF SessionSound
<1>8. \A u \in Sessions \ {t} : Excluded(t, u)'
  BY <1>1, <1>2, Gains
<1> QED
  BY <1>1, <1>2, <1>3, <1>4, <1>7, <1>8, LockRowFields, StepOf

LEMMA ChannelFields ==
    ASSUME TypesSound, NEW t \in Sessions, NEW r \in Rows, tx' = [tx EXCEPT ![t].at = r]
    PROVE  /\ tx'[t].kind = tx[t].kind /\ tx'[t].of = tx[t].of /\ tx'[t].at = r
           /\ tx'[t].verdict = tx[t].verdict /\ tx'[t].says = tx[t].says
           /\ tx'[t].todo = tx[t].todo /\ tx'[t].mine = tx[t].mine /\ tx'[t].left = tx[t].left
           /\ tx' \in [Sessions -> Tx]
           /\ \A u \in Sessions \ {t} : tx'[u] = tx[u]
  BY DEF TypesSound, Tx

LEMMA ChannelKeeps ==
    ASSUME RowLocksAssumption, LocksInv, NEW t \in Sessions, NEW r \in Rows,
           LockChannel(t, r) \/ SkipChannel(t, r)
    PROVE  LocksInv'
<1> DEFINE w == tx[t]
           new == ChLock(ChannelOf[r], "key_share")
<1>1. TypesSound /\ DOMAIN held = Sessions /\ tx \in [Sessions -> Tx]
  BY DEF LocksInv, TypesSound
<1>2. /\ w.todo = {} /\ w.at = None /\ r \in w.left /\ w.kind # "delete_channel"
      /\ tx' = [tx EXCEPT ![t].at = r] /\ UNCHANGED <<status, item, was, begun>>
  BY DEF LockChannel, SkipChannel, MayInsert, Sweeps
<1>3. \/ held' = held
      \/ held' = [held EXCEPT ![t] = @ \cup {new}] /\ Free(t, new.row, new.mode)
  BY LockFields DEF LockChannel, SkipChannel, Hold, ChLock
<1>4. held[t] \subseteq held'[t] /\ held'[t] \subseteq held[t] \cup {new}
      /\ \A u \in Sessions \ {t} : held'[u] = held[u]
  BY <1>1, <1>3
<1>5. TypesSound'
  BY <1>1, <1>2, <1>3, ChannelFields DEF TypesSound
<1>6. LocksSound(t) /\ ScopeSound(t) /\ (\A q \in w.mine : RowSound(t, q))
      /\ \A i \in Items : ItemSound(t, i)
  BY DEF LocksInv, SessionSound
<1>7. SessionSound(t)'
  <2>1. LocksSound(t)'
    <3> SUFFICES ASSUME NEW l \in held'[t]
                 PROVE  LockSound(t, l)'
      BY DEF LocksSound
    <3>1. CASE l = new
      <4>1. ChannelOf[r] \in UsedChannels
        BY DEF UsedChannels
      <4> QED
        BY <1>1, <1>2, <3>1, <4>1, ChannelFields DEF LockSound
    <3>2. CASE l \in held[t]
      <4>1. LockSound(t, l)
        BY <1>6, <3>2 DEF LocksSound
      <4> QED
        BY <1>1, <1>2, <4>1, ChannelFields DEF LockSound
    <3> QED
      BY <1>4, <3>1, <3>2
  <2>2. ScopeSound(t)'
    BY <1>1, <1>2, <1>4, <1>6, ChannelFields, IdleTx DEF ScopeSound
  <2>3. \A q \in tx'[t].mine : RowSound(t, q)'
    <3> TAKE q \in tx'[t].mine
    <3>1. RowSound(t, q)
      BY <1>1, <1>2, <1>6, ChannelFields
    <3> QED
      BY <1>1, <1>2, <1>4, <3>1, ChannelFields DEF RowSound, HasRow, HasItem
  <2>4. \A i \in Items : ItemSound(t, i)'
    <3> TAKE i \in Items
    <3>1. HasItem(t, i)' <=> HasItem(t, i)
      BY <1>1, <1>2, <1>4, ChannelFields, LocksDiffer DEF HasItem
    <3>2. ItemSound(t, i)
      BY <1>6
    <3>3. Refused(tx[t], i)' <=> Refused(tx[t], i)
      BY <1>1, <1>2, ChannelFields DEF Refused
    <3>4. Says(tx[t], i)' = Says(tx[t], i)
      <4>1. \A q \in Rows : Seen(tx[t], q)' = Seen(tx[t], q)
        BY <1>1, <1>2, ChannelFields DEF Seen, Writes, NewStatus
      <4>2. RollUp(tx[t], i)' = RollUp(tx[t], i)
        BY <1>2, <4>1 DEF RollUp, RowsOf
      <4> QED
        BY <1>1, <1>2, <4>2, ChannelFields DEF Says
    <3>5. Complete(i)' <=> Complete(i)
      BY <1>2 DEF Complete
    <3> QED
      BY <1>1, <1>2, <3>1, <3>2, <3>3, <3>4, <3>5, ChannelFields DEF ItemSound
  <2> QED
    BY <2>1, <2>2, <2>3, <2>4 DEF SessionSound
<1>8. \A u \in Sessions \ {t} : Excluded(t, u)'
  <2>1. CASE held' = held
    BY <2>1 DEF LocksInv, Excluded
  <2> QED
    BY <1>1, <1>3, <2>1, Gains
<1> QED
  BY <1>1, <1>2, <1>4, <1>5, <1>7, <1>8, ChannelFields, StepOf

LEMMA DeleteFields ==
    ASSUME TypesSound, NEW t \in Sessions, tx' = [tx EXCEPT ![t].left = {}]
    PROVE  /\ tx'[t].kind = tx[t].kind /\ tx'[t].of = tx[t].of /\ tx'[t].at = tx[t].at
           /\ tx'[t].verdict = tx[t].verdict /\ tx'[t].says = tx[t].says
           /\ tx'[t].todo = tx[t].todo /\ tx'[t].mine = tx[t].mine /\ tx'[t].left = {}
           /\ tx' \in [Sessions -> Tx]
           /\ \A u \in Sessions \ {t} : tx'[u] = tx[u]
  BY DEF TypesSound, Tx

LEMMA DeleteChannelKeeps ==
    ASSUME RowLocksAssumption, LocksInv, NEW t \in Sessions, DeleteChannel(t)
    PROVE  LocksInv'
<1> DEFINE w == tx[t]
           new == ChLock(w.of, "update")
<1>1. TypesSound /\ DOMAIN held = Sessions /\ tx \in [Sessions -> Tx]
  BY DEF LocksInv, TypesSound
<1>2. /\ w.todo = {} /\ w.kind = "delete_channel"
      /\ tx' = [tx EXCEPT ![t].left = {}] /\ UNCHANGED <<status, item, was, begun>>
  BY DEF DeleteChannel
<1>3. held' = [held EXCEPT ![t] = @ \cup {new}] /\ Free(t, new.row, new.mode)
  BY LockFields DEF DeleteChannel, Hold, ChLock
<1>4. held'[t] = held[t] \cup {new} /\ \A u \in Sessions \ {t} : held'[u] = held[u]
  BY <1>1, <1>3
<1>5. TypesSound'
  BY <1>1, <1>2, <1>3, DeleteFields DEF TypesSound
<1>6. LocksSound(t) /\ ScopeSound(t) /\ (\A q \in w.mine : RowSound(t, q))
      /\ \A i \in Items : ItemSound(t, i)
  BY DEF LocksInv, SessionSound
<1>7. SessionSound(t)'
  <2>1. LocksSound(t)'
    <3> SUFFICES ASSUME NEW l \in held'[t]
                 PROVE  LockSound(t, l)'
      BY DEF LocksSound
    <3>1. CASE l = new
      BY <1>1, <1>2, <3>1, DeleteFields DEF LockSound
    <3>2. CASE l \in held[t]
      <4>1. LockSound(t, l)
        BY <1>6, <3>2 DEF LocksSound
      <4> QED
        BY <1>1, <1>2, <4>1, DeleteFields DEF LockSound
    <3> QED
      BY <1>4, <3>1, <3>2
  <2>2. ScopeSound(t)'
    BY <1>1, <1>2, <1>4, <1>6, DeleteFields, IdleTx DEF ScopeSound
  <2>3. \A q \in tx'[t].mine : RowSound(t, q)'
    <3> TAKE q \in tx'[t].mine
    <3>1. RowSound(t, q)
      BY <1>1, <1>2, <1>6, DeleteFields
    <3> QED
      BY <1>1, <1>2, <1>4, <3>1, DeleteFields DEF RowSound, HasRow, HasItem
  <2>4. \A i \in Items : ItemSound(t, i)'
    <3> TAKE i \in Items
    <3>1. ~ HasItem(t, i)
      BY <1>2, <1>6, LocksDiffer DEF HasItem, LocksSound, LockSound
    <3>2. ~ HasItem(t, i)'
      BY <1>1, <1>2, <1>4, <3>1, DeleteFields, LocksDiffer DEF HasItem
    <3>3. w.says[i] = Undecided
      BY <1>6, <3>1 DEF ItemSound
    <3>4. tx'[t].says[i] = Undecided
      BY <1>1, <1>2, <3>3, DeleteFields
    <3> QED
      BY <3>2, <3>4 DEF ItemSound
  <2> QED
    BY <2>1, <2>2, <2>3, <2>4 DEF SessionSound
<1>8. \A u \in Sessions \ {t} : Excluded(t, u)'
  BY <1>1, <1>3, Gains
<1> QED
  BY <1>1, <1>2, <1>4, <1>5, <1>7, <1>8, DeleteFields, StepOf

(***************************************************************************)
(* The item, under its lock                                                 *)
(***************************************************************************)
LEMMA FoldType ==
    ASSUME NEW S
    PROVE  /\ NextItemStatus(S) \in (ItemStatuses \ {"archived"}) \cup {Undecided}
           /\ NextItemStatus(S) = "published" <=> S = {"published"}
  BY DEF NextItemStatus, ItemStatuses, Undecided

LEMMA SaysType ==
    ASSUME TypesSound, NEW t \in Sessions, NEW i \in Items
    PROVE  /\ Says(tx[t], i) \in ItemStatuses \cup {Undecided}
           /\ Says(tx[t], i) = "archived" <=> tx[t].kind = "archive"
           /\ Says(tx[t], i) # Undecided => tx[t].kind # "claim"
<1>1. was[i] \in ItemStatuses \ {"archived"}
  BY DEF TypesSound
<1>2. RollUp(tx[t], i) \in (ItemStatuses \ {"archived"}) \cup {Undecided}
  BY FoldType DEF RollUp
<1> QED
  BY <1>1, <1>2 DEF Says, ItemStatuses, Undecided

LEMMA ScopeOfOne ==
    ASSUME NEW kind \in {"claim", "deliver", "assert"}, NEW of
    PROVE  Scope(kind, of) = {of}
  BY DEF Scope, Sweeps

LEMMA LockItemFields ==
    ASSUME TypesSound, NEW t \in Sessions, NEW i \in Items, LockItem(t, i), ~ Refused(tx[t], i)
    PROVE  /\ tx'[t].kind = tx[t].kind /\ tx'[t].of = tx[t].of /\ tx'[t].at = None
           /\ tx'[t].verdict = tx[t].verdict
           /\ tx'[t].says = [tx[t].says EXCEPT ![i] = Says(tx[t], i)]
           /\ tx'[t].todo = tx[t].todo /\ tx'[t].mine = tx[t].mine
           /\ tx'[t].left = (IF tx[t].kind \in WholeItem THEN {} ELSE tx[t].left \ {tx[t].at})
           /\ tx' \in [Sessions -> Tx]
           /\ \A u \in Sessions \ {t} : tx'[u] = tx[u]
<1> DEFINE w == tx[t]
           wholeItem == w.kind \in WholeItem
           next == [w EXCEPT !.at = None, !.says[i] = Says(w, i),
                             !.left = IF wholeItem THEN {} ELSE @ \ {w.at}]
<1>1. w \in Tx /\ tx \in [Sessions -> Tx]
  BY DEF TypesSound
<1>2. tx' = [tx EXCEPT ![t] = next]
  BY DEF LockItem
<1>3. tx'[t] = next
  BY <1>1, <1>2
<1>4. /\ next.kind = w.kind /\ next.of = w.of /\ next.at = None /\ next.verdict = w.verdict
      /\ next.says = [w.says EXCEPT ![i] = Says(w, i)] /\ next.todo = w.todo
      /\ next.mine = w.mine /\ next.left = IF wholeItem THEN {} ELSE w.left \ {w.at}
  BY <1>1 DEF Tx
<1>5. next.says \in [Items -> ItemStatuses \cup {Undecided}]
  BY <1>1, <1>4, SaysType DEF Tx
<1>6. next \in Tx
  BY <1>1, <1>4, <1>5 DEF Tx
<1> QED
  BY <1>1, <1>2, <1>3, <1>4, <1>6

LEMMA LockItemKeeps ==
    ASSUME RowLocksAssumption, LocksInv, NEW t \in Sessions, NEW i \in Items, LockItem(t, i)
    PROVE  LocksInv'
<1> DEFINE w == tx[t]
           new == ItLock(w.kind, i)
<1>1. TypesSound /\ DOMAIN held = Sessions /\ tx \in [Sessions -> Tx]
  BY DEF LocksInv, TypesSound
<1>2. CASE Refused(w, i)
  <2>1. tx' = [tx EXCEPT ![t] = Idle] /\ held' = [held EXCEPT ![t] = {}]
        /\ UNCHANGED <<status, item, was, begun>>
    BY <1>2 DEF LockItem
  <2>2. \A u \in Sessions \ {t} : tx'[u] = tx[u] /\ held'[u] = held[u]
    BY <1>1, <2>1
  <2>3. TypesSound'
    BY <1>1, <2>1, IdleTx DEF TypesSound
  <2>4. SessionSound(t)'
    BY <1>1, <2>1, IdleSoundNext
  <2> QED
    BY <2>1, <2>2, <2>3, <2>4, Shrinks, StepOf
<1>3. CASE ~ Refused(w, i)
  <2>1. LocksSound(t) /\ ScopeSound(t) /\ (\A q \in w.mine : RowSound(t, q))
        /\ \A e \in Items : ItemSound(t, e)
    BY DEF LocksInv, SessionSound
  <2>2. /\ w.todo = {}
        /\ IF w.kind \in WholeItem THEN i = w.of /\ ~ Holds(t, <<"item", i>>)
                                   ELSE w.at # None /\ i = ItemOf[w.at]
        /\ Free(t, new.row, new.mode) /\ held' = [held EXCEPT ![t] = @ \cup {new}]
        /\ UNCHANGED <<status, item, was, begun>>
    BY <1>3, LockFields DEF LockItem, ItemFree, Hold, ItLock
  <2>3. held'[t] = held[t] \cup {new} /\ \A u \in Sessions \ {t} : held'[u] = held[u]
    BY <1>1, <2>2
  <2>4. TypesSound'
    BY <1>1, <1>3, <2>2, LockItemFields DEF TypesSound
  <2>5. w.kind # "delete_channel"
    BY <2>1, <2>2 DEF ScopeSound, WholeItem
  <2>6. w.kind # "none" /\ w.kind \in Kinds
    BY <1>1, <2>1, <2>2, IdleTx DEF ScopeSound, WholeItem, Tx
  <2>7. w.kind \in Sweeps \/ tx'[t].left = {}
    <3>1. CASE w.kind \in WholeItem
      BY <1>1, <1>3, <3>1, LockItemFields
    <3>2. CASE w.kind \in {"claim", "deliver", "assert"}
      <4>1. w.mine \subseteq {w.of}
        <5>1. Scope(w.kind, w.of) = {w.of}
          BY <3>2, ScopeOfOne
        <5> QED
          BY <2>1, <2>6, <5>1 DEF ScopeSound
      <4>2. w.left \subseteq {w.at}
        BY <2>1, <2>2, <3>2, <4>1 DEF ScopeSound, WholeItem
      <4> QED
        BY <1>1, <1>3, <3>2, <4>2, LockItemFields DEF WholeItem
    <3> QED
      BY <2>5, <2>6, <3>1, <3>2 DEF Kinds, Sweeps, WholeItem
  <2>8. tx'[t].says = [w.says EXCEPT ![i] = Says(w, i)] /\ DOMAIN w.says = Items
    <3>1. w.says \in [Items -> ItemStatuses \cup {Undecided}]
      BY <1>1 DEF Tx
    <3> QED
      BY <1>1, <1>3, <3>1, LockItemFields
  <2>9. SessionSound(t)'
    <3>1. LocksSound(t)'
      <4> SUFFICES ASSUME NEW l \in held'[t]
                   PROVE  LockSound(t, l)'
        BY DEF LocksSound
      <4>1. CASE l = new
        BY <1>1, <1>3, <2>2, <2>5, <2>7, <4>1, LockItemFields DEF LockSound
      <4>2. CASE l \in held[t]
        <5>1. LockSound(t, l)
          BY <2>1, <4>2 DEF LocksSound
        <5>2. CASE \E r \in Rows : l = AdLock(w.kind, r) /\ \A s \in w.todo : r < s
          BY <1>1, <1>3, <2>2, <5>2, LockItemFields DEF LockSound
        <5>3. CASE \E c \in UsedChannels : l = ChLock(c, "key_share")
          BY <1>1, <1>3, <2>2, <2>5, <5>3, LockItemFields DEF LockSound
        <5>4. CASE \E e \in Items : l = ItLock(w.kind, e)
          BY <1>1, <1>3, <2>2, <2>5, <2>7, <5>4, LockItemFields DEF LockSound
        <5> QED
          BY <2>5, <5>1, <5>2, <5>3, <5>4 DEF LockSound
      <4> QED
        BY <2>3, <4>1, <4>2
    <3>2. ScopeSound(t)'
      BY <1>1, <1>3, <2>1, <2>2, <2>5, <2>6, LockItemFields DEF ScopeSound
    <3>3. \A q \in tx'[t].mine : RowSound(t, q)'
      <4> TAKE q \in tx'[t].mine
      <4>1. RowSound(t, q) /\ q \in w.mine
        BY <1>1, <1>3, <2>1, LockItemFields
      <4>2. q \in tx'[t].left \/ HasItem(t, ItemOf[q])'
        <5>1. CASE w.kind \in WholeItem
          <6>1. ItemOf[q] = i
            BY <2>1, <2>2, <2>6, <4>1, <5>1 DEF ScopeSound, Scope, WholeItem, Sweeps, RowsOf
          <6> QED
            BY <1>1, <1>3, <2>3, <6>1, LockItemFields DEF HasItem
        <5>2. CASE w.kind \notin WholeItem
          <6>1. q = w.at \/ q \in tx'[t].left \/ HasItem(t, ItemOf[q])
            BY <1>1, <1>3, <2>5, <4>1, <5>2, LockItemFields DEF RowSound
          <6> QED
            BY <1>1, <1>3, <2>2, <2>3, <5>2, <6>1, LockItemFields DEF HasItem
        <5> QED
          BY <5>1, <5>2
      <4> QED
        BY <1>1, <1>3, <2>2, <2>3, <4>1, <4>2, LockItemFields DEF RowSound, HasRow
    <3>4. \A e \in Items : ItemSound(t, e)'
      <4> TAKE e \in Items
      <4>1. (Refused(tx[t], e)' <=> Refused(tx[t], e)) /\ (Complete(e)' <=> Complete(e))
        BY <1>1, <1>3, <2>2, LockItemFields DEF Refused, Complete
      <4>2. Says(tx[t], e)' = Says(tx[t], e)
        <5>1. \A q \in Rows : Seen(tx[t], q)' = Seen(tx[t], q)
          BY <1>1, <1>3, <2>2, LockItemFields DEF Seen, Writes, NewStatus
        <5>2. RollUp(tx[t], e)' = RollUp(tx[t], e)
          BY <2>2, <5>1 DEF RollUp, RowsOf
        <5> QED
          BY <1>1, <1>3, <2>2, <5>2, LockItemFields DEF Says
      <4>3. CASE e = i
        <5>1. tx'[t].says[i] = Says(w, i)
          BY <2>8
        <5>2. HasItem(t, i)'
          BY <1>1, <1>3, <2>3, LockItemFields DEF HasItem
        <5>3. w.kind \notin WholeItem => \E r \in w.mine : ItemOf[r] = i
          BY <2>1, <2>2 DEF ScopeSound
        <5>4. Says(w, i) # Undecided /\ w.kind # "restore" => item[i] # "archived"
          BY <1>3, <2>6 DEF Says, RollUp, Refused, Kinds, Sweeps
        <5> QED
          BY <1>1, <1>3, <2>2, <4>1, <4>2, <4>3, <5>1, <5>2, <5>3, <5>4, LockItemFields, SaysType
             DEF ItemSound
      <4>4. CASE e # i
        <5>1. HasItem(t, e)' <=> HasItem(t, e)
          <6>1. ItLock(w.kind, e) # new
            BY <4>4, LocksDiffer
          <6>2. tx'[t].kind = w.kind
            BY <1>1, <1>3, LockItemFields
          <6> QED
            BY <2>3, <6>1, <6>2 DEF HasItem
        <5>2. tx'[t].says[e] = w.says[e]
          BY <2>8, <4>4
        <5>3. ItemSound(t, e)
          BY <2>1
        <5> QED
          BY <1>1, <1>3, <2>2, <4>1, <4>2, <5>1, <5>2, <5>3, LockItemFields DEF ItemSound
      <4> QED
        BY <4>3, <4>4
    <3> QED
      BY <3>1, <3>2, <3>3, <3>4 DEF SessionSound
  <2>10. \A u \in Sessions \ {t} : Excluded(t, u)'
    BY <1>1, <2>2, Gains
  <2> QED
    BY <1>1, <1>3, <2>2, <2>3, <2>4, <2>9, <2>10, LockItemFields, StepOf
<1> QED
  BY <1>2, <1>3

(***************************************************************************)
(* Commit                                                                   *)
(***************************************************************************)
LEMMA CommitFields ==
    ASSUME LocksInv, NEW t \in Sessions, Commit(t)
    PROVE  /\ tx'[t] = Idle /\ held'[t] = {} /\ tx' \in [Sessions -> Tx] /\ DOMAIN held' = Sessions
           /\ \A u \in Sessions \ {t} : tx'[u] = tx[u] /\ held'[u] = held[u]
           /\ begun' = begun /\ held' = [held EXCEPT ![t] = {}]
           /\ tx[t].todo = {} /\ tx[t].left = {} /\ tx[t].kind \in Kinds
           /\ tx[t].mine \subseteq Rows
  BY IdleTx DEF LocksInv, TypesSound, Commit, Done, Tx

\* Only its own rows change, and under the lock of their item unless they are deleted.
LEMMA CommitRows ==
    ASSUME LocksInv, NEW t \in Sessions, Commit(t), NEW r \in Rows
    PROVE  /\ status'[r] = Seen(tx[t], r)
           /\ r \notin tx[t].mine => status'[r] = status[r]
           /\ ~ Writes(tx[t]) => status'[r] = status[r]
           /\ status[r] = "gone" => status'[r] = "gone" /\ r \notin tx[t].mine
           /\ status'[r] # status[r] =>
                 r \in tx[t].mine /\ (status'[r] = "gone" \/ HasItem(t, ItemOf[r]))
<1>1. status'[r] = Seen(tx[t], r)
  BY DEF Commit
<1>2. r \in tx[t].mine => RowSound(t, r)
  BY DEF LocksInv, SessionSound
<1>3. r \in tx[t].mine => status[r] # "gone"
  BY <1>2, CommitFields, StatusWanted DEF RowSound
<1>4. r \in tx[t].mine => tx[t].kind = "delete_channel" \/ HasItem(t, ItemOf[r])
  BY <1>2, CommitFields DEF RowSound
<1>5. tx[t].kind = "delete_channel" /\ r \in tx[t].mine => status'[r] = "gone"
  BY <1>1 DEF Seen, NewStatus, Writes
<1> QED
  BY <1>1, <1>3, <1>4, <1>5 DEF Seen

\* An item changes under its own lock, to what was said of it there.
LEMMA CommitItems ==
    ASSUME LocksInv, NEW t \in Sessions, Commit(t), NEW i \in Items
    PROVE  /\ item'[i] = IF tx[t].says[i] = Undecided THEN item[i] ELSE tx[t].says[i]
           /\ tx[t].says[i] # Undecided => HasItem(t, i) /\ tx[t].kind # "claim"
           /\ tx[t].kind \in WholeItem => (HasItem(t, i) <=> i = tx[t].of)
           /\ was'[i] = IF tx[t].kind = "archive" /\ i = tx[t].of THEN item[i] ELSE was[i]
<1>1. LocksSound(t) /\ ItemSound(t, i) /\ was \in [Items -> ItemStatuses \ {"archived"}]
  BY DEF LocksInv, SessionSound, TypesSound
<1>2. tx[t].kind \in WholeItem => HasItem(t, tx[t].of)
  BY <1>1, HeldItem DEF Commit, Done
<1>3. tx[t].kind \in WholeItem => (HasItem(t, i) <=> i = tx[t].of)
  BY <1>1, <1>2 DEF ItemSound
<1>4. item'[i] = IF tx[t].says[i] = Undecided THEN item[i] ELSE tx[t].says[i]
  BY DEF Commit
<1>5. was'[i] = IF tx[t].kind = "archive" /\ i = tx[t].of THEN item[i] ELSE was[i]
  BY <1>1 DEF Commit
<1> QED
  BY <1>1, <1>3, <1>4, <1>5 DEF ItemSound

LEMMA CommitTypes ==
    ASSUME LocksInv, NEW t \in Sessions, Commit(t)
    PROVE  TypesSound'
<1>1. TypesSound
  BY DEF LocksInv
<1>2. tx[t] \in Tx
  BY <1>1 DEF TypesSound
<1>3. status' \in [Rows -> RowStatuses]
  <2>1. \A r \in Rows : Seen(tx[t], r) \in RowStatuses
    BY <1>1, <1>2 DEF TypesSound, Seen, NewStatus, RowStatuses, Tx
  <2> QED
    BY <2>1 DEF Commit
<1>4. item' \in [Items -> ItemStatuses]
  <2>1. \A i \in Items : (IF tx[t].says[i] = Undecided THEN item[i] ELSE tx[t].says[i]) \in ItemStatuses
    BY <1>1, <1>2 DEF TypesSound, Tx
  <2> QED
    BY <2>1 DEF Commit
<1>5. was' \in [Items -> ItemStatuses \ {"archived"}]
  <2>1. CASE tx[t].kind # "archive"
    BY <1>1, <2>1 DEF Commit, TypesSound
  <2>2. CASE tx[t].kind = "archive"
    <3>1. tx[t].of \in Items
      BY <2>2 DEF LocksInv, SessionSound, ScopeSound, Target, Sweeps
    <3>2. HasItem(t, tx[t].of)
      BY <2>2, <3>1, CommitItems DEF WholeItem
    <3>3. item[tx[t].of] # "archived"
      BY <2>2, <3>1, <3>2 DEF LocksInv, SessionSound, ItemSound, Refused
    <3> QED
      BY <1>1, <2>2, <3>1, <3>3 DEF Commit, TypesSound
  <2> QED
    BY <2>1, <2>2
<1> QED
  BY <1>1, <1>3, <1>4, <1>5, CommitFields DEF TypesSound

\* What another session has read stays true.
LEMMA CommitLeavesRows ==
    ASSUME LocksInv, NEW t \in Sessions, Commit(t), NEW u \in Sessions, u # t, NEW r \in tx[u].mine
    PROVE  status'[r] = status[r]
<1>1. r \notin tx[t].mine
  BY RowExclusive
<1>2. r \in Rows
  BY DEF LocksInv, TypesSound, Tx
<1> QED
  BY <1>1, <1>2, CommitRows

LEMMA CommitLeavesItem ==
    ASSUME LocksInv, NEW t \in Sessions, Commit(t), NEW u \in Sessions, u # t, NEW i \in Items,
           HasItem(u, i)
    PROVE  /\ item'[i] = item[i] /\ was'[i] = was[i]
           /\ Complete(i)' => Complete(i)
           /\ tx[u].kind # "claim" /\ Complete(i)' => \A r \in RowsOf(i) : status'[r] = status[r]
<1>1. HasItem(t, i) => tx[t].kind = "claim" /\ tx[u].kind = "claim"
  BY ItemExclusive
<1>2. item'[i] = item[i] /\ was'[i] = was[i]
  BY <1>1, CommitItems DEF WholeItem
<1>3. Complete(i)' => Complete(i)
  BY CommitRows, UsedItems DEF Complete
<1>4. ASSUME tx[u].kind # "claim", Complete(i)', NEW r \in RowsOf(i)
      PROVE  status'[r] = status[r]
  <2>1. r \in Rows /\ ItemOf[r] = i
    BY UsedItems
  <2>2. status'[r] # "gone"
    BY <1>4 DEF Complete
  <2> QED
    BY <1>1, <1>4, <2>1, <2>2, CommitRows
<1> QED
  BY <1>2, <1>3, <1>4

LEMMA CommitOthers ==
    ASSUME LocksInv, NEW t \in Sessions, Commit(t), NEW u \in Sessions, u # t
    PROVE  SessionSound(u)'
<1>1. tx'[u] = tx[u] /\ held'[u] = held[u]
  BY CommitFields
<1>2. LocksSound(u) /\ ScopeSound(u) /\ (\A r \in tx[u].mine : RowSound(u, r))
      /\ \A i \in Items : ItemSound(u, i)
  BY DEF LocksInv, SessionSound
<1>3. LocksSound(u)'
  BY <1>1, <1>2 DEF LocksSound, LockSound
<1>4. ScopeSound(u)'
  <2>1. \A r \in RowsOf(tx[u].of) : status[r] = "gone" => status'[r] = "gone"
    BY CommitRows DEF RowsOf
  <2> QED
    BY <1>1, <1>2, <2>1 DEF ScopeSound
<1>5. \A r \in tx[u].mine : RowSound(u, r)'
  <2> TAKE r \in tx[u].mine
  <2>1. RowSound(u, r) /\ status'[r] = status[r] /\ r \in Rows
    BY <1>2, CommitLeavesRows DEF LocksInv, TypesSound, Tx
  <2>2. tx[u].kind = "assert" => item'[ItemOf[r]] # "archived"
    <3> DEFINE i == ItemOf[r]
    <3> SUFFICES ASSUME tx[u].kind = "assert", item'[i] = "archived"
                 PROVE  FALSE
      OBVIOUS
    <3>1. i \in Items /\ r \in RowsOf(i) /\ item[i] # "archived"
      BY <2>1, ItemsOfRows DEF RowSound
    <3>2. tx[t].says[i] = "archived" /\ HasItem(t, i)
      BY <3>1, CommitItems
    <3>3. tx[t].kind = "archive"
      BY <3>1, <3>2 DEF LocksInv, SessionSound, ItemSound
    <3>4. i = tx[t].of
      BY <3>1, <3>2, <3>3, CommitItems DEF WholeItem
    <3>5. r \in tx[t].todo \cup tx[t].mine \/ status[r] = "gone"
      BY <3>1, <3>3, <3>4 DEF LocksInv, SessionSound, ScopeSound
    <3>6. status[r] = "failed"
      BY <2>1 DEF RowSound, Wanted, Sweeps
    <3> QED
      BY <3>5, <3>6, CommitFields, RowExclusive
  <2> QED
    BY <1>1, <2>1, <2>2 DEF RowSound, HasRow, HasItem
<1>6. \A i \in Items : ItemSound(u, i)'
  <2> TAKE i \in Items
  <2>1. ItemSound(u, i)
    BY <1>2
  <2>2. HasItem(u, i)' <=> HasItem(u, i)
    BY <1>1 DEF HasItem
  <2>3. CASE ~ HasItem(u, i)
    BY <1>1, <2>1, <2>2, <2>3 DEF ItemSound
  <2>4. CASE HasItem(u, i)
    <3>1. item'[i] = item[i] /\ was'[i] = was[i] /\ (Complete(i)' => Complete(i))
      BY <2>4, CommitLeavesItem
    <3>2. Refused(tx[u], i)' <=> Refused(tx[u], i)
      BY <1>1, <3>1, CommitLeavesRows DEF Refused
    <3>3. ASSUME Complete(i)' PROVE Says(tx[u], i)' = Says(tx[u], i)
      <4>1. CASE tx[u].kind = "claim"
        BY <1>1, <4>1 DEF Says
      <4>2. CASE tx[u].kind # "claim"
        <5>1. \A r \in RowsOf(i) : status'[r] = status[r]
          BY <2>4, <3>3, <4>2, CommitLeavesItem
        <5>2. \A r \in RowsOf(i) : Seen(tx[u], r)' = Seen(tx[u], r)
          BY <1>1, <5>1 DEF Seen, Writes, NewStatus
        <5>3. {Seen(tx[u], r) : r \in RowsOf(i)}' = {Seen(tx[u], r) : r \in RowsOf(i)}
          BY <5>2 DEF RowsOf
        <5>4. RollUp(tx[u], i)' = RollUp(tx[u], i)
          BY <3>1, <5>3 DEF RollUp
        <5>5. (\E r \in RowsOf(i) : status[r] = "published")' <=> \E r \in RowsOf(i) : status[r] = "published"
          BY <5>1 DEF RowsOf
        <5> QED
          BY <1>1, <3>1, <5>4, <5>5 DEF Says
      <4> QED
        BY <4>1, <4>2
    <3> QED
      BY <1>1, <2>1, <2>2, <2>4, <3>1, <3>2, <3>3 DEF ItemSound
  <2> QED
    BY <2>3, <2>4
<1> QED
  BY <1>1, <1>3, <1>4, <1>5, <1>6 DEF SessionSound

\* Nothing is written to the rows of an archived item, except that they are deleted.
LEMMA ArchivedRows ==
    ASSUME LocksInv, NEW t \in Sessions, Commit(t), NEW i \in Items, item[i] = "archived",
           NEW r \in RowsOf(i)
    PROVE  status'[r] = status[r] \/ status'[r] = "gone"
<1> DEFINE w == tx[t]
<1> SUFFICES ASSUME r \in w.mine, HasItem(t, i), Writes(w)
             PROVE  FALSE
  BY CommitRows, UsedItems
<1>1. status[r] \notin {"queued", "publishing"}
  BY DEF LocksInv, Follows
<1>2. status[r] \in Wanted(w.kind) /\ (w.kind = "assert" => item[i] # "archived")
  BY UsedItems DEF LocksInv, SessionSound, RowSound
<1>3. ~ Refused(w, i)
  BY DEF LocksInv, SessionSound, ItemSound
<1>4. w.kind # "delete_channel"
  BY LocksDiffer DEF LocksInv, SessionSound, LocksSound, LockSound, HasItem
<1>5. w.kind \notin {"claim", "deliver", "sweep_abandoned", "sweep_stranded"}
  BY <1>1, <1>2 DEF Wanted
<1>6. w.kind \notin {"approve", "reject", "assert"}
  BY <1>2, <1>3 DEF Refused
<1> QED
  BY <1>4, <1>5, <1>6, CommitFields DEF Kinds, Writes

LEMMA NotPublishedWanted ==
    \A kind \in {"claim", "deliver", "assert", "sweep_abandoned", "sweep_stranded"} :
        "published" \notin Wanted(kind)
  BY DEF Wanted, Sweeps

LEMMA CommitFollows ==
    ASSUME LocksInv, NEW t \in Sessions, Commit(t), NEW i \in Items
    PROVE  Follows(i)'
<1> DEFINE w == tx[t]
<1>1. Follows(i) /\ ItemSound(t, i) /\ ScopeSound(t) /\ \A r \in w.mine : RowSound(t, r)
  BY DEF LocksInv, SessionSound
<1>2. \A r \in RowsOf(i) : r \in Rows /\ ItemOf[r] = i
  BY UsedItems
<1>3. Complete(i)' => Complete(i)
  BY <1>2, CommitRows DEF Complete
<1>4. CASE ~ HasItem(t, i)
  <2>1. item'[i] = item[i] /\ was'[i] = was[i]
    BY <1>4, CommitItems DEF WholeItem
  <2>2. \A r \in RowsOf(i) : status'[r] = status[r] \/ status'[r] = "gone"
    BY <1>2, <1>4, CommitRows
  <2>3. Complete(i)' => (AllPublished(i)' <=> AllPublished(i))
    BY <2>2 DEF Complete, AllPublished
  <2> QED
    BY <1>1, <1>3, <2>1, <2>2, <2>3 DEF Follows
<1>5. CASE HasItem(t, i)
  <2>1. w.kind # "delete_channel"
    BY <1>5, LocksDiffer DEF LocksInv, SessionSound, LocksSound, LockSound, HasItem
  <2>2. item'[i] = IF w.says[i] = Undecided THEN item[i] ELSE w.says[i]
    BY CommitItems
  <2>3. Complete(i) => w.says[i] = Says(w, i)
    BY <1>1, <1>5 DEF ItemSound
  <2>4. ~ Refused(w, i)
    BY <1>1, <1>5 DEF ItemSound
  <2>5. CASE item[i] = "archived"
    <3>1. \A r \in RowsOf(i) : status'[r] = status[r] \/ status'[r] = "gone"
      BY <2>5, ArchivedRows
    <3>2. Complete(i)' => (AllPublished(i)' <=> AllPublished(i))
      BY <3>1 DEF Complete, AllPublished
    <3>3. CASE item'[i] = "archived"
      <4>1. was'[i] = was[i]
        BY <2>4, <2>5, CommitItems DEF Refused
      <4> QED
        BY <1>1, <1>3, <2>5, <3>1, <3>2, <3>3, <4>1 DEF Follows
    <3>4. CASE item'[i] # "archived"
      <4>1. w.kind = "restore"
        BY <1>1, <1>5, <2>2, <2>5, <3>4 DEF ItemSound
      <4>2. Complete(i)' => item'[i] = was[i]
        BY <1>3, <2>2, <2>3, <4>1, <3>4, <2>5 DEF Says, Sweeps
      <4> QED
        BY <1>1, <1>3, <2>5, <3>2, <3>4, <4>2 DEF Follows
    <3> QED
      BY <3>3, <3>4
  <2>6. CASE item[i] # "archived" /\ item'[i] = "archived"
    <3>1. w.kind = "archive"
      BY <1>1, <1>5, <2>2, <2>6 DEF ItemSound
    <3>2. i = w.of /\ was'[i] = item[i]
      BY <1>5, <3>1, CommitItems DEF WholeItem
    <3>3. \A r \in RowsOf(i) : status'[r] = status[r]
      BY <1>2, <3>1, CommitRows DEF Writes
    <3>4. \A r \in RowsOf(i) : status[r] \notin {"queued", "publishing"}
      <4> TAKE r \in RowsOf(i)
      <4>1. r \in w.mine \/ status[r] = "gone"
        BY <1>1, <3>1, <3>2, CommitFields DEF ScopeSound
      <4> QED
        BY <2>4, <3>1, <4>1 DEF Refused
    <3>5. AllPublished(i)' <=> AllPublished(i)
      BY <3>3 DEF AllPublished
    <3> QED
      BY <1>1, <1>3, <2>6, <3>2, <3>3, <3>4, <3>5 DEF Follows
  <2>7. CASE item[i] # "archived" /\ item'[i] # "archived"
    <3> SUFFICES ASSUME Complete(i)'
                 PROVE  item'[i] = "published" <=> AllPublished(i)'
      BY <2>7 DEF Follows
    <3>1. Complete(i) /\ w.says[i] = Says(w, i) /\ (item[i] = "published" <=> AllPublished(i))
      BY <1>1, <1>3, <2>3, <2>7 DEF Follows
    <3>2. w.kind \notin {"archive", "restore"}
      BY <1>1, <1>5, <2>2, <2>4, <2>7 DEF ItemSound, Refused, Undecided
    <3>3. CASE w.kind \in {"approve", "reject"}
      <4>1. item[i] # "published"
        BY <2>4, <3>3 DEF Refused
      <4>2. PICK r \in RowsOf(i) : status[r] # "published"
        BY <3>1, <4>1 DEF AllPublished
      <4>3. status'[r] # "published"
        BY <1>2, <3>3, <4>2, CommitRows DEF Seen, NewStatus
      <4>4. w.says[i] \in {"approved", "partially_published", "rejected"}
        BY <3>1, <3>3 DEF Says, Sweeps
      <4>5. item'[i] # "published"
        BY <2>2, <4>4 DEF Undecided
      <4> QED
        BY <4>2, <4>3, <4>5 DEF AllPublished
    <3>4. CASE w.kind \in {"claim", "deliver", "assert", "sweep_abandoned", "sweep_stranded"}
      <4>1. PICK r \in w.mine : ItemOf[r] = i
        BY <1>1, <1>5, <3>4 DEF ItemSound, WholeItem
      <4>2. r \in RowsOf(i) /\ r \in Rows
        BY <4>1, CommitFields DEF RowsOf
      <4>3. status[r] # "published"
        BY <1>1, <3>4, NotPublishedWanted DEF RowSound
      <4>4. item[i] # "published"
        BY <3>1, <4>2, <4>3 DEF AllPublished
      <4>5. CASE w.kind = "claim"
        <5>1. item'[i] # "published"
          BY <1>1, <1>5, <2>2, <4>4, <4>5 DEF ItemSound
        <5>2. status'[r] = "publishing"
          BY <4>1, <4>2, <4>5, CommitRows DEF Seen, NewStatus, Writes
        <5> QED
          BY <4>2, <5>1, <5>2 DEF AllPublished
      <4>6. CASE w.kind # "claim"
        <5> DEFINE S == {Seen(w, q) : q \in RowsOf(i)} \ {"gone"}
        <5>1. w.says[i] = NextItemStatus(S)
          BY <2>7, <3>1, <3>4, <4>6 DEF Says, RollUp
        <5>2. \A q \in RowsOf(i) : Seen(w, q) = status'[q] /\ status'[q] # "gone"
          BY <1>2, CommitRows DEF Complete
        <5>3. S = {"published"} <=> AllPublished(i)'
          <6>1. S = {Seen(w, q) : q \in RowsOf(i)}
            BY <5>2
          <6>2. Seen(w, r) \in S
            BY <4>2, <6>1
          <6>3. AllPublished(i)' <=> \A q \in RowsOf(i) : Seen(w, q) = "published"
            BY <5>2 DEF AllPublished, RowsOf
          <6>4. ASSUME S = {"published"} PROVE AllPublished(i)'
            BY <6>1, <6>3, <6>4
          <6>5. ASSUME AllPublished(i)' PROVE S = {"published"}
            BY <6>1, <6>2, <6>3, <6>5
          <6> QED
            BY <6>4, <6>5
        <5>4. w.says[i] = "published" <=> S = {"published"}
          BY <5>1, FoldType
        <5>5. item'[i] = "published" <=> w.says[i] = "published"
          BY <2>2, <4>4 DEF Undecided
        <5> QED
          BY <5>3, <5>4, <5>5
      <4> QED
        BY <4>5, <4>6
    <3> QED
      BY <2>1, <3>2, <3>3, <3>4, CommitFields DEF Kinds
  <2> QED
    BY <2>5, <2>6, <2>7
<1> QED
  BY <1>4, <1>5

LEMMA CommitKeeps ==
    ASSUME LocksInv, NEW t \in Sessions, Commit(t)
    PROVE  LocksInv'
<1>1. SessionSound(t)'
  BY CommitFields, IdleSoundNext
<1>2. \A u \in Sessions : SessionSound(u)'
  BY <1>1, CommitOthers
<1>3. \A u, v \in Sessions : Excluded(u, v)'
  <2> TAKE u, v \in Sessions
  <2>1. Excluded(u, v)
    BY DEF LocksInv
  <2>2. CASE u # t /\ v # t
    BY <2>1, <2>2, CommitFields DEF Excluded
  <2>3. CASE u = t \/ v = t
    BY <2>3, CommitFields DEF Excluded
  <2> QED
    BY <2>2, <2>3
<1> QED
  BY <1>2, <1>3, CommitTypes, CommitFollows DEF LocksInv

(***************************************************************************)
(* The invariant, and what it implies                                       *)
(***************************************************************************)
LEMMA InitHolds ==
    ASSUME RowLocksAssumption, Init
    PROVE  LocksInv
<1>1. TypesSound
  <2>1. tx \in [Sessions -> Tx]
    BY IdleTx DEF Init
  <2> QED
    BY <2>1 DEF Init, TypesSound, RowStatuses, ItemStatuses, RowLocksAssumption
<1>2. \A t, u \in Sessions : Excluded(t, u)
  BY DEF Init, Excluded
<1>3. \A t \in Sessions : SessionSound(t)
  BY IdleSound DEF Init
<1>4. \A i \in Items : Follows(i)
  <2> TAKE i \in Items
  <2>1. item[i] = "approved"
    BY DEF Init
  <2>2. PICK r \in Rows : r \in RowsOf(i)
    BY ItemHasRows
  <2>3. status[r] # "published"
    BY <2>2 DEF Init
  <2> QED
    BY <2>1, <2>2, <2>3 DEF Follows, AllPublished
<1> QED
  BY <1>1, <1>2, <1>3, <1>4 DEF LocksInv

LEMMA NextKeeps ==
    ASSUME RowLocksAssumption, LocksInv, [Next]_vars
    PROVE  LocksInv'
<1>1. CASE UNCHANGED vars
  <2>1. TypesSound' /\ (\A t, u \in Sessions : Excluded(t, u)') /\ \A i \in Items : Follows(i)'
    BY <1>1 DEF vars, LocksInv, TypesSound, Excluded, Follows, Complete, AllPublished
  <2>2. \A t \in Sessions : SessionSound(t)'
    BY <1>1, Undisturbed DEF vars, LocksInv
  <2> QED
    BY <2>1, <2>2 DEF LocksInv
<1>2. CASE Next
  <2>1. PICK t \in Sessions :
           \/ \E kind \in Kinds : \E of \in Target(kind), verdict \in {"published", "failed"} :
                 Begin(t, kind, of, verdict)
           \/ \E r \in Rows : LockRow(t, r) \/ LockChannel(t, r) \/ SkipChannel(t, r)
           \/ \E i \in Items : LockItem(t, i)
           \/ DeleteChannel(t)
           \/ Commit(t) \/ Rollback(t)
    BY <1>2 DEF Next
  <2>2. CASE \E kind \in Kinds : \E of \in Target(kind), verdict \in {"published", "failed"} :
                Begin(t, kind, of, verdict)
    BY <2>2, BeginKeeps
  <2>3. CASE \E r \in Rows : LockRow(t, r)
    BY <2>3, LockRowKeeps
  <2>4. CASE \E r \in Rows : LockChannel(t, r) \/ SkipChannel(t, r)
    BY <2>4, ChannelKeeps
  <2>5. CASE \E i \in Items : LockItem(t, i)
    BY <2>5, LockItemKeeps
  <2>6. CASE DeleteChannel(t)
    BY <2>6, DeleteChannelKeeps
  <2>7. CASE Commit(t)
    BY <2>7, CommitKeeps
  <2>8. CASE Rollback(t)
    BY <2>8, RollbackKeeps
  <2> QED
    BY <2>1, <2>2, <2>3, <2>4, <2>5, <2>6, <2>7, <2>8
<1> QED
  BY <1>1, <1>2

\* Every session keeps the lock order, and what it has read is true until it commits.
THEOREM LocksHold == RowLocksAssumption => (Spec => []LocksInv)
<1> SUFFICES ASSUME RowLocksAssumption
             PROVE  Spec => []LocksInv
  OBVIOUS
<1>1. Init => LocksInv
  BY InitHolds
<1>2. LocksInv /\ [Next]_vars => LocksInv'
  BY NextKeeps
<1> QED
  BY <1>1, <1>2, PTL DEF Spec

\* Rows, items and transactions keep their types.
THEOREM LocksTypes == RowLocksAssumption => (Spec => []TypeOK)
<1>1. LocksInv => TypeOK
  <2> SUFFICES ASSUME LocksInv
               PROVE  TypeOK
    OBVIOUS
  <2>1. TypesSound
    BY DEF LocksInv
  <2>2. \A t \in Sessions : /\ tx[t].kind \in Kinds \cup {"none"}
                            /\ tx[t].mine \cup tx[t].todo \subseteq Rows
                            /\ tx[t].says \in [Items -> ItemStatuses \cup {Undecided}]
    BY <2>1 DEF TypesSound, Tx
  <2> QED
    BY <2>1, <2>2 DEF TypesSound, TypeOK
<1> QED
  BY <1>1, LocksHold, PTL

\* The item reads published exactly when every channel of it does, however the transactions
\* that end its deliveries overlap: each reads the siblings under the item's lock.
THEOREM ItemsFollowRows == RowLocksAssumption => (Spec => []PublishedTogether)
<1>1. LocksInv => PublishedTogether
  BY DEF LocksInv, Follows, Complete, AllPublished, PublishedTogether
<1> QED
  BY <1>1, LocksHold, PTL

\* An archived item has nothing left to send.
THEOREM ArchivedHasNothingToSend == RowLocksAssumption => (Spec => []ArchivedIsQuiet)
<1>1. LocksInv => ArchivedIsQuiet
  BY DEF LocksInv, Follows, ArchivedIsQuiet
<1> QED
  BY <1>1, LocksHold, PTL

LEMMA ArchivedNext ==
    ASSUME LocksInv, Next, NEW i \in Items, item[i] = "archived", item'[i] # "archived"
    PROVE  \E t \in Sessions : tx[t].kind = "restore" /\ tx[t].of = i /\ tx'[t].kind = "none"
<1>1. PICK t \in Sessions : Commit(t)
  BY DEF Next, Begin, LockRow, LockChannel, SkipChannel, LockItem, DeleteChannel, Rollback
<1>2. tx[t].says[i] # Undecided /\ HasItem(t, i)
  BY <1>1, CommitItems
<1>3. tx[t].kind = "restore"
  BY <1>2 DEF LocksInv, SessionSound, ItemSound
<1>4. tx[t].of = i
  BY <1>1, <1>2, <1>3, CommitItems DEF WholeItem
<1>5. tx'[t].kind = "none"
  BY <1>1, CommitFields, IdleTx
<1> QED
  BY <1>3, <1>4, <1>5

\* Only a restore brings an archived item back: no late verdict, assertion or sweep.
THEOREM OnlyRestoreRevives == RowLocksAssumption => (Spec => ArchivedStays)
<1>1. LocksInv /\ [Next]_vars =>
        [\A i \in Items : item[i] = "archived" =>
            \/ item'[i] = "archived"
            \/ \E t \in Sessions : tx[t].kind = "restore" /\ tx[t].of = i /\ tx'[t].kind = "none"]_vars
  BY ArchivedNext
<1> QED
  BY <1>1, LocksHold, PTL DEF Spec, ArchivedStays

(***************************************************************************)
(* No circle                                                                *)
(***************************************************************************)
\* A finite set of numbers has a largest one.
LEMMA Largest ==
    ASSUME NEW X \in SUBSET Nat, IsFiniteSet(X), X # {}
    PROVE  \E m \in X : \A x \in X : x <= m
<1> DEFINE Bad == {Y \in FiniteSubsetsOf(Nat) : Y # {} /\ ~ \E m \in Y : \A x \in Y : x <= m}
           R   == StrictSubsetOrdering(Nat)
<1>1. SUFFICES ASSUME Bad # {}
               PROVE  FALSE
  BY DEF FiniteSubsetsOf
<1>2. PICK Y \in Bad : \A Z \in Bad : <<Z, Y>> \notin R
  <2>1. IsWellFoundedOn(R, FiniteSubsetsOf(Nat)) /\ Bad \subseteq FiniteSubsetsOf(Nat)
    BY FS_StrictSubsetOrderingWellFounded
  <2> HIDE DEF R, Bad
  <2> QED
    BY <1>1, <2>1, WFMin
<1>3. PICK y : y \in Y
  BY <1>2
<1> DEFINE Z == Y \ {y}
<1>4. Y \subseteq Nat /\ IsFiniteSet(Y) /\ Z \subseteq Nat /\ IsFiniteSet(Z)
  BY FS_RemoveElement DEF FiniteSubsetsOf
<1>5. Z # {}
  BY <1>2, <1>3, <1>4
<1>6. Z \notin Bad
  BY <1>2, <1>3, <1>4 DEF StrictSubsetOrdering
<1>7. PICK m \in Z : \A x \in Z : x <= m
  BY <1>4, <1>5, <1>6 DEF FiniteSubsetsOf
<1>8. CASE y <= m
  BY <1>2, <1>7, <1>8
<1>9. CASE m < y
  <2>1. \A x \in Y : x <= y
    BY <1>3, <1>4, <1>7, <1>9
  <2> QED
    BY <1>2, <1>3, <2>1
<1> QED
  BY <1>3, <1>4, <1>7, <1>8, <1>9

AsksRow(t, r) == r \in tx[t].todo /\ NextRow(tx[t], r)
AsksParent(t) == (\E i \in Items : AsksItem(t, i)) \/ \E c, m : AsksChannel(t, c, m)

\* Who waits asks for an adaptation, an item or a channel, and another session holds it.
LEMMA WaitsFor ==
    ASSUME LocksInv, NEW t \in Sessions, NEW u \in Sessions, Waits(t, u)
    PROVE  \/ \E r \in Rows : AsksRow(t, r) /\ \E l \in held[u] : l.row = <<"adaptation", r>>
           \/ \E i \in Items : AsksItem(t, i) /\ \E l \in held[u] : l.row = <<"item", i>>
           \/ \E c, m : AsksChannel(t, c, m)
                        /\ \E l \in held[u] : l.row = <<"channel", c>> /\ Conflicts(m, l.mode)
<1>1. PICK a \in Asks(t), l \in held[u] : a.row = l.row /\ Conflicts(a.mode, l.mode)
  BY DEF Waits
<1>2. tx[t].todo \subseteq Rows
  BY DEF LocksInv, TypesSound, Tx
<1>3. CASE \E r \in tx[t].todo : NextRow(tx[t], r) /\ a = [row |-> <<"adaptation", r>>, mode |-> RowMode(tx[t].kind)]
  BY <1>1, <1>2, <1>3 DEF AsksRow
<1>4. CASE \E i \in Items : AsksItem(t, i) /\ a = [row |-> <<"item", i>>, mode |-> ItemMode(tx[t].kind)]
  BY <1>1, <1>4
<1>5. CASE \E q \in UsedChannels \X {"key_share", "update"} :
             AsksChannel(t, q[1], q[2]) /\ a = [row |-> <<"channel", q[1]>>, mode |-> q[2]]
  BY <1>1, <1>5
<1> QED
  BY <1>1, <1>3, <1>4, <1>5 DEF Asks

\* Whoever holds an adaptation asks for none before it.
LEMMA RowsInOrder ==
    ASSUME RowLocksAssumption, LocksInv, NEW u \in Sessions, NEW r \in Rows, NEW s \in Rows,
           NEW l \in held[u], l.row = <<"adaptation", r>>, AsksRow(u, s)
    PROVE  r < s
<1>1. LockSound(u, l)
  BY DEF LocksInv, SessionSound, LocksSound
<1>2. PICK q \in Rows : l = AdLock(tx[u].kind, q) /\ \A e \in tx[u].todo : q < e
  BY <1>1, LockFields, Places DEF LockSound
<1>3. q = r
  BY <1>2, LockFields, Places
<1> QED
  BY <1>2, <1>3 DEF AsksRow

\* Whoever holds an item has all its adaptations; unless it sweeps, it asks for nothing more.
LEMMA ItemsComeLast ==
    ASSUME LocksInv, NEW u \in Sessions, NEW i, NEW l \in held[u], l.row = <<"item", i>>
    PROVE  /\ ~ \E r : AsksRow(u, r)
           /\ tx[u].kind \notin Sweeps => ~ AsksParent(u)
           /\ ~ \E c : AsksChannel(u, c, "update")
<1>1. LockSound(u, l) /\ ScopeSound(u) /\ \A e \in Items : ItemSound(u, e)
  BY DEF LocksInv, SessionSound, LocksSound
<1>2. PICK e \in Items : l = ItLock(tx[u].kind, e)
  BY <1>1, LockFields, Places DEF LockSound
<1>3. /\ tx[u].todo = {} /\ tx[u].kind # "delete_channel"
      /\ tx[u].kind \in Sweeps \/ (tx[u].left = {} /\ tx[u].at = None)
  BY <1>1, <1>2, LocksDiffer DEF LockSound
<1>4. HasItem(u, e)
  BY <1>2 DEF HasItem
<1>5. tx[u].kind \in WholeItem => Holds(u, <<"item", tx[u].of>>)
  BY <1>1, <1>2, <1>4, LockFields DEF ItemSound, Holds
<1>6. ASSUME tx[u].kind \notin Sweeps PROVE ~ AsksParent(u)
  BY <1>3, <1>5, <1>6 DEF AsksParent, AsksItem, AsksChannel
<1> QED
  BY <1>3, <1>6 DEF AsksRow, AsksChannel

\* Whoever holds a channel asks for no channel or adaptation that another could hold it up with.
LEMMA ChannelsComeLate ==
    ASSUME LocksInv, NEW u \in Sessions, NEW c, NEW l \in held[u], l.row = <<"channel", c>>
    PROVE  /\ ~ \E r : AsksRow(u, r)
           /\ ~ \E d : AsksChannel(u, d, "update")
           /\ l.mode # "key_share" => ~ AsksParent(u)
<1>1. LockSound(u, l) /\ ScopeSound(u)
  BY DEF LocksInv, SessionSound, LocksSound
<1>2. \/ tx[u].todo = {} /\ tx[u].kind # "delete_channel" /\ l.mode = "key_share"
      \/ tx[u].todo = {} /\ tx[u].kind = "delete_channel" /\ tx[u].left = {}
  BY <1>1, LockFields, Places DEF LockSound
<1>3. ~ \E r : AsksRow(u, r)
  BY <1>2 DEF AsksRow
<1>4. ~ \E d : AsksChannel(u, d, "update")
  BY <1>2 DEF AsksChannel
<1>5. ASSUME l.mode # "key_share" PROVE ~ AsksParent(u)
  BY <1>1, <1>2, <1>5 DEF AsksParent, AsksItem, AsksChannel, ScopeSound, MayInsert, WholeItem, Sweeps
<1> QED
  BY <1>3, <1>4, <1>5

ByRow(t, u, r) == AsksRow(t, r) /\ \E l \in held[u] : l.row = <<"adaptation", r>>
ByItem(t, u)   == \E i \in Items : AsksItem(t, i) /\ \E l \in held[u] : l.row = <<"item", i>>
ByChannel(t, u) ==
    \E c : AsksChannel(t, c, "update") /\ \E l \in held[u] : l.row = <<"channel", c>>

Circle(S) == S \in SUBSET Sessions /\ S # {} /\ \A t \in S : \E u \in S : Waits(t, u)

\* In a circle nobody waits for a channel that is being deleted: its session has all it wants.
LEMMA CircleKinds ==
    ASSUME LocksInv, NEW S, Circle(S), NEW t \in S, NEW u \in S, Waits(t, u)
    PROVE  (\E r \in Rows : ByRow(t, u, r)) \/ ByItem(t, u) \/ ByChannel(t, u)
<1>1. t \in Sessions /\ u \in Sessions
  BY DEF Circle
<1>2. (\E r : AsksRow(u, r)) \/ AsksParent(u)
  <2>1. PICK v \in S : Waits(u, v)
    BY DEF Circle
  <2>2. v \in Sessions
    BY DEF Circle
  <2> QED
    BY <1>1, <2>1, <2>2, WaitsFor DEF AsksParent
<1>3. ASSUME NEW c, NEW m, AsksChannel(t, c, m), NEW l \in held[u],
             l.row = <<"channel", c>>, Conflicts(m, l.mode)
      PROVE  m = "update"
  <2>1. m \in {"key_share", "update"}
    BY <1>3 DEF AsksChannel
  <2>2. m = "key_share" => l.mode # "key_share"
    BY <1>3 DEF Conflicts
  <2> QED
    BY <1>1, <1>2, <1>3, <2>1, <2>2, ChannelsComeLate
<1>4. ASSUME NEW c, NEW m, AsksChannel(t, c, m),
             \E l \in held[u] : l.row = <<"channel", c>> /\ Conflicts(m, l.mode)
      PROVE  ByChannel(t, u)
  BY <1>3, <1>4 DEF ByChannel
<1>5. ASSUME NEW i \in Items, AsksItem(t, i), \E l \in held[u] : l.row = <<"item", i>>
      PROVE  ByItem(t, u)
  BY <1>5 DEF ByItem
<1>6. ASSUME NEW r \in Rows, AsksRow(t, r), \E l \in held[u] : l.row = <<"adaptation", r>>
      PROVE  ByRow(t, u, r)
  BY <1>6 DEF ByRow
<1>7. \/ \E r \in Rows : AsksRow(t, r) /\ \E l \in held[u] : l.row = <<"adaptation", r>>
      \/ \E i \in Items : AsksItem(t, i) /\ \E l \in held[u] : l.row = <<"item", i>>
      \/ \E c, m : AsksChannel(t, c, m)
                   /\ \E l \in held[u] : l.row = <<"channel", c>> /\ Conflicts(m, l.mode)
  BY <1>1, WaitsFor
<1> QED
  BY <1>4, <1>5, <1>6, <1>7

\* Waiting for adaptations alone goes up in the order of their ids, and so ends.
LEMMA CircleLeavesRows ==
    ASSUME RowLocksAssumption, LocksInv, NEW S, Circle(S)
    PROVE  \E t, u \in S : Waits(t, u) /\ ~ \E r \in Rows : ByRow(t, u, r)
<1> SUFFICES ASSUME \A t, u \in S : Waits(t, u) => \E r \in Rows : ByRow(t, u, r)
             PROVE  FALSE
  OBVIOUS
<1> DEFINE X == {r \in Rows : \E t, u \in S : ByRow(t, u, r)}
<1>1. X # {}
  BY DEF Circle
<1>2. X \subseteq Nat /\ IsFiniteSet(X)
  BY FS_Subset DEF RowLocksAssumption
<1>3. PICK m \in X : \A x \in X : x <= m
  <2> HIDE DEF X
  <2> QED
    BY <1>1, <1>2, Largest
<1>4. PICK t \in S, u \in S : ByRow(t, u, m)
  BY <1>3
<1>5. PICK v \in S : Waits(u, v)
  BY DEF Circle
<1>6. PICK r \in Rows : ByRow(u, v, r)
  BY <1>5
<1>7. u \in Sessions
  BY DEF Circle
<1>8. m < r
  BY <1>3, <1>4, <1>6, <1>7, RowsInOrder DEF ByRow
<1>9. r <= m /\ r \in Nat /\ m \in Nat
  BY <1>2, <1>3, <1>6
<1> QED
  BY <1>8, <1>9

\* Whoever waits for an item waits for a sweep, and that one for the item of another.
LEMMA HolderSweeps ==
    ASSUME LocksInv, NEW S, Circle(S), NEW t \in S, NEW u \in S, ByItem(t, u)
    PROVE  tx[u].kind \in Sweeps /\ \E v \in S \ {u} : ByItem(u, v)
<1>1. u \in Sessions
  BY DEF Circle
<1>2. PICK v \in S : Waits(u, v)
  BY DEF Circle
<1>3. (\E r \in Rows : ByRow(u, v, r)) \/ ByItem(u, v) \/ ByChannel(u, v)
  BY <1>2, CircleKinds
<1>4. PICK i \in Items, l \in held[u] : l.row = <<"item", i>>
  BY DEF ByItem
<1>5. /\ ~ \E r : AsksRow(u, r)
      /\ tx[u].kind \notin Sweeps => ~ AsksParent(u)
      /\ ~ \E c : AsksChannel(u, c, "update")
  BY <1>1, <1>4, ItemsComeLast
<1>6. ByItem(u, v)
  BY <1>3, <1>5 DEF ByRow, ByChannel
<1>7. AsksParent(u)
  BY <1>6 DEF ByItem, AsksParent
<1>8. v # u
  BY <1>2 DEF Waits
<1> QED
  BY <1>5, <1>6, <1>7, <1>8

LEMMA TwoSweeps ==
    ASSUME RowLocksAssumption, LocksInv, NEW S, Circle(S)
    PROVE  Cardinality({t \in S : tx[t].kind \in Sweeps}) >= 2
<1> DEFINE W == {t \in S : tx[t].kind \in Sweeps}
<1>1. \E t, u \in S : ByItem(t, u)
  <2>1. PICK t \in S, u \in S : Waits(t, u) /\ ~ \E r \in Rows : ByRow(t, u, r)
    BY CircleLeavesRows
  <2>2. ByItem(t, u) \/ ByChannel(t, u)
    BY <2>1, CircleKinds
  <2>3. CASE ByChannel(t, u)
    <3>1. PICK c : \E l \in held[u] : l.row = <<"channel", c>>
      BY <2>3 DEF ByChannel
    <3>2. ~ (\E r : AsksRow(u, r)) /\ ~ \E d : AsksChannel(u, d, "update")
      BY <3>1, ChannelsComeLate DEF Circle
    <3>3. PICK v \in S : Waits(u, v)
      BY DEF Circle
    <3>4. (\E r \in Rows : ByRow(u, v, r)) \/ ByItem(u, v) \/ ByChannel(u, v)
      BY <3>3, CircleKinds
    <3> QED
      BY <3>2, <3>4 DEF ByRow, ByChannel
  <2> QED
    BY <2>2, <2>3
<1>2. PICK t \in S, u \in S : ByItem(t, u)
  BY <1>1
<1>3. PICK v \in S \ {u} : tx[u].kind \in Sweeps /\ ByItem(u, v)
  BY <1>2, HolderSweeps
<1>4. tx[v].kind \in Sweeps
  BY <1>3, HolderSweeps
<1>5. u \in W /\ v \in W /\ u # v
  BY <1>3, <1>4
<1>6. IsFiniteSet(W) /\ Cardinality(W) \in Nat
  <2>1. W \in SUBSET Sessions
    BY DEF Circle
  <2> QED
    BY <2>1, FS_Subset, FS_CardinalityType DEF RowLocksAssumption
<1>7. Cardinality({u, v}) = 2 /\ {u, v} \in SUBSET W
  <2>1. {u, v} = {u} \cup {v} /\ v \notin {u}
    BY <1>5
  <2>2. IsFiniteSet({u}) /\ Cardinality({u}) = 1
    BY FS_Singleton
  <2>3. Cardinality({u} \cup {v}) = Cardinality({u}) + 1
    BY <2>1, <2>2, FS_AddElement
  <2> QED
    BY <1>5, <2>1, <2>2, <2>3
<1>8. Cardinality({u, v}) <= Cardinality(W)
  BY <1>6, <1>7, FS_Subset
<1> QED
  BY <1>6, <1>7, <1>8

\* Transactions never wait in a circle, two overlapping sweeps excepted: adaptations are
\* locked by id, their item after them, and only a sweep goes on after an item.
THEOREM NobodyWaitsInACircle == RowLocksAssumption => (Spec => []NoDeadlock)
<1> SUFFICES ASSUME RowLocksAssumption
             PROVE  Spec => []NoDeadlock
  OBVIOUS
<1>1. LocksInv => NoDeadlock
  <2> SUFFICES ASSUME LocksInv, NEW S \in (SUBSET Sessions) \ {{}}, \A t \in S : \E u \in S : Waits(t, u)
               PROVE  Cardinality({t \in S : tx[t].kind \in Sweeps}) >= 2
    BY DEF NoDeadlock
  <2>1. Circle(S)
    <3>1. S \in SUBSET Sessions /\ S # {}
      OBVIOUS
    <3> QED
      BY <3>1 DEF Circle
  <2> QED
    BY <2>1, TwoSweeps
<1> QED
  BY <1>1, LocksHold, PTL
=============================================================================
