------------------------- MODULE PublishInvariant -------------------------
(***************************************************************************)
(* The inductive invariant behind the safety properties of Publish.         *)
(***************************************************************************)
EXTENDS Publish

MayBeLive == {"in_flight", "published", "unknown"}

\* Receipts of one adaptation that may stand for a live post nobody vouched for.
Live(rows, clear) ==
    {i \in DOMAIN rows : /\ rows[i].st \in MayBeLive
                         /\ ~ rows[i].human
                         /\ ~ rows[i].superseded
                         /\ i > clear}

LastUnknown(rows) ==
    LET finished == RowsIn(rows, {"published", "failed", "unknown"})
    IN  \E i \in finished : rows[i].st = "unknown" /\ \A j \in finished : j <= i

\* The history of an adaptation in status st: only the newest receipt is in
\* flight, at most one may be live, and none may be when another send is allowed.
SoundHistory(st, rows, clear) ==
    /\ \A i \in RowsIn(rows, {"in_flight"}) : i = Len(rows) /\ st = "publishing"
    /\ \A i \in DOMAIN rows : rows[i].posted => rows[i].st \in MayBeLive /\ ~ rows[i].human
    /\ \A i, j \in Live(rows, clear) : i = j
    /\ st \in {"pending", "manual_ready", "scheduled", "queued"} => Live(rows, clear) = {}
    /\ st = "publishing" => Live(rows, clear) \subseteq RowsIn(rows, {"in_flight"})
    /\ st = "failed" /\ Live(rows, clear) # {} => LastUnknown(rows)

Histories == \A a \in Adaptations : SoundHistory(status[a], receipts[a], cleared[a])

\* Nothing is in flight and nothing may be live.
QuietRow(a) ==
    /\ Live(receipts[a], cleared[a]) = {}
    /\ RowsIn(receipts[a], {"in_flight"}) = {}

\* An adaptation no adapter serves is never sent.
UnsupportedNeverSent == \A a \in Unsupported : QuietRow(a)

PublishingAuthorised ==
    \A a \in Adaptations : status[a] = "publishing" =>
        item \notin {"rejected", "archived"} /\ slot[a] <= now

\* What a callback knows at each point, of its adaptation's attempt count n and
\* of the clock.
Claimants == {"claimed", "replied"}
Attempting == Claimants \cup {"marked", "unclaimed"}

FenceSound(w, n, clock) ==
    /\ w.pc \in {"loaded", "ready"} /\ w.due # "early" => w.slot <= clock
    /\ w.pc = "ready" => w.due # "early"
    /\ w.pc = "unsupported" => w.a \in Unsupported
    /\ w.pc \in Attempting \cup {"ready"} => w.a \notin Unsupported
    /\ w.pc \notin Claimants => w.claim = 0
    /\ w.pc \in Attempting => w.st = "publishing" /\ w.att <= n
    /\ w.pc = "exhausting" => w.st = "publishing"

\* While its attempt is current a callback's claim is in flight; later it may be
\* in flight or unknown, and nothing is posted before the platform answers.
ClaimSound(w, row, st, n) ==
    /\ row.st \in {"in_flight", "unknown"}
    /\ ~ row.human
    /\ st = "publishing" /\ n = w.att => row.st = "in_flight"
    /\ w.pc = "claimed" \/ w.reply \in {"permanent", "transient"} => ~ row.posted

Callbacks ==
    \A h \in Handlers :
        LET w == worker[h]
        IN  /\ FenceSound(w, attempt[w.a], now)
            /\ w.pc \in Claimants =>
                 ClaimSound(w, receipts[w.a][w.claim], status[w.a], attempt[w.a])

ClaimsDistinct ==
    \A g, h \in Handlers :
        /\ worker[g].pc \in Claimants
        /\ worker[h].pc \in Claimants
        /\ worker[g].a = worker[h].a
        /\ worker[g].claim = worker[h].claim
        => g = h

Safe ==
    /\ Histories
    /\ UnsupportedNeverSent
    /\ PublishingAuthorised
    /\ Callbacks
    /\ ClaimsDistinct

IInv == TypeOK /\ WorkersOwnRows /\ Safe
=============================================================================
