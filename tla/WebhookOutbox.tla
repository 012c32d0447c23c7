---------------------------- MODULE WebhookOutbox ----------------------------
(***************************************************************************)
(* The outgoing webhooks of one subscription.  A database trigger adds a    *)
(* delivery in the transaction that ends a publication; scans, of which two *)
(* may overlap, claim a delivery before they POST it; revoking closes what  *)
(* is open.  A request nobody heard an answer to is never made again.       *)
(*                                                                         *)
(* Waiting for next_attempt_at is left out: a pending delivery may be due.  *)
(***************************************************************************)
EXTENDS Integers, Sequences, FiniteSets

CONSTANTS
    Deliveries,   \* events that may be recorded
    Scanners,     \* scans that may run at once
    MaxAttempts,  \* 5
    PerScan,      \* 25
    MaxFaults,    \* bound: crashes and failing queries
    None

WebhookAssumption ==
    /\ None \notin Deliveries
    /\ MaxAttempts \in Nat \ {0} /\ PerScan \in Nat \ {0} /\ MaxFaults \in Nat

VARIABLES
    subscription, \* "active", "revoking" while the transaction that sets revoked_at is
               \* open, "revoked" when it has committed
    status,    \* webhook_deliveries.status; "none" before the event,
               \* "recording" while the publication's transaction is open
    attempts,  \* webhook_deliveries.attempts
    stale,     \* updated_at is more than ten minutes ago
    scan,      \* what each scan remembers between awaits
    answers,   \* history: what came of each request, oldest first
    faults     \* faults so far

vars == <<subscription, status, attempts, stale, scan, answers, faults>>

\* What every other transaction reads of revoked_at.
Revoked == subscription = "revoked"

Open  == {"pending", "attempting"}
Final == {"sent", "failed", "unknown"}
\* accepted: 2xx; again: 408, 429 or 5xx; refused: any other answer; silence: none at all.
\* An "again" may follow the receiver's effect, which is why events carry an id.
Answers == {"accepted", "again", "refused", "silence"}

PCs  == {"idle", "closing", "expiring", "claiming", "loading", "posting", "finishing", "retrying"}
Idle == [pc |-> "idle", of |-> None, nth |-> 0, end |-> "failed", left |-> 0]
Scan == [pc : PCs, of : Deliveries \cup {None}, nth : 0..MaxAttempts, end : Final,
         left : 0..PerScan]

Goto(s, pc)    == scan' = [scan EXCEPT ![s].pc = pc]
Finish(s, end) == scan' = [scan EXCEPT ![s].pc = "finishing", ![s].end = end]
Onward(w)      == IF w.left = 0 THEN Idle ELSE [Idle EXCEPT !.pc = "claiming", !.left = w.left]

(***************************************************************************)
(* The publication's transaction, and the owner's                           *)
(***************************************************************************)
\* The trigger sees a subscription that no committed transaction has revoked ...
Trigger(d) ==
    /\ status[d] = "none" /\ ~Revoked
    /\ status' = [status EXCEPT ![d] = "recording"]
    /\ UNCHANGED <<subscription, attempts, stale, scan, answers, faults>>

\* ... and its row appears when the publication commits, if it does.
Record(d) ==
    /\ status[d] = "recording"
    /\ \E st \in {"pending", "none"} : status' = [status EXCEPT ![d] = st]
    /\ UNCHANGED <<subscription, attempts, stale, scan, answers, faults>>

\* revoke: case when attempting then unknown else failed.
ClosedByRevoke(st) ==
    CASE st = "attempting" -> "unknown" [] st = "pending" -> "failed" [] OTHER -> st

\* The second statement of revoke.  The rows it finds stay locked until the commit, so that
\* nobody can tell its effect from that of the commit: scans skip such a row, and other
\* writers of it wait.
Revoke ==
    /\ subscription = "active"
    /\ subscription' = "revoking"
    /\ status' = [d \in Deliveries |-> ClosedByRevoke(status[d])]
    /\ UNCHANGED <<attempts, stale, scan, answers, faults>>

\* Its commit.  A delivery recorded since the statement was not found by it, and may have
\* been claimed by a scan that still saw the subscription active.
RevokeCommits ==
    /\ subscription = "revoking"
    /\ subscription' = "revoked"
    /\ UNCHANGED <<status, attempts, stale, scan, answers, faults>>

(***************************************************************************)
(* scan                                                                     *)
(***************************************************************************)
Start(s) ==
    /\ scan[s].pc = "idle"
    /\ scan' = [scan EXCEPT ![s].pc = "closing", ![s].left = PerScan]
    /\ UNCHANGED <<subscription, status, attempts, stale, answers, faults>>

\* A delivery recorded while its subscription was being revoked.
Orphaned(d) == status[d] = "pending" /\ Revoked

CloseRevoked(s) ==
    /\ scan[s].pc = "closing"
    /\ status' = [d \in Deliveries |-> IF Orphaned(d) THEN "failed" ELSE status[d]]
    /\ Goto(s, "expiring")
    /\ UNCHANGED <<subscription, attempts, stale, answers, faults>>

\* Faulty: a request that was cut short is made again.
ExpiredAgain == "pending"

\* What a claim becomes whose result never arrived.
Expired == "unknown"

ExpireClaims(s) ==
    /\ scan[s].pc = "expiring"
    /\ status' = [d \in Deliveries |->
                    IF status[d] = "attempting" /\ stale[d] THEN Expired ELSE status[d]]
    /\ Goto(s, "claiming")
    /\ UNCHANGED <<subscription, attempts, stale, answers, faults>>

\* FOR UPDATE SKIP LOCKED, the status asked again by the UPDATE.
Claimable(d) == status[d] = "pending" /\ ~Revoked

Claim(s) ==
    /\ scan[s].pc = "claiming"
    /\ \/ \E d \in Deliveries :
             /\ Claimable(d)
             /\ status' = [status EXCEPT ![d] = "attempting"]
             /\ attempts' = [attempts EXCEPT ![d] = @ + 1]
             /\ stale' = [stale EXCEPT ![d] = FALSE]
             /\ scan' = [scan EXCEPT ![s] = [scan[s] EXCEPT !.pc = "loading", !.of = d,
                            !.nth = attempts[d] + 1, !.left = scan[s].left - 1]]
       \/ /\ \A d \in Deliveries : ~Claimable(d)
          /\ scan' = [scan EXCEPT ![s] = Idle]
          /\ UNCHANGED <<status, attempts, stale>>
    /\ UNCHANGED <<subscription, answers, faults>>

\* deliver: the subscription again, and credentials that may be unreadable.
LoadSubscription(s) ==
    /\ scan[s].pc = "loading"
    /\ IF Revoked THEN Finish(s, "failed")
       ELSE Goto(s, "posting") \/ Finish(s, "failed")
    /\ UNCHANGED <<subscription, status, attempts, stale, answers, faults>>

\* Faulty: a socket that broke means that nothing arrived.
OutcomeOfSilenceFailed == "failed"

\* A timeout or a reset may happen after acceptance.
OutcomeOfSilence == "unknown"

\* Faulty: one attempt too many.
MayRetryOnceMore(nth) == nth <= MaxAttempts

MayRetry(nth) == nth < MaxAttempts

Post(s) ==
    LET w == scan[s]
    IN  /\ w.pc = "posting"
        /\ \/ Finish(s, "failed") /\ UNCHANGED answers    \* refused before the request
           \/ \E a \in Answers :
                 /\ answers' = [answers EXCEPT ![w.of] = Append(@, a)]
                 /\ CASE a = "accepted" -> Finish(s, "sent")
                      [] a = "refused"  -> Finish(s, "failed")
                      [] a = "silence"  -> Finish(s, OutcomeOfSilence)
                      [] OTHER -> IF MayRetry(w.nth) THEN Goto(s, "retrying")
                                  ELSE Finish(s, "failed")
        /\ UNCHANGED <<subscription, status, attempts, stale, faults>>

\* Faulty: writes over whatever the delivery has become.
StillMineAny(w) == TRUE

\* The compare-and-swap of every terminal write.
StillMine(w) == status[w.of] = "attempting"

RecordEnd(s) ==
    LET w == scan[s]
    IN  /\ w.pc \in {"finishing", "retrying"}
        /\ status' = IF StillMine(w)
                     THEN [status EXCEPT ![w.of] = IF w.pc = "retrying" THEN "pending" ELSE w.end]
                     ELSE status
        /\ scan' = [scan EXCEPT ![s] = Onward(w)]
        /\ UNCHANGED <<subscription, attempts, stale, answers, faults>>

\* The process dies or a query throws: either way the scan is over, between a request
\* and its record too.
Fault(s) ==
    /\ scan[s].pc # "idle" /\ faults < MaxFaults
    /\ faults' = faults + 1
    /\ scan' = [scan EXCEPT ![s] = Idle]
    /\ \/ UNCHANGED answers
       \/ /\ scan[s].pc = "posting"
          /\ answers' = [answers EXCEPT ![scan[s].of] = Append(@, "silence")]
    /\ UNCHANGED <<subscription, status, attempts, stale>>

\* Ten minutes go by; nothing stops the scan that holds the claim from living on.
Age(d) ==
    /\ status[d] = "attempting" /\ ~stale[d]
    /\ stale' = [stale EXCEPT ![d] = TRUE]
    /\ UNCHANGED <<subscription, status, attempts, scan, answers, faults>>

(***************************************************************************)
(* Specification                                                            *)
(***************************************************************************)
Init ==
    /\ subscription = "active"
    /\ status = [d \in Deliveries |-> "none"]
    /\ attempts = [d \in Deliveries |-> 0]
    /\ stale = [d \in Deliveries |-> FALSE]
    /\ scan = [s \in Scanners |-> Idle]
    /\ answers = [d \in Deliveries |-> <<>>]
    /\ faults = 0

ScanStep(s) ==
    \/ Start(s) \/ CloseRevoked(s) \/ ExpireClaims(s) \/ Claim(s)
    \/ LoadSubscription(s) \/ Post(s) \/ RecordEnd(s)

Next ==
    \/ \E d \in Deliveries : Trigger(d) \/ Record(d) \/ Age(d)
    \/ Revoke \/ RevokeCommits
    \/ \E s \in Scanners : ScanStep(s) \/ Fault(s)

Spec == Init /\ [][Next]_vars

(***************************************************************************)
(* Properties                                                               *)
(***************************************************************************)
\* The schema's check constraints, and the shape of the history.
TypeOK ==
    /\ subscription \in {"active", "revoking", "revoked"}
    /\ status \in [Deliveries -> {"none", "recording"} \cup Open \cup Final]
    /\ attempts \in [Deliveries -> 0..MaxAttempts]
    /\ stale \in [Deliveries -> BOOLEAN]
    /\ scan \in [Scanners -> Scan]
    /\ answers \in [Deliveries -> Seq(Answers)]
    /\ faults \in 0..MaxFaults

\* Only an explicit request to come again is followed by another request: whatever
\* was accepted, refused or never answered is the last one, over crashes, overlapping
\* scans, expired claims and a revoke in between.
OnlyAskedAgain ==
    \A d \in Deliveries : \A i \in 1..(Len(answers[d]) - 1) : answers[d][i] = "again"

\* What the history shows is true of the receiver's answers, accepted being a 2xx: sent
\* means that one was given, failed that none was and that no request went unanswered.
\* (A receiver may have acted before it answered 5xx: docs/webhooks.md says so.)
VerdictIsTrue ==
    \A d \in Deliveries :
        LET got == {answers[d][i] : i \in 1..Len(answers[d])}
        IN  /\ status[d] = "sent" => "accepted" \in got
            /\ status[d] = "failed" => got \cap {"accepted", "silence"} = {}

\* A delivery that is over stays as it is, whichever scan comes back late.
EndIsFinal ==
    [][\A d \in Deliveries : status[d] \in Final => status'[d] = status[d]]_vars

\* Every recorded event has ended, also one recorded while its subscription was revoked and
\* one whose scan died after the claim.
AtRest == \A d \in Deliveries : status[d] \notin {"recording"} \cup Open
=============================================================================
