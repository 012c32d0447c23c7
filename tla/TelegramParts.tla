---------------------------- MODULE TelegramParts ----------------------------
(***************************************************************************)
(* One long Telegram post: a primary message and replies under it, each a   *)
(* request of its own.  After every accepted message the receipt's         *)
(* remaining text is shortened by compare-and-swap, so that a person who    *)
(* finds the delivery unknown sees what is still missing.                   *)
(*                                                                         *)
(* Texts are their number of messages: the remaining text is how many       *)
(* replies it still holds.  The receipt is the claim of the current         *)
(* attempt; module Publish has the rest of the delivery.                    *)
(***************************************************************************)
EXTENDS Integers, FiniteSets

CONSTANTS
    Handlers,  \* callbacks that may be alive at once
    Replies,   \* messages after the primary one
    None

VARIABLES
    row,      \* the adaptation: publishing, published or failed
    receipt,  \* its claim, None when there is none
    posted,   \* messages Telegram has accepted, the primary one included
    sender    \* what each callback remembers

vars == <<row, receipt, posted, sender>>

Outcomes == {None, "pending", "confirmed", "not_sent", "rejected", "unknown"}
Claim == [st : {"in_flight", "published", "failed", "unknown"},
          remaining : {None} \cup 0..Replies, outcome : Outcomes]
NewClaim == [st |-> "in_flight", remaining |-> None, outcome |-> None]

TelegramAssumption == Replies \in Nat \ {0} /\ None \notin Nat /\ None \notin Claim

\* next: replies already sent by this callback; said: its error's outcome.
At(pc, next, said) == [pc |-> pc, next |-> next, said |-> said]
Idle == At("idle", 0, "unknown")

(***************************************************************************)
(* The receipt                                                              *)
(***************************************************************************)
InFlight == receipt # None /\ receipt.st = "in_flight"
Partial  == receipt # None /\ receipt.remaining # None

\* markTelegramPartAccepted: before = None asks for an empty claim.
MayCheckpoint(before, after) ==
    /\ before # None => after < before
    /\ InFlight /\ row = "publishing"
    /\ receipt.remaining = before

\* Faulty: the caller's text replaces a checkpoint that is further on.
PartialFailureOver(remaining, outcome) ==
    [receipt EXCEPT !.remaining = remaining, !.outcome = outcome]

\* partialFailureColumns: only over an absent or an equal checkpoint.
PartialFailure(remaining, outcome) ==
    IF receipt.remaining \in {None, remaining}
    THEN [receipt EXCEPT !.remaining = remaining, !.outcome = outcome]
    ELSE receipt

\* markFailed: a checkpoint or a partial error makes the outcome unknown.
Ending(outcome, partial) == IF partial \/ Partial THEN "unknown" ELSE outcome

\* Faulty: no answer counts as a refusal.
OutcomeOfReplyRejected(answered) == "rejected"

\* The rest of the post after a reply that failed: refused, or anyone's guess.
OutcomeOfReply(answered) == IF answered THEN "rejected" ELSE "unknown"

\* Faulty: no answer counts as a refusal.
OutcomeOfPrimaryFailed(answered) == "failed"

\* The whole post after a primary message that failed.
OutcomeOfPrimary(answered) == IF answered THEN "failed" ELSE "unknown"

(***************************************************************************)
(* The callback                                                             *)
(***************************************************************************)
Goto(h, pc)   == sender' = [sender EXCEPT ![h] = At(pc, sender[h].next, sender[h].said)]
Leave(h)      == sender' = [sender EXCEPT ![h] = Idle]
Fail(h, said) == sender' = [sender EXCEPT ![h] = At("failing", sender[h].next, said)]

\* claimSend; a claim still in flight ends as unknown, its outcome being anyone's guess.
ClaimSend(h) ==
    /\ sender[h].pc = "idle" /\ row = "publishing"
    /\ IF receipt = None
       THEN /\ receipt' = NewClaim /\ Goto(h, "primary") /\ UNCHANGED row
       ELSE /\ receipt' = IF InFlight THEN [receipt EXCEPT !.st = "unknown"] ELSE receipt
            /\ row' = "failed"
            /\ UNCHANGED sender
    /\ UNCHANGED posted

\* The primary message: accepted, refused for good or for now, or never answered.
SendPrimary(h) ==
    /\ sender[h].pc = "primary"
    /\ \/ posted' = 1 /\ Goto(h, "first_checkpoint")
       \/ UNCHANGED posted /\ \E pc \in {"refused", "transient"} : Goto(h, pc)
       \/ posted' \in {posted, 1} /\ Goto(h, "silent")
    /\ UNCHANGED <<row, receipt>>

\* releaseSend: only a claim still in flight; the job is retried.
Release(h) ==
    /\ sender[h].pc = "transient"
    /\ receipt' = IF InFlight THEN None ELSE receipt
    /\ Leave(h)
    /\ UNCHANGED <<row, posted>>

\* onTelegramPartAccepted, or its loss before or after the commit.
Checkpoint(before, after) ==
    \/ /\ MayCheckpoint(before, after)
       /\ receipt' = [receipt EXCEPT !.remaining = after,
                                     !.outcome = IF after = 0 THEN "confirmed" ELSE "pending"]
    \/ UNCHANGED receipt
Saved(before, after) == MayCheckpoint(before, after) /\ receipt' # receipt

FirstCheckpoint(h) ==
    /\ sender[h].pc = "first_checkpoint"
    /\ Checkpoint(None, Replies)
    /\ \/ Saved(None, Replies) /\ Goto(h, "reply")
       \/ Fail(h, "not_sent")
    /\ UNCHANGED <<row, posted>>

\* The next reply; an answer that never comes leaves open whether it is there.
SendReply(h) ==
    /\ sender[h].pc = "reply"
    /\ \/ posted' = posted + 1 /\ Goto(h, "checkpoint")
       \/ UNCHANGED posted /\ Fail(h, OutcomeOfReply(TRUE))
       \/ posted' \in {posted, posted + 1} /\ Fail(h, OutcomeOfReply(FALSE))
    /\ UNCHANGED <<row, receipt>>

ReplyCheckpoint(h) ==
    LET before == Replies - sender[h].next
    IN  /\ sender[h].pc = "checkpoint"
        /\ Checkpoint(before, before - 1)
        /\ \/ /\ Saved(before, before - 1)
              /\ sender' = [sender EXCEPT ![h] =
                    At(IF before = 1 THEN "accepted" ELSE "reply", sender[h].next + 1,
                       sender[h].said)]
           \/ Fail(h, "unknown")
        /\ UNCHANGED <<row, posted>>

\* A PartialTelegramPublishError: unknown, with what the callback knows of the rest.
RecordPartial(h) ==
    /\ sender[h].pc = "failing"
    /\ \/ /\ InFlight
          /\ receipt' = [PartialFailure(Replies - sender[h].next, sender[h].said)
                             EXCEPT !.st = Ending("unknown", TRUE)]
          /\ row' = IF row = "publishing" THEN "failed" ELSE row
       \/ UNCHANGED <<row, receipt>>
    /\ Leave(h)
    /\ UNCHANGED posted

\* Refused before anything was accepted, or no answer at all.
RecordFailure(h) ==
    /\ sender[h].pc \in {"refused", "silent"}
    /\ \/ /\ InFlight
          /\ receipt' = [receipt EXCEPT !.st =
                Ending(OutcomeOfPrimary(sender[h].pc = "refused"), FALSE)]
          /\ row' = IF row = "publishing" THEN "failed" ELSE row
       \/ UNCHANGED <<row, receipt>>
    /\ Leave(h)
    /\ UNCHANGED posted

\* markPublished clears the partial columns.
RecordPublished(h) ==
    /\ sender[h].pc = "accepted"
    /\ \/ /\ row = "publishing" /\ InFlight
          /\ row' = "published"
          /\ receipt' = [NewClaim EXCEPT !.st = "published"]
       \/ UNCHANGED <<row, receipt>>
    /\ Leave(h)
    /\ UNCHANGED posted

Crash(h) == sender[h].pc # "idle" /\ Leave(h) /\ UNCHANGED <<row, receipt, posted>>

\* markExhausted and sweepAbandoned: the claim is somebody else's, its checkpoint is kept.
GiveUp ==
    /\ row = "publishing"
    /\ row' = "failed"
    /\ receipt' = IF InFlight THEN [receipt EXCEPT !.st = "unknown"] ELSE receipt
    /\ UNCHANGED <<posted, sender>>

Init ==
    /\ row = "publishing" /\ receipt = None /\ posted = 0
    /\ sender = [h \in Handlers |-> Idle]

Next ==
    \/ GiveUp
    \/ \E h \in Handlers :
          \/ ClaimSend(h) \/ SendPrimary(h) \/ Release(h) \/ FirstCheckpoint(h)
          \/ SendReply(h) \/ ReplyCheckpoint(h) \/ RecordPartial(h) \/ RecordFailure(h)
          \/ RecordPublished(h) \/ Crash(h)

Spec == Init /\ [][Next]_vars

(***************************************************************************)
(* Properties                                                               *)
(***************************************************************************)
PCs == {"idle", "primary", "refused", "transient", "silent", "first_checkpoint", "reply",
        "checkpoint", "failing", "accepted"}
TypeOK ==
    /\ row \in {"publishing", "published", "failed"}
    /\ receipt \in Claim \cup {None} /\ posted \in 0..Replies + 1
    /\ sender \in [Handlers -> [pc : PCs, next : 0..Replies, said : Outcomes]]

\* The receipt never says that a message is there which is not: the remaining text holds
\* every message not posted, and at most one that was posted and not recorded.
CheckpointIsTrue ==
    Partial =>
        LET missing == Replies + 1 - posted
        IN  /\ missing <= receipt.remaining /\ receipt.remaining <= missing + 1
            /\ receipt.outcome \in {"not_sent", "rejected"} => receipt.remaining = missing

\* What is recorded as delivered stays recorded, until the whole post is published.
RemainingOnlyShrinks ==
    [][Partial =>
          \/ receipt' # None /\ receipt'.remaining # None /\ receipt'.remaining <= receipt.remaining
          \/ row' = "published"]_vars

\* A delivery that reads as failed, and so may be sent again at once, left no message behind.
FailedLeftNoMessage == receipt # None /\ receipt.st = "failed" => posted = 0
=============================================================================
