---------------------------- MODULE TelegramProofs ----------------------------
(***************************************************************************)
(* Module TelegramParts proved about, for any number of messages and of     *)
(* callbacks.                                                              *)
(*                                                                         *)
(* The inductive invariant is TelegramInv.  Its core is SendersSound: one   *)
(* callback at most works on the post, it holds the receipt, and what it    *)
(* remembers agrees with the messages that are there and with the receipt   *)
(* (Knows).  A callback that is gone leaves the receipt as it stands.       *)
(***************************************************************************)
EXTENDS TelegramParts, TLAPS

Active(h) == sender[h].pc # "idle"
Missing == Replies + 1 - posted

\* What a callback at pc, with n replies sent and said for its error, knows of the
\* messages that are there and of the receipt.
Knows(pc, n, said) ==
    /\ pc \in {"primary", "refused", "transient"} => posted = 0 /\ ~ Partial /\ n = 0
    /\ pc = "silent" => posted \in {0, 1} /\ ~ Partial /\ n = 0
    /\ pc = "first_checkpoint" => posted = 1 /\ ~ Partial /\ n = 0
    /\ pc \in {"reply", "checkpoint"} =>
         n < Replies /\ receipt.remaining = Replies - n /\ receipt.outcome = "pending"
    /\ pc = "reply" => posted = n + 1
    /\ pc = "checkpoint" => posted = n + 2
    /\ pc = "failing" =>
         /\ Missing <= Replies - n /\ Replies - n <= Missing + 1
         /\ said \in {"not_sent", "rejected"} => Replies - n = Missing
    /\ pc = "accepted" => posted = Replies + 1

KnowsOf(h) == Knows(sender[h].pc, sender[h].next, sender[h].said)

\* Only one callback ever works on the post, and it holds the receipt.
SendersSound ==
    /\ receipt = None => posted = 0
    /\ \A h \in Handlers : ~ Active(h) => sender[h] = Idle
    /\ \A h \in Handlers : Active(h) =>
          /\ receipt # None /\ receipt.st \in {"in_flight", "unknown"}
          /\ \A k \in Handlers : Active(k) => k = h
          /\ KnowsOf(h)

TelegramInv == TypeOK /\ SendersSound /\ CheckpointIsTrue /\ FailedLeftNoMessage

Senders == [Handlers -> [pc : PCs, next : 0..Replies, said : Outcomes]]

LEMMA AtIs == ASSUME NEW pc, NEW n, NEW said
              PROVE  At(pc, n, said).pc = pc /\ At(pc, n, said).next = n /\ At(pc, n, said).said = said
  BY DEF At

LEMMA IdleIs == /\ Idle.pc = "idle" /\ Idle.next = 0
                /\ TelegramAssumption => Idle \in [pc : PCs, next : 0..Replies, said : Outcomes]
  BY DEF TelegramAssumption, Idle, At, PCs, Outcomes

LEMMA TelegramInit == TelegramAssumption /\ Init => TelegramInv
  BY IdleIs DEF TelegramAssumption, Init, TelegramInv, TypeOK, SendersSound, CheckpointIsTrue,
                FailedLeftNoMessage, Active, Partial

\* A step of the one callback at work: the others keep still.
LEMMA TelegramMove ==
    ASSUME TelegramAssumption, TelegramInv, NEW h \in Handlers, NEW snd,
           Active(h), sender' = [sender EXCEPT ![h] = snd], TypeOK',
           receipt' = None => posted' = 0,
           snd.pc = "idle" => snd = Idle,
           snd.pc # "idle" => /\ receipt' # None /\ receipt'.st \in {"in_flight", "unknown"}
                              /\ KnowsOf(h)'
    PROVE  SendersSound'
<1>1. /\ sender'[h] = snd
      /\ \A k \in Handlers : k # h => sender'[k] = sender[k] /\ ~ Active(k) /\ ~ Active(k)'
  BY DEF TelegramInv, TypeOK, SendersSound, Active
<1>2. \A k \in Handlers : ~ Active(k)' => sender'[k] = Idle
  BY <1>1 DEF TelegramInv, SendersSound, Active
<1> QED
  BY <1>1, <1>2 DEF SendersSound, Active

\* onTelegramPartAccepted writes the shorter text over the one it expects, or nothing.
LEMMA CheckpointDoes ==
    ASSUME TelegramAssumption, receipt \in Claim, NEW before, NEW after \in 0..Replies,
           Checkpoint(before, after)
    PROVE  /\ receipt' \in Claim /\ receipt'.st = receipt.st
           /\ \/ receipt' = receipt
              \/ /\ receipt.remaining = before /\ receipt'.remaining = after
                 /\ receipt'.outcome = IF after = 0 THEN "confirmed" ELSE "pending"
<1>1. CASE receipt' = receipt
  BY <1>1
<1>2. CASE /\ MayCheckpoint(before, after)
           /\ receipt' = [receipt EXCEPT !.remaining = after,
                              !.outcome = IF after = 0 THEN "confirmed" ELSE "pending"]
  <2> DEFINE said == IF after = 0 THEN "confirmed" ELSE "pending"
  <2>1. said \in Outcomes /\ after \in {None} \cup 0..Replies
    BY DEF Outcomes
  <2>2. receipt' = [receipt EXCEPT !.remaining = after, !.outcome = said]
    BY <1>2
  <2> HIDE DEF said
  <2>3. receipt' \in Claim /\ receipt'.st = receipt.st /\ receipt'.remaining = after
        /\ receipt'.outcome = said
    BY <2>1, <2>2 DEF Claim
  <2> QED
    BY <1>2, <2>3 DEF MayCheckpoint, said
<1> QED
  BY <1>1, <1>2 DEF Checkpoint

\* A callback whose next state is known.
LEMMA SenderIs ==
    ASSUME sender \in Senders, NEW h \in Handlers,
           NEW pc \in PCs, NEW n \in 0..Replies, NEW said \in Outcomes,
           sender' = [sender EXCEPT ![h] = At(pc, n, said)]
    PROVE  /\ sender'[h] = At(pc, n, said)
           /\ sender' \in Senders
  BY DEF Senders, At

\* Every step keeps the invariant.
LEMMA TelegramStep ==
    ASSUME TelegramAssumption, TelegramInv, [Next]_vars PROVE TelegramInv'
<1>0. /\ sender \in [Handlers -> [pc : PCs, next : 0..Replies, said : Outcomes]]
      /\ receipt \in Claim \cup {None} /\ posted \in 0..Replies + 1
      /\ row \in {"publishing", "published", "failed"}
  BY DEF TelegramInv, TypeOK
<1>n. Replies \in Nat /\ Replies > 0 /\ None \notin Nat
  BY DEF TelegramAssumption
<1>c. None \notin Claim
  BY DEF TelegramAssumption
<1>s. CheckpointIsTrue /\ FailedLeftNoMessage /\ SendersSound
  BY DEF TelegramInv
<1>1. ASSUME GiveUp PROVE TelegramInv'
  <2>1. /\ row' = "failed" /\ posted' = posted /\ sender' = sender
        /\ \/ receipt' = receipt
           \/ receipt \in Claim /\ receipt' = [receipt EXCEPT !.st = "unknown"]
    BY <1>0, <1>n, <1>c, <1>s, <1>1 DEF GiveUp, InFlight
  <2>2. /\ receipt' = None <=> receipt = None
        /\ receipt' \in Claim \cup {None}
        /\ receipt # None => /\ receipt'.remaining = receipt.remaining
                             /\ receipt'.outcome = receipt.outcome
                             /\ receipt'.st \in {receipt.st, "unknown"}
    BY <1>0, <1>n, <1>c, <1>s, <2>1 DEF Claim
  <2>3. TypeOK'
    BY <1>0, <1>n, <1>c, <1>s, <2>1, <2>2 DEF TypeOK
  <2>4. SendersSound'
    <3>1. \A h \in Handlers : Active(h)' <=> Active(h)
      BY <2>1 DEF Active
    <3>2. \A h \in Handlers : Active(h) => KnowsOf(h)'
      BY <1>0, <1>n, <1>c, <1>s, <2>1, <2>2 DEF SendersSound, KnowsOf, Knows, Active, Missing, Partial
    <3> QED
      BY <1>0, <1>n, <1>c, <1>s, <2>1, <2>2, <3>1, <3>2 DEF SendersSound, Active
  <2>5. CheckpointIsTrue' /\ FailedLeftNoMessage'
    BY <1>0, <1>n, <1>c, <1>s, <2>1, <2>2 DEF CheckpointIsTrue, FailedLeftNoMessage, Partial
  <2> QED
    BY <2>3, <2>4, <2>5 DEF TelegramInv
<1>2. ASSUME NEW h \in Handlers, Active(h)
      PROVE  /\ receipt \in Claim /\ receipt.st \in {"in_flight", "unknown"} /\ KnowsOf(h)
             /\ sender[h].next \in 0..Replies /\ sender[h].said \in Outcomes
             /\ sender[h].pc \in PCs
             /\ receipt.remaining \in {None} \cup 0..Replies
  BY <1>0, <1>n, <1>c, <1>s, <1>2 DEF SendersSound, Claim
<1>3. ASSUME NEW h \in Handlers, ClaimSend(h) PROVE TelegramInv'
  <2>1. CASE receipt = None
    <3>1. /\ receipt' = NewClaim
          /\ sender' = [sender EXCEPT ![h] = At("primary", sender[h].next, sender[h].said)]
          /\ row' = row /\ posted' = posted /\ sender[h] = Idle /\ posted = 0
      BY <1>0, <1>n, <1>c, <1>s, <1>3, <2>1 DEF ClaimSend, Goto, SendersSound, Active
    <3>2. /\ receipt' \in Claim /\ receipt'.st = "in_flight" /\ receipt'.remaining = None
      BY <3>1 DEF NewClaim, Claim, Outcomes
    <3>s. /\ sender[h].next = 0 /\ sender[h].said \in Outcomes /\ 0 \in 0..Replies
          /\ "primary" \in PCs /\ sender \in Senders
      BY <1>0, <1>n, <3>1, IdleIs DEF PCs, Senders
    <3>t. sender' \in Senders /\ sender'[h] = At("primary", 0, sender[h].said)
      BY <3>1, <3>s, SenderIs
    <3>3. TypeOK'
      BY <1>0, <1>n, <3>1, <3>2, <3>t DEF TypeOK, Senders
    <3>4. /\ sender'[h].pc = "primary" /\ sender'[h].next = 0
          /\ \A k \in Handlers : k # h => sender'[k] = Idle /\ ~ Active(k)'
      <4>1. \A k \in Handlers : sender[k] = Idle
        BY <1>s, <2>1 DEF SendersSound
      <4>2. \A k \in Handlers : k # h => sender'[k] = sender[k]
        BY <1>0, <3>1
      <4> QED
        BY <3>t, <4>1, <4>2, AtIs, IdleIs DEF Active
    <3>5. SendersSound'
      BY <1>0, <1>n, <1>c, <1>s, <3>1, <3>2, <3>4 DEF SendersSound, Active, KnowsOf, Knows, Partial
    <3>6. CheckpointIsTrue' /\ FailedLeftNoMessage'
      BY <3>2 DEF CheckpointIsTrue, FailedLeftNoMessage, Partial
    <3> QED
      BY <3>3, <3>5, <3>6 DEF TelegramInv
  <2>2. CASE receipt # None
    <3>1. /\ row' = "failed" /\ posted' = posted /\ sender' = sender
          /\ receipt' = IF InFlight THEN [receipt EXCEPT !.st = "unknown"] ELSE receipt
          /\ row = "publishing"
      BY <1>3, <2>2 DEF ClaimSend
    <3>2. GiveUp
      BY <3>1 DEF GiveUp
    <3> QED
      BY <1>1, <3>2
  <2> QED
    BY <2>1, <2>2
\* A callback that goes on, knowing what it has to.
<1>8. ASSUME NEW h \in Handlers, Active(h), NEW pc \in PCs \ {"idle"}, NEW n \in 0..Replies,
             NEW said \in Outcomes,
             sender' = [sender EXCEPT ![h] = At(pc, n, said)],
             receipt' \in Claim, receipt'.st = receipt.st,
             posted' \in 0..Replies + 1, row' = row, Knows(pc, n, said)'
      PROVE  TypeOK' /\ SendersSound'
  <2>0. sender \in Senders
    BY <1>0 DEF Senders
  <2>1. sender'[h] = At(pc, n, said) /\ sender' \in Senders
    BY <1>8, <2>0, SenderIs
  <2>2. TypeOK'
    BY <1>0, <1>8, <2>1 DEF TypeOK, Senders
  <2>3. At(pc, n, said).pc = pc /\ At(pc, n, said).next = n /\ At(pc, n, said).said = said
    BY DEF At
  <2>4. KnowsOf(h)'
    BY <1>8, <2>1, <2>3 DEF KnowsOf
  <2>5. pc # "idle" /\ receipt' # None /\ receipt'.st \in {"in_flight", "unknown"}
    BY <1>c, <1>2, <1>8
  <2> QED
    BY <1>8, <2>2, <2>3, <2>4, <2>5, TelegramMove
<1>4. ASSUME NEW h \in Handlers, SendPrimary(h) PROVE TelegramInv'
  <2>0. sender \in Senders
    BY <1>0 DEF Senders
  <2>1. PICK pc \in {"first_checkpoint", "refused", "transient", "silent"} :
          /\ Goto(h, pc) /\ UNCHANGED <<row, receipt>>
          /\ posted' = posted \/ posted' = 1
          /\ pc = "first_checkpoint" => posted' = 1
          /\ pc \in {"refused", "transient"} => posted' = posted
    BY <1>4 DEF SendPrimary
  <2>2. Active(h) /\ sender[h].pc = "primary"
    BY <1>4 DEF SendPrimary, Active
  <2>3. posted = 0 /\ ~ Partial /\ sender[h].next = 0 /\ receipt \in Claim
    BY <1>2, <2>2 DEF KnowsOf, Knows
  <2>4. sender[h].said \in Outcomes /\ pc \in PCs \ {"idle"} /\ 0 \in 0..Replies
    <3>1. sender[h].said \in Outcomes
      BY <1>2, <2>2
    <3>2. pc \in PCs \ {"idle"}
      BY DEF PCs
    <3>3. 0 \in 0..Replies
      BY <1>n
    <3> QED
      BY <3>1, <3>2, <3>3
  <2>5. PICK said \in Outcomes : sender' = [sender EXCEPT ![h] = At(pc, 0, said)]
    BY <2>1, <2>3, <2>4 DEF Goto
  <2>k. /\ row' = row /\ receipt' = receipt
        /\ posted' = posted \/ posted' = 1
        /\ pc = "first_checkpoint" => posted' = 1
        /\ pc \in {"refused", "transient"} => posted' = posted
    BY <2>1
  <2>6. Knows(pc, 0, said)'
    <3>1. ~ Partial'
      BY <2>3, <2>k DEF Partial
    <3>2. CASE pc = "first_checkpoint"
      BY <2>k, <3>1, <3>2 DEF Knows
    <3>3. CASE pc \in {"refused", "transient"}
      BY <2>3, <2>k, <3>1, <3>3 DEF Knows
    <3>4. CASE pc = "silent"
      BY <2>3, <2>k, <3>1, <3>4 DEF Knows
    <3> QED
      BY <3>2, <3>3, <3>4
  <2>p. posted' \in 0..Replies + 1
    BY <1>n, <2>3, <2>k
  <2>7. TypeOK' /\ SendersSound'
    BY <1>8, <2>2, <2>3, <2>4, <2>5, <2>6, <2>p, <2>k
  <2>8. CheckpointIsTrue' /\ FailedLeftNoMessage'
    BY <1>2, <2>2, <2>3, <2>k DEF CheckpointIsTrue, FailedLeftNoMessage, Partial
  <2> QED
    BY <2>7, <2>8 DEF TelegramInv
\* A callback that is through with the post.
<1>5. ASSUME NEW h \in Handlers, Active(h), Leave(h), TypeOK',
             receipt' = None => posted' = 0
      PROVE  SendersSound'
  <2>1. sender' = [sender EXCEPT ![h] = Idle]
    BY <1>5 DEF Leave
  <2> QED
    BY <1>5, <2>1, TelegramMove, IdleIs
<1>6. ASSUME NEW h \in Handlers, Active(h), Leave(h), UNCHANGED <<row, receipt, posted>>
      PROVE  TelegramInv'
  <2>1. TypeOK'
    BY <1>0, <1>6, IdleIs DEF Leave, TypeOK
  <2>2. SendersSound'
    BY <1>0, <1>n, <1>c, <1>s, <1>5, <1>6, <2>1 DEF SendersSound
  <2> QED
    BY <1>0, <1>n, <1>c, <1>s, <1>6, <2>1, <2>2 DEF TelegramInv, CheckpointIsTrue, FailedLeftNoMessage, Partial
<1>7. ASSUME NEW h \in Handlers, Release(h) PROVE TelegramInv'
  <2>1. Active(h) /\ Leave(h) /\ UNCHANGED <<row, posted>>
    BY <1>7 DEF Release, Active
  <2>2. posted = 0
    BY <1>2, <1>7, <2>1 DEF Release, KnowsOf, Knows
  <2>3. CASE receipt' = None
    <3>1. TypeOK'
      BY <1>0, <2>1, <2>3, IdleIs DEF Leave, TypeOK
    <3>2. SendersSound'
      BY <1>5, <2>1, <2>2, <3>1
    <3> QED
      BY <2>3, <3>1, <3>2 DEF TelegramInv, CheckpointIsTrue, FailedLeftNoMessage, Partial
  <2>4. CASE receipt' = receipt
    BY <1>6, <2>1, <2>4
  <2> QED
    BY <1>7, <2>3, <2>4 DEF Release
<1>9. ASSUME NEW h \in Handlers, FirstCheckpoint(h) PROVE TelegramInv'
  <2>0. sender \in Senders
    BY <1>0 DEF Senders
  <2>1. Active(h) /\ row' = row /\ posted' = posted /\ sender[h].pc = "first_checkpoint"
    BY <1>9 DEF FirstCheckpoint, Active
  <2>2. receipt \in Claim /\ posted = 1 /\ receipt.remaining = None /\ sender[h].next = 0
    BY <1>2, <2>1, <1>c DEF KnowsOf, Knows, Partial
  <2>3. /\ receipt' \in Claim /\ receipt'.st = receipt.st
        /\ \/ receipt' = receipt
           \/ receipt'.remaining = Replies /\ receipt'.outcome = "pending"
    <3>1. Replies \in 0..Replies /\ Replies # 0
      BY <1>n
    <3> QED
      BY <1>9, <2>2, <3>1, CheckpointDoes DEF FirstCheckpoint
  <2>4. PICK pc \in {"reply", "failing"}, said \in Outcomes :
          /\ sender' = [sender EXCEPT ![h] = At(pc, 0, said)]
          /\ pc = "reply" => receipt' # receipt
    <3>1. CASE receipt' # receipt /\ Goto(h, "reply")
      BY <1>2, <2>0, <2>1, <2>2, <3>1 DEF Goto
    <3>2. CASE Fail(h, "not_sent")
      BY <2>0, <2>2, <3>2 DEF Fail, Outcomes
    <3> QED
      BY <1>9, <3>1, <3>2 DEF FirstCheckpoint, Saved
  <2>k. pc = "reply" => receipt' # receipt
    BY <2>4
  <2>5. Knows(pc, 0, said)'
    <3>1. posted' = 1
      BY <2>1, <2>2
    <3>2. CASE pc = "reply"
      <4>1. receipt'.remaining = Replies /\ receipt'.outcome = "pending"
        BY <2>3, <2>k, <3>2
      <4> QED
        BY <1>n, <3>1, <3>2, <4>1 DEF Knows
    <3>3. CASE pc = "failing"
      BY <1>n, <3>1, <3>3 DEF Knows, Missing
    <3> QED
      BY <3>2, <3>3
  <2>6. pc \in PCs \ {"idle"}
    BY DEF PCs
  <2>p. posted' \in 0..Replies + 1 /\ 0 \in 0..Replies
    BY <1>n, <2>1, <2>2
  <2>7. TypeOK' /\ SendersSound'
    BY <1>8, <2>1, <2>3, <2>4, <2>5, <2>6, <2>p
  <2>8. CheckpointIsTrue'
    <3>1. Partial' => receipt'.remaining = Replies /\ receipt'.outcome = "pending"
      BY <2>2, <2>3 DEF Partial
    <3>2. posted' = 1
      BY <2>1, <2>2
    <3> QED
      BY <1>n, <3>1, <3>2 DEF CheckpointIsTrue
  <2>9. FailedLeftNoMessage'
    BY <1>2, <2>1, <2>3 DEF FailedLeftNoMessage
  <2> QED
    BY <2>7, <2>8, <2>9 DEF TelegramInv
<1>10. ASSUME NEW h \in Handlers, SendReply(h) PROVE TelegramInv'
  <2>0. sender \in Senders
    BY <1>0 DEF Senders
  <2>1. Active(h) /\ UNCHANGED <<row, receipt>> /\ sender[h].pc = "reply"
    BY <1>10 DEF SendReply, Active
  <2>2. PICK n \in 0..Replies :
        /\ n = sender[h].next /\ n < Replies /\ posted = n + 1 /\ receipt \in Claim
        /\ receipt.remaining = Replies - n /\ receipt.outcome = "pending"
    BY <1>2, <2>1 DEF KnowsOf, Knows
  <2>m. sender[h].next = n
    BY <2>2
  <2>3. PICK pc \in {"checkpoint", "failing"}, said \in Outcomes :
          /\ sender' = [sender EXCEPT ![h] = At(pc, n, said)]
          /\ posted' \in {posted, posted + 1}
          /\ pc = "checkpoint" => posted' = posted + 1
          /\ said \in {"not_sent", "rejected"} /\ pc = "failing" => posted' = posted
    <3>1. CASE posted' = posted + 1 /\ Goto(h, "checkpoint")
      BY <1>2, <2>1, <2>m, <3>1 DEF Goto
    <3>2. CASE posted' = posted /\ Fail(h, "rejected")
      BY <2>m, <3>2 DEF Fail, Outcomes
    <3>3. CASE posted' \in {posted, posted + 1} /\ Fail(h, "unknown")
      BY <2>m, <3>3 DEF Fail, Outcomes
    <3> QED
      BY <1>10, <3>1, <3>2, <3>3 DEF SendReply, OutcomeOfReply
  <2>k. /\ posted' \in {posted, posted + 1}
        /\ pc = "checkpoint" => posted' = posted + 1
        /\ said \in {"not_sent", "rejected"} /\ pc = "failing" => posted' = posted
    BY <2>3
  <2>4. Knows(pc, n, said)'
    <3>1. CASE pc = "checkpoint"
      BY <2>1, <2>2, <2>k, <3>1 DEF Knows
    <3>2. CASE pc = "failing"
      BY <1>n, <2>2, <2>k, <3>2 DEF Knows, Missing
    <3> QED
      BY <3>1, <3>2
  <2>p. posted' \in 0..Replies + 1
    BY <1>n, <2>2, <2>k
  <2>5. pc \in PCs \ {"idle"}
    BY DEF PCs
  <2>6. receipt' = receipt /\ row' = row
    BY <2>1
  <2>7. TypeOK' /\ SendersSound'
    BY <1>8, <2>1, <2>2, <2>3, <2>4, <2>5, <2>6, <2>p
  <2>8. CheckpointIsTrue'
    <3>1. receipt'.remaining = Replies - n /\ receipt'.outcome = "pending"
      BY <2>2, <2>6
    <3>2. posted' \in {n + 1, n + 2}
      BY <2>2, <2>k
    <3>3. CASE posted' = n + 1
      BY <1>n, <3>1, <3>3 DEF CheckpointIsTrue
    <3>4. CASE posted' = n + 2
      BY <1>n, <3>1, <3>4 DEF CheckpointIsTrue
    <3> QED
      BY <3>2, <3>3, <3>4
  <2>9. FailedLeftNoMessage'
    BY <1>2, <2>1 DEF FailedLeftNoMessage
  <2> QED
    BY <2>7, <2>8, <2>9 DEF TelegramInv
<1>11. ASSUME NEW h \in Handlers, ReplyCheckpoint(h) PROVE TelegramInv'
  <2> DEFINE n == sender[h].next
  <2>0. sender \in Senders
    BY <1>0 DEF Senders
  <2>1. Active(h) /\ row' = row /\ posted' = posted /\ sender[h].pc = "checkpoint"
    BY <1>11 DEF ReplyCheckpoint, Active
  <2>2. /\ n \in 0..Replies /\ n < Replies /\ posted = n + 2 /\ receipt \in Claim
        /\ receipt.remaining = Replies - n /\ receipt.outcome = "pending"
    BY <1>2, <2>1 DEF KnowsOf, Knows
  <2>3. /\ receipt' \in Claim /\ receipt'.st = receipt.st
        /\ \/ receipt' = receipt
           \/ /\ receipt'.remaining = Replies - n - 1
              /\ receipt'.outcome = IF Replies - n - 1 = 0 THEN "confirmed" ELSE "pending"
    <3>1. Replies - n - 1 \in 0..Replies
      BY <1>n, <2>2
    <3>2. Checkpoint(Replies - n, Replies - n - 1)
      BY <1>11 DEF ReplyCheckpoint
    <3> HIDE DEF n
    <3> QED
      BY <2>2, <3>1, <3>2, CheckpointDoes
  <2>4. PICK pc \in {"accepted", "reply", "failing"}, m \in {n, n + 1}, said \in Outcomes :
          /\ sender' = [sender EXCEPT ![h] = At(pc, m, said)]
          /\ pc = "failing" => m = n /\ said = "unknown"
          /\ pc # "failing" =>
               /\ receipt' # receipt /\ m = n + 1
               /\ pc = IF Replies - n = 1 THEN "accepted" ELSE "reply"
    <3>1. CASE /\ receipt' # receipt
               /\ sender' = [sender EXCEPT ![h] =
                      At(IF Replies - n = 1 THEN "accepted" ELSE "reply", n + 1, sender[h].said)]
      <4> DEFINE q == IF Replies - n = 1 THEN "accepted" ELSE "reply"
      <4>1. sender' = [sender EXCEPT ![h] = At(q, n + 1, sender[h].said)]
        BY <3>1
      <4>2. q \in {"accepted", "reply"}
        OBVIOUS
      <4>3. sender[h].said \in Outcomes
        BY <1>2, <2>1
      <4>4. /\ q = "failing" => n + 1 = n /\ sender[h].said = "unknown"
            /\ q # "failing" => receipt' # receipt
                                /\ q = IF Replies - n = 1 THEN "accepted" ELSE "reply"
        BY <3>1
      <4> HIDE DEF q
      <4> QED
        BY <4>1, <4>2, <4>3, <4>4
    <3>2. CASE Fail(h, "unknown")
      BY <2>0, <3>2 DEF Fail, Outcomes
    <3> QED
      BY <1>11, <3>1, <3>2 DEF ReplyCheckpoint, Saved
  <2> HIDE DEF n
  <2>k. /\ pc = "failing" => m = n /\ said = "unknown"
        /\ pc # "failing" =>
             /\ receipt' # receipt /\ m = n + 1
             /\ pc = IF Replies - n = 1 THEN "accepted" ELSE "reply"
    BY <2>4
  <2>5. Knows(pc, m, said)' /\ posted' \in 0..Replies + 1 /\ m \in 0..Replies
    <3>1. posted' = n + 2
      BY <2>1, <2>2
    <3>2. posted' \in 0..Replies + 1 /\ m \in 0..Replies
      BY <1>n, <2>2, <3>1
    <3>3. CASE pc = "failing"
      BY <1>n, <2>2, <2>k, <3>1, <3>3 DEF Knows, Missing
    <3>4. CASE pc = "reply"
      BY <1>n, <2>2, <2>3, <2>k, <3>1, <3>4 DEF Knows, Missing
    <3>5. CASE pc = "accepted"
      BY <1>n, <2>2, <2>3, <2>k, <3>1, <3>5 DEF Knows, Missing
    <3> QED
      BY <3>2, <3>3, <3>4, <3>5
  <2>6. pc \in PCs \ {"idle"}
    BY DEF PCs
  <2>7. TypeOK' /\ SendersSound'
    BY <1>8, <2>1, <2>3, <2>4, <2>5, <2>6
  <2>8. CheckpointIsTrue'
    BY <1>n, <2>1, <2>2, <2>3 DEF CheckpointIsTrue, Partial
  <2>9. FailedLeftNoMessage'
    BY <1>2, <2>1, <2>3 DEF FailedLeftNoMessage
  <2> QED
    BY <2>7, <2>8, <2>9 DEF TelegramInv
\* An ending of the claim by the callback that holds it.
<1>12. ASSUME NEW h \in Handlers, Active(h), Leave(h), posted' = posted,
              receipt' \in Claim, row' \in {"publishing", "published", "failed"},
              CheckpointIsTrue', FailedLeftNoMessage'
       PROVE  TelegramInv'
  <2>1. TypeOK'
    BY <1>0, <1>12, IdleIs DEF Leave, TypeOK
  <2>2. receipt' # None
    BY <1>c, <1>12
  <2>3. SendersSound'
    BY <1>5, <1>12, <2>1, <2>2
  <2> QED
    BY <1>12, <2>1, <2>3 DEF TelegramInv
<1>13. ASSUME NEW h \in Handlers, RecordPartial(h) PROVE TelegramInv'
  <2> DEFINE n == sender[h].next
             said == sender[h].said
  <2>1. Active(h) /\ Leave(h) /\ posted' = posted /\ sender[h].pc = "failing"
    BY <1>13 DEF RecordPartial, Active
  <2>2. /\ n \in 0..Replies /\ said \in Outcomes /\ receipt \in Claim
        /\ Missing <= Replies - n /\ Replies - n <= Missing + 1
        /\ said \in {"not_sent", "rejected"} => Replies - n = Missing
    BY <1>2, <2>1 DEF KnowsOf, Knows
  <2>3. CASE UNCHANGED <<row, receipt>>
    BY <1>6, <2>1, <2>3
  <2>4. CASE /\ InFlight
             /\ receipt' = [PartialFailure(Replies - n, said) EXCEPT !.st = "unknown"]
             /\ row' = IF row = "publishing" THEN "failed" ELSE row
    <3> HIDE DEF n, said
    <3>1. Replies - n \in 0..Replies
      BY <1>n, <2>2
    <3>2. /\ receipt' \in Claim /\ receipt'.st = "unknown"
          /\ \/ receipt'.remaining = receipt.remaining /\ receipt'.outcome = receipt.outcome
                /\ receipt.remaining # None
             \/ receipt'.remaining = Replies - n /\ receipt'.outcome = said
      <4>1. CASE receipt.remaining \in {None, Replies - n}
        <5>1. receipt' = [[receipt EXCEPT !.remaining = Replies - n, !.outcome = said]
                             EXCEPT !.st = "unknown"]
          BY <2>4, <4>1 DEF PartialFailure
        <5> QED
          BY <2>2, <3>1, <5>1 DEF Claim
      <4>2. CASE receipt.remaining \notin {None, Replies - n}
        <5>1. receipt' = [receipt EXCEPT !.st = "unknown"]
          BY <2>4, <4>2 DEF PartialFailure
        <5> QED
          BY <2>2, <4>2, <5>1 DEF Claim
      <4> QED
        BY <4>1, <4>2
    <3>3. CheckpointIsTrue'
      <4>1. Missing' = Missing
        BY <2>1 DEF Missing
      <4>2. CASE receipt'.remaining = receipt.remaining /\ receipt'.outcome = receipt.outcome
                 /\ receipt.remaining # None
        BY <1>s, <1>c, <2>1, <2>2, <4>2 DEF CheckpointIsTrue, Partial
      <4>3. CASE receipt'.remaining = Replies - n /\ receipt'.outcome = said
        BY <2>1, <2>2, <4>3 DEF CheckpointIsTrue, Partial, Missing
      <4> QED
        BY <3>2, <4>2, <4>3
    <3>4. FailedLeftNoMessage'
      BY <3>2 DEF FailedLeftNoMessage
    <3>5. row' \in {"publishing", "published", "failed"}
      BY <1>0, <2>4
    <3> QED
      BY <1>12, <2>1, <3>2, <3>3, <3>4, <3>5
  <2> QED
    BY <1>13, <2>3, <2>4 DEF RecordPartial, Ending
<1>14. ASSUME NEW h \in Handlers, RecordFailure(h) PROVE TelegramInv'
  <2>1. Active(h) /\ Leave(h) /\ posted' = posted /\ sender[h].pc \in {"refused", "silent"}
    BY <1>14 DEF RecordFailure, Active
  <2>2. receipt \in Claim /\ ~ Partial /\ sender[h].pc = "refused" => posted = 0
    BY <1>2, <2>1 DEF KnowsOf, Knows
  <2>3. receipt.remaining = None
    BY <1>c, <1>2, <2>1, <2>2 DEF Partial, KnowsOf, Knows
  <2>4. CASE UNCHANGED <<row, receipt>>
    BY <1>6, <2>1, <2>4
  <2>5. CASE /\ receipt' = [receipt EXCEPT !.st =
                   Ending(OutcomeOfPrimary(sender[h].pc = "refused"), FALSE)]
             /\ row' = IF row = "publishing" THEN "failed" ELSE row
    <3> DEFINE end == Ending(OutcomeOfPrimary(sender[h].pc = "refused"), FALSE)
    <3>1. end \in {"failed", "unknown"} /\ (end = "failed" => sender[h].pc = "refused")
      BY DEF Ending, OutcomeOfPrimary
    <3>2. receipt' = [receipt EXCEPT !.st = end]
      BY <2>5
    <3> HIDE DEF end
    <3>3. receipt' \in Claim /\ receipt'.st = end /\ receipt'.remaining = receipt.remaining
      BY <1>2, <2>1, <3>1, <3>2 DEF Claim
    <3>4. CheckpointIsTrue' /\ FailedLeftNoMessage'
      <4>1. ~ Partial'
        BY <2>3, <3>3 DEF Partial
      <4>2. receipt'.st = "failed" => posted' = 0
        BY <1>2, <2>1, <3>1, <3>3 DEF KnowsOf, Knows
      <4> QED
        BY <4>1, <4>2 DEF CheckpointIsTrue, FailedLeftNoMessage
    <3>5. row' \in {"publishing", "published", "failed"}
      BY <1>0, <2>5
    <3> QED
      BY <1>12, <2>1, <3>3, <3>4, <3>5
  <2> QED
    BY <1>14, <2>4, <2>5 DEF RecordFailure
<1>15. ASSUME NEW h \in Handlers, RecordPublished(h) PROVE TelegramInv'
  <2>1. Active(h) /\ Leave(h) /\ posted' = posted
    BY <1>15 DEF RecordPublished, Active
  <2>2. CASE UNCHANGED <<row, receipt>>
    BY <1>6, <2>1, <2>2
  <2>3. CASE row' = "published" /\ receipt' = [NewClaim EXCEPT !.st = "published"]
    <3>1. receipt' \in Claim /\ receipt'.st = "published" /\ receipt'.remaining = None
      BY <2>3 DEF NewClaim, Claim, Outcomes
    <3>2. CheckpointIsTrue' /\ FailedLeftNoMessage'
      BY <3>1 DEF CheckpointIsTrue, FailedLeftNoMessage, Partial
    <3> QED
      BY <1>12, <2>1, <2>3, <3>1, <3>2
  <2> QED
    BY <1>15, <2>2, <2>3 DEF RecordPublished
<1>16. ASSUME NEW h \in Handlers, Crash(h) PROVE TelegramInv'
  BY <1>6, <1>16 DEF Crash, Active
<1>17. ASSUME UNCHANGED vars PROVE TelegramInv'
  BY <1>17 DEF vars, TelegramInv, TypeOK, SendersSound, CheckpointIsTrue, FailedLeftNoMessage,
     Active, KnowsOf, Knows, Missing, Partial
<1> QED
  BY <1>1, <1>3, <1>4, <1>7, <1>9, <1>10, <1>11, <1>13, <1>14, <1>15, <1>16, <1>17 DEF Next

\* A text that is kept, or shortened.
Kept == receipt' # None /\ receipt'.remaining # None /\ receipt'.remaining <= receipt.remaining

\* What a step does to a remaining text that is there.
LEMMA RemainderStep ==
    ASSUME TelegramAssumption, TelegramInv, Next, Partial PROVE Kept \/ row' = "published"
<1>1. /\ receipt \in Claim /\ receipt # None /\ receipt.remaining \in 0..Replies
      /\ sender \in [Handlers -> [pc : PCs, next : 0..Replies, said : Outcomes]]
  BY DEF TelegramInv, TypeOK, Partial, Claim
<1>2. Replies \in Nat /\ None \notin Nat /\ None \notin Claim
  BY DEF TelegramAssumption
<1>3. ASSUME receipt' \in Claim, receipt'.remaining = receipt.remaining PROVE Kept
  BY <1>1, <1>2, <1>3 DEF Kept
<1>4. ASSUME receipt' = receipt PROVE Kept
  BY <1>1, <1>3, <1>4
<1>5. ASSUME receipt' = [receipt EXCEPT !.st = "unknown"] PROVE Kept
  <2>1. receipt' \in Claim /\ receipt'.remaining = receipt.remaining
    BY <1>1, <1>5 DEF Claim
  <2> QED
    BY <1>3, <2>1
<1>6. ASSUME NEW h \in Handlers, Active(h)
      PROVE  KnowsOf(h) /\ sender[h].next \in 0..Replies
  BY <1>1, <1>6 DEF TelegramInv, SendersSound
<1>7. CASE GiveUp
  BY <1>4, <1>5, <1>7 DEF GiveUp
<1>8. ASSUME NEW h \in Handlers, ClaimSend(h) PROVE Kept
  BY <1>1, <1>4, <1>5, <1>8 DEF ClaimSend
<1>9. ASSUME NEW h \in Handlers, SendPrimary(h) \/ SendReply(h) \/ Crash(h) PROVE Kept
  BY <1>4, <1>9 DEF SendPrimary, SendReply, Crash
<1>10. ASSUME NEW h \in Handlers PROVE ~ Release(h) /\ ~ FirstCheckpoint(h)
  BY <1>6 DEF Release, FirstCheckpoint, Active, KnowsOf, Knows
<1>11. ASSUME NEW h \in Handlers, ReplyCheckpoint(h) PROVE Kept
  <2>1. Active(h) /\ sender[h].pc = "checkpoint"
    BY <1>11 DEF ReplyCheckpoint, Active
  <2>2. PICK n \in 0..Replies :
           n = sender[h].next /\ n < Replies /\ receipt.remaining = Replies - n
    BY <1>6, <2>1 DEF KnowsOf, Knows
  <2>3. Checkpoint(Replies - n, Replies - n - 1)
    BY <1>11, <2>2 DEF ReplyCheckpoint
  <2>4. Replies - n - 1 \in 0..Replies
    BY <1>2, <2>2
  <2>5. receipt' \in Claim /\ (receipt' = receipt \/ receipt'.remaining = Replies - n - 1)
    BY <1>1, <2>3, <2>4, CheckpointDoes
  <2>6. CASE receipt'.remaining = Replies - n - 1
    <3>1. receipt' # None
      BY <1>2, <2>5
    <3>2. receipt'.remaining # None
      BY <1>2, <2>4, <2>6
    <3>3. receipt'.remaining <= receipt.remaining
      BY <1>2, <2>2, <2>6
    <3> QED
      BY <3>1, <3>2, <3>3 DEF Kept
  <2> QED
    BY <1>4, <2>5, <2>6
<1>12. ASSUME NEW h \in Handlers, RecordPartial(h) PROVE Kept
  <2>1. Active(h)
    BY <1>12 DEF RecordPartial, Active
  <2>2. PICK n \in 0..Replies : n = sender[h].next
    BY <1>6, <2>1
  <2> DEFINE said == sender[h].said
  <2>3. CASE receipt' = [PartialFailure(Replies - n, said) EXCEPT !.st = "unknown"]
    <3>1. said \in Outcomes /\ Replies - n \in 0..Replies
      BY <1>1, <1>2
    <3> HIDE DEF said
    <3>2. CASE receipt.remaining = Replies - n
      <4>1. receipt' = [[receipt EXCEPT !.remaining = Replies - n, !.outcome = said]
                           EXCEPT !.st = "unknown"]
        BY <2>3, <3>2 DEF PartialFailure
      <4>2. receipt' \in Claim /\ receipt'.remaining = Replies - n
        BY <1>1, <3>1, <4>1 DEF Claim
      <4> QED
        BY <1>3, <3>2, <4>2
    <3>3. CASE receipt.remaining # Replies - n
      <4>1. receipt.remaining \notin {None, Replies - n}
        BY <1>1, <1>2, <3>3
      <4> QED
        BY <1>5, <2>3, <4>1 DEF PartialFailure
    <3> QED
      BY <3>2, <3>3
  <2> QED
    BY <1>4, <1>12, <2>2, <2>3 DEF RecordPartial, Ending
<1>13. ASSUME NEW h \in Handlers, RecordFailure(h) PROVE Kept
  <2>1. Active(h) /\ sender[h].pc \in {"refused", "silent"}
    BY <1>13 DEF RecordFailure, Active
  <2> QED
    BY <1>6, <2>1 DEF KnowsOf, Knows
<1>14. ASSUME NEW h \in Handlers, RecordPublished(h) PROVE Kept \/ row' = "published"
  BY <1>4, <1>14 DEF RecordPublished
<1> QED
  BY <1>7, <1>8, <1>9, <1>10, <1>11, <1>12, <1>13, <1>14 DEF Next

LEMMA TelegramSafe == TelegramAssumption => (Spec => []TelegramInv)
<1> SUFFICES ASSUME TelegramAssumption PROVE Spec => []TelegramInv
  OBVIOUS
<1>1. Init => TelegramInv
  BY TelegramInit
<1>2. TelegramInv /\ [Next]_vars => TelegramInv'
  BY TelegramStep
<1> QED
  BY <1>1, <1>2, PTL DEF Spec

\* The row, its receipt and what each callback knows keep their types.
THEOREM TelegramTypes == TelegramAssumption => (Spec => []TypeOK)
<1>1. TelegramInv => TypeOK
  BY DEF TelegramInv
<1> QED
  BY <1>1, TelegramSafe, PTL

\* The remaining text a person sees holds every message that is not posted, and at most
\* one that is and was not recorded: markTelegramPartAccepted is called after each
\* accepted message and its compare-and-swap lets no other callback in between.
THEOREM CheckpointTellsTruth == TelegramAssumption => (Spec => []CheckpointIsTrue)
<1>1. TelegramInv => CheckpointIsTrue
  BY DEF TelegramInv
<1> QED
  BY <1>1, TelegramSafe, PTL

\* A post that reads as failed left no message: markFailed writes "unknown" over a
\* checkpoint, and "failed" only after a refusal of the primary message.
THEOREM FailedLeftNothing == TelegramAssumption => (Spec => []FailedLeftNoMessage)
<1>1. TelegramInv => FailedLeftNoMessage
  BY DEF TelegramInv
<1> QED
  BY <1>1, TelegramSafe, PTL

\* No step gives a recorded message back to the remaining text: partialFailureColumns
\* only writes over an absent or an equal checkpoint.
THEOREM RemainderShrinks == TelegramAssumption => (Spec => RemainingOnlyShrinks)
<1> SUFFICES ASSUME TelegramAssumption PROVE Spec => RemainingOnlyShrinks
  OBVIOUS
<1>1. TelegramInv /\ [Next]_vars =>
         [Partial =>
            \/ receipt' # None /\ receipt'.remaining # None /\ receipt'.remaining <= receipt.remaining
            \/ row' = "published"]_vars
  BY RemainderStep DEF Kept
<1>2. Spec => []TelegramInv
  BY TelegramSafe
<1>3. Spec => [][Next]_vars
  BY DEF Spec
<1> QED
  BY <1>1, <1>2, <1>3, PTL DEF RemainingOnlyShrinks
=============================================================================
