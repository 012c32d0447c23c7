----------------------------- MODULE StagedProofs -----------------------------
(***************************************************************************)
(* Module StagedPublication proved about: however often a delivery to Meta  *)
(* is approved, prepared, recovered and approved again, at most one final   *)
(* request made a post that no person has declared undelivered.             *)
(*                                                                         *)
(* The inductive invariant is StagedInv.  It says what a callback may still *)
(* do from where it stands, whatever became of its stage in the meantime    *)
(* (WorkerSound), and that a receipt which a final request may have made,   *)
(* or may still make, public is the one in flight, the last word of a       *)
(* failed delivery, or the end of a published one (HistorySound).           *)
(***************************************************************************)
EXTENDS StagedPublication, FiniteSetTheorems, SequenceTheorems, TLAPS

Early   == {"begun", "prepared", "acquired", "deferring", "ready"}
Sending == {"claimed", "finalizing"}

Final(phase) == phase \in EndPhases \cup {"published"}

\* The final request under this claim was accepted, or is about to be sent.
Sends(g, i)    == worker[g].pc \in Sending /\ worker[g].claim = i
MayBePublic(i) == claims[i].posted \/ \E g \in Handlers : Sends(g, i)

AttemptsSound == row.att + (IF row.st = "queued" THEN 1 ELSE 0) <= decisions

StageSound(a) ==
    /\ a > row.att => stages[a].phase = "none"
    /\ stages[a].phase \in {"none", "preparation_intent", "waiting", "preparation_unknown"} =>
          stages[a].claim = 0
    /\ stages[a].claim # 0 =>
          stages[a].claim \in DOMAIN claims /\ claims[stages[a].claim].att = a
    /\ stages[a].phase = "published" =>
          stages[a].claim # 0 /\ claims[stages[a].claim].st = "published"
    /\ Final(stages[a].phase) /\ stages[a].lease # None => stages[a].phase = "preparation_unknown"

\* A receipt that may be public says so, in what it reads as or in what the delivery does.
HistorySound(i) ==
    /\ claims[i].st = "in_flight" =>
          /\ i = Len(claims) /\ row.st = "publishing"
          /\ row.att \in StageNumbers /\ stages[row.att].claim = i
    /\ claims[i].st = "published" => row.st = "published" /\ claims[i].att = row.att
    /\ i > cleared /\ MayBePublic(i) =>
          \/ claims[i].st = "in_flight"
          \/ claims[i].st = "unknown" /\ row.st = "failed" /\ i = Len(claims)
          \/ row.st = "published"

OnePublic ==
    \A i, j \in DOMAIN claims :
        i > cleared /\ j > cleared /\ MayBePublic(i) /\ MayBePublic(j) => i = j

\* Whoever prepares, or has lost its preparation, holds a stage that still says so.
Preparing(g) ==
    \/ worker[g].pc \in {"begun", "prepared"}
    \/ worker[g].pc = "stopping" /\ worker[g].end = "preparation_unknown"

WorkerSound(g) ==
    LET w  == worker[g]
        st == stages[w.a]
    IN  /\ w.pc = "loaded" => w.seen.st = "queued"
        /\ w.pc \notin {"idle", "loaded", "returning"} => w.a \in StageNumbers
        /\ w.claim # 0 => w.a \in StageNumbers /\ w.claim = st.claim
        /\ w.pc \in Sending \cup {"confirmed", "accepted", "retaining"} => w.claim # 0
        /\ w.kept => w.claim # 0
        /\ Preparing(g) => Final(st.phase) \/ (st.phase = "preparation_intent" /\ st.lease = g)
        /\ w.pc \in Early /\ st.lease = g => st.claim = 0
        /\ w.pc \in Sending => ~ claims[w.claim].posted /\ (st.lease = g \/ Final(st.phase))
        /\ w.pc = "stopping" /\ w.end # "final_unknown" /\ st.lease = g /\ ~ Final(st.phase) =>
              \A i \in DOMAIN claims : i = st.claim => ~ MayBePublic(i)
        /\ w.pc = "recording" /\ w.end # "final_unknown" =>
              /\ Final(st.phase)
              /\ \A i \in DOMAIN claims : i = st.claim => ~ MayBePublic(i)

OneSender ==
    \A f, g \in Handlers : worker[f].claim = worker[g].claim /\ worker[f].claim # 0 => f = g

RecoveredSound ==
    recovered # None =>
        /\ Final(stages[recovered.a].phase) /\ recovered.claim = stages[recovered.a].claim
        /\ recovered.end # "final_unknown" => recovered.claim = 0

StagedInv ==
    /\ TypeOK /\ AttemptsSound
    /\ \A a \in StageNumbers : StageSound(a)
    /\ \A i \in DOMAIN claims : HistorySound(i)
    /\ OnePublic /\ OneContainer /\ OneSender /\ RecoveredSound
    /\ \A g \in Handlers : WorkerSound(g)

(***************************************************************************)
(* Records                                                                  *)
(***************************************************************************)
LEMMA Names ==
    /\ {"pending", "queued", "publishing", "published", "failed"}
         \cap {"in_flight", "unknown"} = {}
    /\ EndPhases \subseteq Phases /\ LivePhases \subseteq Phases
    /\ LivePhases \cap (EndPhases \cup {"published", "none"}) = {}
    /\ "none" \notin EndPhases \cup {"published"}
  BY DEF EndPhases, LivePhases, Phases

\* A step of one callback leaves the others where they are.
LEMMA Puts ==
    ASSUME worker \in [Handlers -> Worker], NEW h \in Handlers, NEW x \in Worker,
           worker' = [worker EXCEPT ![h] = x]
    PROVE  /\ worker' \in [Handlers -> Worker] /\ worker'[h] = x
           /\ \A g \in Handlers : g # h => worker'[g] = worker[g]
  OBVIOUS

LEMMA StopPuts ==
    ASSUME TypeOK, NEW h \in Handlers, NEW end \in EndPhases, Stop(h, end)
    PROVE  LET x == [worker[h] EXCEPT !.pc = "stopping", !.end = end]
           IN  x \in Worker /\ worker' = [worker EXCEPT ![h] = x]
<1>1. worker[h] \in Worker
  BY DEF TypeOK
<1>2. "stopping" \in PCs
  BY DEF PCs
<1>3. [worker[h] EXCEPT !.pc = "stopping", !.end = end] \in Worker
  BY <1>1, <1>2 DEF Worker
<1> QED
  BY <1>3 DEF Stop, TypeOK

LEMMA GotoPuts ==
    ASSUME TypeOK, NEW h \in Handlers, NEW pc \in PCs, Goto(h, pc)
    PROVE  LET x == [worker[h] EXCEPT !.pc = pc]
           IN  x \in Worker /\ worker' = [worker EXCEPT ![h] = x]
<1>1. worker[h] \in Worker
  BY DEF TypeOK
<1>2. [worker[h] EXCEPT !.pc = pc] \in Worker
  BY <1>1 DEF Worker
<1> QED
  BY <1>2 DEF Goto, TypeOK

LEMMA IdleIs ==
    ASSUME StagedAssumption
    PROVE  /\ Idle \in Worker /\ Idle.pc = "idle" /\ Idle.claim = 0 /\ Idle.kept = FALSE
           /\ Idle.a = 0 /\ Idle.end = "failed" /\ PublishJob \in Job
<1>1. "idle" \in PCs /\ "failed" \in EndPhases
  BY DEF PCs, EndPhases
<1>2. PublishJob \in Job
  BY DEF StagedAssumption, PublishJob, Job
<1>3. [st |-> "pending", att |-> 0] \in Row
  BY DEF Row
<1> QED
  BY <1>1, <1>2, <1>3 DEF StagedAssumption, Idle, Worker

LEMMA LeavePuts ==
    ASSUME StagedAssumption, TypeOK, NEW h \in Handlers, Leave(h)
    PROVE  \E x \in Worker :
              /\ worker' = [worker EXCEPT ![h] = x]
              /\ x.pc = "returning" /\ x.claim = 0 /\ x.kept = FALSE /\ x.end = "failed"
<1> DEFINE x == [Idle EXCEPT !.pc = "returning", !.job = worker[h].job, !.live = worker[h].live]
<1>1. worker[h] \in Worker
  BY DEF TypeOK
<1>2. worker[h].job \in Job /\ worker[h].live \in BOOLEAN
  BY <1>1 DEF Worker
<1>3. "returning" \in PCs
  BY DEF PCs
<1>4. x \in Worker /\ x.pc = "returning" /\ x.claim = 0 /\ x.kept = FALSE /\ x.end = "failed"
  BY <1>2, <1>3, IdleIs DEF Worker
<1> QED
  BY <1>4 DEF Leave

LEMMA ReleasedIs ==
    ASSUME NEW st \in Stage
    PROVE  /\ Released(st) \in Stage /\ Released(st).lease = None
           /\ Released(st).phase = st.phase /\ Released(st).claim = st.claim
  BY DEF Stage, Released

LEMMA EndedIs ==
    ASSUME StagedAssumption, NEW st \in Stage, NEW phase \in Phases
    PROVE  /\ Ended(st, phase) \in Stage /\ Ended(st, phase).lease = None
           /\ Ended(st, phase).phase = phase /\ Ended(st, phase).claim = st.claim
<1> DEFINE r == Released(st)
<1>1. r \in Stage /\ r.lease = None /\ r.claim = st.claim
  BY ReleasedIs
<1>2. 0 \in 0..MaxPolls
  BY DEF StagedAssumption
<1> HIDE DEF r
<1>3. CASE phase \in LivePhases
  <2>1. Ended(st, phase) = [r EXCEPT !.phase = phase]
    BY <1>3 DEF Ended, r
  <2> QED
    BY <1>1, <2>1 DEF Stage
<1>4. CASE phase \notin LivePhases
  <2>1. Ended(st, phase) = [r EXCEPT !.phase = phase, !.late = FALSE, !.polls = 0]
    BY <1>4 DEF Ended, r
  <2> QED
    BY <1>1, <1>2, <2>1 DEF Stage
<1> QED
  BY <1>3, <1>4

LEMMA StagePuts ==
    ASSUME stages \in [StageNumbers -> Stage], NEW a \in StageNumbers, NEW st \in Stage,
           stages' = [stages EXCEPT ![a] = st]
    PROVE  /\ stages' \in [StageNumbers -> Stage] /\ stages'[a] = st
           /\ \A b \in StageNumbers : b # a => stages'[b] = stages[b]
  OBVIOUS

\* An update in place of one receipt.
LEMMA ClaimReplaced ==
    ASSUME claims \in Seq(Claim), NEW i \in DOMAIN claims, NEW x \in Claim,
           claims' = [claims EXCEPT ![i] = x]
    PROVE  /\ claims' \in Seq(Claim) /\ DOMAIN claims' = DOMAIN claims
           /\ Len(claims') = Len(claims) /\ claims'[i] = x
           /\ \A j \in DOMAIN claims : j # i => claims'[j] = claims[j]
<1>1. DOMAIN claims = 1..Len(claims)
  BY LenProperties
<1>2. /\ claims' \in Seq(Claim) /\ Len(claims') = Len(claims)
      /\ \A j \in 1..Len(claims) : claims'[j] = IF j = i THEN x ELSE claims[j]
  BY <1>1, ExceptSeq
<1>3. DOMAIN claims' = 1..Len(claims')
  BY <1>2, LenProperties
<1> QED
  BY <1>1, <1>2, <1>3

LEMMA ClaimAppended ==
    ASSUME claims \in Seq(Claim), NEW x \in Claim, claims' = Append(claims, x)
    PROVE  /\ claims' \in Seq(Claim) /\ Len(claims) \in Nat
           /\ DOMAIN claims = 1..Len(claims) /\ DOMAIN claims' = 1..(Len(claims) + 1)
           /\ Len(claims') = Len(claims) + 1 /\ claims'[Len(claims) + 1] = x
           /\ \A j \in DOMAIN claims : claims'[j] = claims[j]
<1>1. DOMAIN claims = 1..Len(claims) /\ Len(claims) \in Nat
  BY LenProperties
<1>2. /\ claims' \in Seq(Claim) /\ Len(claims') = Len(claims) + 1
      /\ claims'[Len(claims) + 1] = x
      /\ \A j \in 1..Len(claims) : claims'[j] = claims[j]
  BY AppendProperties
<1>3. DOMAIN claims' = 1..Len(claims')
  BY <1>2, LenProperties
<1> QED
  BY <1>1, <1>2, <1>3

LEMMA NewClaimIs ==
    ASSUME NEW st \in {"in_flight", "published", "failed", "unknown"}, NEW att \in Nat,
           NEW human \in BOOLEAN
    PROVE  /\ NewClaim(st, att, human) \in Claim
           /\ NewClaim(st, att, human).st = st /\ NewClaim(st, att, human).att = att
           /\ NewClaim(st, att, human).posted = FALSE
  BY DEF NewClaim, Claim

\* What Resolved leaves: the only receipt in flight, or a new one.
LEMMA ResolvedIs ==
    ASSUME TypeOK, \A i \in DOMAIN claims : HistorySound(i),
           \A a \in StageNumbers : StageSound(a),
           NEW claim \in Nat, NEW outcome \in {"failed", "unknown"},
           row.att \in StageNumbers => claim \in {0, stages[row.att].claim},
           claims' = Resolved(claim, outcome, row.att)
    PROVE  \/ InFlight = {} /\ claims' = Append(claims, NewClaim(outcome, row.att, FALSE))
           \/ \E i \in DOMAIN claims :
                 /\ claims[i].st = "in_flight" /\ claims[i].att = row.att
                 /\ i = Len(claims) /\ row.st = "publishing"
                 /\ row.att \in StageNumbers /\ stages[row.att].claim = i
                 /\ claims' = [claims EXCEPT ![i] = [claims[i] EXCEPT !.st = outcome]]
<1>0. claims \in Seq(Claim) /\ row \in Row /\ DOMAIN claims = 1..Len(claims)
  BY LenProperties DEF TypeOK
<1>1. CASE InFlight = {}
  BY <1>1 DEF Resolved
<1>2. CASE InFlight # {}
  <2>1. PICK i \in DOMAIN claims : claims[i].st = "in_flight"
    BY <1>2 DEF InFlight
  <2>2. /\ i = Len(claims) /\ row.st = "publishing" /\ row.att \in StageNumbers
        /\ stages[row.att].claim = i
    BY <2>1 DEF HistorySound
  <2>3. claims[i].att = row.att
    <3>1. i # 0
      BY <1>0, <2>1
    <3> QED
      BY <2>2, <3>1 DEF StageSound
  <2>4. InFlight = {i}
    BY <2>1, <2>2 DEF InFlight, HistorySound
  <2>5. claims' = [j \in DOMAIN claims |->
                     IF j = i THEN [claims[j] EXCEPT !.st = outcome, !.att = row.att]
                     ELSE claims[j]]
    BY <2>2, <2>4 DEF Resolved
  <2>6. claims[i] \in Claim
    BY <1>0, <2>1, ElementOfSeq
  <2>7. [claims[i] EXCEPT !.st = outcome, !.att = row.att] = [claims[i] EXCEPT !.st = outcome]
    BY <2>3, <2>6 DEF Claim
  <2>8. claims' = [claims EXCEPT ![i] = [claims[i] EXCEPT !.st = outcome]]
    BY <2>5, <2>7, <1>0, LenProperties
  <2> QED
    BY <2>1, <2>2, <2>3, <2>8
<1> QED
  BY <1>1, <1>2

(***************************************************************************)
(* The two ways a delivery's history moves                                  *)
(***************************************************************************)
\* The delivery fails: the receipt in flight gets the verdict, or a new one says it.
Fails(outcome) ==
    /\ row.st \in {"queued", "publishing"}
    /\ row' \in Row /\ row'.st = "failed"
    /\ row'.att = row.att \/ (row.st = "queued" /\ row'.att = row.att + 1)
    /\ \/ InFlight = {} /\ claims' = Append(claims, NewClaim(outcome, row'.att, FALSE))
       \/ \E i \in DOMAIN claims :
             /\ claims[i].st = "in_flight" /\ i = Len(claims)
             /\ row.att \in StageNumbers /\ stages[row.att].claim = i /\ row'.att = row.att
             /\ claims' = [claims EXCEPT ![i] = [claims[i] EXCEPT !.st = outcome]]

LEMMA MarkFailedIs ==
    ASSUME StagedInv, NEW a \in StageNumbers, NEW claim \in {0, stages[a].claim},
           NEW outcome \in {"failed", "unknown"}, MarkFailed(a, claim, outcome)
    PROVE  \/ row' = row /\ claims' = claims
           \/ row.st = "publishing" /\ row.att = a /\ Fails(outcome)
<1>1. /\ TypeOK /\ \A i \in DOMAIN claims : HistorySound(i)
      /\ \A b \in StageNumbers : StageSound(b)
  BY DEF StagedInv
<1>2. row \in Row /\ stages[a] \in Stage /\ claim \in Nat
  BY <1>1 DEF TypeOK, Stage
<1>3. CASE row.st = "publishing" /\ row.att = a
  <2>1. row' = [row EXCEPT !.st = "failed"] /\ claims' = Resolved(claim, outcome, row.att)
    BY <1>3 DEF MarkFailed
  <2>2. row' \in Row /\ row'.st = "failed" /\ row'.att = row.att
    BY <1>2, <2>1 DEF Row
  <2>3. \/ InFlight = {} /\ claims' = Append(claims, NewClaim(outcome, row.att, FALSE))
        \/ \E i \in DOMAIN claims :
              /\ claims[i].st = "in_flight" /\ claims[i].att = row.att
              /\ i = Len(claims) /\ row.st = "publishing"
              /\ row.att \in StageNumbers /\ stages[row.att].claim = i
              /\ claims' = [claims EXCEPT ![i] = [claims[i] EXCEPT !.st = outcome]]
    BY <1>1, <1>2, <1>3, <2>1, ResolvedIs
  <2> QED
    BY <1>3, <2>2, <2>3 DEF Fails
<1>4. CASE ~ (row.st = "publishing" /\ row.att = a)
  <2>1. row' = row /\ claims' = IF claim \in InFlight THEN [claims EXCEPT ![claim].st = outcome]
                                ELSE claims
    BY <1>4 DEF MarkFailed
  <2>2. claim \notin InFlight
    <3> SUFFICES ASSUME claim \in InFlight PROVE FALSE
      OBVIOUS
    <3>1. claim \in DOMAIN claims /\ claims[claim].st = "in_flight"
      BY DEF InFlight
    <3>2. /\ row.st = "publishing" /\ row.att \in StageNumbers
          /\ stages[row.att].claim = claim
      BY <1>1, <3>1 DEF HistorySound
    <3>3. claim # 0
      BY <1>1, <3>1, LenProperties DEF TypeOK
    <3>4. claims[claim].att = a /\ claims[claim].att = row.att
      BY <1>1, <3>2, <3>3 DEF StageSound
    <3> QED
      BY <1>4, <3>2, <3>4
  <2> QED
    BY <2>1, <2>2
<1> QED
  BY <1>3, <1>4

LEMMA SweepIs ==
    ASSUME StagedInv, row.st \in {"queued", "publishing"},
           NEW outcome \in {"failed", "unknown"},
           row' = [row EXCEPT !.st = "failed"], claims' = Resolved(0, outcome, row.att)
    PROVE  Fails(outcome)
<1>1. /\ TypeOK /\ \A i \in DOMAIN claims : HistorySound(i)
      /\ \A b \in StageNumbers : StageSound(b)
  BY DEF StagedInv
<1>2. row' \in Row /\ row'.st = "failed" /\ row'.att = row.att
  BY <1>1 DEF TypeOK, Row
<1>3. \/ InFlight = {} /\ claims' = Append(claims, NewClaim(outcome, row.att, FALSE))
      \/ \E i \in DOMAIN claims :
            /\ claims[i].st = "in_flight" /\ claims[i].att = row.att
            /\ i = Len(claims) /\ row.st = "publishing"
            /\ row.att \in StageNumbers /\ stages[row.att].claim = i
            /\ claims' = [claims EXCEPT ![i] = [claims[i] EXCEPT !.st = outcome]]
  BY <1>1, ResolvedIs
<1> QED
  BY <1>2, <1>3 DEF Fails

\* A start is refused under a preflight, which found nothing in flight.
LEMMA RefusedIs ==
    ASSUME StagedInv, row.st = "queued", ~ ClaimsBlock,
           row' = [st |-> "failed", att |-> row.att + 1],
           claims' = Resolved(0, "failed", row.att + 1)
    PROVE  Fails("failed")
<1>1. row \in Row /\ row' \in Row /\ row'.st = "failed" /\ row'.att = row.att + 1
  BY DEF StagedInv, TypeOK, Row
<1>2. InFlight = {}
  BY DEF InFlight, ClaimsBlock
<1>3. claims' = Append(claims, NewClaim("failed", row.att + 1, FALSE))
  BY <1>2 DEF Resolved
<1> QED
  BY <1>1, <1>2, <1>3 DEF Fails

LEMMA FailsType ==
    ASSUME TypeOK, NEW outcome \in {"failed", "unknown"}, Fails(outcome)
    PROVE  row' \in Row /\ claims' \in Seq(Claim)
<1>1. row' \in Row /\ row'.att \in Nat
  BY DEF Fails, Row
<1>2. CASE claims' = Append(claims, NewClaim(outcome, row'.att, FALSE))
  BY <1>1, <1>2, NewClaimIs, ClaimAppended DEF TypeOK
<1>3. ASSUME NEW i \in DOMAIN claims,
             claims' = [claims EXCEPT ![i] = [claims[i] EXCEPT !.st = outcome]]
      PROVE  claims' \in Seq(Claim)
  <2>1. claims[i] \in Claim
    BY ElementOfSeq, LenProperties DEF TypeOK
  <2>2. [claims[i] EXCEPT !.st = outcome] \in Claim
    BY <2>1 DEF Claim
  <2> QED
    BY <1>3, <2>2, ClaimReplaced DEF TypeOK
<1> QED
  BY <1>1, <1>2, <1>3 DEF Fails

(***************************************************************************)
(* What a step leaves true of everybody who does not take it                *)
(***************************************************************************)
SameWork(g) ==
    /\ worker'[g].pc = worker[g].pc /\ worker'[g].a = worker[g].a
    /\ worker'[g].claim = worker[g].claim /\ worker'[g].end = worker[g].end
    /\ worker'[g].kept = worker[g].kept /\ worker'[g].seen = worker[g].seen

\* All but h, which is None when no callback moves.
OthersRest(h) == \A g \in Handlers : g # h => SameWork(g)

\* Nobody begins to send.
KeepsSending ==
    \A g \in Handlers : worker'[g].pc \in Sending =>
        worker[g].pc \in Sending /\ worker'[g].claim = worker[g].claim

\* What a step of another may do to a stage that callback g works on.
StageRests(b, g) ==
    /\ stages'[b].lease = g => stages[b].lease = g /\ stages'[b].claim = stages[b].claim
    /\ Final(stages[b].phase) => Final(stages'[b].phase) /\ stages'[b].claim = stages[b].claim
    /\ stages[b].claim # 0 => stages'[b].claim = stages[b].claim
    /\ worker[g].pc \in Sending /\ worker[g].claim = stages[b].claim /\ stages[b].lease = g =>
          stages'[b].lease = g \/ Final(stages'[b].phase)
    /\ Preparing(g) /\ worker[g].a = b /\ stages[b].phase = "preparation_intent" /\ stages[b].lease = g =>
          Final(stages'[b].phase) \/ (stages'[b].phase = "preparation_intent" /\ stages'[b].lease = g)

\* No receipt vanishes, and none that nobody was about to send becomes public.
ClaimsRest ==
    \A i \in DOMAIN claims :
        /\ i \in DOMAIN claims'
        /\ claims'[i].att = claims[i].att
        /\ claims[i].st = "published" => claims'[i].st = "published"
        /\ MayBePublic(i)' => MayBePublic(i)

PostsRest(g) ==
    \A i \in DOMAIN claims : ~ claims[i].posted /\ Sends(g, i) => ~ claims'[i].posted

LEMMA WorkerKept ==
    ASSUME StagedInv, NEW g \in Handlers, SameWork(g), ClaimsRest, PostsRest(g),
           claims' \in Seq(Claim), \A b \in StageNumbers : StageRests(b, g)
    PROVE  WorkerSound(g)'
<1> DEFINE w == worker[g]
           v == worker'[g]
<1>1. /\ v.pc = w.pc /\ v.a = w.a /\ v.claim = w.claim /\ v.end = w.end
      /\ v.kept = w.kept /\ v.seen = w.seen
  BY DEF SameWork
<1>2. WorkerSound(g) /\ \A b \in StageNumbers : StageSound(b)
  BY DEF StagedInv
<1>0. PICK b : b = w.a
  OBVIOUS
<1>3. /\ v.pc = "loaded" => v.seen.st = "queued"
      /\ v.pc \notin {"idle", "loaded", "returning"} => b \in StageNumbers
      /\ v.pc \in Sending \cup {"confirmed", "accepted", "retaining"} => v.claim # 0
      /\ v.kept => v.claim # 0
  BY <1>0, <1>1, <1>2 DEF WorkerSound
<1>4. v.claim # 0 => b \in StageNumbers /\ v.claim = stages'[b].claim
  BY <1>0, <1>1, <1>2 DEF WorkerSound, StageRests
<1>5. Preparing(g)' => Final(stages'[b].phase) \/ (stages'[b].phase = "preparation_intent" /\ stages'[b].lease = g)
  <2> SUFFICES ASSUME Preparing(g)'
               PROVE  Final(stages'[b].phase) \/ (stages'[b].phase = "preparation_intent" /\ stages'[b].lease = g)
    OBVIOUS
  <2>1. Preparing(g)
    BY <1>1 DEF Preparing
  <2>2. b \in StageNumbers
    BY <1>0, <1>1, <1>2, <2>1 DEF WorkerSound, Preparing
  <2>3. Final(stages[b].phase) \/ (stages[b].phase = "preparation_intent" /\ stages[b].lease = g)
    BY <1>0, <1>2, <2>1 DEF WorkerSound
  <2> QED
    BY <1>0, <2>1, <2>2, <2>3 DEF StageRests
<1>6. v.pc \in Early /\ stages'[b].lease = g => stages'[b].claim = 0
  <2> SUFFICES ASSUME w.pc \in Early, stages'[b].lease = g PROVE stages'[b].claim = 0
    BY <1>1
  <2>1. b \in StageNumbers
    BY <1>0, <1>2 DEF WorkerSound, Early
  <2> QED
    BY <1>0, <1>2, <2>1 DEF WorkerSound, StageRests
<1>7. v.pc \in Sending =>
         ~ claims'[v.claim].posted /\ (stages'[b].lease = g \/ Final(stages'[b].phase))
  <2> SUFFICES ASSUME w.pc \in Sending
               PROVE  ~ claims'[w.claim].posted /\ (stages'[b].lease = g \/ Final(stages'[b].phase))
    BY <1>1
  <2>1. b \in StageNumbers /\ w.claim # 0 /\ w.claim = stages[b].claim
    BY <1>0, <1>2 DEF WorkerSound, Sending
  <2>2. w.claim \in DOMAIN claims
    BY <1>2, <2>1 DEF StageSound
  <2>3. ~ claims[w.claim].posted /\ (stages[b].lease = g \/ Final(stages[b].phase))
    BY <1>0, <1>2 DEF WorkerSound
  <2>4. Sends(g, w.claim)
    BY DEF Sends
  <2>5. ~ claims'[w.claim].posted
    BY <2>2, <2>3, <2>4 DEF PostsRest
  <2> QED
    BY <2>1, <2>3, <2>5 DEF StageRests
<1>8. ASSUME v.pc = "stopping", v.end # "final_unknown", stages'[b].lease = g,
             ~ Final(stages'[b].phase), NEW i \in DOMAIN claims', i = stages'[b].claim
      PROVE  ~ MayBePublic(i)'
  <2>1. b \in StageNumbers
    BY <1>0, <1>1, <1>2, <1>8 DEF WorkerSound
  <2>2. stages[b].lease = g /\ stages[b].claim = i /\ ~ Final(stages[b].phase)
    BY <1>8, <2>1 DEF StageRests
  <2>3. i # 0
    BY <1>8, LenProperties
  <2>4. ~ MayBePublic(i)'
    <3>1. i \in DOMAIN claims
      BY <1>2, <2>1, <2>2, <2>3 DEF StageSound
    <3>2. ~ MayBePublic(i)
      BY <1>0, <1>1, <1>2, <1>8, <2>2, <3>1 DEF WorkerSound
    <3> QED
      BY <3>1, <3>2 DEF ClaimsRest
  <2> QED
    BY <2>4
<1>9. ASSUME v.pc = "recording", v.end # "final_unknown"
      PROVE  /\ Final(stages'[b].phase)
             /\ \A i \in DOMAIN claims' : i = stages'[b].claim => ~ MayBePublic(i)'
  <2>1. b \in StageNumbers
    BY <1>0, <1>1, <1>2, <1>9 DEF WorkerSound
  <2>2. /\ Final(stages[b].phase)
        /\ \A i \in DOMAIN claims : i = stages[b].claim => ~ MayBePublic(i)
    BY <1>0, <1>1, <1>2, <1>9 DEF WorkerSound
  <2>3. Final(stages'[b].phase)
    BY <2>1, <2>2 DEF StageRests
  <2>4. ASSUME NEW i \in DOMAIN claims', i = stages'[b].claim PROVE ~ MayBePublic(i)'
    <3>1. i # 0
      BY <2>4, LenProperties
    <3>2. i \in DOMAIN claims /\ i = stages[b].claim
      BY <1>2, <2>1, <2>2, <2>4, <3>1 DEF StageRests, StageSound
    <3> QED
      BY <2>2, <3>2 DEF ClaimsRest
  <2> QED
    BY <2>3, <2>4
<1> QED
  <2> HIDE DEF w, v
  <2> QED
    BY <1>0, <1>1, <1>3, <1>4, <1>5, <1>6, <1>7, <1>8, <1>9 DEF WorkerSound, v, w

LEMMA OthersSound ==
    ASSUME StagedInv, NEW h, OthersRest(h), ClaimsRest, claims' \in Seq(Claim),
           \A g \in Handlers : g # h => PostsRest(g) /\ \A b \in StageNumbers : StageRests(b, g),
           h \in Handlers => WorkerSound(h)'
    PROVE  \A g \in Handlers : WorkerSound(g)'
  BY WorkerKept DEF OthersRest

LEMMA OneSenderKept ==
    ASSUME OneSender, NEW h, OthersRest(h), h \in Handlers => worker'[h].claim \in {0, worker[h].claim}
    PROVE  OneSender'
<1> SUFFICES ASSUME NEW f \in Handlers, NEW g \in Handlers,
                    worker'[f].claim = worker'[g].claim, worker'[f].claim # 0
             PROVE  f = g
  BY DEF OneSender
<1>1. worker[f].claim = worker'[f].claim /\ worker[g].claim = worker'[g].claim
  BY DEF OthersRest, SameWork
<1> QED
  BY <1>1 DEF OneSender

LEMMA SendingKept ==
    ASSUME NEW h, OthersRest(h),
           h \in Handlers /\ worker'[h].pc \in Sending =>
               worker[h].pc \in Sending /\ worker'[h].claim = worker[h].claim
    PROVE  KeepsSending
  BY DEF OthersRest, SameWork, KeepsSending

LEMMA PublicKept ==
    ASSUME KeepsSending, NEW i, claims'[i].posted => MayBePublic(i)
    PROVE  MayBePublic(i)' => MayBePublic(i)
  BY DEF KeepsSending, MayBePublic, Sends

\* A step that leaves receipts and delivery alone.
LEMMA HistoryRests ==
    ASSUME StagedInv, KeepsSending, row' = row, claims' = claims, cleared' = cleared,
           \A a \in StageNumbers : stages[a].claim # 0 => stages'[a].claim = stages[a].claim
    PROVE  /\ ClaimsRest /\ \A g \in Handlers : PostsRest(g)
           /\ \A i \in DOMAIN claims' : HistorySound(i)'
           /\ OnePublic' /\ claims' \in Seq(Claim)
<1>1. \A i \in DOMAIN claims : MayBePublic(i)' => MayBePublic(i)
  BY PublicKept DEF MayBePublic
<1>2. ClaimsRest /\ \A g \in Handlers : PostsRest(g)
  BY <1>1 DEF ClaimsRest, PostsRest
<1>3. OnePublic'
  BY <1>1 DEF StagedInv, OnePublic
<1>4. ASSUME NEW i \in DOMAIN claims' PROVE HistorySound(i)'
  <2>1. i \in DOMAIN claims /\ HistorySound(i) /\ i # 0
    BY LenProperties DEF StagedInv, TypeOK
  <2>2. claims[i].st = "in_flight" => stages'[row.att].claim = i
    BY <2>1 DEF HistorySound
  <2> QED
    BY <1>1, <2>1, <2>2 DEF HistorySound
<1> QED
  BY <1>2, <1>3, <1>4 DEF StagedInv, TypeOK

\* A step that leaves the stages alone, and the recovery with them.
LEMMA StagesRest ==
    ASSUME StagedInv, ClaimsRest, stages' = stages, row'.att >= row.att, row \in Row, row' \in Row
    PROVE  /\ \A a \in StageNumbers : StageSound(a)'
           /\ OneContainer' /\ \A g \in Handlers, b \in StageNumbers : StageRests(b, g)
           /\ recovered' = recovered => RecoveredSound'
<1>1. ASSUME NEW a \in StageNumbers PROVE StageSound(a)'
  <2>1. StageSound(a)
    BY DEF StagedInv
  <2>2. row.att \in Nat /\ row'.att \in Nat
    BY DEF Row
  <2> QED
    BY <2>1, <2>2 DEF StageSound, ClaimsRest, StageNumbers
<1>2. OneContainer'
  BY DEF StagedInv, OneContainer, StageNumbers
<1>3. ASSUME NEW g \in Handlers, NEW b \in StageNumbers PROVE StageRests(b, g)
  BY DEF StageRests
<1>4. recovered' = recovered => RecoveredSound'
  BY DEF StagedInv, RecoveredSound
<1> QED
  BY <1>1, <1>2, <1>3, <1>4

\* A step of one callback that only moves that callback, and of the queues.
LEMMA CallbackStep ==
    ASSUME StagedInv, NEW h, TypeOK', OthersRest(h), h \in Handlers => WorkerSound(h)',
           h \in Handlers => worker'[h].claim \in {0, worker[h].claim},
           h \in Handlers /\ worker'[h].pc \in Sending =>
               worker[h].pc \in Sending /\ worker'[h].claim = worker[h].claim,
           row' = row, claims' = claims, cleared' = cleared, stages' = stages,
           recovered' = recovered, decisions' = decisions
    PROVE  StagedInv'
<1>1. KeepsSending
  BY SendingKept
<1>2. /\ ClaimsRest /\ \A g \in Handlers : PostsRest(g)
      /\ \A i \in DOMAIN claims' : HistorySound(i)'
      /\ OnePublic' /\ claims' \in Seq(Claim)
  BY <1>1, HistoryRests
<1>3. row \in Row /\ row'.att >= row.att
  BY DEF StagedInv, TypeOK, Row
<1>4. /\ \A a \in StageNumbers : StageSound(a)'
      /\ OneContainer' /\ \A g \in Handlers, b \in StageNumbers : StageRests(b, g)
      /\ RecoveredSound'
  BY <1>2, <1>3, StagesRest
<1>5. \A g \in Handlers : WorkerSound(g)'
  BY <1>2, <1>4, OthersSound
<1>6. OneSender'
  BY OneSenderKept DEF StagedInv
<1>7. AttemptsSound'
  BY DEF StagedInv, AttemptsSound
<1> QED
  BY <1>2, <1>4, <1>5, <1>6, <1>7 DEF StagedInv

Unmade == {"preparation_intent", "waiting", "preparation_unknown"}

\* What every step but the first does to a stage.
StageMoves(a) ==
    /\ stages'[a].phase \in LivePhases => stages[a].phase \in LivePhases
    /\ stages'[a].phase \in Unmade => stages[a].phase \in Unmade
    /\ Final(stages[a].phase) => Final(stages'[a].phase) /\ stages'[a].claim = stages[a].claim
    /\ stages[a].claim # 0 => stages'[a].claim = stages[a].claim

\* A step that moves one stage, and leaves receipts and delivery alone.
LEMMA StageStep ==
    ASSUME StagedInv, NEW h, TypeOK', OthersRest(h), h \in Handlers => WorkerSound(h)',
           h \in Handlers => worker'[h].claim \in {0, worker[h].claim},
           h \in Handlers /\ worker'[h].pc \in Sending =>
               worker[h].pc \in Sending /\ worker'[h].claim = worker[h].claim,
           row' = row, claims' = claims, cleared' = cleared,
           decisions' \in {decisions, decisions + 1},
           NEW a \in StageNumbers, \A b \in StageNumbers : b # a => stages'[b] = stages[b],
           StageMoves(a), StageSound(a)',
           \A g \in Handlers : g # h => StageRests(a, g),
           recovered' = recovered \/ RecoveredSound'
    PROVE  StagedInv'
<1>1. KeepsSending
  BY SendingKept
<1>2. \A b \in StageNumbers : StageMoves(b)
  BY DEF StageMoves
<1>3. /\ ClaimsRest /\ \A g \in Handlers : PostsRest(g)
      /\ \A i \in DOMAIN claims' : HistorySound(i)'
      /\ OnePublic' /\ claims' \in Seq(Claim)
  BY <1>1, <1>2, HistoryRests DEF StageMoves
<1>4. ASSUME NEW b \in StageNumbers PROVE StageSound(b)'
  <2>1. CASE b = a
    BY <2>1
  <2>2. CASE b # a
    <3>1. StageSound(b) /\ stages'[b] = stages[b]
      BY <2>2 DEF StagedInv
    <3> QED
      BY <3>1 DEF StageSound
  <2> QED
    BY <2>1, <2>2
<1>5. OneContainer'
  BY <1>2 DEF StagedInv, OneContainer, StageMoves, Unmade
<1>6. ASSUME NEW g \in Handlers, g # h, NEW b \in StageNumbers PROVE StageRests(b, g)
  <2>1. CASE b = a
    BY <1>6, <2>1
  <2>2. CASE b # a
    BY <2>2 DEF StageRests
  <2> QED
    BY <2>1, <2>2
<1>7. RecoveredSound'
  <2> SUFFICES ASSUME recovered' = recovered, recovered # None PROVE RecoveredSound'
    BY DEF RecoveredSound
  <2>1. recovered.a \in StageNumbers
    BY DEF StagedInv, TypeOK
  <2>2. PICK b \in StageNumbers : b = recovered.a
    BY <2>1
  <2>3. /\ Final(stages[b].phase) /\ recovered.claim = stages[b].claim
        /\ recovered.end # "final_unknown" => recovered.claim = 0
    BY <2>2 DEF StagedInv, RecoveredSound
  <2>4. Final(stages'[b].phase) /\ recovered.claim = stages'[b].claim
    BY <1>2, <2>3 DEF StageMoves
  <2> QED
    BY <2>2, <2>3, <2>4 DEF RecoveredSound
<1>8. \A g \in Handlers : WorkerSound(g)'
  BY <1>3, <1>6, OthersSound
<1>9. OneSender'
  BY OneSenderKept DEF StagedInv
<1>10. AttemptsSound'
  BY DEF StagedInv, AttemptsSound, TypeOK, Row
<1> QED
  BY <1>3, <1>4, <1>5, <1>7, <1>8, <1>9, <1>10 DEF StagedInv

\* A step that moves receipts or delivery, and leaves the stages alone.
LEMMA HistoryStep ==
    ASSUME StagedInv, NEW h, TypeOK', OthersRest(h), h \in Handlers => WorkerSound(h)',
           h \in Handlers => worker'[h].claim \in {0, worker[h].claim},
           stages' = stages, AttemptsSound', row'.att >= row.att, ClaimsRest,
           \A g \in Handlers : g # h => PostsRest(g),
           \A i \in DOMAIN claims' : HistorySound(i)', OnePublic',
           recovered' = recovered \/ recovered' = None
    PROVE  StagedInv'
<1>1. row \in Row /\ row' \in Row /\ claims' \in Seq(Claim)
  BY DEF StagedInv, TypeOK
<1>2. /\ \A a \in StageNumbers : StageSound(a)'
      /\ OneContainer' /\ \A g \in Handlers, b \in StageNumbers : StageRests(b, g)
      /\ recovered' = recovered => RecoveredSound'
  BY <1>1, StagesRest
<1>3. RecoveredSound'
  BY <1>2 DEF RecoveredSound
<1>4. \A g \in Handlers : WorkerSound(g)'
  BY <1>1, <1>2, OthersSound
<1>5. OneSender'
  BY OneSenderKept DEF StagedInv
<1> QED
  BY <1>2, <1>3, <1>4, <1>5 DEF StagedInv

LEMMA SenderClaimed ==
    ASSUME StagedInv, NEW g \in Handlers, NEW i, Sends(g, i)
    PROVE  /\ worker[g].a \in StageNumbers /\ i = stages[worker[g].a].claim
           /\ i # 0 /\ i \in DOMAIN claims
<1>1. WorkerSound(g) /\ \A a \in StageNumbers : StageSound(a)
  BY DEF StagedInv
<1>2. worker[g].a \in StageNumbers /\ i = stages[worker[g].a].claim /\ i # 0
  BY <1>1 DEF WorkerSound, Sends, Sending
<1> QED
  BY <1>1, <1>2 DEF StageSound

\* The delivery fails, by a verdict that is true of the receipt in flight.
LEMMA FailsHistory ==
    ASSUME StagedInv, KeepsSending, stages' = stages, cleared' = cleared,
           NEW outcome \in {"failed", "unknown"}, Fails(outcome),
           outcome = "failed" => \A i \in DOMAIN claims : claims[i].st = "in_flight" => ~ MayBePublic(i)
    PROVE  /\ ClaimsRest /\ \A g \in Handlers : PostsRest(g)
           /\ \A i \in DOMAIN claims' : HistorySound(i)'
           /\ OnePublic' /\ row'.att >= row.att
<1>0. /\ \A i \in DOMAIN claims : HistorySound(i)
      /\ claims \in Seq(Claim) /\ row \in Row /\ row' \in Row /\ cleared \in Nat
      /\ DOMAIN claims = 1..Len(claims) /\ Len(claims) \in Nat
  BY LenProperties DEF StagedInv, TypeOK, Fails
<1>1. \A i \in DOMAIN claims : claims[i].st # "published"
  BY <1>0 DEF HistorySound, Fails
<1>2. \A i \in DOMAIN claims : i > cleared /\ MayBePublic(i) => claims[i].st = "in_flight"
  BY <1>0 DEF HistorySound, Fails
<1>3. row'.att >= row.att
  BY <1>0 DEF Fails, Row
<1>4. ASSUME InFlight = {}, claims' = Append(claims, NewClaim(outcome, row'.att, FALSE))
      PROVE  /\ ClaimsRest /\ \A g \in Handlers : PostsRest(g)
             /\ \A i \in DOMAIN claims' : HistorySound(i)'
             /\ OnePublic'
  <2>a. PICK n : n = Len(claims) + 1
    OBVIOUS
  <2>b. PICK att \in Nat : att = row'.att
    BY <1>0 DEF Row
  <2>c. PICK x : x = NewClaim(outcome, att, FALSE)
    OBVIOUS
  <2>1. x \in Claim /\ x.st = outcome /\ x.posted = FALSE
    BY <2>c DEF NewClaim, Claim
  <2>2. /\ DOMAIN claims' = 1..n /\ Len(claims') = n /\ claims'[n] = x
        /\ \A j \in DOMAIN claims : claims'[j] = claims[j]
    BY <1>0, <1>4, <2>a, <2>b, <2>c, <2>1, ClaimAppended
  <2>3. n \notin DOMAIN claims /\ n \in Nat
    BY <1>0, <2>a
  <2>4. ~ MayBePublic(n)'
    <3>1. \A g \in Handlers : ~ Sends(g, n)
      BY <2>3, SenderClaimed
    <3>2. \A g \in Handlers : ~ Sends(g, n)'
      BY <3>1 DEF KeepsSending, Sends
    <3> QED
      BY <2>1, <2>2, <3>2 DEF MayBePublic
  <2>5. \A i \in DOMAIN claims : MayBePublic(i)' => MayBePublic(i)
    BY <2>2, PublicKept DEF MayBePublic
  <2>6. ClaimsRest /\ \A g \in Handlers : PostsRest(g)
    BY <1>0, <2>a, <2>2, <2>5 DEF ClaimsRest, PostsRest
  <2>7. \A i \in DOMAIN claims : ~ (i > cleared /\ MayBePublic(i))
    BY <1>2, <1>4 DEF InFlight
  <2>8. \A i \in DOMAIN claims' : ~ (i > cleared' /\ MayBePublic(i)')
    <3>1. \A i \in DOMAIN claims' : i = n \/ i \in DOMAIN claims
      BY <1>0, <2>a, <2>2
    <3> QED
      BY <2>4, <2>5, <2>7, <3>1
  <2>9. OnePublic'
    BY <2>8 DEF OnePublic
  <2>10. ASSUME NEW i \in DOMAIN claims' PROVE HistorySound(i)'
    <3>1. claims'[i].st \notin {"in_flight", "published"}
      <4>1. CASE i = n
        BY <2>1, <2>2, <4>1
      <4>2. CASE i # n
        <5>1. i \in DOMAIN claims
          BY <1>0, <2>a, <2>2, <2>10, <4>2
        <5> QED
          BY <1>1, <1>4, <2>2, <5>1 DEF InFlight
      <4> QED
        BY <4>1, <4>2
    <3> QED
      BY <2>8, <3>1 DEF HistorySound
  <2> QED
    BY <2>6, <2>9, <2>10
<1>5. ASSUME NEW i \in DOMAIN claims, claims[i].st = "in_flight", i = Len(claims),
             claims' = [claims EXCEPT ![i] = [claims[i] EXCEPT !.st = outcome]]
      PROVE  /\ ClaimsRest /\ \A g \in Handlers : PostsRest(g)
             /\ \A j \in DOMAIN claims' : HistorySound(j)'
             /\ OnePublic'
  <2> DEFINE x == [claims[i] EXCEPT !.st = outcome]
  <2>1. claims[i] \in Claim
    BY <1>0, ElementOfSeq
  <2>2. x \in Claim /\ x.st = outcome /\ x.posted = claims[i].posted /\ x.att = claims[i].att
    BY <2>1 DEF Claim
  <2> HIDE DEF x
  <2>3. /\ DOMAIN claims' = DOMAIN claims /\ Len(claims') = Len(claims) /\ claims'[i] = x
        /\ \A j \in DOMAIN claims : j # i => claims'[j] = claims[j]
    BY <1>0, <1>5, <2>2, ClaimReplaced DEF x
  <2>4. \A j \in DOMAIN claims : claims'[j].posted = claims[j].posted /\ claims'[j].att = claims[j].att
    BY <2>2, <2>3
  <2>5. \A j \in DOMAIN claims : MayBePublic(j)' => MayBePublic(j)
    BY <2>4, PublicKept DEF MayBePublic
  <2>6. ClaimsRest /\ \A g \in Handlers : PostsRest(g)
    BY <1>1, <2>3, <2>4, <2>5 DEF ClaimsRest, PostsRest
  <2>7. OnePublic'
    BY <2>3, <2>5 DEF OnePublic, StagedInv
  <2>8. ASSUME NEW j \in DOMAIN claims' PROVE HistorySound(j)'
    <3>1. CASE j = i
      <4>1. claims'[j].st \notin {"in_flight", "published"}
        BY <2>2, <2>3, <3>1
      <4>2. MayBePublic(j)' => outcome = "unknown"
        BY <1>5, <2>3, <2>5, <2>8, <3>1
      <4> QED
        BY <1>5, <2>2, <2>3, <3>1, <4>1, <4>2 DEF HistorySound, Fails
    <3>2. CASE j # i
      <4>1. j \in DOMAIN claims /\ claims'[j] = claims[j]
        BY <2>3, <2>8, <3>2
      <4>2. claims[j].st \notin {"in_flight", "published"}
        BY <1>0, <1>1, <1>5, <3>2, <4>1 DEF HistorySound
      <4>3. ~ (j > cleared' /\ MayBePublic(j)')
        BY <1>2, <2>5, <4>1, <4>2
      <4> QED
        BY <4>1, <4>2, <4>3 DEF HistorySound
    <3> QED
      BY <3>1, <3>2
  <2> QED
    BY <2>6, <2>7, <2>8
<1>6. CASE \E i \in DOMAIN claims :
             /\ claims[i].st = "in_flight" /\ i = Len(claims)
             /\ row.att \in StageNumbers /\ stages[row.att].claim = i /\ row'.att = row.att
             /\ claims' = [claims EXCEPT ![i] = [claims[i] EXCEPT !.st = outcome]]
  BY <1>3, <1>5, <1>6
<1> QED
  BY <1>3, <1>4, <1>6 DEF Fails

(***************************************************************************)
(* Moves of one callback                                                    *)
(***************************************************************************)
LEMMA Moves ==
    ASSUME TypeOK, NEW h \in Handlers, NEW x \in Worker, worker' = [worker EXCEPT ![h] = x]
    PROVE  worker' \in [Handlers -> Worker] /\ worker'[h] = x /\ OthersRest(h)
  BY Puts DEF TypeOK, OthersRest, SameWork

LEMMA GotoIs ==
    ASSUME TypeOK, NEW h \in Handlers, NEW pc \in PCs, Goto(h, pc)
    PROVE  /\ worker' \in [Handlers -> Worker] /\ OthersRest(h)
           /\ worker'[h].pc = pc /\ worker'[h].a = worker[h].a
           /\ worker'[h].claim = worker[h].claim /\ worker'[h].end = worker[h].end
           /\ worker'[h].kept = worker[h].kept /\ worker'[h].seen = worker[h].seen
<1> DEFINE x == [worker[h] EXCEPT !.pc = pc]
<1>1. x \in Worker /\ worker' = [worker EXCEPT ![h] = x]
  BY GotoPuts
<1>2. worker[h] \in Worker
  BY DEF TypeOK
<1>3. x.pc = pc /\ x.a = worker[h].a /\ x.claim = worker[h].claim /\ x.end = worker[h].end
      /\ x.kept = worker[h].kept /\ x.seen = worker[h].seen
  BY <1>2 DEF Worker
<1>4. worker' \in [Handlers -> Worker] /\ worker'[h] = x /\ OthersRest(h)
  <2> HIDE DEF x
  <2> QED
    BY <1>1, Moves
<1> QED
  BY <1>3, <1>4

LEMMA RestSound ==
    ASSUME NEW h \in Handlers, worker'[h].pc \in {"idle", "returning"}, worker'[h].claim = 0,
           ~ worker'[h].kept
    PROVE  WorkerSound(h)'
  BY DEF WorkerSound, Preparing, Early, Sending

LEMMA LeaveIs ==
    ASSUME StagedAssumption, TypeOK, NEW h \in Handlers,
           Leave(h) \/ worker' = [worker EXCEPT ![h] = Idle]
    PROVE  /\ worker' \in [Handlers -> Worker] /\ OthersRest(h)
           /\ worker'[h].claim = 0 /\ worker'[h].pc \notin Sending
           /\ WorkerSound(h)'
<1>1. CASE Leave(h)
  <2>1. PICK x \in Worker : /\ worker' = [worker EXCEPT ![h] = x]
                            /\ x.pc = "returning" /\ x.claim = 0 /\ x.kept = FALSE
    BY <1>1, LeavePuts
  <2>2. worker' \in [Handlers -> Worker] /\ worker'[h] = x /\ OthersRest(h)
    BY <2>1, Moves
  <2> QED
    BY <2>1, <2>2, RestSound DEF Sending
<1>2. CASE worker' = [worker EXCEPT ![h] = Idle]
  <2>1. worker' \in [Handlers -> Worker] /\ worker'[h] = Idle /\ OthersRest(h)
    BY <1>2, IdleIs, Moves
  <2> QED
    BY <2>1, IdleIs, RestSound DEF Sending
<1> QED
  BY <1>1, <1>2

LEMMA StopIs ==
    ASSUME StagedInv, NEW h \in Handlers, NEW end \in EndPhases, Stop(h, end),
           NEW a \in StageNumbers, worker[h].a = a,
           worker[h].claim # 0 => worker[h].claim = stages'[a].claim,
           end = "preparation_unknown" =>
               Final(stages'[a].phase)
               \/ (stages'[a].phase = "preparation_intent" /\ stages'[a].lease = h),
           end # "final_unknown" /\ stages'[a].lease = h /\ ~ Final(stages'[a].phase) =>
               \A i \in DOMAIN claims' : i = stages'[a].claim => ~ MayBePublic(i)'
    PROVE  /\ worker' \in [Handlers -> Worker] /\ OthersRest(h)
           /\ worker'[h].claim = worker[h].claim /\ worker'[h].pc = "stopping"
           /\ WorkerSound(h)'
<1> DEFINE x == [worker[h] EXCEPT !.pc = "stopping", !.end = end]
<1>1. x \in Worker /\ worker' = [worker EXCEPT ![h] = x]
  BY StopPuts DEF StagedInv
<1>2. worker[h] \in Worker
  BY DEF StagedInv, TypeOK
<1>3. x.pc = "stopping" /\ x.a = a /\ x.claim = worker[h].claim /\ x.end = end
      /\ x.kept = worker[h].kept
  BY <1>2 DEF Worker
<1>4. worker' \in [Handlers -> Worker] /\ worker'[h] = x /\ OthersRest(h)
  <2> HIDE DEF x
  <2> QED
    BY <1>1, Moves DEF StagedInv
<1>5. worker[h].kept => worker[h].claim # 0
  BY DEF StagedInv, WorkerSound
<1>6. WorkerSound(h)'
  <2> HIDE DEF x
  <2> QED
    BY <1>3, <1>4, <1>5 DEF WorkerSound, Preparing, Early, Sending
<1> QED
  BY <1>3, <1>4, <1>6

\* Steps that change nothing but what callbacks are at and the queues.
LEMMA QueueStep ==
    ASSUME StagedInv, TypeOK', NEW h, OthersRest(h), h \in Handlers => WorkerSound(h)',
           h \in Handlers => worker'[h].claim \in {0, worker[h].claim},
           h \in Handlers /\ worker'[h].pc \in Sending =>
               worker[h].pc \in Sending /\ worker'[h].claim = worker[h].claim,
           UNCHANGED <<dataVars, cleared, recovered, decisions>>
    PROVE  StagedInv'
<1>1. /\ row' = row /\ claims' = claims /\ stages' = stages /\ cleared' = cleared
      /\ recovered' = recovered /\ decisions' = decisions
  BY DEF dataVars
<1> QED
  BY <1>1, CallbackStep

LEMMA TypesElsewhere ==
    ASSUME TypeOK, UNCHANGED <<dataVars, Elsewhere>>, worker' \in [Handlers -> Worker]
    PROVE  TypeOK'
  BY DEF TypeOK, dataVars, Elsewhere, queueVars

(***************************************************************************)
(* Steps that move nothing but callbacks and queues                         *)
(***************************************************************************)
LEMMA EarlyIs ==
    ASSUME StagedInv, NEW h \in Handlers, worker[h].pc \in Early
    PROVE  /\ worker[h].a \in StageNumbers
           /\ worker[h].claim # 0 => worker[h].claim = stages[worker[h].a].claim
           /\ stages[worker[h].a].lease = h => stages[worker[h].a].claim = 0
           /\ worker[h].pc \in {"begun", "prepared"} =>
                 \/ Final(stages[worker[h].a].phase)
                 \/ /\ stages[worker[h].a].phase = "preparation_intent"
                    /\ stages[worker[h].a].lease = h
  BY DEF StagedInv, WorkerSound, Early, Preparing

LEMMA EarlyStops ==
    ASSUME StagedInv, NEW h \in Handlers, worker[h].pc \in Early, NEW end \in EndPhases,
           end = "preparation_unknown" => worker[h].pc \in {"begun", "prepared"},
           Stop(h, end), UNCHANGED <<dataVars, Elsewhere>>
    PROVE  StagedInv'
<1>1. PICK a \in StageNumbers : a = worker[h].a
  BY EarlyIs
<1>2. stages' = stages /\ claims' = claims
  BY DEF dataVars
<1>3. \A i \in DOMAIN claims : i # 0
  BY LenProperties DEF StagedInv, TypeOK
<1>4. /\ worker' \in [Handlers -> Worker] /\ OthersRest(h)
      /\ worker'[h].claim = worker[h].claim /\ worker'[h].pc = "stopping"
      /\ WorkerSound(h)'
  BY <1>1, <1>2, <1>3, EarlyIs, StopIs
<1>5. TypeOK'
  BY <1>4, TypesElsewhere DEF StagedInv
<1> QED
  BY <1>4, <1>5, QueueStep DEF Elsewhere, queueVars, Sending

LEMMA PrepareSound ==
    ASSUME StagedInv, NEW h \in Handlers, Prepare(h) PROVE StagedInv'
<1>1. worker[h].pc \in Early /\ worker[h].pc = "begun"
  BY DEF Prepare, Early
<1>2. UNCHANGED <<dataVars, Elsewhere>>
  BY DEF Prepare
<1>3. CASE \E end \in {"cancelled", "failed", "preparation_unknown"} : Stop(h, end)
  BY <1>1, <1>2, <1>3, EarlyStops DEF EndPhases
<1>4. CASE Goto(h, "prepared")
  <2>1. "prepared" \in PCs
    BY DEF PCs
  <2>2. /\ worker' \in [Handlers -> Worker] /\ OthersRest(h)
        /\ worker'[h].pc = "prepared" /\ worker'[h].a = worker[h].a
        /\ worker'[h].claim = worker[h].claim /\ worker'[h].kept = worker[h].kept
    BY <1>4, <2>1, GotoIs DEF StagedInv
  <2>3. WorkerSound(h)'
    <3>1. stages' = stages /\ claims' = claims
      BY <1>2 DEF dataVars
    <3>2. WorkerSound(h)
      BY DEF StagedInv
    <3> QED
      BY <1>1, <2>2, <3>1, <3>2, EarlyIs DEF WorkerSound, Preparing, Early, Sending
  <2>4. TypeOK'
    BY <1>2, <2>2, TypesElsewhere DEF StagedInv
  <2> QED
    BY <1>2, <2>2, <2>3, <2>4, QueueStep DEF Elsewhere, queueVars, Sending
<1> QED
  BY <1>3, <1>4 DEF Prepare

LEMMA InspectSound ==
    ASSUME StagedInv, NEW h \in Handlers, Inspect(h) PROVE StagedInv'
<1>1. worker[h].pc \in Early /\ worker[h].pc = "acquired"
  BY DEF Inspect, Early
<1>2. UNCHANGED <<dataVars, Elsewhere>>
  BY DEF Inspect
<1>3. CASE \E end \in {"cancelled", "failed", "published_without_receipt"} : Stop(h, end)
  BY <1>1, <1>2, <1>3, EarlyStops DEF EndPhases
<1>4. ASSUME NEW pc \in {"deferring", "ready"}, Goto(h, pc) PROVE StagedInv'
  <2>1. pc \in PCs
    BY DEF PCs
  <2>2. /\ worker' \in [Handlers -> Worker] /\ OthersRest(h)
        /\ worker'[h].pc = pc /\ worker'[h].a = worker[h].a
        /\ worker'[h].claim = worker[h].claim /\ worker'[h].kept = worker[h].kept
    BY <1>4, <2>1, GotoIs DEF StagedInv
  <2>3. WorkerSound(h)'
    <3>1. stages' = stages /\ claims' = claims
      BY <1>2 DEF dataVars
    <3>2. WorkerSound(h)
      BY DEF StagedInv
    <3> QED
      BY <1>1, <2>2, <3>1, <3>2, EarlyIs DEF WorkerSound, Preparing, Early, Sending
  <2>4. TypeOK'
    BY <1>2, <2>2, TypesElsewhere DEF StagedInv
  <2> QED
    BY <1>2, <2>2, <2>3, <2>4, QueueStep DEF Elsewhere, queueVars, Sending
<1> QED
  BY <1>3, <1>4 DEF Inspect

\* Whoever is about to send is the only one, and nothing has been sent.
LEMMA SenderQuiet ==
    ASSUME StagedInv, NEW h \in Handlers, worker[h].pc \in Sending
    PROVE  /\ worker[h].a \in StageNumbers /\ worker[h].claim = stages[worker[h].a].claim
           /\ worker[h].claim # 0 /\ worker[h].claim \in DOMAIN claims
           /\ ~ claims[worker[h].claim].posted
           /\ \A g \in Handlers : g # h => ~ Sends(g, worker[h].claim)
           /\ \/ stages[worker[h].a].lease = h
              \/ Final(stages[worker[h].a].phase)
<1>1. Sends(h, worker[h].claim)
  BY DEF Sends
<1>2. ~ claims[worker[h].claim].posted
      /\ (stages[worker[h].a].lease = h \/ Final(stages[worker[h].a].phase))
  BY DEF StagedInv, WorkerSound
<1>3. \A g \in Handlers : g # h => ~ Sends(g, worker[h].claim)
  BY <1>1, SenderClaimed DEF StagedInv, OneSender, Sends
<1> QED
  BY <1>1, <1>2, <1>3, SenderClaimed

LEMMA AuthorizeFinalSound ==
    ASSUME StagedInv, NEW h \in Handlers, AuthorizeFinal(h) PROVE StagedInv'
<1>1. worker[h].pc = "claimed" /\ worker[h].pc \in Sending
  BY DEF AuthorizeFinal, Sending
<1>2. UNCHANGED <<dataVars, Elsewhere>> /\ stages' = stages /\ claims' = claims
  BY DEF AuthorizeFinal, dataVars
<1>3. CASE Goto(h, "finalizing")
  <2>1. "finalizing" \in PCs
    BY DEF PCs
  <2>2. /\ worker' \in [Handlers -> Worker] /\ OthersRest(h)
        /\ worker'[h].pc = "finalizing" /\ worker'[h].a = worker[h].a
        /\ worker'[h].claim = worker[h].claim /\ worker'[h].kept = worker[h].kept
    BY <1>3, <2>1, GotoIs DEF StagedInv
  <2>3. WorkerSound(h)'
    <3>1. WorkerSound(h)
      BY DEF StagedInv
    <3> QED
      BY <1>1, <1>2, <2>2, <3>1, SenderQuiet DEF WorkerSound, Preparing, Early, Sending
  <2>4. TypeOK'
    BY <1>2, <2>2, TypesElsewhere DEF StagedInv
  <2> QED
    BY <1>1, <1>2, <2>2, <2>3, <2>4, QueueStep DEF Elsewhere, queueVars
<1>4. CASE Stop(h, "cancelled")
  <2>1. PICK a \in StageNumbers : a = worker[h].a
    BY <1>1, SenderQuiet
  <2>2. PICK i : i = worker[h].claim
    OBVIOUS
  <2>3. OthersRest(h) /\ worker'[h].pc = "stopping"
    <3>1. "cancelled" \in EndPhases
      BY DEF EndPhases
    <3>2. worker[h] \in Worker
      BY DEF StagedInv, TypeOK
    <3>3. PICK x \in Worker : worker' = [worker EXCEPT ![h] = x] /\ x.pc = "stopping"
      <4>1. [worker[h] EXCEPT !.pc = "stopping", !.end = "cancelled"].pc = "stopping"
        BY <3>2 DEF Worker
      <4> QED
        BY <1>4, <3>1, <4>1, StopPuts DEF StagedInv
    <3> QED
      BY <3>3, Moves DEF StagedInv
  <2>4. ~ MayBePublic(i)'
    <3>1. \A g \in Handlers : ~ Sends(g, i)'
      BY <1>1, <2>2, <2>3, SenderQuiet DEF Sends, OthersRest, SameWork, Sending
    <3>2. ~ claims'[i].posted
      BY <1>1, <1>2, <2>2, SenderQuiet
    <3> QED
      BY <3>1, <3>2 DEF MayBePublic
  <2>5. /\ worker' \in [Handlers -> Worker] /\ OthersRest(h)
        /\ worker'[h].claim = worker[h].claim /\ worker'[h].pc = "stopping"
        /\ WorkerSound(h)'
    BY <1>1, <1>2, <1>4, <2>1, <2>2, <2>4, SenderQuiet, StopIs DEF EndPhases
  <2>6. TypeOK'
    BY <1>2, <2>5, TypesElsewhere DEF StagedInv
  <2> QED
    BY <1>2, <2>5, <2>6, QueueStep DEF Elsewhere, queueVars, Sending
<1> QED
  BY <1>3, <1>4 DEF AuthorizeFinal

LEMMA FailJobType ==
    ASSUME StagedAssumption, TypeOK, NEW j \in Job, FailJob(j) PROVE waiting' \subseteq Job
<1>1. CASE j.left = 0
  BY <1>1 DEF FailJob, TypeOK
<1>2. CASE j.left # 0
  <2>1. j.left - 1 \in 0..RetryLimit
    BY <1>2 DEF Job, StagedAssumption
  <2>2. [j EXCEPT !.left = @ - 1] \in Job
    BY <2>1 DEF Job
  <2> QED
    BY <1>2, <2>2 DEF FailJob, TypeOK
<1> QED
  BY <1>1, <1>2

\* Only the end that a stopping callback wants is another one.
LEMMA StoppingFails ==
    ASSUME StagedInv, NEW h \in Handlers, worker[h].pc = "stopping",
           worker[h].end = "published_without_receipt", NEW end \in EndPhases,
           end = "failed", Stop(h, end), UNCHANGED waiting,
           UNCHANGED <<dataVars, input, cleared, orphans, recovered, decisions>>
    PROVE  StagedInv'
<1>1. TypeOK /\ WorkerSound(h)
  BY DEF StagedInv
<1>2. PICK x \in Worker : /\ x = [worker[h] EXCEPT !.pc = "stopping", !.end = end]
                          /\ worker' = [worker EXCEPT ![h] = x]
  BY StopPuts DEF StagedInv
<1>3. worker' \in [Handlers -> Worker] /\ worker'[h] = x /\ OthersRest(h)
  BY <1>1, <1>2 DEF TypeOK, OthersRest, SameWork
<1>4. /\ x.pc = "stopping" /\ x.end = end /\ x.a = worker[h].a
      /\ x.claim = worker[h].claim /\ x.kept = worker[h].kept
  BY <1>1, <1>2 DEF TypeOK, Worker
<1>5. stages' = stages /\ claims' = claims
  BY DEF dataVars
<1>6. ASSUME NEW i, MayBePublic(i)' PROVE MayBePublic(i)
  BY <1>3, <1>4, <1>5, <1>6, SendingKept, PublicKept DEF MayBePublic, Sending
<1>7. WorkerSound(h)'
  BY <1>1, <1>3, <1>4, <1>5, <1>6 DEF WorkerSound, Preparing, Sending, Early
<1>8. TypeOK'
  BY <1>1, <1>3, TypesElsewhere DEF Elsewhere, queueVars
<1> QED
  BY <1>3, <1>4, <1>7, <1>8, QueueStep DEF Sending

LEMMA DatabaseErrorSound ==
    ASSUME StagedAssumption, StagedInv, NEW h \in Handlers, DatabaseError(h) PROVE StagedInv'
<1>1. UNCHANGED <<dataVars, input, cleared, orphans, recovered, decisions>>
  BY DEF DatabaseError
<1>2. ASSUME worker' = [worker EXCEPT ![h] = Idle],
             IF worker[h].live THEN FailJob(worker[h].job) ELSE UNCHANGED waiting
      PROVE  StagedInv'
  <2>1. /\ worker' \in [Handlers -> Worker] /\ OthersRest(h)
        /\ worker'[h].claim = 0 /\ worker'[h].pc \notin Sending
        /\ WorkerSound(h)'
    BY <1>2, LeaveIs DEF StagedInv
  <2>2. worker[h].job \in Job
    BY DEF StagedInv, TypeOK, Worker
  <2>3. waiting' \subseteq Job
    BY <1>2, <2>2, FailJobType DEF StagedInv, TypeOK
  <2>4. TypeOK'
    BY <1>1, <2>1, <2>3 DEF StagedInv, TypeOK, dataVars
  <2> QED
    BY <1>1, <2>1, <2>4, QueueStep
<1>3. ASSUME worker[h].pc \in {"begun", "prepared"}, Stop(h, "preparation_unknown"), UNCHANGED waiting
      PROVE  StagedInv'
  BY <1>1, <1>3, EarlyStops DEF Early, EndPhases, Elsewhere, queueVars
<1>4. ASSUME worker[h].pc \in {"acquired", "ready"}, Stop(h, "failed"), UNCHANGED waiting
      PROVE  StagedInv'
  BY <1>1, <1>4, EarlyStops DEF Early, EndPhases, Elsewhere, queueVars
<1>6. ASSUME worker[h].pc = "stopping", worker[h].end = "published_without_receipt",
             Stop(h, "failed"), UNCHANGED waiting
      PROVE  StagedInv'
  <2>1. PICK end \in EndPhases : end = "failed"
    BY DEF EndPhases
  <2>2. Stop(h, end)
    BY <1>6, <2>1
  <2> QED
    BY <1>1, <1>6, <2>1, <2>2, StoppingFails
<1>5. ASSUME worker[h].pc = "claimed", Stop(h, "final_unknown"), UNCHANGED waiting
      PROVE  StagedInv'
  <2>1. worker[h].pc \in Sending
    BY <1>5 DEF Sending
  <2>2. PICK a \in StageNumbers : a = worker[h].a
    BY <2>1, SenderQuiet
  <2>3. stages' = stages
    BY <1>1 DEF dataVars
  <2>4. /\ worker' \in [Handlers -> Worker] /\ OthersRest(h)
        /\ worker'[h].claim = worker[h].claim /\ worker'[h].pc = "stopping"
        /\ WorkerSound(h)'
    BY <1>5, <2>1, <2>2, <2>3, SenderQuiet, StopIs DEF EndPhases
  <2>5. TypeOK'
    BY <1>1, <1>5, <2>4, TypesElsewhere DEF StagedInv, Elsewhere, queueVars
  <2> QED
    BY <1>1, <2>4, <2>5, QueueStep DEF Sending
<1> QED
  BY <1>2, <1>3, <1>4, <1>5, <1>6 DEF DatabaseError

(***************************************************************************)
(* The queues                                                               *)
(***************************************************************************)
\* No callback moves; some may have lost their jobs.
LEMMA LiveOnly ==
    ASSUME StagedAssumption, StagedInv, TypeOK', OthersRest(None),
           UNCHANGED <<dataVars, cleared, recovered, decisions>>
    PROVE  StagedInv'
<1>1. None \notin Handlers
  BY DEF StagedAssumption
<1>2. PICK x : x = None
  OBVIOUS
<1> QED
  BY <1>1, <1>2, QueueStep

LEMMA FetchPublishSound ==
    ASSUME StagedAssumption, StagedInv, NEW h \in Handlers, NEW j \in waiting, FetchPublish(h, j)
    PROVE  StagedInv'
<1>1. UNCHANGED <<dataVars, input, cleared, orphans, recovered, decisions>>
      /\ waiting' = waiting \ {j} /\ j \in Job
  BY DEF FetchPublish, StagedInv, TypeOK
<1>2. PICK x \in Worker : /\ worker' = [worker EXCEPT ![h] = x] /\ x.claim = 0 /\ ~ x.kept
                          /\ \/ x.pc = "loaded" /\ x.seen.st = "queued"
                             \/ x.pc = "returning"
  <2>1. CASE row.st = "queued"
    <3> DEFINE x == [Idle EXCEPT !.pc = "loaded", !.job = j, !.live = TRUE, !.seen = row, !.version = input]
    <3>1. "loaded" \in PCs /\ row \in Row /\ input \in 0..MaxChanges
      BY DEF PCs, StagedInv, TypeOK
    <3>2. x \in Worker /\ x.claim = 0 /\ ~ x.kept /\ x.pc = "loaded" /\ x.seen.st = "queued"
      BY <1>1, <2>1, <3>1, IdleIs DEF Worker
    <3> QED
      BY <2>1, <3>2 DEF FetchPublish
  <2>2. CASE row.st # "queued"
    <3> DEFINE x == [Idle EXCEPT !.pc = "returning", !.job = j, !.live = TRUE]
    <3>1. "returning" \in PCs
      BY DEF PCs
    <3>2. x \in Worker /\ x.claim = 0 /\ ~ x.kept /\ x.pc = "returning"
      BY <1>1, <3>1, IdleIs DEF Worker
    <3> QED
      BY <2>2, <3>2 DEF FetchPublish
  <2> QED
    BY <2>1, <2>2
<1>3. worker' \in [Handlers -> Worker] /\ worker'[h] = x /\ OthersRest(h)
  BY <1>2, Moves DEF StagedInv
<1>4. WorkerSound(h)'
  BY <1>2, <1>3 DEF WorkerSound, Preparing, Early, Sending
<1>5. TypeOK'
  BY <1>1, <1>3 DEF StagedInv, TypeOK, dataVars
<1> QED
  BY <1>1, <1>2, <1>3, <1>4, <1>5, QueueStep DEF Sending

LEMMA FetchPollSound ==
    ASSUME StagedAssumption, StagedInv, NEW h \in Handlers, NEW j \in waiting, FetchPoll(h, j)
    PROVE  StagedInv'
<1>1. UNCHANGED <<dataVars, input, cleared, orphans, recovered, decisions>>
      /\ waiting' = waiting \ {j} /\ j \in Job /\ j.s # 0
  BY DEF FetchPoll, StagedInv, TypeOK
<1>2. PICK x \in Worker : /\ worker' = [worker EXCEPT ![h] = x] /\ x.claim = 0 /\ ~ x.kept
                          /\ x.pc = "polling" /\ x.a \in StageNumbers
  <2> DEFINE x == [Idle EXCEPT !.pc = "polling", !.job = j, !.a = j.s, !.live = TRUE]
  <2>1. "polling" \in PCs
    BY DEF PCs
  <2>2. j.s \in 0..MaxDecisions /\ j.s \in StageNumbers
    BY <1>1 DEF Job, StageNumbers, StagedAssumption
  <2>3. x \in Worker /\ x.claim = 0 /\ ~ x.kept /\ x.pc = "polling" /\ x.a \in StageNumbers
    BY <1>1, <2>1, <2>2, IdleIs DEF Worker
  <2> QED
    BY <2>3 DEF FetchPoll
<1>3. worker' \in [Handlers -> Worker] /\ worker'[h] = x /\ OthersRest(h)
  BY <1>2, Moves DEF StagedInv
<1>4. WorkerSound(h)'
  BY <1>2, <1>3 DEF WorkerSound, Preparing, Early, Sending
<1>5. TypeOK'
  BY <1>1, <1>3 DEF StagedInv, TypeOK, dataVars
<1> QED
  BY <1>1, <1>2, <1>3, <1>4, <1>5, QueueStep DEF Sending

LEMMA TimeoutSound ==
    ASSUME StagedAssumption, StagedInv, NEW h \in Handlers, Timeout(h) PROVE StagedInv'
<1>1. UNCHANGED <<dataVars, input, cleared, orphans, recovered, decisions>>
      /\ FailJob(worker[h].job) /\ worker' = [worker EXCEPT ![h].live = FALSE]
  BY DEF Timeout
<1>2. worker[h] \in Worker
  BY DEF StagedInv, TypeOK
<1>3. OthersRest(None) /\ worker' \in [Handlers -> Worker]
  <2>1. [worker[h] EXCEPT !.live = FALSE] \in Worker
    BY <1>2 DEF Worker
  <2>2. worker' = [worker EXCEPT ![h] = [worker[h] EXCEPT !.live = FALSE]]
    BY <1>1 DEF StagedInv, TypeOK
  <2>3. PICK x \in Worker : x = [worker[h] EXCEPT !.live = FALSE]
    BY <2>1
  <2>4. /\ worker' \in [Handlers -> Worker] /\ worker'[h] = x /\ OthersRest(h)
    BY <2>2, <2>3, Moves DEF StagedInv
  <2>5. SameWork(h)
    BY <1>2, <2>3, <2>4 DEF SameWork, Worker
  <2> QED
    BY <2>4, <2>5 DEF OthersRest
<1>4. waiting' \subseteq Job
  BY <1>1, <1>2, FailJobType DEF StagedInv, Worker
<1>5. TypeOK'
  BY <1>1, <1>3, <1>4 DEF StagedInv, TypeOK, dataVars
<1> QED
  BY <1>1, <1>3, <1>5, LiveOnly

LEMMA TimeoutOrphanSound ==
    ASSUME StagedAssumption, StagedInv, NEW j \in orphans, TimeoutOrphan(j) PROVE StagedInv'
<1>1. UNCHANGED <<dataVars, input, cleared, worker, recovered, decisions>>
      /\ FailJob(j) /\ orphans' = orphans \ {j} /\ j \in Job
  BY DEF TimeoutOrphan, StagedInv, TypeOK
<1>2. waiting' \subseteq Job
  BY <1>1, FailJobType DEF StagedInv
<1>3. TypeOK' /\ OthersRest(None)
  BY <1>1, <1>2 DEF StagedInv, TypeOK, dataVars, OthersRest, SameWork
<1> QED
  BY <1>1, <1>3, LiveOnly

LEMMA ReturnSound ==
    ASSUME StagedAssumption, StagedInv, NEW h \in Handlers, Return(h) PROVE StagedInv'
<1> DEFINE retry == [worker[h].job EXCEPT !.left = @ - 1]
           ends(g) == worker[g].live /\ worker[g].job = retry
<1>1. UNCHANGED <<dataVars, input, cleared, waiting, recovered, decisions>>
      /\ orphans' \subseteq Job
  BY DEF Return, StagedInv, TypeOK
<1>2. CASE worker' = [worker EXCEPT ![h] = Idle]
  <2>1. /\ worker' \in [Handlers -> Worker] /\ OthersRest(h)
        /\ worker'[h].claim = 0 /\ worker'[h].pc \notin Sending
        /\ WorkerSound(h)'
    BY <1>2, LeaveIs DEF StagedInv
  <2>2. TypeOK'
    BY <1>1, <2>1 DEF StagedInv, TypeOK, dataVars
  <2> QED
    BY <1>1, <2>1, <2>2, QueueStep
<1>3. CASE worker' = [g \in Handlers |-> IF g = h THEN Idle
                        ELSE IF ends(g) THEN [worker[g] EXCEPT !.live = FALSE] ELSE worker[g]]
  <2>1. ASSUME NEW g \in Handlers, g # h PROVE worker'[g] \in Worker /\ SameWork(g)
    <3>1. worker[g] \in Worker
      BY DEF StagedInv, TypeOK
    <3>2. worker'[g] = IF ends(g) THEN [worker[g] EXCEPT !.live = FALSE] ELSE worker[g]
      BY <1>3, <2>1
    <3> HIDE DEF ends
    <3> QED
      BY <3>1, <3>2 DEF SameWork, Worker
  <2>2. worker'[h] = Idle
    BY <1>3
  <2>3. worker' \in [Handlers -> Worker] /\ OthersRest(h)
    <3>1. \A g \in Handlers : worker'[g] \in Worker
      BY <2>1, <2>2, IdleIs
    <3>2. DOMAIN worker' = Handlers /\ worker' = [g \in Handlers |-> worker'[g]]
      BY <1>3
    <3> QED
      BY <2>1, <3>1, <3>2 DEF OthersRest
  <2>4. WorkerSound(h)' /\ worker'[h].claim = 0 /\ worker'[h].pc \notin Sending
    BY <2>2, IdleIs, RestSound DEF Sending
  <2>5. TypeOK'
    BY <1>1, <2>3 DEF StagedInv, TypeOK, dataVars
  <2> QED
    BY <1>1, <2>3, <2>4, <2>5, QueueStep
<1> QED
  BY <1>2, <1>3 DEF Return

LEMMA CrashSound ==
    ASSUME StagedAssumption, StagedInv, NEW h \in Handlers, Crash(h) PROVE StagedInv'
<1>1. UNCHANGED <<dataVars, input, cleared, waiting, recovered, decisions>>
      /\ worker' = [worker EXCEPT ![h] = Idle]
      /\ orphans' = IF worker[h].live THEN orphans \cup {worker[h].job} ELSE orphans
  BY DEF Crash
<1>2. /\ worker' \in [Handlers -> Worker] /\ OthersRest(h)
      /\ worker'[h].claim = 0 /\ worker'[h].pc \notin Sending
      /\ WorkerSound(h)'
  BY <1>1, LeaveIs DEF StagedInv
<1>3. worker[h].job \in Job
  BY DEF StagedInv, TypeOK, Worker
<1>4. TypeOK'
  BY <1>1, <1>2, <1>3 DEF StagedInv, TypeOK, dataVars
<1> QED
  BY <1>1, <1>2, <1>4, QueueStep

LEMMA ChangeInputSound == StagedAssumption /\ StagedInv /\ ChangeInput => StagedInv'
<1> SUFFICES ASSUME StagedAssumption, StagedInv, ChangeInput PROVE StagedInv'
  OBVIOUS
<1>1. UNCHANGED <<dataVars, cleared, queueVars, worker, recovered, decisions>>
      /\ input' = input + 1 /\ input < MaxChanges
  BY DEF ChangeInput
<1>2. input' \in 0..MaxChanges
  BY <1>1 DEF StagedInv, TypeOK, StagedAssumption
<1>3. TypeOK' /\ OthersRest(None)
  BY <1>1, <1>2 DEF StagedInv, TypeOK, dataVars, queueVars, OthersRest, SameWork
<1> QED
  BY <1>1, <1>3, LiveOnly

(***************************************************************************)
(* Steps that move one stage                                                *)
(***************************************************************************)
LEMMA StageOf ==
    ASSUME StagedInv, NEW a \in StageNumbers
    PROVE  /\ stages[a] \in Stage /\ stages \in [StageNumbers -> Stage] /\ StageSound(a)
  BY DEF StagedInv, TypeOK

\* SavePrepared keeps the container whatever became of the delivery.
LEMMA SavePreparedSound ==
    ASSUME StagedAssumption, StagedInv, NEW h \in Handlers, SavePrepared(h) PROVE StagedInv'
<1>1. worker[h].pc \in Early /\ worker[h].pc = "prepared"
  BY DEF SavePrepared, Early
<1>2. PICK a \in StageNumbers : a = worker[h].a
  BY <1>1, EarlyIs
<1>3. UNCHANGED <<row, claims, input, cleared, orphans, recovered, decisions>>
  BY DEF SavePrepared
<1>4. stages[a] \in Stage /\ stages \in [StageNumbers -> Stage] /\ StageSound(a)
  BY StageOf
<1>5. Final(stages[a].phase) \/ (stages[a].phase = "preparation_intent" /\ stages[a].lease = h)
  BY <1>1, <1>2, EarlyIs
<1>6. \A i \in DOMAIN claims : i # 0
  BY LenProperties DEF StagedInv, TypeOK
<1>7. worker[h].claim # 0 => worker[h].claim = stages[a].claim
  BY <1>1, <1>2, EarlyIs
\* The stage keeps its end, or ends: then its callback stops.
<1>8. ASSUME NEW st \in Stage, stages' = [stages EXCEPT ![a] = st], Final(st.phase),
             st.claim = stages[a].claim, Final(stages[a].phase) => st.phase = stages[a].phase,
             stages[a].phase = "preparation_intent" =>
                 st.phase \in {"preparation_unknown", "cancelled"},
             st.lease = None \/ st.lease = stages[a].lease,
             st.lease # None => st.phase = "preparation_unknown" \/ Final(stages[a].phase),
             Stop(h, "preparation_unknown"), UNCHANGED waiting
      PROVE  StagedInv'
  <2>1. /\ stages' \in [StageNumbers -> Stage] /\ stages'[a] = st
        /\ \A b \in StageNumbers : b # a => stages'[b] = stages[b]
    BY <1>4, <1>8, StagePuts
  <2>2. /\ worker' \in [Handlers -> Worker] /\ OthersRest(h)
        /\ worker'[h].claim = worker[h].claim /\ worker'[h].pc = "stopping"
        /\ WorkerSound(h)'
    BY <1>2, <1>7, <1>8, <2>1, StopIs DEF EndPhases
  <2>3. TypeOK'
    BY <1>3, <1>8, <2>1, <2>2 DEF StagedInv, TypeOK
  <2>4. StageMoves(a)
    BY <1>4, <1>5, <1>8, <2>1 DEF StageMoves, Unmade, StageSound, Final, LivePhases, EndPhases
  <2>5. StageSound(a)'
    BY <1>3, <1>4, <1>5, <1>8, <2>1 DEF StageSound, Final, EndPhases
  <2>6. ASSUME NEW g \in Handlers, g # h PROVE StageRests(a, g)
    <3>1. worker[g].pc \in Sending /\ worker[g].claim = stages[a].claim => Final(st.phase)
      BY <1>8
    <3> QED
      BY <1>4, <1>5, <1>8, <2>1, <2>6 DEF StageRests, StageSound, StagedAssumption
  <2> QED
    BY <1>3, <2>1, <2>2, <2>3, <2>4, <2>5, <2>6, StageStep DEF Sending
<1>9. CASE ~ Matches(a) \/ ~ worker[h].live
  <2>1. PICK p \in Phases :
           /\ p = IF stages[a].phase = "preparation_intent"
                  THEN (IF Matches(a) THEN "preparation_unknown" ELSE "cancelled")
                  ELSE stages[a].phase
           /\ stages' = [stages EXCEPT ![a] = Ended(stages[a], p)]
    <3>1. {"preparation_unknown", "cancelled"} \subseteq Phases /\ stages[a].phase \in Phases
      BY <1>4, Names DEF Stage, EndPhases
    <3>2. stages' = [stages EXCEPT ![a] = Ended(stages[a],
             IF stages[a].phase = "preparation_intent"
             THEN (IF Matches(a) THEN "preparation_unknown" ELSE "cancelled")
             ELSE stages[a].phase)]
      BY <1>2, <1>4, <1>9 DEF SavePrepared
    <3> QED
      BY <3>1, <3>2
  <2>2. Stop(h, "preparation_unknown") /\ UNCHANGED waiting
    BY <1>2, <1>9 DEF SavePrepared
  <2>3. PICK st \in Stage : /\ st = Ended(stages[a], p) /\ st.lease = None /\ st.phase = p
                            /\ st.claim = stages[a].claim
    BY <1>4, EndedIs
  <2>4. /\ stages[a].phase = "preparation_intent" => p \in {"preparation_unknown", "cancelled"}
        /\ Final(stages[a].phase) => p = stages[a].phase
        /\ Final(p)
    BY <1>5, <2>1 DEF Final, EndPhases
  <2> QED
    BY <1>8, <2>1, <2>2, <2>3, <2>4
<1>10. CASE Matches(a) /\ worker[h].live /\ ~ Fence(h, "preparation_intent")
  <2>1. PICK p \in Phases :
           /\ p = IF stages[a].phase = "preparation_intent" THEN "preparation_unknown"
                  ELSE stages[a].phase
           /\ stages' = [stages EXCEPT ![a].phase = p]
    <3>1. "preparation_unknown" \in Phases /\ stages[a].phase \in Phases
      BY <1>4, Names DEF Stage, EndPhases
    <3>2. stages' = [stages EXCEPT ![a].phase =
             IF stages[a].phase = "preparation_intent" THEN "preparation_unknown"
             ELSE stages[a].phase]
      BY <1>2, <1>10 DEF SavePrepared
    <3> QED
      BY <3>1, <3>2
  <2>2. Stop(h, "preparation_unknown") /\ UNCHANGED waiting
    BY <1>2, <1>10 DEF SavePrepared
  <2>3. PICK st \in Stage : /\ st = [stages[a] EXCEPT !.phase = p] /\ st.lease = stages[a].lease
                            /\ st.phase = p /\ st.claim = stages[a].claim
    <3>1. [stages[a] EXCEPT !.phase = p] \in Stage
      BY <1>4 DEF Stage
    <3> QED
      BY <1>4, <3>1 DEF Stage
  <2>4. /\ stages[a].phase = "preparation_intent" => p \in {"preparation_unknown", "cancelled"}
        /\ Final(stages[a].phase) => p = stages[a].phase
        /\ Final(p) /\ (p = "preparation_unknown" \/ Final(stages[a].phase))
    BY <1>5, <2>1 DEF Final, EndPhases
  <2>5. stages' = [stages EXCEPT ![a] = st]
    BY <1>4, <2>1, <2>3
  <2> QED
    BY <1>8, <2>2, <2>3, <2>4, <2>5
\* The container is on record: the stage waits, with nobody's lease.
<1>11. CASE Matches(a) /\ worker[h].live /\ Fence(h, "preparation_intent")
  <2>1. /\ stages[a].phase = "preparation_intent" /\ stages[a].lease = h
        /\ stages' = [stages EXCEPT ![a] = Ended(stages[a], "waiting")]
        /\ waiting' = waiting \cup {PollJob(a)} /\ Leave(h)
    BY <1>2, <1>4, <1>11 DEF SavePrepared, Fence
  <2>2. PICK st \in Stage : /\ st = Ended(stages[a], "waiting") /\ st.lease = None
                            /\ st.phase = "waiting" /\ st.claim = stages[a].claim
    BY <1>4, EndedIs, Names DEF LivePhases
  <2>3. /\ stages' \in [StageNumbers -> Stage] /\ stages'[a] = st
        /\ \A b \in StageNumbers : b # a => stages'[b] = stages[b]
    BY <1>4, <2>1, <2>2, StagePuts
  <2>4. /\ worker' \in [Handlers -> Worker] /\ OthersRest(h)
        /\ worker'[h].claim = 0 /\ worker'[h].pc \notin Sending
        /\ WorkerSound(h)'
    BY <2>1, LeaveIs DEF StagedInv
  <2>5. TypeOK'
    <3>1. PollJob(a) \in Job
      BY DEF PollJob, Job, StageNumbers, StagedAssumption
    <3> QED
      BY <1>3, <2>1, <2>3, <2>4, <3>1 DEF StagedInv, TypeOK
  <2>6. StageMoves(a)
    BY <1>4, <2>1, <2>2, <2>3 DEF StageMoves, Unmade, Final, LivePhases, EndPhases
  <2>7. StageSound(a)'
    BY <1>3, <1>4, <2>1, <2>2, <2>3 DEF StageSound, Final, EndPhases
  <2>8. ASSUME NEW g \in Handlers, g # h PROVE StageRests(a, g)
    <3>1. worker[g].pc \in Sending => worker[g].claim # 0
      BY SenderQuiet
    <3>2. stages[a].claim = 0
      BY <1>4, <2>1 DEF StageSound
    <3> QED
      BY <2>1, <2>2, <2>3, <2>8, <3>1, <3>2 DEF StageRests, Final, EndPhases, StagedAssumption
  <2> QED
    BY <1>3, <2>3, <2>4, <2>5, <2>6, <2>7, <2>8, StageStep
<1> QED
  BY <1>9, <1>10, <1>11


\* A stage keeps its phase; at most its lease is given up, or taken while it waits.
LEMMA StageHeld ==
    ASSUME StagedAssumption, StagedInv, NEW h, TypeOK', OthersRest(h),
           h \in Handlers => WorkerSound(h)',
           h \in Handlers => worker'[h].claim \in {0, worker[h].claim},
           h \in Handlers => worker'[h].pc \notin Sending,
           UNCHANGED <<row, claims, cleared, recovered, decisions>>,
           NEW a \in StageNumbers, NEW st \in Stage, stages' = [stages EXCEPT ![a] = st],
           st.phase = stages[a].phase, st.claim = stages[a].claim,
           \/ st.lease = stages[a].lease
           \/ stages[a].phase = "waiting" /\ st.lease \in {None, h}
    PROVE  StagedInv'
<1>1. stages[a] \in Stage /\ stages \in [StageNumbers -> Stage] /\ StageSound(a)
  BY StageOf
<1>2. /\ stages'[a] = st /\ \A b \in StageNumbers : b # a => stages'[b] = stages[b]
  BY <1>1, StagePuts
<1>3. StageMoves(a)
  BY <1>2 DEF StageMoves
<1>4. StageSound(a)'
  BY <1>1, <1>2 DEF StageSound, Final, EndPhases
<1>5. ASSUME NEW g \in Handlers, g # h PROVE StageRests(a, g)
  <2>1. worker[g].pc \in Sending => worker[g].claim # 0
    BY SenderQuiet
  <2>2. stages[a].phase = "waiting" => stages[a].claim = 0
    BY <1>1 DEF StageSound
  <2> QED
    BY <1>2, <1>5, <2>1, <2>2 DEF StageRests, Final, EndPhases, StagedAssumption
<1> QED
  BY <1>2, <1>3, <1>4, <1>5, StageStep

\* A stage that is still live, or lost its preparation, ends.
LEMMA StageEnds ==
    ASSUME StagedAssumption, StagedInv, NEW h, TypeOK', OthersRest(h),
           h \in Handlers => WorkerSound(h)',
           h \in Handlers => worker'[h].claim \in {0, worker[h].claim},
           h \in Handlers => worker'[h].pc \notin Sending,
           UNCHANGED <<row, claims, cleared>>, decisions' \in {decisions, decisions + 1},
           recovered' = recovered \/ RecoveredSound',
           NEW a \in StageNumbers, NEW end \in EndPhases,
           stages' = [stages EXCEPT ![a] = Ended(stages[a], end)],
           stages[a].phase \in LivePhases \cup {"preparation_unknown"},
           end = "preparation_unknown" =>
               stages[a].phase \in {"preparation_intent", "preparation_unknown"}
    PROVE  StagedInv'
<1>1. stages[a] \in Stage /\ stages \in [StageNumbers -> Stage] /\ StageSound(a)
  BY StageOf
<1>2. PICK st \in Stage : /\ st = Ended(stages[a], end) /\ st.lease = None /\ st.phase = end
                          /\ st.claim = stages[a].claim
  BY <1>1, EndedIs, Names
<1>3. /\ stages'[a] = st /\ \A b \in StageNumbers : b # a => stages'[b] = stages[b]
  BY <1>1, <1>2, StagePuts
<1>4. Final(end)
  BY DEF Final
<1>5. StageMoves(a)
  BY <1>2, <1>3, <1>4 DEF StageMoves, Unmade, LivePhases, EndPhases
<1>6. StageSound(a)'
  BY <1>1, <1>2, <1>3 DEF StageSound, EndPhases, LivePhases
<1>7. ASSUME NEW g \in Handlers, g # h PROVE StageRests(a, g)
  BY <1>2, <1>3, <1>4 DEF StageRests, StagedAssumption
<1> QED
  BY <1>3, <1>5, <1>6, <1>7, StageStep

LEMMA EndedType ==
    ASSUME StagedAssumption, StagedInv, NEW a \in StageNumbers, NEW end \in EndPhases,
           stages' = [stages EXCEPT ![a] = Ended(stages[a], end)]
    PROVE  /\ stages' \in [StageNumbers -> Stage]
           /\ stages'[a].phase = end /\ stages'[a].claim = stages[a].claim
<1>1. stages[a] \in Stage /\ stages \in [StageNumbers -> Stage]
  BY StageOf
<1>2. PICK st \in Stage : /\ st = Ended(stages[a], end) /\ st.phase = end
                          /\ st.claim = stages[a].claim
  BY <1>1, EndedIs, Names
<1> QED
  BY <1>1, <1>2, StagePuts

LEMMA AcquireSound ==
    ASSUME StagedAssumption, StagedInv, NEW h \in Handlers, Acquire(h) PROVE StagedInv'
<1>1. PICK a \in StageNumbers : a = worker[h].a
  BY DEF Acquire, StagedInv, WorkerSound
<1>2. UNCHANGED <<row, claims, Elsewhere>> /\ worker[h].pc = "polling"
  BY DEF Acquire
<1>3. CASE Acquirable(h)
  <2>1. stages[a] \in Stage /\ stages \in [StageNumbers -> Stage] /\ StageSound(a)
    BY StageOf
  <2>2. stages[a].phase = "waiting" /\ stages[a].polls < MaxPolls
    BY <1>1, <1>3 DEF Acquirable
  <2> DEFINE x == [stages[a] EXCEPT !.lease = h, !.over = FALSE, !.polls = @ + 1]
  <2>3. /\ stages' = [stages EXCEPT ![a] = x] /\ x \in Stage
        /\ x.phase = stages[a].phase /\ x.claim = stages[a].claim /\ x.lease = h
    <3>1. stages[a].polls + 1 \in 0..MaxPolls
      BY <2>1, <2>2 DEF Stage, StagedAssumption
    <3>2. /\ x \in Stage /\ x.phase = stages[a].phase /\ x.claim = stages[a].claim /\ x.lease = h
      BY <2>1, <3>1 DEF Stage
    <3>3. stages' = [stages EXCEPT ![a].lease = h, ![a].over = FALSE, ![a].polls = @ + 1]
      BY <1>1, <1>3 DEF Acquire
    <3>4. stages' = [stages EXCEPT ![a] = x]
      BY <2>1, <3>3 DEF Stage
    <3> QED
      BY <3>2, <3>4
  <2> HIDE DEF x
  <2>4. Goto(h, "acquired") /\ "acquired" \in PCs
    BY <1>1, <1>3 DEF Acquire, PCs
  <2>5. /\ worker' \in [Handlers -> Worker] /\ OthersRest(h)
        /\ worker'[h].pc = "acquired" /\ worker'[h].a = a
        /\ worker'[h].claim = worker[h].claim /\ worker'[h].kept = worker[h].kept
    BY <1>1, <2>4, GotoIs DEF StagedInv
  <2>6. stages' \in [StageNumbers -> Stage] /\ stages'[a] = x
    BY <2>1, <2>3, StagePuts
  <2>7. TypeOK'
    BY <1>2, <2>5, <2>6 DEF StagedInv, TypeOK, Elsewhere, queueVars
  <2>8. WorkerSound(h)'
    <3>1. WorkerSound(h) /\ stages[a].claim = 0
      BY <2>1, <2>2 DEF StagedInv, StageSound
    <3> QED
      BY <1>1, <2>3, <2>5, <2>6, <3>1 DEF WorkerSound, Preparing, Early, Sending
  <2> QED
    BY <1>2, <2>2, <2>3, <2>5, <2>7, <2>8, StageHeld DEF Elsewhere, Sending
<1>4. CASE ~ Acquirable(h)
  <2>1. Leave(h) /\ stages' = stages
    BY <1>4 DEF Acquire
  <2>2. /\ worker' \in [Handlers -> Worker] /\ OthersRest(h)
        /\ worker'[h].claim = 0 /\ worker'[h].pc \notin Sending
        /\ WorkerSound(h)'
    BY <2>1, LeaveIs DEF StagedInv
  <2>3. UNCHANGED <<dataVars, Elsewhere>>
    BY <1>2, <2>1 DEF dataVars
  <2>4. TypeOK'
    BY <2>2, <2>3, TypesElsewhere DEF StagedInv
  <2> QED
    BY <2>2, <2>3, <2>4, QueueStep DEF Elsewhere
<1> QED
  BY <1>3, <1>4

LEMMA PollJobType ==
    ASSUME StagedAssumption, NEW a \in StageNumbers PROVE PollJob(a) \in Job
  BY DEF PollJob, Job, StageNumbers, StagedAssumption

LEMMA ReleasedType ==
    ASSUME StagedInv, NEW a \in StageNumbers,
           stages' = [stages EXCEPT ![a] = Released(@)]
    PROVE  \E st \in Stage :
              /\ stages' = [stages EXCEPT ![a] = st] /\ stages' \in [StageNumbers -> Stage]
              /\ st.phase = stages[a].phase /\ st.claim = stages[a].claim /\ st.lease = None
<1>1. stages[a] \in Stage /\ stages \in [StageNumbers -> Stage]
  BY StageOf
<1>2. PICK st \in Stage : st = Released(stages[a]) /\ st.lease = None
                          /\ st.phase = stages[a].phase /\ st.claim = stages[a].claim
  BY <1>1, ReleasedIs
<1>3. stages' = [stages EXCEPT ![a] = st]
  BY <1>1, <1>2
<1> QED
  BY <1>1, <1>2, <1>3, StagePuts

LEMMA DeferSound ==
    ASSUME StagedAssumption, StagedInv, NEW h \in Handlers, Defer(h) PROVE StagedInv'
<1>1. PICK a \in StageNumbers : a = worker[h].a
  BY DEF Defer, StagedInv, WorkerSound
<1>2. UNCHANGED <<row, claims, input, cleared, orphans, recovered, decisions>> /\ Leave(h)
  BY DEF Defer
<1>3. /\ worker' \in [Handlers -> Worker] /\ OthersRest(h)
      /\ worker'[h].claim = 0 /\ worker'[h].pc \notin Sending
      /\ WorkerSound(h)'
  BY <1>2, LeaveIs DEF StagedInv
<1>4. CASE /\ stages[a].phase = "waiting"
           /\ stages' = [stages EXCEPT ![a] = Released(@)]
           /\ waiting' = waiting \cup {PollJob(a)}
  <2>1. PICK st \in Stage :
           /\ stages' = [stages EXCEPT ![a] = st] /\ stages' \in [StageNumbers -> Stage]
           /\ st.phase = stages[a].phase /\ st.claim = stages[a].claim /\ st.lease = None
    BY <1>4, ReleasedType
  <2>2. TypeOK'
    BY <1>2, <1>3, <1>4, <2>1, PollJobType DEF StagedInv, TypeOK
  <2> QED
    BY <1>2, <1>3, <1>4, <2>1, <2>2, StageHeld
<1>5. CASE UNCHANGED <<stages, waiting>>
  <2>1. TypeOK'
    BY <1>2, <1>3, <1>5 DEF StagedInv, TypeOK
  <2> QED
    BY <1>2, <1>3, <1>5, <2>1, QueueStep DEF dataVars
<1> QED
  BY <1>1, <1>4, <1>5 DEF Defer, Fence

LEMMA LeaseRunsOutSound ==
    ASSUME StagedAssumption, StagedInv, NEW a \in StageNumbers, LeaseRunsOut(a) PROVE StagedInv'
<1>1. UNCHANGED <<row, claims, Elsewhere, worker>>
      /\ stages' = [stages EXCEPT ![a].over = TRUE]
  BY DEF LeaseRunsOut
<1>2. stages[a] \in Stage /\ stages \in [StageNumbers -> Stage]
  BY StageOf
<1>3. PICK st \in Stage : /\ stages' = [stages EXCEPT ![a] = st]
                          /\ st.phase = stages[a].phase /\ st.claim = stages[a].claim
                          /\ st.lease = stages[a].lease
  <2>1. [stages[a] EXCEPT !.over = TRUE] \in Stage
    BY <1>2 DEF Stage
  <2> QED
    BY <1>1, <1>2, <2>1 DEF Stage
<1>4. TypeOK' /\ OthersRest(None)
  BY <1>1, <1>2, <1>3 DEF StagedInv, TypeOK, Elsewhere, queueVars, OthersRest, SameWork
<1>5. PICK x : x = None /\ x \notin Handlers
  BY DEF StagedAssumption
<1> QED
  BY <1>1, <1>3, <1>4, <1>5, StageHeld DEF Elsewhere

LEMMA DeadlinePassesSound ==
    ASSUME StagedAssumption, StagedInv, NEW a \in StageNumbers, DeadlinePasses(a) PROVE StagedInv'
<1>1. UNCHANGED <<row, claims, Elsewhere, worker>>
      /\ stages' = [stages EXCEPT ![a].late = TRUE]
  BY DEF DeadlinePasses
<1>2. stages[a] \in Stage /\ stages \in [StageNumbers -> Stage]
  BY StageOf
<1>3. PICK st \in Stage : /\ stages' = [stages EXCEPT ![a] = st]
                          /\ st.phase = stages[a].phase /\ st.claim = stages[a].claim
                          /\ st.lease = stages[a].lease
  <2>1. [stages[a] EXCEPT !.late = TRUE] \in Stage
    BY <1>2 DEF Stage
  <2> QED
    BY <1>1, <1>2, <2>1 DEF Stage
<1>4. TypeOK' /\ OthersRest(None)
  BY <1>1, <1>2, <1>3 DEF StagedInv, TypeOK, Elsewhere, queueVars, OthersRest, SameWork
<1>5. PICK x : x = None /\ x \notin Handlers
  BY DEF StagedAssumption
<1> QED
  BY <1>1, <1>3, <1>4, <1>5, StageHeld DEF Elsewhere

LEMMA DiscardSound ==
    ASSUME StagedAssumption, StagedInv, NEW a \in StageNumbers, Discard(a) PROVE StagedInv'
<1>1. /\ UNCHANGED <<input, row, claims, cleared, queueVars, worker, recovered>>
      /\ stages' = [stages EXCEPT ![a] = Ended(stages[a], "cancelled")]
      /\ stages[a].phase = "preparation_unknown" /\ row.st = "failed"
      /\ decisions' \in 0..MaxDecisions /\ decisions' = decisions + 1
  <2>1. stages \in [StageNumbers -> Stage]
    BY StageOf
  <2> QED
    BY <2>1 DEF Discard, Discardable, Decide, StagedInv, TypeOK, StagedAssumption
<1>2. "cancelled" \in EndPhases
  BY DEF EndPhases
<1>3. stages' \in [StageNumbers -> Stage]
  BY <1>1, <1>2, EndedType
<1>4. TypeOK' /\ OthersRest(None)
  BY <1>1, <1>3 DEF StagedInv, TypeOK, queueVars, OthersRest, SameWork
<1>5. PICK x : x = None /\ x \notin Handlers
  BY DEF StagedAssumption
<1> QED
  BY <1>1, <1>2, <1>4, <1>5, StageEnds

LEMMA RecoverSound ==
    ASSUME StagedAssumption, StagedInv, NEW a \in StageNumbers, Recover(a) PROVE StagedInv'
<1>1. /\ UNCHANGED <<row, claims, input, cleared, orphans, worker, decisions>>
      /\ stages[a].phase \in LivePhases /\ recovered = None
  BY DEF Recover, Recoverable
<1>2. stages[a] \in Stage /\ stages \in [StageNumbers -> Stage] /\ StageSound(a)
  BY StageOf
<1>3. PICK x : x = None /\ x \notin Handlers
  BY DEF StagedAssumption
<1>4. OthersRest(None)
  BY <1>1 DEF OthersRest, SameWork
<1>5. CASE /\ stages[a].phase = "waiting" /\ Matches(a)
           /\ ~ stages[a].late /\ stages[a].polls < MaxPolls
  <2>1. /\ stages' = [stages EXCEPT ![a] = Released(@)]
        /\ waiting' = waiting \cup {PollJob(a)} /\ UNCHANGED recovered
    BY <1>5 DEF Recover
  <2>2. PICK st \in Stage :
           /\ stages' = [stages EXCEPT ![a] = st] /\ stages' \in [StageNumbers -> Stage]
           /\ st.phase = stages[a].phase /\ st.claim = stages[a].claim /\ st.lease = None
    BY <2>1, ReleasedType
  <2>3. TypeOK'
    BY <1>1, <2>1, <2>2, PollJobType DEF StagedInv, TypeOK
  <2> QED
    BY <1>1, <1>3, <1>4, <1>5, <2>1, <2>2, <2>3, StageHeld
<1>6. CASE ~ (/\ stages[a].phase = "waiting" /\ Matches(a)
              /\ ~ stages[a].late /\ stages[a].polls < MaxPolls)
  <2>1. PICK end : end = RecoveredPhase(a)
    OBVIOUS
  <2>2. /\ end \in EndPhases
        /\ stages[a].phase # "final_intent" => end # "final_unknown"
        /\ end = "preparation_unknown" => stages[a].phase = "preparation_intent"
        /\ end # "final_unknown" => stages[a].phase \in {"preparation_intent", "waiting"}
    BY <1>1, <2>1 DEF RecoveredPhase, LivePhases, EndPhases
  <2>3. /\ stages' = [stages EXCEPT ![a] = Ended(stages[a], end)]
        /\ recovered' = [a |-> a, claim |-> stages[a].claim, end |-> end]
        /\ UNCHANGED waiting
    BY <1>2, <1>6, <2>1 DEF Recover
  <2>4. /\ stages' \in [StageNumbers -> Stage]
        /\ stages'[a].phase = end /\ stages'[a].claim = stages[a].claim
    BY <2>2, <2>3, EndedType
  <2>5. stages[a].claim \in Nat /\ (end # "final_unknown" => stages[a].claim = 0)
    BY <1>2, <2>2 DEF StageSound, Stage
  <2>6. TypeOK'
    BY <1>1, <2>2, <2>3, <2>4, <2>5 DEF StagedInv, TypeOK
  <2>7. RecoveredSound'
    <3>1. PICK r : r = recovered' /\ r.a = a /\ r.claim = stages[a].claim /\ r.end = end
      BY <2>3
    <3> QED
      BY <2>2, <2>4, <2>5, <3>1 DEF RecoveredSound, Final
  <2> QED
    BY <1>1, <1>3, <1>4, <2>2, <2>3, <2>6, <2>7, StageEnds
<1> QED
  BY <1>5, <1>6

\* Whoever stops has nothing on its way to Meta any more.
LEMMA NoLongerPublic ==
    ASSUME NEW h, OthersRest(h), h \in Handlers => worker'[h].pc \notin Sending, claims' = claims,
           NEW i, ~ MayBePublic(i)
    PROVE  ~ MayBePublic(i)'
  BY DEF OthersRest, SameWork, MayBePublic, Sends

\* Where EndStage leaves its callback.
LEMMA EndedCallback ==
    ASSUME StagedAssumption, StagedInv, NEW h \in Handlers, worker[h].pc = "stopping",
           NEW a \in StageNumbers, worker[h].a = a, claims' = claims,
           stages'[a].claim = stages[a].claim,
           NEW ended \in BOOLEAN,
           ended /\ worker[h].end # "final_unknown" =>
               /\ Final(stages'[a].phase)
               /\ \A i \in DOMAIN claims : i = stages[a].claim => ~ MayBePublic(i),
           IF worker[h].kept THEN Goto(h, "retaining")
           ELSE IF ended \/ worker[h].end = "final_unknown" THEN Goto(h, "recording")
           ELSE Leave(h)
    PROVE  /\ worker' \in [Handlers -> Worker] /\ OthersRest(h)
           /\ worker'[h].claim \in {0, worker[h].claim} /\ worker'[h].pc \notin Sending
           /\ WorkerSound(h)'
<1>1. WorkerSound(h)
  BY DEF StagedInv
<1>2. ASSUME NEW pc \in {"retaining", "recording"}, Goto(h, pc),
             pc = "retaining" => worker[h].kept,
             pc = "recording" => ended \/ worker[h].end = "final_unknown"
      PROVE  /\ worker' \in [Handlers -> Worker] /\ OthersRest(h)
             /\ worker'[h].claim \in {0, worker[h].claim} /\ worker'[h].pc \notin Sending
             /\ WorkerSound(h)'
  <2>1. pc \in PCs
    BY DEF PCs
  <2>2. /\ worker' \in [Handlers -> Worker] /\ OthersRest(h)
        /\ worker'[h].pc = pc /\ worker'[h].a = a /\ worker'[h].end = worker[h].end
        /\ worker'[h].claim = worker[h].claim /\ worker'[h].kept = worker[h].kept
    BY <1>2, <2>1, GotoIs DEF StagedInv
  <2>3. worker'[h].pc \notin Sending
    BY <2>2 DEF Sending
  <2>4. pc = "recording" /\ worker[h].end # "final_unknown" =>
           /\ Final(stages'[a].phase)
           /\ \A i \in DOMAIN claims : i = stages'[a].claim => ~ MayBePublic(i)'
    BY <1>2, <2>2, <2>3, NoLongerPublic
  <2>5. WorkerSound(h)'
    BY <1>1, <1>2, <2>2, <2>4 DEF WorkerSound, Preparing, Early, Sending
  <2> QED
    BY <2>2, <2>3, <2>5
<1>3. CASE Leave(h)
  BY <1>3, LeaveIs DEF StagedInv
<1> QED
  BY <1>2, <1>3

LEMMA EndStageSound ==
    ASSUME StagedAssumption, StagedInv, NEW h \in Handlers, EndStage(h) PROVE StagedInv'
<1>1. PICK a \in StageNumbers : a = worker[h].a
  BY DEF EndStage, StagedInv, WorkerSound
<1>2. UNCHANGED <<row, claims, Elsewhere>> /\ worker[h].pc = "stopping"
  BY DEF EndStage
<1>3. stages[a] \in Stage /\ stages \in [StageNumbers -> Stage] /\ StageSound(a) /\ WorkerSound(h)
  BY StageOf DEF StagedInv
<1>4. CASE /\ MayEnd(h)
           /\ stages' = [stages EXCEPT ![a] = Ended(stages[a], worker[h].end)]
           /\ IF worker[h].kept THEN Goto(h, "retaining") ELSE Goto(h, "recording")
  <2>1. PICK end \in EndPhases : end = worker[h].end
    BY DEF StagedInv, TypeOK, Worker
  <2>2. /\ stages[a].lease = h
        /\ \/ stages[a].phase \in LivePhases
           \/ stages[a].phase = "preparation_unknown" /\ end = "preparation_unknown"
    BY <1>1, <1>4, <2>1 DEF MayEnd
  <2>3. end = "preparation_unknown" =>
           stages[a].phase \in {"preparation_intent", "preparation_unknown"}
    BY <1>1, <1>2, <1>3, <2>1, <2>2 DEF WorkerSound, Preparing, Final, LivePhases, EndPhases
  <2>4. /\ stages' \in [StageNumbers -> Stage]
        /\ stages'[a].phase = end /\ stages'[a].claim = stages[a].claim
    BY <1>4, <2>1, EndedType
  <2>5. ASSUME end # "final_unknown", NEW i \in DOMAIN claims, i = stages[a].claim
        PROVE  ~ MayBePublic(i)
    <3>1. i # 0
      BY LenProperties DEF StagedInv, TypeOK
    <3>2. stages[a].phase # "preparation_unknown"
      BY <1>3, <2>5, <3>1 DEF StageSound
    <3>3. ~ Final(stages[a].phase)
      BY <2>2, <3>2, Names DEF Final
    <3> QED
      BY <1>1, <1>2, <1>3, <2>1, <2>2, <2>5, <3>3 DEF WorkerSound
  <2>6. /\ worker' \in [Handlers -> Worker] /\ OthersRest(h)
        /\ worker'[h].claim \in {0, worker[h].claim} /\ worker'[h].pc \notin Sending
        /\ WorkerSound(h)'
    <3>1. PICK ended \in BOOLEAN : ended
      OBVIOUS
    <3>2. IF worker[h].kept THEN Goto(h, "retaining")
          ELSE IF ended \/ worker[h].end = "final_unknown" THEN Goto(h, "recording")
          ELSE Leave(h)
      BY <1>4, <3>1
    <3> QED
      BY <1>1, <1>2, <2>1, <2>4, <2>5, <3>2, EndedCallback DEF Final
  <2>7. TypeOK'
    BY <1>2, <2>4, <2>6 DEF StagedInv, TypeOK, Elsewhere, queueVars
  <2> QED
    BY <1>2, <1>4, <2>1, <2>2, <2>3, <2>6, <2>7, StageEnds DEF Elsewhere
<1>5. CASE /\ UNCHANGED stages
           /\ IF worker[h].kept THEN Goto(h, "retaining")
              ELSE IF worker[h].end = "final_unknown" THEN Goto(h, "recording")
              ELSE Leave(h)
  <2>1. /\ worker' \in [Handlers -> Worker] /\ OthersRest(h)
        /\ worker'[h].claim \in {0, worker[h].claim} /\ worker'[h].pc \notin Sending
        /\ WorkerSound(h)'
    <3>1. PICK ended \in BOOLEAN : ~ ended
      OBVIOUS
    <3>2. IF worker[h].kept THEN Goto(h, "retaining")
          ELSE IF ended \/ worker[h].end = "final_unknown" THEN Goto(h, "recording")
          ELSE Leave(h)
      BY <1>5, <3>1
    <3> QED
      BY <1>1, <1>2, <1>5, <3>1, <3>2, EndedCallback
  <2>2. UNCHANGED <<dataVars, Elsewhere>>
    BY <1>2, <1>5 DEF dataVars
  <2>3. TypeOK'
    BY <2>1, <2>2, TypesElsewhere DEF StagedInv
  <2> QED
    BY <2>1, <2>2, <2>3, QueueStep DEF Elsewhere
<1>6. \/ /\ MayEnd(h)
         /\ stages' = [stages EXCEPT ![a] = Ended(stages[a], worker[h].end)]
         /\ IF worker[h].kept THEN Goto(h, "retaining") ELSE Goto(h, "recording")
      \/ /\ UNCHANGED stages
         /\ IF worker[h].kept THEN Goto(h, "retaining")
            ELSE IF worker[h].end = "final_unknown" THEN Goto(h, "recording")
            ELSE Leave(h)
  BY <1>1, <1>3 DEF EndStage
<1> QED
  BY <1>4, <1>5, <1>6

\* The ids of a post are kept, and the end confirmed when the receipt confirms it.
LEMMA RetainReceiptSound ==
    ASSUME StagedAssumption, StagedInv, NEW h \in Handlers, RetainReceipt(h) PROVE StagedInv'
<1>1. WorkerSound(h) /\ worker[h].pc = "retaining"
  BY DEF RetainReceipt, StagedInv
<1>2. PICK a \in StageNumbers : a = worker[h].a
  BY <1>1 DEF WorkerSound
<1>3. worker[h].claim # 0 /\ worker[h].claim = stages[a].claim
  BY <1>1, <1>2 DEF WorkerSound
<1>4. stages[a] \in Stage /\ stages \in [StageNumbers -> Stage] /\ StageSound(a)
  BY StageOf
<1>5. UNCHANGED <<row, claims, Elsewhere>> /\ Leave(h)
  BY DEF RetainReceipt
<1>6. /\ worker' \in [Handlers -> Worker] /\ OthersRest(h)
      /\ worker'[h].claim = 0 /\ worker'[h].pc \notin Sending
      /\ WorkerSound(h)'
  BY <1>5, LeaveIs DEF StagedInv
<1>7. CASE UNCHANGED stages
  <2>1. UNCHANGED <<dataVars, Elsewhere>>
    BY <1>5, <1>7 DEF dataVars
  <2>2. TypeOK'
    BY <1>6, <2>1, TypesElsewhere DEF StagedInv
  <2> QED
    BY <1>6, <2>1, <2>2, QueueStep DEF Elsewhere
<1>9. PICK p : p = IF Confirmed(h) THEN "published" ELSE stages[a].phase
  OBVIOUS
<1>8. CASE stages' = [stages EXCEPT ![a] = [Released(stages[a]) EXCEPT !.ext = TRUE, !.phase = p]]
  <2>2. PICK r \in Stage : /\ r = Released(stages[a]) /\ r.lease = None
                           /\ r.phase = stages[a].phase /\ r.claim = stages[a].claim
    BY <1>4, ReleasedIs
  <2>3. p \in Phases
    BY <1>4, <1>9 DEF Stage, Phases
  <2>4. PICK st \in Stage : /\ st = [r EXCEPT !.ext = TRUE, !.phase = p]
                            /\ st.lease = None /\ st.phase = p /\ st.claim = stages[a].claim
    <3>1. [r EXCEPT !.ext = TRUE, !.phase = p] \in Stage
      BY <2>2, <2>3 DEF Stage
    <3> QED
      BY <2>2, <3>1 DEF Stage
  <2>5. stages' = [stages EXCEPT ![a] = st]
    BY <1>8, <2>2, <2>4
  <2>6. /\ stages' \in [StageNumbers -> Stage] /\ stages'[a] = st
        /\ \A b \in StageNumbers : b # a => stages'[b] = stages[b]
    BY <1>4, <2>5, StagePuts
  <2>7. \/ p = stages[a].phase
        \/ /\ p = "published" /\ stages[a].phase \in {"final_intent", "final_unknown"}
           /\ claims[stages[a].claim].st = "published"
    BY <1>2, <1>3, <1>9 DEF Confirmed
  <2>8. TypeOK'
    BY <1>5, <1>6, <2>6 DEF StagedInv, TypeOK, Elsewhere, queueVars
  <2>9. StageMoves(a)
    BY <2>4, <2>6, <2>7 DEF StageMoves, Final, LivePhases, Unmade, EndPhases
  <2>10. StageSound(a)'
    BY <1>3, <1>4, <1>5, <2>4, <2>6, <2>7 DEF StageSound
  <2>11. ASSUME NEW g \in Handlers, g # h PROVE StageRests(a, g)
    <3>1. worker[g].claim # stages[a].claim
      BY <1>3, <2>11 DEF StagedInv, OneSender
    <3>2. stages[a].phase # "preparation_intent"
      BY <1>3, <1>4 DEF StageSound
    <3> QED
      BY <2>4, <2>6, <2>7, <3>1, <3>2 DEF StageRests, Final, EndPhases, StagedAssumption
  <2> QED
    BY <1>5, <1>6, <2>6, <2>8, <2>9, <2>10, <2>11, StageStep DEF Elsewhere
<1>10. UNCHANGED stages \/
       stages' = [stages EXCEPT ![a] = [Released(stages[a]) EXCEPT !.ext = TRUE, !.phase = p]]
  <2>1. Released(stages[a]).phase = stages[a].phase
    BY <1>4, ReleasedIs
  <2>2. CASE Confirmed(h)
    BY <1>2, <1>4, <1>9, <2>2 DEF RetainReceipt
  <2>3. CASE ~ Confirmed(h)
    BY <1>2, <1>4, <1>9, <2>1, <2>3 DEF RetainReceipt
  <2> QED
    BY <2>2, <2>3
<1> QED
  BY <1>7, <1>8, <1>10

(***************************************************************************)
(* Steps that move the delivery and its receipts                            *)
(***************************************************************************)
LEMMA FailsStep ==
    ASSUME StagedInv, NEW h, TypeOK', OthersRest(h), h \in Handlers => WorkerSound(h)',
           h \in Handlers => worker'[h].claim \in {0, worker[h].claim},
           h \in Handlers => worker'[h].pc \notin Sending,
           UNCHANGED <<stages, cleared, decisions>>,
           recovered' = recovered \/ recovered' = None,
           NEW outcome \in {"failed", "unknown"}, Fails(outcome),
           outcome = "failed" => \A i \in DOMAIN claims : claims[i].st = "in_flight" => ~ MayBePublic(i)
    PROVE  StagedInv'
<1>1. KeepsSending
  BY SendingKept
<1>2. /\ ClaimsRest /\ \A g \in Handlers : PostsRest(g)
      /\ \A i \in DOMAIN claims' : HistorySound(i)'
      /\ OnePublic' /\ row'.att >= row.att
  BY <1>1, FailsHistory
<1>3. AttemptsSound'
  <2>1. row \in Row /\ decisions \in Int
    BY DEF StagedInv, TypeOK
  <2> QED
    BY <2>1 DEF StagedInv, AttemptsSound, Fails, Row
<1> QED
  BY <1>2, <1>3, HistoryStep

LEMMA RefuseStartSound ==
    ASSUME StagedAssumption, StagedInv, NEW h \in Handlers, RefuseStart(h) PROVE StagedInv'
<1>1. Leave(h) /\ UNCHANGED <<stages, Elsewhere>> /\ worker[h].pc = "loaded"
  BY DEF RefuseStart
<1>2. /\ worker' \in [Handlers -> Worker] /\ OthersRest(h)
      /\ worker'[h].claim = 0 /\ worker'[h].pc \notin Sending
      /\ WorkerSound(h)'
  BY <1>1, LeaveIs DEF StagedInv
<1>3. CASE Preflight(h)
  <2>1. /\ row' = [st |-> "failed", att |-> row.att + 1]
        /\ claims' = Resolved(0, "failed", row.att + 1)
    BY <1>3 DEF RefuseStart
  <2>2. row.st = "queued" /\ ~ ClaimsBlock
    BY <1>1, <1>3 DEF Preflight, Blocked, StagedInv, WorkerSound
  <2>3. Fails("failed")
    BY <2>1, <2>2, RefusedIs
  <2>4. TypeOK'
    BY <1>1, <1>2, <2>3, FailsType DEF StagedInv, TypeOK, Elsewhere, queueVars
  <2>5. \A i \in DOMAIN claims : claims[i].st # "in_flight"
    BY <2>2 DEF ClaimsBlock
  <2> QED
    BY <1>1, <1>2, <2>3, <2>4, <2>5, FailsStep DEF Elsewhere
<1>4. CASE ~ Preflight(h)
  <2>1. UNCHANGED <<dataVars, Elsewhere>>
    BY <1>1, <1>4 DEF RefuseStart, dataVars
  <2>2. TypeOK'
    BY <1>2, <2>1, TypesElsewhere DEF StagedInv
  <2> QED
    BY <1>2, <2>1, <2>2, QueueStep DEF Elsewhere
<1> QED
  BY <1>3, <1>4

LEMMA SweepPublishSound == StagedAssumption /\ StagedInv /\ SweepPublish => StagedInv'
<1> SUFFICES ASSUME StagedAssumption, StagedInv, SweepPublish PROVE StagedInv'
  OBVIOUS
<1>1. UNCHANGED <<stages, Elsewhere, worker>>
  BY DEF SweepPublish
<1>2. PICK outcome \in {"failed", "unknown"} :
         outcome = IF InFlight = {} THEN "failed" ELSE "unknown"
  OBVIOUS
<1>3. Fails(outcome)
  BY <1>2, SweepIs DEF SweepPublish
<1>4. TypeOK' /\ OthersRest(None)
  BY <1>1, <1>3, FailsType DEF StagedInv, TypeOK, Elsewhere, queueVars, OthersRest, SameWork
<1>5. outcome = "failed" => \A i \in DOMAIN claims : claims[i].st # "in_flight"
  BY <1>2 DEF InFlight
<1>6. PICK x : x = None /\ x \notin Handlers
  BY DEF StagedAssumption
<1> QED
  BY <1>1, <1>3, <1>4, <1>5, <1>6, FailsStep DEF Elsewhere

LEMMA RecordEndSound ==
    ASSUME StagedAssumption, StagedInv, NEW h \in Handlers, RecordEnd(h) PROVE StagedInv'
<1>1. Leave(h) /\ UNCHANGED <<stages, Elsewhere>> /\ worker[h].pc = "recording"
  BY DEF RecordEnd
<1>2. /\ worker' \in [Handlers -> Worker] /\ OthersRest(h)
      /\ worker'[h].claim = 0 /\ worker'[h].pc \notin Sending
      /\ WorkerSound(h)'
  BY <1>1, LeaveIs DEF StagedInv
<1>3. PICK a \in StageNumbers : a = worker[h].a
  BY <1>1 DEF StagedInv, WorkerSound
<1>4. PICK outcome \in {"failed", "unknown"} :
         outcome = IF worker[h].end \in {"final_unknown", "published_without_receipt"}
                   THEN "unknown" ELSE "failed"
  OBVIOUS
<1>5. CASE UNCHANGED <<row, claims>>
  <2>1. UNCHANGED <<dataVars, Elsewhere>>
    BY <1>1, <1>5 DEF dataVars
  <2>2. TypeOK'
    BY <1>2, <2>1, TypesElsewhere DEF StagedInv
  <2> QED
    BY <1>2, <2>1, <2>2, QueueStep DEF Elsewhere
<1>6. CASE row.st = "publishing" /\ row.att = a /\ Fails(outcome)
  <2>1. TypeOK'
    BY <1>1, <1>2, <1>6, FailsType DEF StagedInv, TypeOK, Elsewhere, queueVars
  <2>2. ASSUME outcome = "failed", NEW i \in DOMAIN claims, claims[i].st = "in_flight"
        PROVE  ~ MayBePublic(i)
    <3>1. HistorySound(i) /\ WorkerSound(h)
      BY <2>2 DEF StagedInv
    <3>2. i = stages[a].claim
      BY <1>6, <2>2, <3>1 DEF HistorySound
    <3> QED
      BY <1>1, <1>3, <1>4, <2>2, <3>1, <3>2 DEF WorkerSound
  <2> QED
    BY <1>1, <1>2, <1>6, <2>1, <2>2, FailsStep DEF Elsewhere
<1>7. ASSUME MarkFailed(a, worker[h].claim, outcome)
      PROVE  UNCHANGED <<row, claims>> \/ (row.st = "publishing" /\ row.att = a /\ Fails(outcome))
  <2>1. worker[h].claim \in {0, stages[a].claim}
    BY <1>3 DEF StagedInv, WorkerSound
  <2> QED
    BY <1>7, <2>1, MarkFailedIs
<1> QED
  BY <1>3, <1>4, <1>5, <1>6, <1>7 DEF RecordEnd

LEMMA RecordRecoveredSound == StagedAssumption /\ StagedInv /\ RecordRecovered => StagedInv'
<1> SUFFICES ASSUME StagedAssumption, StagedInv, RecordRecovered PROVE StagedInv'
  OBVIOUS
<1>1. /\ UNCHANGED <<stages, input, cleared, queueVars, worker, decisions>>
      /\ recovered' = None /\ recovered # None
  BY DEF RecordRecovered
<1>2. recovered.a \in StageNumbers /\ RecoveredSound
  BY <1>1 DEF StagedInv, TypeOK
<1>3. PICK a \in StageNumbers : a = recovered.a
  BY <1>2
<1>4. PICK outcome \in {"failed", "unknown"} :
         outcome = IF recovered.end = "final_unknown" THEN "unknown" ELSE "failed"
  OBVIOUS
<1>5. OthersRest(None) /\ None \notin Handlers
  BY <1>1 DEF OthersRest, SameWork, StagedAssumption
<1>6. PICK x : x = None
  OBVIOUS
<1>7. CASE UNCHANGED <<row, claims>>
  <2>1. TypeOK'
    BY <1>1, <1>7 DEF StagedInv, TypeOK, queueVars
  <2>2. KeepsSending
    BY <1>1 DEF KeepsSending
  <2>3. /\ ClaimsRest /\ \A g \in Handlers : PostsRest(g)
        /\ \A i \in DOMAIN claims' : HistorySound(i)'
        /\ OnePublic'
    BY <1>1, <1>7, <2>2, HistoryRests
  <2>4. AttemptsSound' /\ row'.att >= row.att
    BY <1>1, <1>7 DEF StagedInv, AttemptsSound, TypeOK, Row
  <2> QED
    BY <1>1, <1>5, <1>6, <2>1, <2>3, <2>4, HistoryStep
<1>8. CASE row.st = "publishing" /\ row.att = a /\ Fails(outcome)
  <2>1. TypeOK'
    BY <1>1, <1>8, FailsType DEF StagedInv, TypeOK, queueVars
  <2>2. ASSUME outcome = "failed", NEW i \in DOMAIN claims, claims[i].st = "in_flight"
        PROVE  FALSE
    <3>1. HistorySound(i) /\ i # 0
      BY <2>2, LenProperties DEF StagedInv, TypeOK
    <3>2. i = stages[a].claim
      BY <1>8, <2>2, <3>1 DEF HistorySound
    <3>3. stages[a].claim = 0
      BY <1>1, <1>2, <1>3, <1>4, <2>2 DEF RecoveredSound
    <3> QED
      BY <3>1, <3>2, <3>3
  <2> QED
    BY <1>1, <1>5, <1>6, <1>8, <2>1, <2>2, FailsStep
<1>9. ASSUME NEW claim \in {0, stages[a].claim}, MarkFailed(a, claim, outcome)
      PROVE  UNCHANGED <<row, claims>> \/ (row.st = "publishing" /\ row.att = a /\ Fails(outcome))
  BY <1>9, MarkFailedIs
<1>10. \/ UNCHANGED <<row, claims>>
       \/ \E claim \in {0, stages[a].claim} : MarkFailed(a, claim, outcome)
  <2>1. recovered.claim = stages[a].claim
    BY <1>1, <1>2, <1>3 DEF RecoveredSound
  <2> QED
    BY <1>3, <1>4, <2>1 DEF RecordRecovered
<1> QED
  BY <1>7, <1>8, <1>9, <1>10

\* With nothing in flight, the last receipt is the last that finished.
LEMMA LastFinished ==
    ASSUME claims \in Seq(Claim), \A i \in DOMAIN claims : claims[i].st # "in_flight",
           NEW n \in DOMAIN claims
    PROVE  Finished # {} /\ Last(Finished) = Len(claims) /\ Len(claims) \in DOMAIN claims
<1>1. DOMAIN claims = 1..Len(claims) /\ Len(claims) \in Nat
  BY LenProperties
<1>2. Finished = DOMAIN claims
  BY DEF Finished, InFlight
<1>3. Len(claims) \in DOMAIN claims /\ \A j \in DOMAIN claims : j <= Len(claims)
  BY <1>1
<1>4. Last(Finished) \in Finished /\ \A j \in Finished : j <= Last(Finished)
  BY <1>2, <1>3 DEF Last
<1> QED
  BY <1>1, <1>2, <1>3, <1>4

\* The decision of a delivery that is over, or never started, finds nothing public.
LEMMA Settled ==
    ASSUME StagedInv, row.st \in {"pending", "failed"}, ~ OutcomeUnknown
    PROVE  \A i \in DOMAIN claims :
              /\ claims[i].st \notin {"in_flight", "published"}
              /\ i > cleared => ~ MayBePublic(i)
<1>1. \A i \in DOMAIN claims : HistorySound(i) /\ claims[i].st \notin {"in_flight", "published"}
  BY DEF StagedInv, HistorySound
<1> SUFFICES ASSUME NEW i \in DOMAIN claims, i > cleared, MayBePublic(i) PROVE FALSE
  BY <1>1
<1>2. claims[i].st = "unknown" /\ row.st = "failed" /\ i = Len(claims)
  BY <1>1 DEF HistorySound
<1>3. Finished # {} /\ Last(Finished) = Len(claims)
  BY <1>1, LastFinished DEF StagedInv, TypeOK
<1> QED
  BY <1>2, <1>3 DEF OutcomeUnknown

\* Receipts stay, and none of them is in flight, published or public.
LEMMA QuietHistory ==
    ASSUME StagedInv, KeepsSending, claims' = claims, cleared' = cleared,
           \A i \in DOMAIN claims :
              /\ claims[i].st \notin {"in_flight", "published"}
              /\ i > cleared => ~ MayBePublic(i)
    PROVE  /\ ClaimsRest /\ \A g \in Handlers : PostsRest(g)
           /\ \A i \in DOMAIN claims' : HistorySound(i)'
           /\ OnePublic'
<1>1. \A i \in DOMAIN claims : MayBePublic(i)' => MayBePublic(i)
  BY PublicKept DEF MayBePublic
<1>2. ClaimsRest /\ \A g \in Handlers : PostsRest(g)
  BY <1>1 DEF ClaimsRest, PostsRest
<1>3. \A i \in DOMAIN claims' : HistorySound(i)'
  BY <1>1 DEF HistorySound
<1>4. OnePublic'
  BY <1>1 DEF OnePublic
<1> QED
  BY <1>2, <1>3, <1>4

LEMMA ApproveSound == StagedAssumption /\ StagedInv /\ Approve => StagedInv'
<1> SUFFICES ASSUME StagedAssumption, StagedInv, Approve PROVE StagedInv'
  OBVIOUS
<1>1. /\ row.st \in {"pending", "failed"} /\ ~ OutcomeUnknown
      /\ row' = [row EXCEPT !.st = "queued"] /\ waiting' = waiting \cup {PublishJob}
      /\ UNCHANGED <<input, claims, cleared, stages, orphans, worker, recovered>>
      /\ decisions' = decisions + 1 /\ decisions < MaxDecisions
  BY DEF Approve, Decide
<1>2. row \in Row /\ row' \in Row /\ row'.st = "queued" /\ row'.att = row.att
      /\ decisions \in 0..MaxDecisions
  BY <1>1 DEF StagedInv, TypeOK, Row
<1>3. TypeOK' /\ OthersRest(None)
  <2>1. decisions' \in 0..MaxDecisions
    BY <1>1, <1>2 DEF StagedAssumption
  <2> QED
    BY <1>1, <1>2, <2>1, IdleIs DEF StagedInv, TypeOK, OthersRest, SameWork
<1>4. KeepsSending
  BY <1>1 DEF KeepsSending
<1>5. /\ ClaimsRest /\ \A g \in Handlers : PostsRest(g)
      /\ \A i \in DOMAIN claims' : HistorySound(i)'
      /\ OnePublic'
  BY <1>1, <1>4, Settled, QuietHistory
<1>6. AttemptsSound' /\ row'.att >= row.att
  BY <1>1, <1>2 DEF StagedInv, AttemptsSound, Row
<1>7. PICK x : x = None /\ x \notin Handlers
  BY DEF StagedAssumption
<1> QED
  BY <1>1, <1>3, <1>5, <1>6, <1>7, HistoryStep

LEMMA RejectSound == StagedAssumption /\ StagedInv /\ Reject => StagedInv'
<1> SUFFICES ASSUME StagedAssumption, StagedInv, Reject PROVE StagedInv'
  OBVIOUS
<1>1. /\ row.st \in {"queued", "publishing"} /\ (row.st = "publishing" => InFlight = {})
      /\ row' = [st |-> "pending", att |-> row.att + 1]
      /\ waiting' \subseteq waiting /\ orphans' \subseteq orphans
      /\ UNCHANGED <<input, claims, cleared, stages, recovered>>
      /\ decisions' = decisions + 1 /\ decisions < MaxDecisions
  BY DEF Reject, Decide
<1>2. row \in Row /\ row' \in Row /\ row'.st = "pending" /\ row'.att = row.att + 1
      /\ decisions \in 0..MaxDecisions
  BY <1>1 DEF StagedInv, TypeOK, Row
<1>3. worker' \in [Handlers -> Worker] /\ OthersRest(None)
  <2>1. worker' = [g \in Handlers |-> IF worker[g].job.s = 0
                                      THEN [worker[g] EXCEPT !.live = FALSE] ELSE worker[g]]
    BY DEF Reject
  <2>2. ASSUME NEW g \in Handlers PROVE worker'[g] \in Worker /\ SameWork(g)
    <3>1. worker[g] \in Worker
      BY DEF StagedInv, TypeOK
    <3>2. worker'[g] = worker[g] \/ worker'[g] = [worker[g] EXCEPT !.live = FALSE]
      BY <2>1
    <3> QED
      BY <3>1, <3>2 DEF SameWork, Worker
  <2>3. worker' = [g \in Handlers |-> worker'[g]]
    BY <2>1
  <2> QED
    BY <2>2, <2>3 DEF OthersRest
<1>4. TypeOK'
  <2>1. decisions' \in 0..MaxDecisions
    BY <1>1, <1>2 DEF StagedAssumption
  <2> QED
    BY <1>1, <1>2, <1>3, <2>1 DEF StagedInv, TypeOK
<1>5. PICK x : x = None /\ x \notin Handlers
  BY DEF StagedAssumption
<1>6. KeepsSending
  BY <1>3, <1>5, SendingKept
<1>7. \A i \in DOMAIN claims :
         /\ claims[i].st \notin {"in_flight", "published"}
         /\ i > cleared => ~ MayBePublic(i)
  BY <1>1 DEF StagedInv, HistorySound, InFlight
<1>8. /\ ClaimsRest /\ \A g \in Handlers : PostsRest(g)
      /\ \A i \in DOMAIN claims' : HistorySound(i)'
      /\ OnePublic'
  BY <1>1, <1>6, <1>7, QuietHistory
<1>9. AttemptsSound' /\ row'.att >= row.att
  <2>1. row.att <= decisions
    BY <1>2 DEF StagedInv, AttemptsSound, Row
  <2> QED
    BY <1>1, <1>2, <2>1 DEF AttemptsSound, Row
<1> QED
  BY <1>1, <1>3, <1>4, <1>5, <1>8, <1>9, HistoryStep

\* A person says what became of a delivery whose last receipt is unknown.
LEMMA AssertDeliverySound ==
    ASSUME StagedAssumption, StagedInv, NEW delivered \in BOOLEAN, AssertDelivery(delivered)
    PROVE  StagedInv'
<1>1. PICK verdict \in {"published", "failed"} :
         verdict = IF delivered THEN "published" ELSE "failed"
  OBVIOUS
<1>2. /\ row.st = "failed"
      /\ row' = [row EXCEPT !.st = verdict]
      /\ claims' = Append(claims, NewClaim(verdict, row.att, TRUE))
      /\ cleared' = IF delivered THEN cleared ELSE Len(claims)
      /\ UNCHANGED <<input, stages, queueVars, worker, recovered>>
      /\ decisions' = decisions + 1 /\ decisions < MaxDecisions
  BY <1>1 DEF AssertDelivery, Decide, OutcomeUnknown
<1>3. row \in Row /\ row' \in Row /\ row'.st = verdict /\ row'.att = row.att
      /\ decisions \in 0..MaxDecisions /\ cleared \in Nat /\ claims \in Seq(Claim)
  BY <1>2 DEF StagedInv, TypeOK, Row
<1>4. PICK att \in Nat : att = row.att
  BY <1>3 DEF Row
<1>5. PICK x \in Claim : /\ x = NewClaim(verdict, att, TRUE) /\ x.st = verdict
                         /\ x.att = att /\ ~ x.posted
  <2>1. /\ NewClaim(verdict, att, TRUE) \in Claim
        /\ NewClaim(verdict, att, TRUE).st = verdict /\ NewClaim(verdict, att, TRUE).att = att
        /\ NewClaim(verdict, att, TRUE).posted = FALSE
    BY DEF NewClaim, Claim
  <2> QED
    BY <2>1
<1>6. PICK n : n = Len(claims) + 1
  OBVIOUS
<1>7. /\ claims' \in Seq(Claim) /\ Len(claims) \in Nat /\ n \in Nat
      /\ DOMAIN claims = 1..Len(claims) /\ DOMAIN claims' = 1..n
      /\ Len(claims') = n /\ claims'[n] = x
      /\ \A j \in DOMAIN claims : claims'[j] = claims[j]
  <2>1. claims' = Append(claims, x)
    BY <1>2, <1>4, <1>5
  <2>2. /\ claims' \in Seq(Claim) /\ Len(claims) \in Nat
        /\ DOMAIN claims = 1..Len(claims) /\ DOMAIN claims' = 1..(Len(claims) + 1)
        /\ Len(claims') = Len(claims) + 1 /\ claims'[Len(claims) + 1] = x
        /\ \A j \in DOMAIN claims : claims'[j] = claims[j]
    BY <1>3, <2>1, ClaimAppended
  <2> QED
    BY <1>6, <2>2
<1>8. TypeOK' /\ OthersRest(None)
  <2>1. decisions' \in 0..MaxDecisions /\ cleared' \in Nat
    BY <1>2, <1>3, <1>7 DEF StagedAssumption
  <2> QED
    BY <1>2, <1>3, <1>7, <2>1 DEF StagedInv, TypeOK, queueVars, OthersRest, SameWork
<1>9. KeepsSending
  BY <1>2 DEF KeepsSending
<1>10. \A j \in DOMAIN claims : MayBePublic(j)' => MayBePublic(j)
  BY <1>7, <1>9, PublicKept DEF MayBePublic
<1>11. ~ MayBePublic(n)'
  <2>1. n \notin DOMAIN claims
    BY <1>6, <1>7
  <2>2. \A g \in Handlers : ~ Sends(g, n)
    BY <2>1, SenderClaimed
  <2> QED
    BY <1>2, <1>5, <1>7, <2>2 DEF MayBePublic, Sends
<1>12. ClaimsRest /\ \A g \in Handlers : PostsRest(g)
  BY <1>6, <1>7, <1>10 DEF ClaimsRest, PostsRest
<1>13. \A j \in DOMAIN claims' : j = n \/ j \in DOMAIN claims
  BY <1>6, <1>7
<1>14. \A j \in DOMAIN claims : claims[j].st \notin {"in_flight", "published"}
  BY <1>2 DEF StagedInv, HistorySound
<1>15. \A i \in DOMAIN claims' : i > cleared' /\ MayBePublic(i)' =>
          i \in DOMAIN claims /\ MayBePublic(i) /\ i > cleared /\ delivered
  BY <1>2, <1>3, <1>7, <1>10, <1>11, <1>13
<1>16. OnePublic'
  BY <1>15 DEF StagedInv, OnePublic
<1>17. ASSUME NEW i \in DOMAIN claims' PROVE HistorySound(i)'
  <2>1. claims'[i].st # "in_flight"
    BY <1>5, <1>7, <1>13, <1>14, <1>17
  <2>2. claims'[i].st = "published" => i = n /\ verdict = "published"
    BY <1>5, <1>7, <1>13, <1>14, <1>17
  <2> QED
    BY <1>1, <1>3, <1>4, <1>5, <1>7, <1>15, <1>17, <2>1, <2>2 DEF HistorySound
<1>18. AttemptsSound' /\ row'.att >= row.att
  BY <1>2, <1>3, <1>1 DEF StagedInv, AttemptsSound, Row
<1>19. PICK y : y = None /\ y \notin Handlers
  BY DEF StagedAssumption
<1> QED
  BY <1>2, <1>8, <1>12, <1>16, <1>17, <1>18, <1>19, HistoryStep

\* A receipt is there, and knows its attempt, once a callback remembers it.
LEMMA ClaimHeld ==
    ASSUME StagedInv, NEW h \in Handlers, worker[h].claim # 0
    PROVE  /\ worker[h].a \in StageNumbers /\ worker[h].claim = stages[worker[h].a].claim
           /\ worker[h].claim \in DOMAIN claims /\ claims[worker[h].claim].att = worker[h].a
           /\ claims[worker[h].claim] \in Claim
<1>1. worker[h].a \in StageNumbers /\ worker[h].claim = stages[worker[h].a].claim
  BY DEF StagedInv, WorkerSound
<1>2. worker[h].claim \in DOMAIN claims /\ claims[worker[h].claim].att = worker[h].a
  BY <1>1 DEF StagedInv, StageSound
<1>3. claims[worker[h].claim] \in Claim
  BY <1>2, ElementOfSeq, LenProperties DEF StagedInv, TypeOK
<1> QED
  BY <1>1, <1>2, <1>3

\* The answer to a final request.
LEMMA AnswerHistory ==
    ASSUME StagedInv, NEW h \in Handlers, worker[h].pc \in Sending, NEW posted \in BOOLEAN,
           NEW i, i = worker[h].claim, claims' = [claims EXCEPT ![i].posted = posted],
           OthersRest(h), worker'[h].pc \notin Sending,
           UNCHANGED <<row, stages, cleared>>
    PROVE  /\ ClaimsRest /\ \A g \in Handlers : g # h => PostsRest(g)
           /\ \A j \in DOMAIN claims' : HistorySound(j)'
           /\ OnePublic' /\ claims' \in Seq(Claim)
           /\ ~ posted => ~ MayBePublic(i)'
<1>1. i = worker[h].claim
  OBVIOUS
<1>2. /\ i \in DOMAIN claims /\ ~ claims[i].posted
      /\ \A g \in Handlers : g # h => ~ Sends(g, i)
  BY <1>1, SenderQuiet
<1>3. MayBePublic(i)
  BY <1>1 DEF MayBePublic, Sends
<1>4. claims \in Seq(Claim) /\ claims[i] \in Claim
  BY <1>2, ElementOfSeq, LenProperties DEF StagedInv, TypeOK
<1>5. PICK x \in Claim : /\ x = [claims[i] EXCEPT !.posted = posted]
                         /\ x.st = claims[i].st /\ x.att = claims[i].att /\ x.posted = posted
  <2>1. [claims[i] EXCEPT !.posted = posted] \in Claim
    BY <1>4 DEF Claim
  <2> QED
    BY <1>4, <2>1 DEF Claim
<1>6. claims' = [claims EXCEPT ![i] = x]
  BY <1>1, <1>4, <1>5
<1>7. /\ claims' \in Seq(Claim) /\ DOMAIN claims' = DOMAIN claims
      /\ Len(claims') = Len(claims) /\ claims'[i] = x
      /\ \A j \in DOMAIN claims : j # i => claims'[j] = claims[j]
  BY <1>2, <1>4, <1>6, ClaimReplaced
<1>8. \A j \in DOMAIN claims : claims'[j].st = claims[j].st /\ claims'[j].att = claims[j].att
  BY <1>5, <1>7
<1>9. KeepsSending
  BY SendingKept
<1>10. ASSUME NEW j \in DOMAIN claims PROVE MayBePublic(j)' => MayBePublic(j)
  <2>1. claims'[j].posted => MayBePublic(j)
    BY <1>3, <1>7 DEF MayBePublic
  <2> QED
    BY <1>9, <2>1, PublicKept
<1>11. ClaimsRest
  BY <1>7, <1>8, <1>10 DEF ClaimsRest
<1>12. \A g \in Handlers : g # h => PostsRest(g)
  BY <1>2, <1>7 DEF PostsRest
<1>13. \A j \in DOMAIN claims' : HistorySound(j)'
  <2> SUFFICES ASSUME NEW j \in DOMAIN claims' PROVE HistorySound(j)'
    OBVIOUS
  <2>1. j \in DOMAIN claims /\ HistorySound(j)
    BY <1>7 DEF StagedInv
  <2> QED
    BY <1>7, <1>8, <1>10, <2>1 DEF HistorySound
<1>14. OnePublic'
  BY <1>7, <1>10 DEF StagedInv, OnePublic
<1>15. ~ posted => ~ MayBePublic(i)'
  <2>1. claims'[i].posted = posted
    BY <1>5, <1>7
  <2>2. \A g \in Handlers : ~ Sends(g, i)'
    BY <1>2 DEF OthersRest, SameWork, Sends
  <2> QED
    BY <2>1, <2>2 DEF MayBePublic
<1> QED
  BY <1>1, <1>7, <1>11, <1>12, <1>13, <1>14, <1>15

LEMMA FinalizeSound ==
    ASSUME StagedAssumption, StagedInv, NEW h \in Handlers, Finalize(h) PROVE StagedInv'
<1>1. /\ worker[h].pc \in Sending /\ UNCHANGED <<row, stages, Elsewhere>>
  BY DEF Finalize, Sending
<1>2. PICK posted \in BOOLEAN :
         /\ claims' = [claims EXCEPT ![worker[h].claim].posted = posted]
         /\ \/ posted /\ Goto(h, "confirmed")
            \/ posted /\ Goto(h, "accepted")
            \/ ~ posted /\ Stop(h, "failed")
            \/ Stop(h, "final_unknown")
  BY DEF Finalize
<1>3. PICK a \in StageNumbers : a = worker[h].a
  BY <1>1, SenderQuiet
<1>4. worker[h].claim # 0 /\ worker[h].claim = stages[a].claim
  BY <1>1, <1>3, SenderQuiet
<1>5. AttemptsSound' /\ row'.att >= row.att
  BY <1>1 DEF StagedInv, AttemptsSound, Elsewhere, TypeOK, Row
\* Once it is clear what the callback does next, the rest follows.
<1>6. ASSUME worker' \in [Handlers -> Worker], OthersRest(h), worker'[h].pc \notin Sending,
             worker'[h].claim = worker[h].claim, WorkerSound(h)'
      PROVE  StagedInv'
  <2>0. PICK n : n = worker[h].claim
    OBVIOUS
  <2>1. /\ ClaimsRest /\ \A g \in Handlers : g # h => PostsRest(g)
        /\ \A i \in DOMAIN claims' : HistorySound(i)'
        /\ OnePublic' /\ claims' \in Seq(Claim)
    BY <1>1, <1>2, <1>6, <2>0, AnswerHistory DEF Elsewhere
  <2>2. TypeOK'
    BY <1>1, <1>6, <2>1 DEF StagedInv, TypeOK, Elsewhere, queueVars
  <2> QED
    BY <1>1, <1>5, <1>6, <2>1, <2>2, HistoryStep DEF Elsewhere
<1>7. ASSUME NEW pc \in {"confirmed", "accepted"}, Goto(h, pc) PROVE StagedInv'
  <2>1. pc \in PCs
    BY DEF PCs
  <2>2. /\ worker' \in [Handlers -> Worker] /\ OthersRest(h)
        /\ worker'[h].pc = pc /\ worker'[h].a = a
        /\ worker'[h].claim = worker[h].claim /\ worker'[h].kept = worker[h].kept
    BY <1>3, <1>7, <2>1, GotoIs DEF StagedInv
  <2>3. WorkerSound(h)'
    BY <1>1, <1>4, <2>2 DEF WorkerSound, Preparing, Early, Sending
  <2> QED
    BY <1>6, <2>2, <2>3 DEF Sending
<1>8. ASSUME NEW end \in {"failed", "final_unknown"}, Stop(h, end), end = "failed" => ~ posted
      PROVE  StagedInv'
  <2>0. end \in EndPhases
    BY DEF EndPhases
  <2>1. OthersRest(h) /\ worker'[h].pc = "stopping"
    <3>1. worker[h] \in Worker
      BY DEF StagedInv, TypeOK
    <3>2. PICK x \in Worker : worker' = [worker EXCEPT ![h] = x] /\ x.pc = "stopping"
      <4>1. [worker[h] EXCEPT !.pc = "stopping", !.end = end].pc = "stopping"
        BY <3>1 DEF Worker
      <4> QED
        BY <1>8, <2>0, <4>1, StopPuts DEF StagedInv
    <3> QED
      BY <3>2, Moves DEF StagedInv
  <2>2. PICK n : n = worker[h].claim
    OBVIOUS
  <2>3. end # "final_unknown" => \A i \in DOMAIN claims' : i = stages'[a].claim => ~ MayBePublic(i)'
    <3>1. ~ posted => ~ MayBePublic(n)'
      BY <1>1, <1>2, <2>1, <2>2, AnswerHistory DEF Elsewhere, Sending
    <3> QED
      BY <1>1, <1>4, <1>8, <2>2, <3>1
  <2>4. /\ worker' \in [Handlers -> Worker] /\ OthersRest(h)
        /\ worker'[h].claim = worker[h].claim /\ worker'[h].pc = "stopping"
        /\ WorkerSound(h)'
    BY <1>1, <1>3, <1>4, <1>8, <2>0, <2>3, StopIs
  <2> QED
    BY <1>6, <2>4 DEF Sending
<1> QED
  BY <1>2, <1>7, <1>8

\* A callback that keeps ids for its stage goes on under its claim.
LEMMA KeepsClaim ==
    ASSUME StagedInv, NEW h \in Handlers, worker[h].claim # 0,
           NEW x \in Worker, worker' = [worker EXCEPT ![h] = x],
           \/ x.pc = "retaining"
           \/ x.pc = "stopping" /\ x.end = "final_unknown",
           x.a = worker[h].a, x.claim = worker[h].claim, stages' = stages
    PROVE  /\ worker' \in [Handlers -> Worker] /\ OthersRest(h)
           /\ worker'[h].claim = worker[h].claim /\ worker'[h].pc \notin Sending
           /\ WorkerSound(h)'
<1>1. worker' \in [Handlers -> Worker] /\ worker'[h] = x /\ OthersRest(h)
  BY Moves DEF StagedInv
<1>2. PICK a \in StageNumbers : a = worker[h].a /\ worker[h].claim = stages[a].claim
  BY ClaimHeld
<1>3. WorkerSound(h)'
  BY <1>1, <1>2 DEF WorkerSound, Preparing, Early, Sending
<1> QED
  BY <1>1, <1>3 DEF Sending

LEMMA RecordPublishedSound ==
    ASSUME StagedAssumption, StagedInv, NEW h \in Handlers, RecordPublished(h) PROVE StagedInv'
<1>1. worker[h].pc = "confirmed" /\ UNCHANGED <<stages, Elsewhere>> /\ stages' = stages
  BY DEF RecordPublished
<1>2. worker[h].claim # 0
  BY <1>1 DEF StagedInv, WorkerSound
<1>3. PICK i \in DOMAIN claims : /\ i = worker[h].claim /\ claims[i].att = worker[h].a
                                 /\ claims[i] \in Claim
  BY <1>2, ClaimHeld
<1>4. PICK w \in Worker : /\ worker' = [worker EXCEPT ![h] = w] /\ w.pc = "retaining"
                          /\ w.a = worker[h].a /\ w.claim = worker[h].claim
  <2>1. worker[h] \in Worker /\ worker \in [Handlers -> Worker] /\ "retaining" \in PCs
    BY DEF StagedInv, TypeOK, PCs
  <2>2. PICK w : w = [worker[h] EXCEPT !.pc = "retaining", !.kept = TRUE]
    OBVIOUS
  <2>3. w \in Worker /\ w.pc = "retaining" /\ w.a = worker[h].a /\ w.claim = worker[h].claim
    BY <2>1, <2>2 DEF Worker
  <2>4. worker' = [worker EXCEPT ![h] = [worker[h] EXCEPT !.pc = "retaining", !.kept = TRUE]]
    BY <2>1 DEF RecordPublished
  <2> QED
    BY <2>2, <2>3, <2>4
<1>5. /\ worker' \in [Handlers -> Worker] /\ OthersRest(h)
      /\ worker'[h].claim = worker[h].claim /\ worker'[h].pc \notin Sending
      /\ WorkerSound(h)'
  BY <1>1, <1>2, <1>4, KeepsClaim
<1>6. CASE UNCHANGED <<row, claims>>
  <2>1. UNCHANGED <<dataVars, Elsewhere>>
    BY <1>1, <1>6 DEF dataVars
  <2>2. TypeOK'
    BY <1>5, <2>1, TypesElsewhere DEF StagedInv
  <2> QED
    BY <1>5, <2>1, <2>2, QueueStep DEF Elsewhere
<1>7. CASE /\ row = [st |-> "publishing", att |-> worker[h].a] /\ i \in InFlight
           /\ row' = [row EXCEPT !.st = "published"]
           /\ claims' = [claims EXCEPT ![i].st = "published"]
  <2>1. PICK x \in Claim : /\ x = [claims[i] EXCEPT !.st = "published"]
                           /\ x.st = "published" /\ x.att = claims[i].att
                           /\ x.posted = claims[i].posted
    <3>1. [claims[i] EXCEPT !.st = "published"] \in Claim
      BY <1>3 DEF Claim
    <3> QED
      BY <1>3, <3>1 DEF Claim
  <2>2. claims \in Seq(Claim) /\ row \in Row
    BY DEF StagedInv, TypeOK
  <2>3. claims' = [claims EXCEPT ![i] = x]
    BY <1>7, <2>1, <2>2
  <2>4. /\ claims' \in Seq(Claim) /\ DOMAIN claims' = DOMAIN claims
        /\ Len(claims') = Len(claims) /\ claims'[i] = x
        /\ \A j \in DOMAIN claims : j # i => claims'[j] = claims[j]
    BY <1>3, <2>2, <2>3, ClaimReplaced
  <2>5. /\ row' \in Row /\ row'.st = "published" /\ row'.att = row.att /\ row.st = "publishing"
        /\ claims[i].att = row.att
    BY <1>3, <1>7, <2>2 DEF Row
  <2>6. TypeOK'
    BY <1>1, <1>5, <2>4, <2>5 DEF StagedInv, TypeOK, Elsewhere, queueVars
  <2>7. KeepsSending
    BY <1>5, SendingKept
  <2>8. \A j \in DOMAIN claims : claims'[j].posted = claims[j].posted /\ claims'[j].att = claims[j].att
    BY <2>1, <2>4
  <2>9. \A j \in DOMAIN claims : MayBePublic(j)' => MayBePublic(j)
    BY <2>7, <2>8, PublicKept DEF MayBePublic
  <2>10. ClaimsRest /\ \A g \in Handlers : PostsRest(g)
    BY <2>1, <2>4, <2>8, <2>9 DEF ClaimsRest, PostsRest
  <2>11. ASSUME NEW j \in DOMAIN claims' PROVE HistorySound(j)'
    <3>1. HistorySound(j) /\ HistorySound(i) /\ claims[i].st = "in_flight"
      BY <1>7, <2>4, <2>11 DEF StagedInv, InFlight
    <3>2. j # i => claims[j].st \notin {"in_flight", "published"}
      BY <2>5, <3>1 DEF HistorySound
    <3> QED
      BY <2>1, <2>4, <2>5, <2>11, <3>2 DEF HistorySound
  <2>12. OnePublic'
    BY <1>1, <2>4, <2>9 DEF StagedInv, OnePublic, Elsewhere
  <2>13. AttemptsSound' /\ row'.att >= row.att
    BY <1>1, <2>5, <2>2 DEF StagedInv, AttemptsSound, Elsewhere, TypeOK, Row
  <2> QED
    BY <1>1, <1>5, <2>6, <2>10, <2>11, <2>12, <2>13, HistoryStep DEF Elsewhere
<1> QED
  BY <1>3, <1>6, <1>7 DEF RecordPublished

LEMMA RecordAcceptedSound ==
    ASSUME StagedAssumption, StagedInv, NEW h \in Handlers, RecordAccepted(h) PROVE StagedInv'
<1>1. worker[h].pc = "accepted" /\ UNCHANGED <<stages, Elsewhere>> /\ stages' = stages
  BY DEF RecordAccepted
<1>2. worker[h].claim # 0
  BY <1>1 DEF StagedInv, WorkerSound
<1>3. PICK i \in DOMAIN claims : /\ i = worker[h].claim /\ claims[i].att = worker[h].a
                                 /\ claims[i] \in Claim
  BY <1>2, ClaimHeld
<1>4. PICK w \in Worker : /\ worker' = [worker EXCEPT ![h] = w]
                          /\ w.pc = "stopping" /\ w.end = "final_unknown"
                          /\ w.a = worker[h].a /\ w.claim = worker[h].claim
  <2>1. worker[h] \in Worker /\ worker \in [Handlers -> Worker]
        /\ "stopping" \in PCs /\ "final_unknown" \in EndPhases
    BY DEF StagedInv, TypeOK, PCs, EndPhases
  <2>2. PICK w : w = [worker[h] EXCEPT !.pc = "stopping", !.end = "final_unknown", !.kept = TRUE]
    OBVIOUS
  <2>3. /\ w \in Worker /\ w.pc = "stopping" /\ w.end = "final_unknown"
        /\ w.a = worker[h].a /\ w.claim = worker[h].claim
    BY <2>1, <2>2 DEF Worker
  <2>4. worker' = [worker EXCEPT ![h] =
           [worker[h] EXCEPT !.pc = "stopping", !.end = "final_unknown", !.kept = TRUE]]
    BY <2>1 DEF RecordAccepted
  <2> QED
    BY <2>2, <2>3, <2>4
<1>5. /\ worker' \in [Handlers -> Worker] /\ OthersRest(h)
      /\ worker'[h].claim = worker[h].claim /\ worker'[h].pc \notin Sending
      /\ WorkerSound(h)'
  BY <1>1, <1>2, <1>4, KeepsClaim
<1>6. claims \in Seq(Claim) /\ row \in Row
  BY DEF StagedInv, TypeOK
<1>7. CASE UNCHANGED <<row, claims>>
  <2>1. UNCHANGED <<dataVars, Elsewhere>>
    BY <1>1, <1>7 DEF dataVars
  <2>2. TypeOK'
    BY <1>5, <2>1, TypesElsewhere DEF StagedInv
  <2> QED
    BY <1>5, <2>1, <2>2, QueueStep DEF Elsewhere
\* The receipt in flight reads as unknown: the delivery fails with it.
<1>8. CASE /\ claims[i].st = "in_flight" /\ claims' = [claims EXCEPT ![i].st = "unknown"]
           /\ row' = IF row = [st |-> "publishing", att |-> worker[h].a]
                     THEN [row EXCEPT !.st = "failed"] ELSE row
  <2>1. /\ i = Len(claims) /\ row.st = "publishing" /\ row.att \in StageNumbers
        /\ stages[row.att].claim = i /\ i # 0
    BY <1>2, <1>3, <1>8 DEF StagedInv, HistorySound
  <2>2. row.att = worker[h].a
    BY <1>3, <2>1 DEF StagedInv, StageSound
  <2>3. row = [st |-> "publishing", att |-> worker[h].a]
    BY <1>6, <2>1, <2>2 DEF Row
  <2>4. row' \in Row /\ row'.st = "failed" /\ row'.att = row.att
    BY <1>6, <1>8, <2>3 DEF Row
  <2>5. claims' = [claims EXCEPT ![i] = [claims[i] EXCEPT !.st = "unknown"]]
    BY <1>6, <1>8
  <2>6. Fails("unknown")
    BY <1>3, <1>8, <2>1, <2>4, <2>5 DEF Fails
  <2>7. TypeOK'
    BY <1>1, <1>5, <2>6, FailsType DEF StagedInv, TypeOK, Elsewhere, queueVars
  <2> QED
    BY <1>1, <1>5, <2>6, <2>7, FailsStep DEF Elsewhere
\* It already does, and the delivery, which still shows this attempt, fails.
<1>9. CASE /\ claims[i].st = "unknown" /\ claims' = claims
           /\ row = [st |-> "publishing", att |-> worker[h].a]
           /\ row' = [row EXCEPT !.st = "failed"]
  <2>1. row.st = "publishing" /\ row.att = worker[h].a
        /\ row' \in Row /\ row'.st = "failed" /\ row'.att = row.att
    BY <1>6, <1>9 DEF Row
  <2>2. stages[worker[h].a].claim = i
    BY <1>2, <1>3, ClaimHeld
  <2>3. \A j \in DOMAIN claims :
           /\ claims[j].st \notin {"in_flight", "published"}
           /\ j > cleared => ~ MayBePublic(j)
    BY <1>9, <2>1, <2>2 DEF StagedInv, HistorySound
  <2>4. KeepsSending
    BY <1>5, SendingKept
  <2>5. /\ ClaimsRest /\ \A g \in Handlers : PostsRest(g)
        /\ \A j \in DOMAIN claims' : HistorySound(j)'
        /\ OnePublic'
    BY <1>1, <1>9, <2>3, <2>4, QuietHistory DEF Elsewhere
  <2>6. TypeOK'
    BY <1>1, <1>5, <1>9, <2>1 DEF StagedInv, TypeOK, Elsewhere, queueVars
  <2>7. AttemptsSound' /\ row'.att >= row.att
    BY <1>1, <1>6, <2>1 DEF StagedInv, AttemptsSound, Elsewhere, Row
  <2> QED
    BY <1>1, <1>5, <2>5, <2>6, <2>7, HistoryStep DEF Elsewhere
<1>10. ASSUME claims[i].st = "unknown", claims' = [claims EXCEPT ![i].st = "unknown"]
       PROVE  claims' = claims
  <2>1. [claims[i] EXCEPT !.st = "unknown"] = claims[i]
    BY <1>3, <1>10 DEF Claim
  <2>2. claims' = [claims EXCEPT ![i] = claims[i]]
    BY <1>6, <1>10, <2>1
  <2>3. DOMAIN claims = 1..Len(claims)
    BY <1>6, LenProperties
  <2> QED
    BY <1>6, <2>2, <2>3
<1>11. \/ UNCHANGED <<row, claims>>
       \/ /\ claims[i].st \in {"in_flight", "unknown"}
          /\ claims' = [claims EXCEPT ![i].st = "unknown"]
          /\ row' = IF row = [st |-> "publishing", att |-> worker[h].a]
                    THEN [row EXCEPT !.st = "failed"] ELSE row
  BY <1>3 DEF RecordAccepted
<1> QED
  BY <1>7, <1>8, <1>9, <1>10, <1>11

(***************************************************************************)
(* The two transactions that write a stage and something else               *)
(***************************************************************************)
\* What becomes of the recovery's memory when a stage that had not ended changes.
LEMMA RecoveredKept ==
    ASSUME StagedInv, recovered' = recovered, NEW a \in StageNumbers, ~ Final(stages[a].phase),
           \A b \in StageNumbers : b # a => stages'[b] = stages[b]
    PROVE  RecoveredSound'
<1> SUFFICES ASSUME recovered # None PROVE RecoveredSound'
  BY DEF RecoveredSound
<1>1. PICK b \in StageNumbers : b = recovered.a
  BY DEF StagedInv, TypeOK
<1>2. /\ Final(stages[b].phase) /\ recovered.claim = stages[b].claim
      /\ recovered.end # "final_unknown" => recovered.claim = 0
  BY <1>1 DEF StagedInv, RecoveredSound
<1>3. stages'[b] = stages[b]
  BY <1>2
<1> QED
  BY <1>1, <1>2, <1>3 DEF RecoveredSound

LEMMA BeginSound ==
    ASSUME StagedAssumption, StagedInv, NEW h \in Handlers, Begin(h) PROVE StagedInv'
<1>1. worker[h].pc = "loaded" /\ UNCHANGED <<claims, Elsewhere>>
  BY DEF Begin
<1>2. CASE ~ Preflight(h)
  <2>1. Leave(h) /\ UNCHANGED <<row, stages>>
    BY <1>2 DEF Begin
  <2>2. /\ worker' \in [Handlers -> Worker] /\ OthersRest(h)
        /\ worker'[h].claim = 0 /\ worker'[h].pc \notin Sending
        /\ WorkerSound(h)'
    BY <2>1, LeaveIs DEF StagedInv
  <2>3. UNCHANGED <<dataVars, Elsewhere>>
    BY <1>1, <2>1 DEF dataVars
  <2>4. TypeOK'
    BY <2>2, <2>3, TypesElsewhere DEF StagedInv
  <2> QED
    BY <2>2, <2>3, <2>4, QueueStep DEF Elsewhere
<1>3. CASE Preflight(h)
  <2>1. row.st = "queued" /\ ~ ClaimsBlock /\ \A b \in StageNumbers : ~ StageBlocks(b)
    <3>1. row.st = "queued" /\ ~ Blocked(0)
      BY <1>1, <1>3 DEF Preflight, StagedInv, WorkerSound
    <3>2. 0 \notin StageNumbers
      BY DEF StageNumbers
    <3> QED
      BY <3>1, <3>2 DEF Blocked
  <2>2. PICK a \in StageNumbers : a = row.att + 1
    <3>1. row \in Row /\ decisions \in 0..MaxDecisions /\ row.att + 1 <= decisions
      BY <2>1 DEF StagedInv, TypeOK, AttemptsSound
    <3>2. row.att + 1 \in StageNumbers
      BY <3>1 DEF Row, StageNumbers, StagedAssumption
    <3> QED
      BY <3>2
  <2>3. /\ row' = [st |-> "publishing", att |-> a]
        /\ stages' = [stages EXCEPT ![a] = [NoStage EXCEPT
              !.phase = "preparation_intent", !.lease = h, !.input = input]]
    BY <1>3, <2>2 DEF Begin
  <2>4. row \in Row /\ row' \in Row /\ row'.st = "publishing" /\ row'.att = a
        /\ a = row.att + 1 /\ a \in Nat /\ row.att \in Nat
    BY <2>2, <2>3 DEF Row, StagedInv, TypeOK, StageNumbers
  <2>5. PICK st \in Stage : /\ stages' = [stages EXCEPT ![a] = st]
                            /\ st.phase = "preparation_intent" /\ st.lease = h /\ st.claim = 0
    <3> DEFINE x == [NoStage EXCEPT !.phase = "preparation_intent", !.lease = h, !.input = input]
    <3>1. input \in 0..MaxChanges /\ 0 \in 0..MaxPolls /\ 0 \in 0..MaxChanges
      BY DEF StagedInv, TypeOK, StagedAssumption
    <3>2. "preparation_intent" \in Phases /\ "none" \in Phases
      BY DEF Phases, LivePhases
    <3>3. x \in Stage /\ x.phase = "preparation_intent" /\ x.lease = h /\ x.claim = 0
      BY <3>1, <3>2 DEF NoStage, Stage
    <3> QED
      BY <2>3, <3>3
  <2>6. stages \in [StageNumbers -> Stage] /\ StageSound(a)
    BY StageOf
  <2>7. /\ stages' \in [StageNumbers -> Stage] /\ stages'[a] = st
        /\ \A b \in StageNumbers : b # a => stages'[b] = stages[b]
    BY <2>5, <2>6, StagePuts
  <2>8. stages[a].phase = "none" /\ stages[a].claim = 0 /\ ~ Final(stages[a].phase)
    BY <2>4, <2>6 DEF StageSound, Final, EndPhases
\* The callback goes on with its stage, or never learns of it.
  <2>9. /\ worker' \in [Handlers -> Worker] /\ OthersRest(h)
        /\ worker'[h].claim = 0 /\ worker'[h].pc \notin Sending
        /\ WorkerSound(h)'
    <3>1. CASE Leave(h)
      BY <3>1, LeaveIs DEF StagedInv
    <3>2. CASE worker' = [worker EXCEPT ![h] = [Idle EXCEPT !.pc = "begun", !.a = a,
                             !.job = worker[h].job, !.live = TRUE]]
      <4> DEFINE x == [Idle EXCEPT !.pc = "begun", !.a = a, !.job = worker[h].job, !.live = TRUE]
      <4>1. worker[h].job \in Job /\ "begun" \in PCs /\ a \in 0..MaxDecisions
        BY DEF StagedInv, TypeOK, Worker, PCs, StageNumbers
      <4>2. x \in Worker /\ x.pc = "begun" /\ x.a = a /\ x.claim = 0 /\ ~ x.kept
        BY <4>1, IdleIs DEF Worker
      <4>3. worker' = [worker EXCEPT ![h] = x]
        BY <3>2
      <4> HIDE DEF x
      <4>4. worker' \in [Handlers -> Worker] /\ worker'[h] = x /\ OthersRest(h)
        BY <4>2, <4>3, Moves DEF StagedInv
      <4>5. WorkerSound(h)'
        BY <2>5, <2>7, <4>2, <4>4 DEF WorkerSound, Preparing, Early, Sending
      <4> QED
        BY <4>2, <4>4, <4>5 DEF Sending
    <3> QED
      BY <1>3, <2>2, <3>1, <3>2 DEF Begin
  <2>10. TypeOK'
    BY <1>1, <2>4, <2>7, <2>9 DEF StagedInv, TypeOK, Elsewhere, queueVars
  <2>11. KeepsSending
    BY <2>9, SendingKept
  <2>12. \A i \in DOMAIN claims :
            /\ claims[i].st \notin {"in_flight", "published"}
            /\ i > cleared => ~ MayBePublic(i)
    BY <2>1 DEF StagedInv, HistorySound, ClaimsBlock
  <2>13. /\ ClaimsRest /\ \A g \in Handlers : PostsRest(g)
         /\ \A i \in DOMAIN claims' : HistorySound(i)'
         /\ OnePublic'
    BY <1>1, <2>11, <2>12, QuietHistory DEF Elsewhere
  <2>14. AttemptsSound'
    BY <1>1, <2>1, <2>4 DEF StagedInv, AttemptsSound, Elsewhere
  <2>15. ASSUME NEW b \in StageNumbers PROVE StageSound(b)'
    <3>1. CASE b = a
      BY <2>4, <2>5, <2>7, <3>1 DEF StageSound, Final, EndPhases
    <3>2. CASE b # a
      <4>1. StageSound(b) /\ stages'[b] = stages[b] /\ b \in Int
        BY <2>7, <3>2 DEF StagedInv, StageNumbers
      <4>2. b > row'.att => b > row.att
        BY <2>4, <4>1
      <4> QED
        BY <1>1, <4>1, <4>2 DEF StageSound
    <3> QED
      BY <3>1, <3>2
  <2>16. OneContainer'
    <3> SUFFICES ASSUME NEW c \in StageNumbers, NEW b \in StageNumbers, c < b,
                        stages'[b].phase \in LivePhases
                 PROVE  stages'[c].phase \notin Unmade
      BY DEF OneContainer, Unmade
    <3>1. CASE b = a
      <4>1. stages'[c] = stages[c] /\ ~ StageBlocks(c)
        BY <2>1, <2>7, <3>1 DEF StageNumbers
      <4> QED
        BY <4>1 DEF StageBlocks, Unmade
    <3>2. CASE b # a /\ c # a
      BY <2>7, <3>2 DEF StagedInv, OneContainer, Unmade
    <3>3. CASE c = a
      <4>1. b > row.att /\ b # a
        BY <2>4, <3>3 DEF StageNumbers
      <4>2. stages[b].phase = "none" /\ stages'[b] = stages[b]
        BY <2>7, <4>1 DEF StagedInv, StageSound
      <4> QED
        BY <4>2 DEF LivePhases
    <3> QED
      BY <3>1, <3>2, <3>3
  <2>17. OneSender'
    BY <2>9, OneSenderKept DEF StagedInv
  <2>18. RecoveredSound'
    BY <1>1, <2>7, <2>8, RecoveredKept DEF Elsewhere
  <2>19. ASSUME NEW g \in Handlers, g # h, NEW b \in StageNumbers PROVE StageRests(b, g)
    <3>1. CASE b = a
      <4>1. worker[g].pc \in Sending => worker[g].claim # 0
        BY SenderQuiet
      <4> QED
        BY <2>5, <2>7, <2>8, <2>19, <3>1, <4>1 DEF StageRests
    <3>2. CASE b # a
      BY <2>7, <3>2 DEF StageRests
    <3> QED
      BY <3>1, <3>2
  <2>20. \A g \in Handlers : WorkerSound(g)'
    BY <2>9, <2>10, <2>13, <2>19, OthersSound DEF TypeOK
  <2> QED
    BY <2>10, <2>13, <2>14, <2>15, <2>16, <2>17, <2>18, <2>20 DEF StagedInv
<1> QED
  BY <1>2, <1>3

LEMMA FinalIntentSound ==
    ASSUME StagedAssumption, StagedInv, NEW h \in Handlers, FinalIntent(h) PROVE StagedInv'
<1>1. worker[h].pc = "ready" /\ worker[h].pc \in Early /\ UNCHANGED <<row, Elsewhere>>
  BY DEF FinalIntent, Early
<1>2. PICK a \in StageNumbers : a = worker[h].a
  BY <1>1, EarlyIs
<1>3. CASE Stop(h, "cancelled") /\ UNCHANGED <<claims, stages>>
  <2>1. UNCHANGED <<dataVars, Elsewhere>>
    BY <1>1, <1>3 DEF dataVars
  <2> QED
    BY <1>1, <1>3, <2>1, EarlyStops DEF EndPhases
<1>4. CASE Fence(h, "waiting") /\ Matches(a) /\ worker[h].live /\ ~ Blocked(a)
  <2>1. /\ stages[a].phase = "waiting" /\ stages[a].lease = h
        /\ row.st = "publishing" /\ row.att = a /\ ~ ClaimsBlock
    BY <1>2, <1>4 DEF Fence, Matches, Blocked
  <2>2. PICK n : n = Len(claims) + 1
    OBVIOUS
  <2>3. PICK x \in Claim : /\ x = NewClaim("in_flight", a, FALSE) /\ x.st = "in_flight"
                           /\ x.att = a /\ ~ x.posted
    <3>1. /\ NewClaim("in_flight", a, FALSE) \in Claim
          /\ NewClaim("in_flight", a, FALSE).st = "in_flight"
          /\ NewClaim("in_flight", a, FALSE).att = a
          /\ NewClaim("in_flight", a, FALSE).posted = FALSE
      BY DEF NewClaim, Claim, StageNumbers
    <3> QED
      BY <3>1
  <2>4. /\ claims' = Append(claims, x)
        /\ stages' = [stages EXCEPT ![a].phase = "final_intent", ![a].claim = n]
        /\ \/ worker' = [worker EXCEPT ![h].pc = "claimed", ![h].claim = n]
           \/ Stop(h, "failed")
    BY <1>2, <1>4, <2>2, <2>3 DEF FinalIntent
  <2>5. claims \in Seq(Claim) /\ stages \in [StageNumbers -> Stage]
        /\ worker[h] \in Worker /\ worker \in [Handlers -> Worker] /\ row \in Row
    BY DEF StagedInv, TypeOK
  <2>6. /\ claims' \in Seq(Claim) /\ n \in Nat /\ n # 0 /\ n \notin DOMAIN claims
        /\ \A j \in DOMAIN claims' : j = n \/ j \in DOMAIN claims
        /\ n \in DOMAIN claims' /\ Len(claims') = n /\ claims'[n] = x
        /\ \A j \in DOMAIN claims : j \in DOMAIN claims' /\ claims'[j] = claims[j] /\ j # n
    <3>1. /\ claims' \in Seq(Claim) /\ Len(claims) \in Nat
          /\ DOMAIN claims = 1..Len(claims) /\ DOMAIN claims' = 1..(Len(claims) + 1)
          /\ Len(claims') = Len(claims) + 1 /\ claims'[Len(claims) + 1] = x
          /\ \A j \in DOMAIN claims : claims'[j] = claims[j]
      BY <2>4, <2>5, ClaimAppended
    <3> QED
      BY <2>2, <3>1
  <2>7. StageSound(a) /\ stages[a].claim = 0
    BY <2>1 DEF StagedInv, StageSound
  <2>8. PICK st \in Stage : /\ stages' = [stages EXCEPT ![a] = st]
                            /\ st.phase = "final_intent" /\ st.claim = n /\ st.lease = h
    <3> DEFINE s == [stages[a] EXCEPT !.phase = "final_intent", !.claim = n]
    <3>1. stages[a] \in Stage /\ "final_intent" \in Phases
      BY <2>5 DEF Phases, LivePhases
    <3>2. s \in Stage /\ s.phase = "final_intent" /\ s.claim = n /\ s.lease = h
      BY <2>1, <2>6, <3>1 DEF Stage
    <3>3. stages' = [stages EXCEPT ![a] = s]
      BY <2>4, <2>5
    <3> QED
      BY <3>2, <3>3
  <2>9. /\ stages' \in [StageNumbers -> Stage] /\ stages'[a] = st
        /\ \A b \in StageNumbers : b # a => stages'[b] = stages[b]
    BY <2>5, <2>8, StagePuts
\* The callback holds its claim, or believes that it has none.
  <2>10. worker[h].claim = 0 /\ ~ worker[h].kept
    BY <1>1, <1>2, <2>1, <2>7, EarlyIs DEF StagedInv, WorkerSound
  <2>11. PICK v \in Worker : /\ worker' = [worker EXCEPT ![h] = v] /\ v.a = a /\ ~ v.kept
                             /\ \/ v.pc = "claimed" /\ v.claim = n
                                \/ v.pc = "stopping" /\ v.end = "failed" /\ v.claim = 0
    <3>1. CASE worker' = [worker EXCEPT ![h].pc = "claimed", ![h].claim = n]
      <4> DEFINE w == [worker[h] EXCEPT !.pc = "claimed", !.claim = n]
      <4>1. "claimed" \in PCs
        BY DEF PCs
      <4>2. w \in Worker /\ w.a = a /\ ~ w.kept /\ w.pc = "claimed" /\ w.claim = n
        BY <1>2, <2>5, <2>6, <2>10, <4>1 DEF Worker
      <4>3. worker' = [worker EXCEPT ![h] = w]
        BY <2>5, <3>1
      <4> QED
        BY <4>2, <4>3
    <3>2. CASE Stop(h, "failed")
      <4> DEFINE w == [worker[h] EXCEPT !.pc = "stopping", !.end = "failed"]
      <4>1. "failed" \in EndPhases
        BY DEF EndPhases
      <4>2. w \in Worker /\ worker' = [worker EXCEPT ![h] = w]
        BY <3>2, <4>1, StopPuts DEF StagedInv
      <4>3. w.a = a /\ ~ w.kept /\ w.pc = "stopping" /\ w.end = "failed" /\ w.claim = 0
        BY <1>2, <2>5, <2>10 DEF Worker
      <4> QED
        BY <4>2, <4>3
    <3> QED
      BY <2>4, <3>1, <3>2
  <2>12. worker' \in [Handlers -> Worker] /\ worker'[h] = v /\ OthersRest(h)
    BY <2>11, Moves DEF StagedInv
  <2>13. TypeOK'
    BY <1>1, <2>6, <2>9, <2>12 DEF StagedInv, TypeOK, Elsewhere, queueVars
\* Nothing of the history is in flight, published or public.
  <2>14. \A i \in DOMAIN claims :
            /\ claims[i].st \notin {"in_flight", "published"}
            /\ i > cleared => ~ MayBePublic(i)
    BY <2>1 DEF StagedInv, HistorySound, ClaimsBlock
  <2>15. \A g \in Handlers : g # h => ~ Sends(g, n) /\ ~ Sends(g, n)'
    <3>1. \A g \in Handlers : ~ Sends(g, n)
      BY <2>6, SenderClaimed
    <3> QED
      BY <2>12, <3>1 DEF OthersRest, SameWork, Sends
  <2>16. ASSUME NEW j \in DOMAIN claims PROVE MayBePublic(j)' => MayBePublic(j)
    <3>1. claims'[j].posted => claims[j].posted
      BY <2>6
    <3>2. \A g \in Handlers : Sends(g, j)' => Sends(g, j)
      BY <2>6, <2>11, <2>12 DEF OthersRest, SameWork, Sends, Sending
    <3> QED
      BY <3>1, <3>2 DEF MayBePublic
  <2>17. ClaimsRest /\ \A g \in Handlers : PostsRest(g)
    BY <2>6, <2>16 DEF ClaimsRest, PostsRest
  <2>18. \A i \in DOMAIN claims' : i > cleared' /\ MayBePublic(i)' => i = n
    BY <1>1, <2>6, <2>14, <2>16 DEF Elsewhere
  <2>19. OnePublic'
    BY <2>18 DEF OnePublic
  <2>20. ASSUME NEW i \in DOMAIN claims' PROVE HistorySound(i)'
    <3>1. CASE i = n
      BY <1>1, <2>1, <2>3, <2>6, <2>8, <2>9, <3>1 DEF HistorySound
    <3>2. CASE i # n
      BY <2>6, <2>14, <2>18, <2>20, <3>2 DEF HistorySound
    <3> QED
      BY <3>1, <3>2
  <2>21. AttemptsSound'
    BY <1>1 DEF StagedInv, AttemptsSound, Elsewhere
  <2>22. ASSUME NEW b \in StageNumbers PROVE StageSound(b)'
    <3>1. CASE b = a
      <4>1. row'.att = a /\ a \in Nat /\ ~ (a > row'.att)
        BY <1>1, <2>1 DEF StageNumbers
      <4>2. stages'[a].phase = "final_intent" /\ stages'[a].claim = n
        BY <2>8, <2>9
      <4>3. n \in DOMAIN claims' /\ claims'[n].att = a
        BY <2>3, <2>6
      <4> QED
        BY <3>1, <4>1, <4>2, <4>3 DEF StageSound, Final, EndPhases
    <3>2. CASE b # a
      <4>1. StageSound(b) /\ stages'[b] = stages[b]
        BY <2>9, <3>2 DEF StagedInv
      <4> QED
        BY <1>1, <2>6, <4>1 DEF StageSound
    <3> QED
      BY <3>1, <3>2
  <2>23. OneContainer'
    BY <2>1, <2>8, <2>9 DEF StagedInv, OneContainer, LivePhases
  <2>24. OneSender'
    <3> SUFFICES ASSUME NEW f \in Handlers, NEW g \in Handlers,
                        worker'[f].claim = worker'[g].claim, worker'[f].claim # 0
                 PROVE  f = g
      BY DEF OneSender
    <3>1. \A k \in Handlers : k # h => worker'[k].claim = worker[k].claim /\ worker[k].claim # n
      BY <2>6, <2>12, ClaimHeld DEF OthersRest, SameWork
    <3>2. worker'[h].claim \in {0, n}
      BY <2>11, <2>12
    <3> QED
      BY <3>1, <3>2 DEF StagedInv, OneSender
  <2>25. RecoveredSound'
    BY <1>1, <2>1, <2>9, RecoveredKept DEF Elsewhere, Final, EndPhases
  <2>26. ASSUME NEW g \in Handlers, g # h, NEW b \in StageNumbers PROVE StageRests(b, g)
    <3>1. CASE b = a
      <4>1. worker[g].pc \in Sending => worker[g].claim # 0
        BY SenderQuiet
      <4> QED
        BY <2>1, <2>7, <2>8, <2>9, <2>26, <3>1, <4>1 DEF StageRests, Final, EndPhases
    <3>2. CASE b # a
      BY <2>9, <3>2 DEF StageRests
    <3> QED
      BY <3>1, <3>2
  <2>27. WorkerSound(h)'
    <3>1. CASE v.pc = "claimed" /\ v.claim = n
      BY <2>3, <2>6, <2>8, <2>9, <2>11, <2>12, <3>1 DEF WorkerSound, Preparing, Early, Sending
    <3>2. CASE v.pc = "stopping" /\ v.end = "failed" /\ v.claim = 0
      <4>1. ~ Sends(h, n)'
        BY <2>12, <3>2 DEF Sends, Sending
      <4>2. ~ MayBePublic(n)'
        BY <2>3, <2>6, <2>15, <4>1 DEF MayBePublic
      <4> QED
        BY <2>6, <2>8, <2>9, <2>11, <2>12, <3>2, <4>2 DEF WorkerSound, Preparing, Early, Sending
    <3> QED
      BY <2>11, <3>1, <3>2
  <2>28. \A g \in Handlers : WorkerSound(g)'
    BY <2>6, <2>12, <2>17, <2>26, <2>27, OthersSound
  <2> QED
    BY <2>13, <2>19, <2>20, <2>21, <2>22, <2>23, <2>24, <2>25, <2>28 DEF StagedInv
<1> QED
  BY <1>2, <1>3, <1>4 DEF FinalIntent

(***************************************************************************)
(* The invariant                                                            *)
(***************************************************************************)
LEMMA StagedInvInit == StagedAssumption /\ Init => StagedInv
<1> SUFFICES ASSUME StagedAssumption, Init PROVE StagedInv
  OBVIOUS
<1>1. /\ row = [st |-> "pending", att |-> 0] /\ row \in Row
      /\ row.st = "pending" /\ row.att = 0 /\ decisions = 0
      /\ claims = <<>> /\ claims \in Seq(Claim) /\ DOMAIN claims = {}
      /\ recovered = None
  BY EmptySeq DEF Init, Row
<1>2. NoStage \in Stage /\ NoStage.phase = "none" /\ NoStage.claim = 0
  BY DEF NoStage, Stage, Phases, StagedAssumption
<1>3. \A a \in StageNumbers : stages[a] = NoStage
  BY DEF Init
<1>4. \A g \in Handlers : worker[g] = Idle
  BY DEF Init
<1>5. TypeOK
  <2>1. stages \in [StageNumbers -> Stage] /\ worker \in [Handlers -> Worker]
    BY <1>2, IdleIs DEF Init
  <2> QED
    BY <1>1, <2>1 DEF Init, TypeOK, StagedAssumption
<1>6. \A a \in StageNumbers : StageSound(a)
  BY <1>2, <1>3 DEF StageSound, Final, EndPhases
<1>7. OneContainer
  BY <1>2, <1>3 DEF OneContainer, LivePhases
<1>8. \A g \in Handlers : WorkerSound(g)
  BY <1>4, IdleIs DEF WorkerSound, Preparing, Early, Sending
<1>9. OneSender
  BY <1>4, IdleIs DEF OneSender
<1> QED
  BY <1>1, <1>5, <1>6, <1>7, <1>8, <1>9
     DEF StagedInv, AttemptsSound, HistorySound, OnePublic, RecoveredSound

LEMMA StutterSound == StagedAssumption /\ StagedInv /\ UNCHANGED vars => StagedInv'
<1> SUFFICES ASSUME StagedAssumption, StagedInv, UNCHANGED vars PROVE StagedInv'
  OBVIOUS
<1>1. TypeOK' /\ OthersRest(None) /\ UNCHANGED <<dataVars, cleared, recovered, decisions>>
  BY DEF StagedInv, TypeOK, vars, dataVars, queueVars, OthersRest, SameWork
<1> QED
  BY <1>1, LiveOnly

LEMMA PersonStepSound == StagedAssumption /\ StagedInv /\ PersonStep => StagedInv'
  BY ApproveSound, RejectSound, ChangeInputSound, AssertDeliverySound, DiscardSound DEF PersonStep

LEMMA HandlerStepSound ==
    ASSUME StagedAssumption, StagedInv, NEW h \in Handlers, HandlerStep(h) PROVE StagedInv'
  BY BeginSound, RefuseStartSound, PrepareSound, SavePreparedSound, AcquireSound, InspectSound,
     DeferSound, FinalIntentSound, AuthorizeFinalSound, FinalizeSound, RecordPublishedSound,
     RecordAcceptedSound, EndStageSound, RecordEndSound, RetainReceiptSound, ReturnSound
     DEF HandlerStep

LEMMA FetchAnySound == StagedAssumption /\ StagedInv /\ FetchAny => StagedInv'
  BY FetchPublishSound, FetchPollSound DEF FetchAny

LEMMA StagedInvStep == StagedAssumption /\ StagedInv /\ [Next]_vars => StagedInv'
<1> SUFFICES ASSUME StagedAssumption, StagedInv, [Next]_vars PROVE StagedInv'
  OBVIOUS
<1>1. CASE PersonStep \/ FetchAny \/ RecordRecovered \/ SweepPublish
  BY <1>1, PersonStepSound, FetchAnySound, RecordRecoveredSound, SweepPublishSound
<1>2. ASSUME NEW h \in Handlers, HandlerStep(h) \/ DatabaseError(h) \/ Timeout(h) \/ Crash(h)
      PROVE  StagedInv'
  BY <1>2, HandlerStepSound, DatabaseErrorSound, TimeoutSound, CrashSound
<1>3. ASSUME NEW j \in orphans, TimeoutOrphan(j) PROVE StagedInv'
  BY <1>3, TimeoutOrphanSound
<1>4. ASSUME NEW a \in StageNumbers, LeaseRunsOut(a) \/ DeadlinePasses(a) \/ Recover(a)
      PROVE  StagedInv'
  BY <1>4, LeaseRunsOutSound, DeadlinePassesSound, RecoverSound
<1>5. CASE UNCHANGED vars
  BY <1>5, StutterSound
<1> QED
  BY <1>1, <1>2, <1>3, <1>4, <1>5 DEF Next

\* What the stage and its lease promise, what the receipts say and what happened in public
\* belong together in every reachable state.
THEOREM StagedSafe == StagedAssumption => (Spec => []StagedInv)
<1> SUFFICES ASSUME StagedAssumption PROVE Spec => []StagedInv
  OBVIOUS
<1>1. Init => StagedInv
  BY StagedInvInit
<1>2. StagedInv /\ [Next]_vars => StagedInv'
  BY StagedInvStep
<1> QED
  BY <1>1, <1>2, PTL DEF Spec

(***************************************************************************)
(* What it says of the delivery                                             *)
(***************************************************************************)
LEMMA OnePostNow == StagedInv => OneFinalPost
<1> SUFFICES ASSUME StagedInv PROVE Cardinality(Live) <= 1
  BY DEF OneFinalPost
<1>1. CASE Live = {}
  BY <1>1, FS_EmptySet
<1>2. CASE Live # {}
  <2>1. PICK i \in Live : TRUE
    BY <1>2
  <2>2. \A j \in Live : j = i
    BY <2>1 DEF Live, StagedInv, OnePublic, MayBePublic
  <2>3. Live = {i}
    BY <2>1, <2>2
  <2>4. Cardinality(Live) = 1
    BY <2>3, FS_Singleton
  <2> QED
    BY <2>4
<1> QED
  BY <1>1, <1>2

LEMMA NonpublicNow == StagedInv => FailedIsNonpublic
  BY Settled DEF FailedIsNonpublic, Live, MayBePublic

LEMMA ReceiptNow == StagedInv => PublishedStageHasReceipt
<1> SUFFICES ASSUME StagedInv, NEW a \in StageNumbers, stages[a].phase = "published"
             PROVE  row = [st |-> "published", att |-> a] /\ claims[stages[a].claim].st = "published"
  BY DEF PublishedStageHasReceipt
<1>1. PICK i \in DOMAIN claims : /\ i = stages[a].claim /\ claims[i].att = a
                                 /\ claims[i].st = "published"
  BY DEF StagedInv, StageSound
<1>2. row.st = "published" /\ row.att = a
  BY <1>1 DEF StagedInv, HistorySound
<1>3. row \in Row
  BY DEF StagedInv, TypeOK
<1> QED
  BY <1>1, <1>2, <1>3 DEF Row

\* Stages, receipts and the delivery keep the types and the checks of their tables.
THEOREM StagedTypes == StagedAssumption => (Spec => []TypeOK)
<1>1. StagedInv => TypeOK
  BY DEF StagedInv
<1> QED
  BY <1>1, StagedSafe, PTL

\* However often the delivery is decided, prepared and recovered, one post at most.
THEOREM OneFinalRequest == StagedAssumption => (Spec => []OneFinalPost)
  BY OnePostNow, StagedSafe, PTL

\* A delivery that reads as plainly failed left nothing public.
THEOREM FailedMeansNothingPublic == StagedAssumption => (Spec => []FailedIsNonpublic)
  BY NonpublicNow, StagedSafe, PTL

\* A published stage has its own published receipt, and the delivery says the same.
THEOREM PublishedMeansReceipt == StagedAssumption => (Spec => []PublishedStageHasReceipt)
  BY ReceiptNow, StagedSafe, PTL

\* No second container is prepared while an earlier one may be the delivery's.
THEOREM NoSecondContainer == StagedAssumption => (Spec => []OneContainer)
<1>1. StagedInv => OneContainer
  BY DEF StagedInv
<1> QED
  BY <1>1, StagedSafe, PTL

(***************************************************************************)
(* A stage ends once                                                        *)
(***************************************************************************)
EndKept(b) ==
    Final(stages[b].phase) =>
        stages'[b].phase = stages[b].phase \/ Discard(b) \/ ReceiptConfirms(b)

\* One stage changed, and its phase only in these ways.
LEMMA OneStageEnds ==
    ASSUME NEW a \in StageNumbers, \A b \in StageNumbers : b # a => stages'[b] = stages[b],
           EndKept(a)
    PROVE  \A b \in StageNumbers : EndKept(b)
  BY DEF EndKept

\* Every write of a stage that StagedPublication makes, by the form it has.
LEMMA WriteKeepsEnd ==
    ASSUME StagedAssumption, stages \in [StageNumbers -> Stage], NEW a \in StageNumbers,
           NEW p \in Phases,
           \/ p = stages[a].phase
           \/ ~ Final(stages[a].phase),
           \/ stages' = [stages EXCEPT ![a] = Ended(stages[a], p)]
           \/ stages' = [stages EXCEPT ![a].phase = p]
           \/ p = stages[a].phase /\ stages' = [stages EXCEPT ![a] = Released(stages[a])]
    PROVE  \A b \in StageNumbers : EndKept(b)
<1>1. stages[a] \in Stage
  OBVIOUS
<1>2. Ended(stages[a], p).phase = p /\ Released(stages[a]).phase = stages[a].phase
  BY <1>1, EndedIs, ReleasedIs
<1>3. stages'[a].phase = p
  BY <1>1, <1>2 DEF Stage
<1>4. \A b \in StageNumbers : b # a => stages'[b] = stages[b]
  OBVIOUS
<1>5. EndKept(a)
  BY <1>3 DEF EndKept
<1> QED
  BY <1>4, <1>5, OneStageEnds

\* A stage that is not over may be written at will.
LEMMA LiveWrites ==
    ASSUME NEW a \in StageNumbers, ~ Final(stages[a].phase),
           \A b \in StageNumbers : b # a => stages'[b] = stages[b]
    PROVE  \A b \in StageNumbers : EndKept(b)
  BY DEF EndKept

LEMMA RestKeepsEnds == UNCHANGED stages => \A b \in StageNumbers : EndKept(b)
  BY DEF EndKept

LEMMA PhaseNames ==
    /\ "waiting" \in Phases /\ "cancelled" \in Phases /\ "preparation_unknown" \in Phases
    /\ \A p \in LivePhases \cup {"none"} : ~ Final(p)
    /\ EndPhases \subseteq Phases
  BY Names DEF Phases, LivePhases, EndPhases, Final

LEMMA SavePreparedEnds ==
    ASSUME StagedAssumption, StagedInv, NEW h \in Handlers, SavePrepared(h)
    PROVE  \A b \in StageNumbers : EndKept(b)
<1>1. worker[h].pc \in Early
  BY DEF SavePrepared, Early
<1>2. PICK a \in StageNumbers : a = worker[h].a
  BY <1>1, EarlyIs
<1>3. stages[a] \in Stage /\ stages \in [StageNumbers -> Stage] /\ stages[a].phase \in Phases
  BY StageOf DEF Stage
<1>4. ASSUME NEW q \in {"preparation_unknown", "cancelled"}, NEW p,
             p = IF stages[a].phase = "preparation_intent" THEN q ELSE stages[a].phase,
             \/ stages' = [stages EXCEPT ![a] = Ended(stages[a], p)]
             \/ stages' = [stages EXCEPT ![a].phase = p]
      PROVE  \A b \in StageNumbers : EndKept(b)
  <2>1. p \in Phases /\ (p = stages[a].phase \/ ~ Final(stages[a].phase))
    BY <1>3, <1>4, PhaseNames DEF LivePhases
  <2> QED
    BY <1>3, <1>4, <2>1, WriteKeepsEnd
<1>5. CASE ~ Matches(a) \/ ~ worker[h].live
  <2>1. PICK q \in {"preparation_unknown", "cancelled"} :
           q = IF Matches(a) THEN "preparation_unknown" ELSE "cancelled"
    OBVIOUS
  <2>2. PICK p : p = IF stages[a].phase = "preparation_intent" THEN q ELSE stages[a].phase
    OBVIOUS
  <2>3. stages' = [stages EXCEPT ![a] = Ended(stages[a], p)]
    BY <1>2, <1>3, <1>5, <2>1, <2>2 DEF SavePrepared
  <2> QED
    BY <1>4, <2>2, <2>3
<1>6. CASE Matches(a) /\ worker[h].live /\ Fence(h, "preparation_intent")
  <2>1. stages[a].phase = "preparation_intent" /\ stages' = [stages EXCEPT ![a] = Ended(stages[a], "waiting")]
    BY <1>2, <1>3, <1>6 DEF SavePrepared, Fence
  <2>2. "waiting" \in Phases /\ ~ Final(stages[a].phase)
    BY <2>1, PhaseNames DEF LivePhases
  <2> QED
    BY <1>3, <2>1, <2>2, WriteKeepsEnd
<1>7. CASE Matches(a) /\ worker[h].live /\ ~ Fence(h, "preparation_intent")
  <2>1. PICK p : p = IF stages[a].phase = "preparation_intent" THEN "preparation_unknown"
                     ELSE stages[a].phase
    OBVIOUS
  <2>2. stages' = [stages EXCEPT ![a].phase = p]
    BY <1>2, <1>7, <2>1 DEF SavePrepared
  <2> QED
    BY <1>4, <2>1, <2>2
<1> QED
  BY <1>5, <1>6, <1>7

LEMMA EndStageEnds ==
    ASSUME StagedAssumption, StagedInv, NEW h \in Handlers, EndStage(h)
    PROVE  \A b \in StageNumbers : EndKept(b)
<1>1. PICK a \in StageNumbers : a = worker[h].a
  BY DEF EndStage, StagedInv, WorkerSound
<1>2. stages[a] \in Stage /\ stages \in [StageNumbers -> Stage]
  BY StageOf
<1>3. PICK end \in EndPhases : end = worker[h].end
  BY DEF StagedInv, TypeOK, Worker
<1>4. CASE MayEnd(h) /\ stages' = [stages EXCEPT ![a] = Ended(stages[a], end)]
  <2>1. stages[a].phase \in LivePhases \/ stages[a].phase = end
    BY <1>1, <1>3, <1>4 DEF MayEnd
  <2>2. end \in Phases /\ (end = stages[a].phase \/ ~ Final(stages[a].phase))
    BY <2>1, PhaseNames
  <2> QED
    BY <1>2, <1>4, <2>2, WriteKeepsEnd
<1>5. UNCHANGED stages \/ (MayEnd(h) /\ stages' = [stages EXCEPT ![a] = Ended(stages[a], end)])
  BY <1>1, <1>2, <1>3 DEF EndStage
<1> QED
  BY <1>4, <1>5, RestKeepsEnds

LEMMA RetainReceiptEnds ==
    ASSUME StagedAssumption, StagedInv, NEW h \in Handlers, RetainReceipt(h)
    PROVE  \A b \in StageNumbers : EndKept(b)
<1>1. PICK a \in StageNumbers : a = worker[h].a
  BY DEF RetainReceipt, StagedInv, WorkerSound
<1>2. stages[a] \in Stage /\ stages \in [StageNumbers -> Stage]
  BY StageOf
<1>c. Confirmed(h) => claims[stages[a].claim].st = "published"
  <2>1. worker[h].claim = stages[a].claim
    BY <1>1 DEF RetainReceipt, StagedInv, WorkerSound
  <2> QED
    BY <2>1 DEF Confirmed
<1>3. PICK r \in Stage : r = Released(stages[a]) /\ r.phase = stages[a].phase
  BY <1>2, ReleasedIs
<1>4. CASE stages' = [stages EXCEPT ![a] = [r EXCEPT !.ext = TRUE,
                         !.phase = IF Confirmed(h) THEN "published" ELSE r.phase]]
  <2>1. \A b \in StageNumbers : b # a => stages'[b] = stages[b]
    BY <1>2, <1>4
  <2>2. stages'[a].phase = IF Confirmed(h) THEN "published" ELSE r.phase
    BY <1>2, <1>3, <1>4 DEF Stage
  <2>3. Confirmed(h) => stages[a].phase \in {"final_intent", "final_unknown"}
    BY <1>1 DEF Confirmed
  <2>4. EndKept(a)
    BY <1>c, <1>3, <2>2, <2>3 DEF EndKept, ReceiptConfirms, Final, EndPhases
  <2> QED
    BY <2>1, <2>4, OneStageEnds
<1>5. UNCHANGED stages \/ stages' = [stages EXCEPT ![a] = [r EXCEPT !.ext = TRUE,
         !.phase = IF Confirmed(h) THEN "published" ELSE r.phase]]
  BY <1>1, <1>2, <1>3 DEF RetainReceipt
<1> QED
  BY <1>4, <1>5, RestKeepsEnds

LEMMA RecoverEnds ==
    ASSUME StagedAssumption, StagedInv, NEW a \in StageNumbers, Recover(a)
    PROVE  \A b \in StageNumbers : EndKept(b)
<1>1. stages \in [StageNumbers -> Stage] /\ ~ Final(stages[a].phase)
  BY StageOf, PhaseNames DEF Recover, Recoverable
<1>2. \A b \in StageNumbers : b # a => stages'[b] = stages[b]
  BY <1>1 DEF Recover
<1> QED
  BY <1>1, <1>2, LiveWrites

\* The other writes are to stages that are not over, or to a lease.
LEMMA HandlerStepEnds ==
    ASSUME StagedAssumption, StagedInv, NEW h \in Handlers, HandlerStep(h)
    PROVE  \A b \in StageNumbers : EndKept(b)
<1>1. CASE Begin(h)
  <2>1. CASE Preflight(h)
    <3>1. row.st = "queued"
      BY <1>1, <2>1 DEF Begin, Preflight, StagedInv, WorkerSound
    <3>2. PICK a \in StageNumbers : a = row.att + 1
      <4>1. row \in Row /\ decisions \in 0..MaxDecisions /\ row.att + 1 <= decisions
        BY <3>1 DEF StagedInv, TypeOK, AttemptsSound
      <4>2. row.att + 1 \in StageNumbers
        BY <4>1 DEF Row, StageNumbers, StagedAssumption
      <4> QED
        BY <4>2
    <3>3. stages[a].phase = "none" /\ stages \in [StageNumbers -> Stage]
      BY <3>2 DEF StagedInv, TypeOK, Row, StageNumbers, StageSound
    <3>4. \A b \in StageNumbers : b # a => stages'[b] = stages[b]
      BY <1>1, <2>1, <3>2, <3>3 DEF Begin
    <3> QED
      BY <3>3, <3>4, LiveWrites, PhaseNames
  <2>2. CASE ~ Preflight(h)
    BY <1>1, <2>2, RestKeepsEnds DEF Begin
  <2> QED
    BY <2>1, <2>2
<1>2. CASE Acquire(h)
  <2>1. CASE Acquirable(h)
    <3>1. PICK a \in StageNumbers : a = worker[h].a /\ stages[a].phase = "waiting"
      BY <1>2, <2>1 DEF Acquire, Acquirable, StagedInv, WorkerSound
    <3>2. \A b \in StageNumbers : b # a => stages'[b] = stages[b]
      BY <1>2, <2>1, <3>1, StageOf DEF Acquire
    <3> QED
      BY <3>1, <3>2, LiveWrites, PhaseNames DEF LivePhases
  <2>2. CASE ~ Acquirable(h)
    BY <1>2, <2>2, RestKeepsEnds DEF Acquire
  <2> QED
    BY <2>1, <2>2
<1>3. CASE Defer(h)
  <2>1. PICK a \in StageNumbers : a = worker[h].a
    BY <1>3 DEF Defer, StagedInv, WorkerSound
  <2>2. stages[a] \in Stage /\ stages \in [StageNumbers -> Stage] /\ stages[a].phase \in Phases
    BY StageOf DEF Stage
  <2>3. UNCHANGED stages \/ stages' = [stages EXCEPT ![a] = Released(stages[a])]
    BY <1>3, <2>1, <2>2 DEF Defer
  <2> QED
    BY <2>2, <2>3, WriteKeepsEnd, RestKeepsEnds
<1>4. CASE FinalIntent(h)
  <2>1. CASE UNCHANGED stages
    BY <2>1, RestKeepsEnds
  <2>2. CASE Fence(h, "waiting") /\ stages' = [stages EXCEPT ![worker[h].a].phase = "final_intent",
                                                              ![worker[h].a].claim = Len(claims) + 1]
    <3>1. PICK a \in StageNumbers : a = worker[h].a /\ stages[a].phase = "waiting"
      BY <1>4, <2>2 DEF FinalIntent, Fence, StagedInv, WorkerSound
    <3>2. \A b \in StageNumbers : b # a => stages'[b] = stages[b]
      BY <2>2, <3>1, StageOf
    <3> QED
      BY <3>1, <3>2, LiveWrites, PhaseNames DEF LivePhases
  <2> QED
    BY <1>4, <2>1, <2>2 DEF FinalIntent
<1>5. CASE SavePrepared(h) \/ EndStage(h) \/ RetainReceipt(h)
  BY <1>5, SavePreparedEnds, EndStageEnds, RetainReceiptEnds
<1>6. CASE \/ RefuseStart(h) \/ Prepare(h) \/ Inspect(h) \/ AuthorizeFinal(h) \/ Finalize(h)
           \/ RecordPublished(h) \/ RecordAccepted(h) \/ RecordEnd(h) \/ Return(h)
  <2>1. UNCHANGED stages
    BY <1>6 DEF RefuseStart, Prepare, Inspect, AuthorizeFinal, Finalize, RecordPublished,
                RecordAccepted, RecordEnd, Return, dataVars
  <2> QED
    BY <2>1, RestKeepsEnds
<1> QED
  BY <1>1, <1>2, <1>3, <1>4, <1>5, <1>6 DEF HandlerStep

LEMMA EveryEndKept ==
    StagedAssumption /\ StagedInv /\ [Next]_vars => \A b \in StageNumbers : EndKept(b)
<1> SUFFICES ASSUME StagedAssumption, StagedInv, [Next]_vars
             PROVE  \A b \in StageNumbers : EndKept(b)
  OBVIOUS
<1>1. CASE PersonStep
  <2>1. ASSUME NEW a \in StageNumbers, Discard(a) PROVE \A b \in StageNumbers : EndKept(b)
    <3>1. /\ stages \in [StageNumbers -> Stage] /\ stages[a].phase = "preparation_unknown"
          /\ stages' = [stages EXCEPT ![a] = Ended(stages[a], "cancelled")]
      BY <2>1, StageOf DEF Discard, Discardable
    <3>2. \A b \in StageNumbers : b # a => stages'[b] = stages[b]
      BY <3>1
    <3>3. EndKept(a)
      BY <2>1 DEF EndKept
    <3> QED
      BY <3>2, <3>3, OneStageEnds
  <2>2. CASE Approve \/ Reject \/ ChangeInput \/ \E delivered \in BOOLEAN : AssertDelivery(delivered)
    <3>1. UNCHANGED stages
      <4>1. CASE Approve
        BY <4>1 DEF Approve, dataVars
      <4>2. CASE Reject
        BY <4>2 DEF Reject, dataVars
      <4>3. CASE ChangeInput
        BY <4>3 DEF ChangeInput, dataVars
      <4>4. ASSUME NEW delivered \in BOOLEAN, AssertDelivery(delivered) PROVE UNCHANGED stages
        BY <4>4 DEF AssertDelivery, dataVars
      <4> QED
        BY <2>2, <4>1, <4>2, <4>3, <4>4
    <3> QED
      BY <3>1, RestKeepsEnds
  <2> QED
    BY <1>1, <2>1, <2>2 DEF PersonStep
<1>2. CASE FetchAny \/ RecordRecovered \/ SweepPublish
  <2>1. UNCHANGED stages
    BY <1>2 DEF FetchAny, FetchPublish, FetchPoll, RecordRecovered, SweepPublish, dataVars
  <2> QED
    BY <2>1, RestKeepsEnds
<1>3. ASSUME NEW h \in Handlers, HandlerStep(h) PROVE \A b \in StageNumbers : EndKept(b)
  BY <1>3, HandlerStepEnds
<1>4. CASE \/ \E h \in Handlers : DatabaseError(h) \/ Timeout(h) \/ Crash(h)
           \/ \E j \in orphans : TimeoutOrphan(j)
  <2>1. UNCHANGED stages
    BY <1>4 DEF DatabaseError, Timeout, Crash, TimeoutOrphan, dataVars
  <2> QED
    BY <2>1, RestKeepsEnds
<1>5. ASSUME NEW a \in StageNumbers, LeaseRunsOut(a) \/ DeadlinePasses(a) \/ Recover(a)
      PROVE  \A b \in StageNumbers : EndKept(b)
  <2>1. CASE LeaseRunsOut(a) \/ DeadlinePasses(a)
    <3>1. stages[a] \in Stage /\ stages \in [StageNumbers -> Stage]
      BY StageOf
    <3>2. \A b \in StageNumbers : b # a => stages'[b] = stages[b]
      BY <2>1, <3>1 DEF LeaseRunsOut, DeadlinePasses
    <3>3. stages'[a].phase = stages[a].phase
      BY <2>1, <3>1 DEF LeaseRunsOut, DeadlinePasses, Stage
    <3> QED
      BY <3>2, <3>3, OneStageEnds DEF EndKept
  <2> QED
    BY <1>5, <2>1, RecoverEnds
<1>6. CASE UNCHANGED vars
  BY <1>6, RestKeepsEnds DEF vars, dataVars
<1> QED
  BY <1>1, <1>2, <1>3, <1>4, <1>5, <1>6 DEF Next

\* A stage that has ended is never live again and keeps its end, with two exceptions: a
\* person discards a lost preparation (metaPreparations.discard), and the stage's own
\* published receipt confirms a publication that had ended as unknown (retainReceipt).
THEOREM StageKeepsItsEnd == StagedAssumption => (Spec => StageEndsOnce)
<1> SUFFICES ASSUME StagedAssumption PROVE Spec => StageEndsOnce
  OBVIOUS
<1>1. StagedInv /\ [Next]_vars =>
         [\A a \in StageNumbers :
             stages[a].phase \in EndPhases \cup {"published"} =>
                 stages'[a].phase = stages[a].phase \/ Discard(a) \/ ReceiptConfirms(a)]_vars
  BY EveryEndKept DEF EndKept, Final
<1>2. Spec => []StagedInv
  BY StagedSafe
<1>3. Spec => [][Next]_vars
  BY DEF Spec
<1> QED
  BY <1>1, <1>2, <1>3, PTL DEF StageEndsOnce
=============================================================================
