----------------------------- MODULE AroundProofs -----------------------------
(***************************************************************************)
(* Generation runs, and with them the parts around the delivery core, for    *)
(* every value of the constants.                                            *)
(*                                                                         *)
(* The first half proves generation runs, for every number of runs,         *)
(* callbacks, channels, steps, retries and keys: types, what a callback     *)
(* under its fence may rely on, one draft made of the checkpoints, final    *)
(* verdicts, and the limit of concurrent runs.                              *)
(*                                                                         *)
(* The second half says of the behaviours of all parts side by side,        *)
(* AllSpec, what was proved of each part alone.  Every part is instantiated *)
(* once in AroundDelivery and once here, with the same substitution and     *)
(* with its proofs; the lemmas SSame ... ASame say that the two instances   *)
(* are one specification.  A step of AllSpec is a step of one part and a    *)
(* stutter of the others (PartsRun), so each theorem of a part is a theorem *)
(* of AllSpec.                                                              *)
(***************************************************************************)
EXTENDS AroundDelivery, FiniteSetTheorems, WellFoundedInduction, TLAPS

(***************************************************************************)
(* Types                                                                    *)
(***************************************************************************)
\* Every set of numbers that is not empty has a least one.
Below == {p \in Nat \X Nat : p[1] < p[2]}

LEMMA BelowWellFounded == IsWellFoundedOn(Below, Nat)
  BY NatLessThanWellFounded DEF OpToRel, Below

LEMMA LeastNumber ==
    ASSUME NEW X \in SUBSET Nat, X # {}
    PROVE  \E x \in X : \A y \in X : x <= y
<1>1. PICK x \in X : \A y \in X : ~ (<<y, x>> \in Below)
  BY BelowWellFounded, WFMin
<1>2. ASSUME NEW y \in X PROVE x <= y
  <2>1. x \in Nat /\ y \in Nat
    OBVIOUS
  <2>2. <<y, x>> \notin Below
    BY <1>1
  <2> QED
    BY <2>1, <2>2 DEF Below
<1> QED
  BY <1>2

\* The step a callback turns to is one its copy lacks.
LEMMA NextIsMissing ==
    ASSUME NEW h \in Handlers, Missing(h) # {}
    PROVE  NextStep(h) \in Missing(h)
<1>1. Missing(h) \in SUBSET Nat
  BY GenerationAssumption DEF Missing, Steps
<1>2. \E z \in Missing(h) : \A e \in Missing(h) : z <= e
  BY <1>1, LeastNumber
<1> QED
  BY <1>2 DEF NextStep

LEMMA IdleType == Idle \in Worker
  BY GenerationAssumption DEF Idle, Worker, PCs, NoSteps, Steps

LEMMA InitTypes == Init => TypeOK
<1> SUFFICES ASSUME Init PROVE TypeOK
  OBVIOUS
<1>1. NoSteps \in [Steps -> Nat]
  BY DEF NoSteps
<1>2. drafts \in [Runs -> Seq(Draft)]
  BY DEF Init
<1> QED
  BY <1>1, <1>2, IdleType, GenerationAssumption DEF Init, TypeOK, Live, Settled

\* A callback that is not idle works on a run; it is about to pay for a step as long as
\* its copy of the checkpoints lacks one, and finishes when it lacks none.
Held == {v \in Worker :
            /\ v.pc # "idle" => v.run \in Runs
            /\ v.pc \in {"begun", "paid"} => \E z \in Steps : v.have[z] = 0
            /\ v.pc = "finishing" => \A z \in Steps : v.have[z] # 0}
Types == TypeOK /\ worker \in [Handlers -> Held]

Job == [st : {"none", "waiting", "active", "ended"}, left : 0..RetryLimit]

\* Going on to another place in the code keeps the rest.
LEMMA GotoHeld ==
    ASSUME Types, NEW h \in Handlers, NEW pc \in PCs, worker[h].pc # "idle", Goto(h, pc),
           pc \in {"begun", "paid"} => \E z \in Steps : worker[h].have[z] = 0,
           pc = "finishing" => \A z \in Steps : worker[h].have[z] # 0
    PROVE  worker' \in [Handlers -> Held]
<1>1. worker[h] \in Held
  BY DEF Types
<1>2. [worker[h] EXCEPT !.pc = pc] \in Held
  BY <1>1 DEF Held, Worker
<1>3. worker' = [worker EXCEPT ![h] = [worker[h] EXCEPT !.pc = pc]]
  BY DEF Goto
<1> QED
  BY <1>2, <1>3 DEF Types

LEMMA IdleHeld == Idle \in Held
  BY IdleType DEF Held, Idle

\* Ending a callback does too.
LEMMA LeaveHeld ==
    ASSUME Types, NEW h \in Handlers, worker' = [worker EXCEPT ![h] = Idle]
    PROVE  worker' \in [Handlers -> Held]
  BY IdleHeld DEF Types

LEMMA FailJobType ==
    ASSUME TypeOK, NEW r \in Runs, FailJob(r)
    PROVE  job' \in [Runs -> Job] /\ letters' \subseteq Runs
<1>1. job \in [Runs -> Job] /\ job[r] \in Job /\ letters \subseteq Runs
  BY DEF Job, TypeOK
<1>2. CASE job[r].st \notin {"waiting", "active"}
  BY <1>1, <1>2 DEF FailJob
<1>3. CASE job[r].st \in {"waiting", "active"} /\ job[r].left > 0
  <2>1. [st |-> "waiting", left |-> job[r].left - 1] \in Job
    BY <1>1, <1>3, GenerationAssumption DEF Job
  <2>2. job' = [job EXCEPT ![r] = [st |-> "waiting", left |-> job[r].left - 1]] /\ letters' = letters
    BY <1>3 DEF FailJob
  <2> QED
    BY <1>1, <2>1, <2>2
<1>4. CASE job[r].st \in {"waiting", "active"} /\ ~ (job[r].left > 0)
  <2>1. [job[r] EXCEPT !.st = "ended"] \in Job
    BY <1>1 DEF Job
  <2>2. job' = [job EXCEPT ![r] = [job[r] EXCEPT !.st = "ended"]] /\ letters' = letters \cup {r}
    BY <1>4 DEF FailJob
  <2> QED
    BY <1>1, <2>1, <2>2
<1> QED
  BY <1>2, <1>3, <1>4

LEMMA TypeStep == Types /\ [Next]_vars => Types'
<1> SUFFICES ASSUME Types, [Next]_vars PROVE Types'
  OBVIOUS
<1>t. TypeOK /\ worker \in [Handlers -> Held] /\ \A h \in Handlers : worker[h] \in Worker /\ worker[h] \in Held
  BY DEF Types, TypeOK
<1>w. ASSUME worker' \in [Handlers -> Held] PROVE worker' \in [Handlers -> Worker]
  BY <1>w DEF Held
<1> USE GenerationAssumption, <1>t DEF TypeOK, Live, Settled
<1>1. ASSUME NEW r \in Runs, Admit(r) PROVE Types'
  BY <1>1 DEF Admit, MayAdmit, queueVars, Types
<1>2. ASSUME NEW r \in Runs, Create(r) PROVE Types'
  BY <1>2 DEF Create, Types
<1>3. ASSUME NEW r \in Runs, Cancel(r) PROVE Types'
  BY <1>3 DEF Cancel, orgVars, Types
<1>4. ASSUME ReplaceKey PROVE Types'
  BY <1>4 DEF ReplaceKey, runVars, queueVars, Types
<1>5. ASSUME NEW ch \in Channels, DeleteChannel(ch) PROVE Types'
  BY <1>5 DEF DeleteChannel, runVars, queueVars, Types
<1>6. ASSUME NEW h \in Handlers, NEW r \in Runs, Fetch(h, r) PROVE Types'
  <2>1. [Idle EXCEPT !.pc = "fetched", !.run = r] \in Held
    BY IdleType DEF Held, Worker, PCs
  <2>2. worker' \in [Handlers -> Held]
    BY <1>6, <2>1 DEF Fetch
  <2> QED
    BY <1>6, <1>w, <2>2 DEF Fetch, runVars, orgVars, Types
<1>7. ASSUME NEW r \in Runs, Timeout(r) PROVE Types'
  <2>1. PICK told \in SUBSET Holding(r) :
            worker' = [h \in Handlers |-> IF h \in told THEN [worker[h] EXCEPT !.aborted = TRUE]
                                          ELSE worker[h]]
    BY <1>7 DEF Timeout
  <2>2. \A h \in Handlers : [worker[h] EXCEPT !.aborted = TRUE] \in Held
    BY DEF Held, Worker
  <2>3. worker' \in [Handlers -> Held]
    BY <2>1, <2>2
  <2>4. job' \in [Runs -> Job] /\ letters' \subseteq Runs
    BY <1>7, FailJobType DEF Timeout
  <2> QED
    BY <1>7, <1>w, <2>3, <2>4 DEF Timeout, runVars, orgVars, Job, Types
<1>8. ASSUME NEW h \in Handlers, Return(h) PROVE Types'
  <2>1. worker' \in [Handlers -> Held]
    BY <1>8, LeaveHeld DEF Return
  <2> QED
    BY <1>8, <1>w, <2>1 DEF Return, runVars, orgVars, Types
<1>9. ASSUME NEW h \in Handlers, Throw(h) PROVE Types'
  <2>1. worker' \in [Handlers -> Held]
    BY <1>9, LeaveHeld DEF Throw
  <2>2. worker[h].run \in Runs
    BY <1>9 DEF Throw, Held
  <2>3. job' \in [Runs -> Job] /\ letters' \subseteq Runs
    BY <1>9, <2>2, FailJobType DEF Throw, Job
  <2> QED
    BY <1>9, <1>w, <2>1, <2>3 DEF Throw, runVars, orgVars, Job, Types
<1>10. ASSUME NEW h \in Handlers, Crash(h) PROVE Types'
  <2>1. worker' \in [Handlers -> Held]
    BY <1>10, LeaveHeld DEF Crash
  <2> QED
    BY <1>10, <1>w, <2>1 DEF Crash, runVars, queueVars, orgVars, Types
<1>11. ASSUME NEW h \in Handlers, Claim(h) PROVE Types'
  <2>1. worker[h].run \in Runs /\ worker[h].pc # "idle"
    BY <1>11 DEF Claim, Held
  <2>2. ASSUME worker' = [worker EXCEPT ![h].pc = "claimed", ![h].have = steps[worker[h].run]]
        PROVE  worker' \in [Handlers -> Held]
    <3>1. steps[worker[h].run] \in [Steps -> Nat]
      BY <2>1
    <3>2. [worker[h] EXCEPT !.pc = "claimed", !.have = steps[worker[h].run]] \in Worker
      BY <3>1 DEF Worker, PCs
    <3>3. [worker[h] EXCEPT !.pc = "claimed", !.have = steps[worker[h].run]] \in Held
      BY <2>1, <3>2 DEF Held, Worker
    <3> QED
      BY <2>2, <3>3
  <2>3. worker' \in [Handlers -> Held]
    BY <1>11, <2>1, <2>2, GotoHeld DEF Claim, PCs
  <2> QED
    <3>1. status' \in [Runs -> {"none"} \cup Live \cup Settled]
      BY <1>11, <2>1 DEF Claim
    <3>2. fence' \in [Runs -> Handlers \cup {None}]
      BY <1>11, <2>1 DEF Claim
    <3>3. lease' \in [Runs -> {"none", "fresh", "over"}]
      BY <1>11, <2>1 DEF Claim, Renewed
    <3>4. UNCHANGED <<steps, pin, drafts, paid, queueVars, orgVars>>
      BY <1>11 DEF Claim
    <3> QED
      BY <1>w, <2>3, <3>1, <3>2, <3>3, <3>4 DEF queueVars, orgVars, Types
<1>12. ASSUME NEW h \in Handlers, Execute(h) PROVE Types'
  <2>1. worker[h].run \in Runs /\ worker[h].pc # "idle"
    BY <1>12 DEF Execute, Held
  <2>2. ASSUME worker' = [worker EXCEPT ![h].pc = "working", ![h].key = key, ![h].channels = channels]
        PROVE  worker' \in [Handlers -> Held]
    <3>1. key \in 0..MaxKeys /\ channels \in SUBSET Channels
      OBVIOUS
    <3>2. [worker[h] EXCEPT !.pc = "working", !.key = key, !.channels = channels] \in Worker
      BY <3>1 DEF Worker, PCs
    <3>3. [worker[h] EXCEPT !.pc = "working", !.key = key, !.channels = channels] \in Held
      BY <2>1, <3>2 DEF Held, Worker
    <3> QED
      BY <2>2, <3>3
  <2>3. worker' \in [Handlers -> Held]
    BY <1>12, <2>1, <2>2, GotoHeld DEF Execute, PCs
  <2> QED
    BY <1>12, <1>w, <2>3 DEF Execute, runVars, queueVars, orgVars, Types
<1>13. ASSUME NEW h \in Handlers, BeginStep(h) PROVE Types'
  <2>1. worker[h].run \in Runs /\ worker[h].pc # "idle"
    BY <1>13 DEF BeginStep, Held
  <2>2. worker' \in [Handlers -> Held]
    BY <1>13, <2>1, GotoHeld DEF BeginStep, PCs, Missing
  <2> QED
    BY <1>13, <1>w, <2>1, <2>2 DEF BeginStep, Renewed, queueVars, orgVars, Types
<1>14. ASSUME NEW h \in Handlers, Call(h) PROVE Types'
  <2>1. worker[h].run \in Runs /\ worker[h].pc = "begun" /\ Missing(h) # {}
    BY <1>14 DEF Call, Held, Missing
  <2>2. NextStep(h) \in Steps
    BY <2>1, NextIsMissing DEF Missing
  <2>3. paid[worker[h].run][NextStep(h)] + 1 \in Nat
    BY <2>1, <2>2
  <2>4. ASSUME worker' = [worker EXCEPT ![h].pc = "paid",
                                        ![h].call = paid[worker[h].run][NextStep(h)] + 1]
        PROVE  worker' \in [Handlers -> Held]
    <3> DEFINE v == [worker[h] EXCEPT !.pc = "paid", !.call = paid[worker[h].run][NextStep(h)] + 1]
    <3>1. v \in Worker
      BY <2>3 DEF Worker, PCs
    <3>2. v \in Held
      BY <2>1, <3>1 DEF Held, Worker, Missing
    <3> QED
      BY <2>4, <3>2
  <2>5. worker' \in [Handlers -> Held]
    <3>1. \/ \E end \in {"permanent", "throwing"} : Goto(h, end)
          \/ worker' = [worker EXCEPT ![h].pc = "paid",
                                      ![h].call = paid[worker[h].run][NextStep(h)] + 1]
      BY <1>14 DEF Call
    <3>2. ASSUME Goto(h, "permanent") \/ Goto(h, "throwing") PROVE worker' \in [Handlers -> Held]
      BY <2>1, <3>2, GotoHeld DEF PCs
    <3> QED
      BY <2>4, <3>1, <3>2
  <2>6. paid' \in [Runs -> [Steps -> Nat]]
    <3>1. \/ paid' = paid
          \/ paid' = [paid EXCEPT ![worker[h].run] =
                          [paid[worker[h].run] EXCEPT ![NextStep(h)] = paid[worker[h].run][NextStep(h)] + 1]]
      BY <1>14 DEF Call
    <3>2. [paid[worker[h].run] EXCEPT ![NextStep(h)] = paid[worker[h].run][NextStep(h)] + 1]
              \in [Steps -> Nat]
      BY <2>1, <2>2, <2>3
    <3> QED
      BY <3>1, <3>2
  <2> QED
    BY <1>14, <1>w, <2>5, <2>6 DEF Call, runVars, queueVars, orgVars, Types
<1>15. ASSUME NEW h \in Handlers, WriteCheckpoint(h) PROVE Types'
  <2>1. worker[h].run \in Runs /\ worker[h].pc = "paid" /\ worker[h].call \in Nat
    BY <1>15 DEF WriteCheckpoint, Held, Worker
  <2>2. ASSUME worker' = [worker EXCEPT ![h].pc = "working", ![h].call = 0,
                                        ![h].have[NextStep(h)] = worker[h].call]
        PROVE  worker' \in [Handlers -> Held]
    <3> DEFINE v == [worker[h] EXCEPT !.pc = "working", !.call = 0,
                                      !.have[NextStep(h)] = worker[h].call]
    <3>1. worker[h].have \in [Steps -> Nat]
      BY DEF Worker
    <3>2. [worker[h].have EXCEPT ![NextStep(h)] = worker[h].call] \in [Steps -> Nat]
      BY <2>1, <3>1
    <3>3. v \in Worker
      BY <3>2 DEF Worker, PCs
    <3>4. v \in Held
      BY <2>1, <3>3 DEF Held, Worker
    <3> QED
      BY <2>2, <3>4
  <2>3. worker' \in [Handlers -> Held]
    BY <1>15, <2>1, <2>2, GotoHeld DEF WriteCheckpoint, PCs
  <2> QED
    <3>1. steps' \in [Runs -> [Steps -> Nat]]
      <4>1. steps[worker[h].run] \in [Steps -> Nat]
        BY <2>1
      <4>2. [steps[worker[h].run] EXCEPT ![NextStep(h)] = worker[h].call] \in [Steps -> Nat]
        BY <2>1, <4>1
      <4>3. \/ steps' = steps
            \/ steps' = [steps EXCEPT ![worker[h].run] =
                            [steps[worker[h].run] EXCEPT ![NextStep(h)] = worker[h].call]]
        BY <1>15 DEF WriteCheckpoint
      <4> QED
        BY <4>2, <4>3
    <3>2. lease' \in [Runs -> {"none", "fresh", "over"}]
      BY <1>15 DEF WriteCheckpoint, Renewed
    <3>3. UNCHANGED <<status, fence, pin, drafts, paid, queueVars, orgVars>>
      BY <1>15 DEF WriteCheckpoint
    <3> QED
      BY <1>w, <2>3, <3>1, <3>2, <3>3 DEF queueVars, orgVars, Types
<1>16. ASSUME NEW h \in Handlers, Finish(h) PROVE Types'
  <2>1. worker[h].run \in Runs /\ worker[h].pc # "idle"
    BY <1>16 DEF Finish, Held
  <2>2. worker' \in [Handlers -> Held]
    BY <1>16, <2>1, GotoHeld DEF Finish, PCs, Held
  <2>3. [outputs |-> worker[h].have, channels |-> Surviving(h)] \in Draft
    BY DEF Surviving, Draft, Worker
  <2>4. drafts' \in [Runs -> Seq(Draft)]
    <3>1. drafts[worker[h].run] \in Seq(Draft)
      BY <2>1
    <3>2. Append(drafts[worker[h].run], [outputs |-> worker[h].have, channels |-> Surviving(h)])
              \in Seq(Draft)
      BY <2>3, <3>1
    <3> QED
      BY <1>16, <2>1, <3>2 DEF Finish
  <2> QED
    BY <1>16, <1>w, <2>1, <2>2, <2>4 DEF Finish, queueVars, orgVars, Types
<1>17. ASSUME NEW h \in Handlers, RecordFailure(h) PROVE Types'
  <2>1. worker[h].run \in Runs /\ worker[h].pc # "idle"
    BY <1>17 DEF RecordFailure, Held
  <2>2. worker' \in [Handlers -> Held]
    BY <1>17, <2>1, GotoHeld DEF RecordFailure, PCs
  <2>3. status' \in [Runs -> {"none"} \cup Live \cup Settled]
    BY <1>17, <2>1 DEF RecordFailure, Settled
  <2>4. UNCHANGED <<fence, lease, steps, pin, drafts, paid, queueVars, orgVars>>
    BY <1>17 DEF RecordFailure
  <2> QED
    BY <1>w, <2>2, <2>3, <2>4 DEF queueVars, orgVars, Types
<1>18. ASSUME NEW h \in Handlers, DatabaseError(h) PROVE Types'
  <2>1. worker' \in [Handlers -> Held]
    BY <1>18, GotoHeld DEF DatabaseError, PCs
  <2> QED
    BY <1>18, <1>w, <2>1 DEF DatabaseError, runVars, queueVars, orgVars, Types
<1>19. ASSUME NEW r \in Runs, MarkExhausted(r) PROVE Types'
  BY <1>19 DEF MarkExhausted, orgVars, Types
<1>20. ASSUME NEW r \in Runs, LoseLetter(r) PROVE Types'
  BY <1>20 DEF LoseLetter, runVars, orgVars, Types
<1>21. ASSUME NEW r \in Runs, LeaseRunsOut(r) PROVE Types'
  BY <1>21 DEF LeaseRunsOut, queueVars, orgVars, Types
<1>22. ASSUME NEW r \in Runs, SweepAbandoned(r) PROVE Types'
  BY <1>22 DEF SweepAbandoned, queueVars, orgVars, Types
<1>23. CASE UNCHANGED vars
  BY <1>23 DEF vars, runVars, queueVars, orgVars, Types
<1> QED
  BY <1>1, <1>2, <1>3, <1>4, <1>5, <1>6, <1>7, <1>8, <1>9, <1>10, <1>11, <1>12, <1>13, <1>14, <1>15,
     <1>16, <1>17, <1>18, <1>19, <1>20, <1>21, <1>22, <1>23 DEF Next, HandlerStep

LEMMA InitHeld == Init => Types
  BY InitTypes, IdleHeld DEF Init, Types

\* Every variable keeps its type, and a callback that works has a run, an incomplete copy
\* of the checkpoints while it pays and a complete one when it finishes.
THEOREM GenerationTypes == Spec => [](TypeOK /\ Types)
<1>1. Init => Types
  BY InitHeld
<1>2. Types /\ [Next]_vars => Types'
  BY TypeStep
<1>3. Types => TypeOK /\ Types
  BY DEF Types
<1> QED
  BY <1>1, <1>2, <1>3, PTL DEF Spec

(***************************************************************************)
(* What a callback under its fence may rely on                              *)
(***************************************************************************)
Reading == {"claimed", "working", "begun", "paid", "finishing"}
Keyed   == Reading \ {"claimed"}

\* As long as a callback holds the fence its copy of the checkpoints is the run's own, and
\* the key it read is the one the run was accepted with.
FenceSound ==
    \A h \in Handlers :
        LET v == worker[h]
        IN  /\ v.pc \in Reading /\ fence[v.run] = h => v.have = steps[v.run]
            /\ v.pc \in Keyed => v.key = pin[v.run] /\ v.key # 0

\* What ended keeps its one draft.
DraftsSound == OneDraft /\ DraftIsCheckpointed

\* One request at a time counts and inserts.
AdmissionSound ==
    /\ IsFiniteSet(LiveRuns) /\ RunLimit
    /\ admitting # None => Cardinality(LiveRuns) < MaxConcurrent
    /\ \A r \in Runs : status[r] = "none" /\ pin[r] # 0 => admitting = r

\* One case a step: which callback moves which run.  The moves of the callbacks that
\* change neither a run nor a copy of it come together at the end.
LEMMA FenceStep == Types /\ FenceSound /\ [Next]_vars => FenceSound'
<1> SUFFICES ASSUME Types, FenceSound, [Next]_vars PROVE FenceSound'
  OBVIOUS
<1>t. /\ TypeOK /\ worker \in [Handlers -> Held]
      /\ \A h \in Handlers : worker[h] \in Worker /\ worker[h] \in Held
  BY DEF Types, TypeOK
<1>h. \A h \in Handlers : worker[h].pc # "idle" => worker[h].run \in Runs
  BY <1>t DEF Held
<1> USE GenerationAssumption, <1>t, <1>h DEF FenceSound, TypeOK, Reading, Keyed
\* A callback that goes on without writing.
<1>g. ASSUME NEW h \in Handlers, NEW pc \in PCs, Goto(h, pc), UNCHANGED <<fence, steps, pin>>,
             pc \in Reading => worker[h].pc \in Reading,
             pc \in Keyed => worker[h].pc \in Keyed
      PROVE  FenceSound'
  BY <1>g DEF Goto, Worker
<1>i. ASSUME NEW h \in Handlers, worker' = [worker EXCEPT ![h] = Idle], UNCHANGED <<fence, steps, pin>>
      PROVE  FenceSound'
  BY <1>i DEF Idle
<1>1. ASSUME NEW r \in Runs, Admit(r) PROVE FenceSound'
  BY <1>1 DEF Admit
<1>2. ASSUME NEW h \in Handlers, NEW r \in Runs, Fetch(h, r) PROVE FenceSound'
  BY <1>2 DEF Fetch, runVars, Idle
<1>3. ASSUME NEW r \in Runs, Timeout(r) PROVE FenceSound'
  BY <1>3 DEF Timeout, runVars
<1>4. ASSUME NEW h \in Handlers, Return(h) \/ Throw(h) \/ Crash(h) PROVE FenceSound'
  BY <1>4, <1>i DEF Return, Throw, Crash, runVars
<1>5. ASSUME NEW h \in Handlers, Claim(h) PROVE FenceSound'
  <2>1. CASE Goto(h, "returning") /\ UNCHANGED <<status, fence, lease>>
    BY <1>5, <2>1, <1>g DEF Claim, PCs
  <2>2. CASE fence' = [fence EXCEPT ![worker[h].run] = None] /\ Goto(h, "returning")
    <3>1. worker[h].pc = "fetched" /\ worker[h].run \in Runs
      BY <1>5 DEF Claim
    <3>2. UNCHANGED <<steps, pin>>
      BY <1>5 DEF Claim
    <3>3. ASSUME NEW k \in Handlers
          PROVE  /\ worker'[k].pc = worker[k].pc \/ worker'[k].pc \notin Reading
                 /\ worker'[k].run = worker[k].run /\ worker'[k].have = worker[k].have
                 /\ worker'[k].key = worker[k].key
                 /\ worker[k].pc \in Reading /\ fence'[worker[k].run] = k => fence[worker[k].run] = k
      BY <2>2, <3>1 DEF Goto, Worker
    <3> QED
      BY <3>2, <3>3
  <2>3. CASE /\ fence' = [fence EXCEPT ![worker[h].run] = h]
             /\ worker' = [worker EXCEPT ![h].pc = "claimed", ![h].have = steps[worker[h].run]]
    <3>1. worker[h].run \in Runs /\ UNCHANGED <<steps, pin>>
      BY <1>5 DEF Claim
    <3>2. /\ worker'[h].pc = "claimed" /\ worker'[h].run = worker[h].run
          /\ worker'[h].have = steps[worker[h].run]
      BY <2>3 DEF Worker
    <3>3. ASSUME NEW k \in Handlers \ {h}
          PROVE  /\ worker'[k] = worker[k]
                 /\ worker[k].pc \in Reading /\ fence'[worker[k].run] = k => fence[worker[k].run] = k
      BY <2>3, <3>1
    <3>4. ASSUME NEW k \in Handlers
          PROVE  LET v == worker'[k]
                 IN  /\ v.pc \in Reading /\ fence'[v.run] = k => v.have = steps'[v.run]
                     /\ v.pc \in Keyed => v.key = pin'[v.run] /\ v.key # 0
      <4>1. CASE k = h
        BY <3>1, <3>2, <4>1
      <4>2. CASE k # h
        BY <3>1, <3>3, <4>2
      <4> QED
        BY <4>1, <4>2
    <3> QED
      BY <3>4
  <2>4. \/ Goto(h, "returning") /\ UNCHANGED <<status, fence, lease>>
        \/ fence' = [fence EXCEPT ![worker[h].run] = None] /\ Goto(h, "returning")
        \/ /\ fence' = [fence EXCEPT ![worker[h].run] = h]
           /\ worker' = [worker EXCEPT ![h].pc = "claimed", ![h].have = steps[worker[h].run]]
    BY <1>5 DEF Claim
  <2> QED
    BY <2>1, <2>2, <2>3, <2>4
<1>6. ASSUME NEW h \in Handlers, Execute(h) PROVE FenceSound'
  <2>1. CASE Goto(h, "permanent")
    BY <1>6, <2>1, <1>g DEF Execute, runVars, PCs
  <2>2. CASE /\ worker' = [worker EXCEPT ![h].pc = "working", ![h].key = key, ![h].channels = channels]
             /\ pin[worker[h].run] = key
    BY <1>6, <2>2 DEF Execute, runVars
  <2> QED
    BY <1>6, <2>1, <2>2 DEF Execute
<1>7. ASSUME NEW h \in Handlers, BeginStep(h) PROVE FenceSound'
  BY <1>7, <1>g DEF BeginStep, PCs
<1>8. ASSUME NEW h \in Handlers, Call(h) PROVE FenceSound'
  <2>1. CASE Goto(h, "permanent") \/ Goto(h, "throwing")
    BY <1>8, <2>1, <1>g DEF Call, runVars, PCs
  <2>2. CASE \E n : worker' = [worker EXCEPT ![h].pc = "paid", ![h].call = n]
    <3>1. PICK n : worker' = [worker EXCEPT ![h].pc = "paid", ![h].call = n]
      BY <2>2
    <3>2. worker[h].pc = "begun" /\ UNCHANGED <<steps, pin, fence>>
      BY <1>8 DEF Call, runVars
    <3>3. ASSUME NEW k \in Handlers
          PROVE  /\ worker'[k].pc \in Reading => worker[k].pc \in Reading
                 /\ worker'[k].pc \in Keyed => worker[k].pc \in Keyed
                 /\ worker'[k].run = worker[k].run /\ worker'[k].have = worker[k].have
                 /\ worker'[k].key = worker[k].key
      BY <3>1, <3>2 DEF Worker
    <3> QED
      BY <3>2, <3>3
  <2> QED
    BY <1>8, <2>1, <2>2 DEF Call
<1>9. ASSUME NEW h \in Handlers, WriteCheckpoint(h) PROVE FenceSound'
  <2>1. CASE Goto(h, "returning") /\ UNCHANGED <<steps, lease>>
    BY <1>9, <2>1, <1>g DEF WriteCheckpoint, PCs
  <2>2. CASE /\ Fenced(h)
             /\ steps' = [steps EXCEPT ![worker[h].run][NextStep(h)] = worker[h].call]
             /\ worker' = [worker EXCEPT ![h].pc = "working", ![h].call = 0,
                                         ![h].have[NextStep(h)] = worker[h].call]
    <3>1. worker[h].run \in Runs /\ worker[h].pc = "paid"
      BY <1>9 DEF WriteCheckpoint
    <3>2. worker'[h].have = steps'[worker'[h].run] /\ worker'[h].run = worker[h].run
          /\ worker'[h].key = worker[h].key
      BY <2>2, <3>1 DEF Fenced, Worker
    <3>3. ASSUME NEW k \in Handlers \ {h}
          PROVE  /\ worker'[k] = worker[k]
                 /\ worker[k].pc \in Reading /\ fence[worker[k].run] = k =>
                        steps'[worker[k].run] = steps[worker[k].run]
      BY <2>2, <3>1 DEF Fenced
    <3>4. UNCHANGED <<pin, fence>>
      BY <1>9 DEF WriteCheckpoint
    <3>5. ASSUME NEW k \in Handlers
          PROVE  LET v == worker'[k]
                 IN  /\ v.pc \in Reading /\ fence'[v.run] = k => v.have = steps'[v.run]
                     /\ v.pc \in Keyed => v.key = pin'[v.run] /\ v.key # 0
      <4>1. CASE k = h
        BY <3>1, <3>2, <3>4, <4>1
      <4>2. CASE k # h
        BY <3>3, <3>4, <4>2
      <4> QED
        BY <4>1, <4>2
    <3> QED
      BY <3>5
  <2>3. \/ Goto(h, "returning") /\ UNCHANGED <<steps, lease>>
        \/ /\ Fenced(h)
           /\ steps' = [steps EXCEPT ![worker[h].run][NextStep(h)] = worker[h].call]
           /\ worker' = [worker EXCEPT ![h].pc = "working", ![h].call = 0,
                                       ![h].have[NextStep(h)] = worker[h].call]
    BY <1>9 DEF WriteCheckpoint
  <2> QED
    BY <2>1, <2>2, <2>3
<1>10. ASSUME NEW h \in Handlers, Finish(h) PROVE FenceSound'
  BY <1>10, <1>g DEF Finish, PCs
<1>11. ASSUME NEW h \in Handlers, RecordFailure(h) PROVE FenceSound'
  BY <1>11, <1>g DEF RecordFailure, PCs
<1>12. ASSUME NEW h \in Handlers, DatabaseError(h) PROVE FenceSound'
  BY <1>12, <1>g DEF DatabaseError, runVars, PCs
<1>13. ASSUME UNCHANGED <<fence, steps, pin, worker>> PROVE FenceSound'
  BY <1>13
<1>14. ASSUME NEW r \in Runs,
              \/ Create(r) \/ Cancel(r) \/ MarkExhausted(r) \/ LoseLetter(r)
              \/ LeaseRunsOut(r) \/ SweepAbandoned(r)
       PROVE  FenceSound'
  BY <1>13, <1>14 DEF Create, Cancel, MarkExhausted, LoseLetter, LeaseRunsOut, SweepAbandoned, runVars
<1>15. ASSUME ReplaceKey \/ (\E ch \in Channels : DeleteChannel(ch)) \/ UNCHANGED vars PROVE FenceSound'
  BY <1>13, <1>15 DEF ReplaceKey, DeleteChannel, vars, runVars
<1> QED
  BY <1>1, <1>2, <1>3, <1>4, <1>5, <1>6, <1>7, <1>8, <1>9, <1>10, <1>11, <1>12, <1>14, <1>15
     DEF Next, HandlerStep

(***************************************************************************)
(* One draft, made of the checkpoints                                       *)
(***************************************************************************)
LEMMA DraftStep == Types /\ FenceSound /\ DraftsSound /\ [Next]_vars => DraftsSound'
<1> SUFFICES ASSUME Types, FenceSound, DraftsSound, [Next]_vars PROVE DraftsSound'
  OBVIOUS
<1>t. /\ TypeOK /\ worker \in [Handlers -> Held]
      /\ \A h \in Handlers : worker[h] \in Worker /\ worker[h] \in Held
  BY DEF Types, TypeOK
<1>h. \A h \in Handlers : worker[h].pc # "idle" => worker[h].run \in Runs
  BY <1>t DEF Held
<1> USE GenerationAssumption, <1>t, <1>h DEF DraftsSound, OneDraft, DraftIsCheckpointed, TypeOK, Live, Settled
\* Runs whose end is not written by finish leave no draft.
<1>k. ASSUME UNCHANGED <<drafts, steps>>,
             \A r \in Runs : status'[r] = "succeeded" <=> status[r] = "succeeded"
      PROVE  DraftsSound'
  BY <1>k
<1>1. ASSUME NEW r \in Runs,
             \/ Admit(r) \/ Create(r) \/ Cancel(r) \/ Timeout(r) \/ MarkExhausted(r)
             \/ LoseLetter(r) \/ LeaseRunsOut(r) \/ SweepAbandoned(r)
      PROVE  DraftsSound'
  BY <1>1, <1>k DEF Admit, Create, Cancel, Timeout, MarkExhausted, LoseLetter, LeaseRunsOut,
                    SweepAbandoned, Abandoned, runVars
<1>2. ASSUME ReplaceKey \/ (\E ch \in Channels : DeleteChannel(ch)) \/ UNCHANGED vars PROVE DraftsSound'
  BY <1>2, <1>k DEF ReplaceKey, DeleteChannel, vars, runVars
<1>3. ASSUME NEW h \in Handlers, NEW r \in Runs, Fetch(h, r) PROVE DraftsSound'
  BY <1>3, <1>k DEF Fetch, runVars
<1>4. ASSUME NEW h \in Handlers,
             \/ Execute(h) \/ BeginStep(h) \/ Call(h) \/ Return(h) \/ Throw(h)
             \/ DatabaseError(h) \/ Crash(h)
      PROVE  DraftsSound'
  BY <1>4, <1>k DEF Execute, BeginStep, Call, Return, Throw, DatabaseError, Crash, runVars
<1>5. ASSUME NEW h \in Handlers, Claim(h) PROVE DraftsSound'
  <2>1. worker[h].run \in Runs /\ UNCHANGED <<steps, drafts>>
    BY <1>5 DEF Claim
  <2>2. \/ status' = status
        \/ /\ status[worker[h].run] \in {"queued", "running"}
           /\ \E st \in {"failed", "running"} : status' = [status EXCEPT ![worker[h].run] = st]
    BY <1>5 DEF Claim, Claimable
  <2>3. \A r \in Runs : status'[r] = "succeeded" <=> status[r] = "succeeded"
    BY <2>1, <2>2
  <2> QED
    BY <2>1, <2>3, <1>k
<1>6. ASSUME NEW h \in Handlers, RecordFailure(h) PROVE DraftsSound'
  <2>1. UNCHANGED <<steps, drafts>>
    BY <1>6 DEF RecordFailure
  <2>2. \/ status' = status
        \/ status[worker[h].run] = "running" /\ status' = [status EXCEPT ![worker[h].run] = "failed"]
    BY <1>6 DEF RecordFailure, Fenced
  <2>3. \A r \in Runs : status'[r] = "succeeded" <=> status[r] = "succeeded"
    BY <2>2
  <2> QED
    BY <2>1, <2>3, <1>k
<1>7. ASSUME NEW h \in Handlers, WriteCheckpoint(h) PROVE DraftsSound'
  <2>1. UNCHANGED <<status, drafts>>
    BY <1>7 DEF WriteCheckpoint
  <2>2. ASSUME NEW r \in Runs, status[r] = "succeeded" PROVE steps'[r] = steps[r]
    BY <1>7, <2>2 DEF WriteCheckpoint, Fenced
  <2> QED
    BY <2>1, <2>2
<1>8. ASSUME NEW h \in Handlers, Finish(h) PROVE DraftsSound'
  <2> DEFINE r == worker[h].run
             draft == [outputs |-> worker[h].have, channels |-> Surviving(h)]
  <2>1. r \in Runs /\ worker[h].pc = "finishing" /\ steps' = steps
    BY <1>8 DEF Finish
  <2>2. CASE UNCHANGED <<status, drafts>>
    BY <2>1, <2>2, <1>k
  <2>3. CASE /\ Fenced(h) /\ Surviving(h) # {}
             /\ drafts' = [drafts EXCEPT ![r] = Append(drafts[r], draft)]
             /\ status' = [status EXCEPT ![r] = "succeeded"]
    <3>1. status[r] = "running" /\ worker[h].have = steps[r] /\ \A z \in Steps : steps[r][z] # 0
      BY <2>1, <2>3 DEF Fenced, FenceSound, Reading, Held
    <3>2. drafts[r] \in Seq(Draft) /\ Len(drafts[r]) = 0
      BY <2>1, <3>1
    <3>3. Len(drafts'[r]) = 1 /\ drafts'[r][1] = draft
      BY <2>1, <2>3, <3>2
    <3>4. \A q \in Runs \ {r} : drafts'[q] = drafts[q] /\ status'[q] = status[q]
      BY <2>1, <2>3
    <3>5. status'[r] = "succeeded"
      BY <2>1, <2>3
    <3>6. drafts'[r][1].outputs = steps'[r] /\ drafts'[r][1].channels # {}
      BY <2>1, <2>3, <3>1, <3>3
    <3>7. ASSUME NEW q \in Runs
          PROVE  /\ Len(drafts'[q]) = (IF status'[q] = "succeeded" THEN 1 ELSE 0)
                 /\ status'[q] = "succeeded" =>
                        /\ drafts'[q][1].outputs = steps'[q] /\ \A z \in Steps : steps'[q][z] # 0
                        /\ drafts'[q][1].channels # {}
      <4>1. CASE q = r
        BY <2>1, <3>1, <3>3, <3>5, <3>6, <4>1
      <4>2. CASE q # r
        BY <2>1, <3>4, <4>2
      <4> QED
        BY <4>1, <4>2
    <3> QED
      BY <3>7
  <2> QED
    BY <1>8, <2>2, <2>3 DEF Finish
<1> QED
  BY <1>1, <1>2, <1>3, <1>4, <1>5, <1>6, <1>7, <1>8 DEF Next, HandlerStep

LEMMA InitSound == Init => FenceSound /\ DraftsSound
<1> SUFFICES ASSUME Init PROVE FenceSound /\ DraftsSound
  OBVIOUS
<1>1. FenceSound
  BY DEF Init, FenceSound, Idle, Reading, Keyed
<1>2. DraftsSound
  BY DEF Init, DraftsSound, OneDraft, DraftIsCheckpointed
<1> QED
  BY <1>1, <1>2

\* A run leaves one draft if it succeeded and none otherwise, whatever the callbacks, the
\* queue and the lost answers of finish do.
THEOREM RunsLeaveOneDraft == Spec => []OneDraft
<1>1. Init => Types /\ FenceSound /\ DraftsSound
  BY InitHeld, InitSound
<1>2. Types /\ FenceSound /\ DraftsSound /\ [Next]_vars => (Types /\ FenceSound /\ DraftsSound)'
  BY TypeStep, FenceStep, DraftStep
<1>3. DraftsSound => OneDraft
  BY DEF DraftsSound
<1> QED
  BY <1>1, <1>2, <1>3, PTL DEF Spec

\* The draft is made of the run's own checkpoints, all of them, for at least one channel.
THEOREM DraftsAreCheckpointed == Spec => []DraftIsCheckpointed
<1>1. Init => Types /\ FenceSound /\ DraftsSound
  BY InitHeld, InitSound
<1>2. Types /\ FenceSound /\ DraftsSound /\ [Next]_vars => (Types /\ FenceSound /\ DraftsSound)'
  BY TypeStep, FenceStep, DraftStep
<1>3. DraftsSound => DraftIsCheckpointed
  BY DEF DraftsSound
<1> QED
  BY <1>1, <1>2, <1>3, PTL DEF Spec

(***************************************************************************)
(* What a step may never do                                                 *)
(***************************************************************************)
\* What a run ended as is never changed by a late callback, a dead letter or the sweep.
THEOREM VerdictsAreFinal == Spec => VerdictIsFinal
<1>1. Types /\ [Next]_vars => [\A r \in Runs : status[r] \in Settled => status'[r] = status[r]]_vars
  <2> SUFFICES ASSUME Types, Next, NEW r \in Runs, status[r] \in Settled PROVE status'[r] = status[r]
    BY DEF vars
  <2>t. TypeOK /\ worker \in [Handlers -> Held]
    BY DEF Types
  <2>h. \A h \in Handlers : worker[h].pc # "idle" => worker[h].run \in Runs
    BY <2>t DEF Held
  <2> USE <2>t, <2>h DEF TypeOK, Live, Settled
  <2>1. ASSUME NEW q \in Runs,
               \/ Admit(q) \/ Create(q) \/ Cancel(q) \/ Timeout(q) \/ MarkExhausted(q)
               \/ LoseLetter(q) \/ LeaseRunsOut(q) \/ SweepAbandoned(q)
        PROVE  status'[r] = status[r]
    BY <2>1 DEF Admit, Create, Cancel, Timeout, MarkExhausted, LoseLetter, LeaseRunsOut,
                SweepAbandoned, Abandoned, runVars
  <2>2. ASSUME ReplaceKey \/ (\E ch \in Channels : DeleteChannel(ch)) PROVE status'[r] = status[r]
    BY <2>2 DEF ReplaceKey, DeleteChannel, runVars
  <2>3. ASSUME NEW h \in Handlers,
               \/ Execute(h) \/ BeginStep(h) \/ Call(h) \/ WriteCheckpoint(h)
               \/ Return(h) \/ Throw(h) \/ DatabaseError(h) \/ Crash(h)
               \/ \E q \in Runs : Fetch(h, q)
        PROVE  status'[r] = status[r]
    BY <2>3 DEF Execute, BeginStep, Call, WriteCheckpoint, Return, Throw, DatabaseError, Crash,
                Fetch, runVars
  <2>4. ASSUME NEW h \in Handlers, Claim(h) PROVE status'[r] = status[r]
    <3>1. \/ status' = status
          \/ /\ status[worker[h].run] \in {"queued", "running"}
             /\ \E st \in {"failed", "running"} : status' = [status EXCEPT ![worker[h].run] = st]
      BY <2>4 DEF Claim, Claimable
    <3> QED
      BY <3>1
  <2>5. ASSUME NEW h \in Handlers, Finish(h) \/ RecordFailure(h) PROVE status'[r] = status[r]
    <3>1. \/ status' = status
          \/ status[worker[h].run] = "running" /\ \E st : status' = [status EXCEPT ![worker[h].run] = st]
      BY <2>5 DEF Finish, RecordFailure, Fenced
    <3> QED
      BY <3>1
  <2> QED
    BY <2>1, <2>2, <2>3, <2>4, <2>5 DEF Next, HandlerStep
<1>2. Init => Types
  BY InitHeld
<1>3. Types /\ [Next]_vars => Types'
  BY TypeStep
<1> QED
  BY <1>1, <1>2, <1>3, PTL DEF Spec, VerdictIsFinal

\* A callback never begins a step the run already has, and never overwrites a checkpoint:
\* its fence makes its copy the run's own, and the step it turns to is one the copy lacks.
THEOREM StepsBegunOnce == Spec => StepsAreBegunOnce
<1> DEFINE OnlyMissing ==
             /\ \A h \in Handlers :
                    worker[h].pc = "working" /\ worker'[h].pc = "begun"
                       => steps[worker[h].run][NextStep(h)] = 0
             /\ \A r \in Runs, n \in Steps : steps[r][n] # 0 => steps'[r][n] = steps[r][n]
<1>1. ASSUME Types, FenceSound, [Next]_vars
      PROVE  [OnlyMissing]_vars
  <2> SUFFICES ASSUME Next
               PROVE  /\ \A h \in Handlers :
                             worker[h].pc = "working" /\ worker'[h].pc = "begun"
                                => steps[worker[h].run][NextStep(h)] = 0
                      /\ \A r \in Runs, n \in Steps : steps[r][n] # 0 => steps'[r][n] = steps[r][n]
    BY <1>1 DEF vars
  <2>t. /\ TypeOK /\ worker \in [Handlers -> Held]
        /\ \A h \in Handlers : worker[h] \in Worker /\ worker[h] \in Held
    BY <1>1 DEF Types, TypeOK
  <2>h. \A h \in Handlers : worker[h].pc # "idle" => worker[h].run \in Runs
    BY <2>t DEF Held
  <2> DEFINE Begins == \E h \in Handlers : worker[h].pc = "working" /\ worker'[h].pc = "begun"
  <2> USE <2>t, <2>h DEF TypeOK
  \* Everybody else leaves the checkpoints and begins nothing.
  <2>1. ASSUME NEW r \in Runs,
               \/ Admit(r) \/ Create(r) \/ Cancel(r) \/ MarkExhausted(r)
               \/ LoseLetter(r) \/ LeaseRunsOut(r) \/ SweepAbandoned(r)
        PROVE  steps' = steps /\ ~ Begins
    BY <2>1 DEF Admit, Create, Cancel, MarkExhausted, LoseLetter, LeaseRunsOut, SweepAbandoned, runVars
  <2>2. ASSUME NEW r \in Runs, Timeout(r) PROVE steps' = steps /\ ~ Begins
    <3>1. PICK told \in SUBSET Holding(r) :
              worker' = [h \in Handlers |-> IF h \in told THEN [worker[h] EXCEPT !.aborted = TRUE]
                                            ELSE worker[h]]
      BY <2>2 DEF Timeout
    <3>2. \A h \in Handlers : worker'[h].pc = worker[h].pc
      BY <3>1 DEF Worker
    <3> QED
      BY <2>2, <3>2 DEF Timeout, runVars
  <2>3. ASSUME ReplaceKey \/ (\E ch \in Channels : DeleteChannel(ch)) PROVE steps' = steps /\ ~ Begins
    BY <2>3 DEF ReplaceKey, DeleteChannel, runVars
  <2>4. ASSUME NEW h \in Handlers, NEW r \in Runs, Fetch(h, r) PROVE steps' = steps /\ ~ Begins
    <3>1. worker' = [worker EXCEPT ![h] = [Idle EXCEPT !.pc = "fetched", !.run = r]] /\ steps' = steps
      BY <2>4 DEF Fetch, runVars
    <3>2. \A k \in Handlers : worker'[k] = worker[k] \/ worker'[k].pc = "fetched"
      BY <3>1 DEF Idle
    <3> QED
      BY <3>1, <3>2
  <2>5. ASSUME NEW h \in Handlers, Return(h) \/ Throw(h) \/ Crash(h) PROVE steps' = steps /\ ~ Begins
    <3>1. worker' = [worker EXCEPT ![h] = Idle] /\ steps' = steps
      BY <2>5 DEF Return, Throw, Crash, runVars
    <3>2. \A k \in Handlers : worker'[k] = worker[k] \/ worker'[k].pc = "idle"
      BY <3>1 DEF Idle
    <3> QED
      BY <3>1, <3>2
  <2>6. ASSUME NEW h \in Handlers, \/ Claim(h) \/ Execute(h) \/ Call(h) \/ Finish(h)
                                   \/ RecordFailure(h) \/ DatabaseError(h)
        PROVE  steps' = steps /\ ~ Begins
    <3>1. steps' = steps
      BY <2>6 DEF Claim, Execute, Call, Finish, RecordFailure, DatabaseError, runVars
    <3>2. ASSUME NEW k \in Handlers, worker[k].pc = "working" PROVE worker'[k].pc # "begun"
      <4>1. CASE Claim(h)
        BY <3>2, <4>1 DEF Claim, Goto
      <4>2. CASE Execute(h)
        BY <3>2, <4>2 DEF Execute, Goto
      <4>3. CASE Call(h)
        BY <3>2, <4>3 DEF Call, Goto
      <4>4. CASE Finish(h) \/ RecordFailure(h) \/ DatabaseError(h)
        <5>1. worker' = worker \/ \E pc \in PCs \ {"begun"} : Goto(h, pc)
          BY <4>4 DEF Finish, RecordFailure, DatabaseError, PCs
        <5>2. CASE worker' = worker
          BY <3>2, <5>2
        <5>3. ASSUME NEW pc \in PCs \ {"begun"}, Goto(h, pc) PROVE worker'[k].pc # "begun"
          <6>1. worker' = [worker EXCEPT ![h].pc = pc] /\ pc # "begun"
            BY <5>3 DEF Goto
          <6>2. CASE k = h
            BY <6>1, <6>2 DEF Worker
          <6>3. CASE k # h
            BY <3>2, <6>1, <6>3
          <6> QED
            BY <6>2, <6>3
        <5> QED
          BY <5>1, <5>2, <5>3
      <4> QED
        BY <2>6, <4>1, <4>2, <4>3, <4>4
    <3> QED
      BY <3>1, <3>2
  <2>7. ASSUME NEW h \in Handlers, BeginStep(h)
        PROVE  /\ steps' = steps
               /\ \A k \in Handlers : worker[k].pc = "working" /\ worker'[k].pc = "begun"
                     => steps[worker[k].run][NextStep(k)] = 0
    <3>1. ASSUME NEW k \in Handlers, worker[k].pc = "working", worker'[k].pc = "begun"
          PROVE  steps[worker[k].run][NextStep(k)] = 0
      <4>1. k = h /\ Missing(h) # {} /\ Fenced(h)
        <5>1. CASE k # h
          BY <2>7, <3>1, <5>1 DEF BeginStep, Goto
        <5>2. CASE k = h
          <6>1. \/ \E pc \in {"finishing", "returning", "permanent"} : Goto(h, pc)
                \/ Missing(h) # {} /\ Fenced(h)
            BY <2>7 DEF BeginStep
          <6>2. ~ \E pc \in {"finishing", "returning", "permanent"} : Goto(h, pc)
            BY <3>1, <5>2 DEF Goto, Worker
          <6> QED
            BY <5>2, <6>1, <6>2
        <5> QED
          BY <5>1, <5>2
      <4>2. worker[h].have = steps[worker[h].run]
        BY <1>1, <3>1, <4>1 DEF FenceSound, Fenced, Reading
      <4> QED
        BY <4>1, <4>2, NextIsMissing DEF Missing
    <3> QED
      BY <2>7, <3>1 DEF BeginStep
  <2>8. ASSUME NEW h \in Handlers, WriteCheckpoint(h)
        PROVE  /\ ~ Begins
               /\ \A r \in Runs, n \in Steps : steps[r][n] # 0 => steps'[r][n] = steps[r][n]
    <3>1. worker[h].pc = "paid" /\ worker[h].run \in Runs
      BY <2>8 DEF WriteCheckpoint
    <3>2. Missing(h) # {}
      BY <3>1 DEF Held, Missing
    <3>3. ~ Begins
      BY <2>8 DEF WriteCheckpoint, Goto
    <3>4. CASE steps' = steps
      BY <3>3, <3>4
    <3>5. CASE Fenced(h) /\ steps' = [steps EXCEPT ![worker[h].run][NextStep(h)] = worker[h].call]
      <4>1. worker[h].have = steps[worker[h].run]
        BY <1>1, <3>1, <3>5 DEF FenceSound, Fenced, Reading
      <4>2. steps[worker[h].run][NextStep(h)] = 0
        BY <3>2, <4>1, NextIsMissing DEF Missing
      <4> QED
        BY <3>3, <3>5, <4>2
    <3> QED
      BY <2>8, <3>4, <3>5 DEF WriteCheckpoint
  <2> QED
    BY <2>1, <2>2, <2>3, <2>4, <2>5, <2>6, <2>7, <2>8 DEF Next, HandlerStep
<1>2. Init => Types /\ FenceSound
  BY InitHeld, InitSound
<1>3. Types /\ FenceSound /\ [Next]_vars => (Types /\ FenceSound)'
  BY TypeStep, FenceStep
<1>4. [][OnlyMissing]_vars => StepsAreBegunOnce
  BY DEF StepsAreBegunOnce
<1> HIDE DEF OnlyMissing
<1> QED
  BY <1>1, <1>2, <1>3, <1>4, PTL DEF Spec

\* Every billed call goes out under the key revision that is current at that moment.
THEOREM CallsAreCurrent == Spec => CallsUseCurrentKey
<1>1. ASSUME Types, FenceSound, [Next]_vars
      PROVE  [\A h \in Handlers, r \in Runs :
                 (paid'[r] # paid[r] /\ worker[h].run = r /\ worker[h].pc # worker'[h].pc)
                     => worker[h].key = key]_vars
  <2> SUFFICES ASSUME Next, NEW k \in Handlers, NEW r \in Runs,
                      paid'[r] # paid[r], worker[k].run = r, worker[k].pc # worker'[k].pc
               PROVE  worker[k].key = key
    BY <1>1 DEF vars
  <2>1. PICK h \in Handlers : Call(h)
    BY DEF Next, HandlerStep, Admit, Create, Cancel, MarkExhausted, LoseLetter, LeaseRunsOut,
           SweepAbandoned, Timeout, ReplaceKey, DeleteChannel, Fetch, Return, Throw, Crash,
           Claim, Execute, BeginStep, WriteCheckpoint, Finish, RecordFailure, DatabaseError
  <2>2. k = h
    BY <1>1, <2>1 DEF Call, Goto, Types, TypeOK
  <2>3. pin[worker[h].run] = key /\ worker[h].pc = "begun"
    BY <2>1, <2>2 DEF Call, CallAdmitted
  <2> QED
    BY <1>1, <2>2, <2>3 DEF FenceSound, Keyed, Reading
<1>2. Init => Types /\ FenceSound
  BY InitHeld, InitSound
<1>3. Types /\ FenceSound /\ [Next]_vars => (Types /\ FenceSound)'
  BY TypeStep, FenceStep
<1> QED
  BY <1>1, <1>2, <1>3, PTL DEF Spec, CallsUseCurrentKey

(***************************************************************************)
(* The limit of concurrent runs                                             *)
(***************************************************************************)
\* Fewer live runs than before are still no more than allowed.
LEMMA FewerRuns ==
    ASSUME AdmissionSound, LiveRuns' \subseteq LiveRuns, admitting' = admitting,
           \A r \in Runs : status'[r] = "none" /\ pin'[r] # 0 => admitting' = r
    PROVE  AdmissionSound'
<1>1. IsFiniteSet(LiveRuns') /\ Cardinality(LiveRuns') <= Cardinality(LiveRuns)
  BY FS_Subset DEF AdmissionSound
<1>2. Cardinality(LiveRuns) \in Nat /\ Cardinality(LiveRuns') \in Nat
  BY <1>1, FS_CardinalityType DEF AdmissionSound
<1> QED
  BY <1>1, <1>2, GenerationAssumption DEF AdmissionSound, RunLimit

LEMMA AdmissionStep == Types /\ AdmissionSound /\ [Next]_vars => AdmissionSound'
<1> SUFFICES ASSUME Types, AdmissionSound, [Next]_vars PROVE AdmissionSound'
  OBVIOUS
<1>t. TypeOK /\ worker \in [Handlers -> Held]
  BY DEF Types
<1>h. \A h \in Handlers : worker[h].pc # "idle" => worker[h].run \in Runs
  BY <1>t DEF Held
<1> USE GenerationAssumption, <1>t, <1>h DEF TypeOK, Live, Settled
\* No request is admitted, and no run comes to life.
<1>k. ASSUME UNCHANGED <<pin, admitting>>,
             \A r \in Runs : status'[r] = status[r] \/ (status[r] \in Live /\ status'[r] # "none")
      PROVE  AdmissionSound'
  <2>1. LiveRuns' \subseteq LiveRuns
    BY <1>k DEF LiveRuns
  <2>2. \A r \in Runs : status'[r] = "none" /\ pin'[r] # 0 => admitting' = r
    BY <1>k DEF AdmissionSound
  <2> QED
    BY <1>k, <2>1, <2>2, FewerRuns
<1>1. ASSUME NEW r \in Runs, Admit(r) PROVE AdmissionSound'
  <2>1. LiveRuns' = LiveRuns /\ Cardinality(LiveRuns) < MaxConcurrent
    BY <1>1 DEF Admit, MayAdmit, LiveRuns
  <2>2. \A q \in Runs : status'[q] = "none" /\ pin'[q] # 0 => admitting' = q
    BY <1>1 DEF Admit, MayAdmit, AdmissionSound
  <2> QED
    BY <2>1, <2>2 DEF AdmissionSound, RunLimit
<1>2. ASSUME NEW r \in Runs, Create(r) PROVE AdmissionSound'
  <2>1. admitting = r /\ admitting' = None
    BY <1>2 DEF Create, AdmissionSound
  <2>2. LiveRuns' = LiveRuns \cup {r} /\ r \notin LiveRuns
    BY <1>2 DEF Create, LiveRuns
  <2>3. IsFiniteSet(LiveRuns') /\ Cardinality(LiveRuns') = Cardinality(LiveRuns) + 1
    BY <2>2, FS_AddElement DEF AdmissionSound
  <2>4. Cardinality(LiveRuns) < MaxConcurrent /\ Cardinality(LiveRuns) \in Nat
    BY <2>1, FS_CardinalityType DEF AdmissionSound
  <2>5. \A q \in Runs : ~ (status'[q] = "none" /\ pin'[q] # 0)
    BY <1>2, <2>1 DEF Create, AdmissionSound
  <2>6. Cardinality(LiveRuns') <= MaxConcurrent
    BY <2>3, <2>4
  <2> QED
    BY <2>1, <2>3, <2>5, <2>6 DEF AdmissionSound, RunLimit
<1>3. ASSUME NEW r \in Runs,
             Cancel(r) \/ MarkExhausted(r) \/ SweepAbandoned(r)
      PROVE  AdmissionSound'
  <2>1. UNCHANGED <<pin, admitting>>
    BY <1>3 DEF Cancel, MarkExhausted, SweepAbandoned, orgVars
  <2>2. \/ status' = status
        \/ status[r] \in Live /\ \E st \in Settled : status' = [status EXCEPT ![r] = st]
    BY <1>3 DEF Cancel, MarkExhausted, SweepAbandoned, Abandoned
  <2> QED
    BY <2>1, <2>2, <1>k
<1>4. ASSUME NEW r \in Runs, Timeout(r) \/ LoseLetter(r) \/ LeaseRunsOut(r) PROVE AdmissionSound'
  BY <1>4, <1>k DEF Timeout, LoseLetter, LeaseRunsOut, runVars, orgVars
<1>5. ASSUME ReplaceKey \/ (\E ch \in Channels : DeleteChannel(ch)) \/ UNCHANGED vars PROVE AdmissionSound'
  BY <1>5, <1>k DEF ReplaceKey, DeleteChannel, vars, runVars, orgVars
<1>6. ASSUME NEW h \in Handlers,
             \/ Execute(h) \/ BeginStep(h) \/ Call(h) \/ WriteCheckpoint(h)
             \/ Return(h) \/ Throw(h) \/ DatabaseError(h) \/ Crash(h)
             \/ \E q \in Runs : Fetch(h, q)
      PROVE  AdmissionSound'
  BY <1>6, <1>k DEF Execute, BeginStep, Call, WriteCheckpoint, Return, Throw, DatabaseError, Crash,
              Fetch, runVars, orgVars
<1>7. ASSUME NEW h \in Handlers, Claim(h) PROVE AdmissionSound'
  <2>1. UNCHANGED <<pin, admitting>>
    BY <1>7 DEF Claim, orgVars
  <2>2. \/ status' = status
        \/ /\ status[worker[h].run] \in {"queued", "running"}
           /\ \E st \in {"failed", "running"} : status' = [status EXCEPT ![worker[h].run] = st]
    BY <1>7 DEF Claim, Claimable
  <2> QED
    BY <2>1, <2>2, <1>k
<1>8. ASSUME NEW h \in Handlers, Finish(h) \/ RecordFailure(h) PROVE AdmissionSound'
  <2>1. UNCHANGED <<pin, admitting>>
    BY <1>8 DEF Finish, RecordFailure, orgVars
  <2>2. \/ status' = status
        \/ /\ status[worker[h].run] = "running"
           /\ \E st \in {"failed", "succeeded"} : status' = [status EXCEPT ![worker[h].run] = st]
    BY <1>8 DEF Finish, RecordFailure, Fenced
  <2> QED
    BY <2>1, <2>2, <1>k
<1> QED
  BY <1>1, <1>2, <1>3, <1>4, <1>5, <1>6, <1>7, <1>8 DEF Next, HandlerStep

\* The organization never has more runs queued or running than its limit, although a
\* request counts and inserts in separate statements.
THEOREM RunsAreLimited == Spec => []RunLimit
<1>1. Init => Types /\ AdmissionSound
  <2> SUFFICES ASSUME Init PROVE AdmissionSound
    BY InitHeld
  <2>1. LiveRuns = {}
    BY DEF Init, LiveRuns, Live
  <2> QED
    BY <2>1, FS_EmptySet, GenerationAssumption DEF Init, AdmissionSound, RunLimit
<1>2. Types /\ AdmissionSound /\ [Next]_vars => (Types /\ AdmissionSound)'
  BY TypeStep, AdmissionStep
<1>3. AdmissionSound => RunLimit
  BY DEF AdmissionSound
<1> QED
  BY <1>1, <1>2, <1>3, PTL DEF Spec

(***************************************************************************)
(* The parts, with their proofs                                             *)
(***************************************************************************)
SP == INSTANCE StagedProofs WITH Handlers <- StagedHandlers, RetryLimit <- StagedRetries,
        worker <- publisher
LP == INSTANCE RowLocksProofs WITH Sessions <- Handlers, status <- adaptation
TP == INSTANCE TelegramProofs WITH row <- post
WP == INSTANCE WebhookProofs WITH Scanners <- Handlers, status <- hook
CP == INSTANCE AiCallProofs WITH lease <- callLease, holder <- callHolder,
        LongBudget <- 2, ShortBudget <- 1, Grace <- 2, Drain <- 1
AP == INSTANCE AutopilotProofs WITH MaxConcurrent <- AllRuns, job <- check,
        letters <- checkLetters, holder <- runHolder, handler <- checker

(***************************************************************************)
(* The instances are the same                                               *)
(***************************************************************************)
LEMMA SSame ==
    /\ S!Init = SP!Init /\ S!Next = SP!Next /\ S!vars = SP!vars
    /\ S!StagedAssumption <=> SP!StagedAssumption
    /\ S!OneFinalPost <=> SP!OneFinalPost
    /\ S!FailedIsNonpublic <=> SP!FailedIsNonpublic
    /\ S!PublishedStageHasReceipt <=> SP!PublishedStageHasReceipt
    /\ S!OneContainer <=> SP!OneContainer
    /\ S!TypeOK <=> SP!TypeOK
  BY DEF S!StagedAssumption, S!dataVars, S!queueVars, S!vars, S!StageNumbers, S!LivePhases,
         S!EndPhases, S!Phases, S!Row, S!Claim, S!Stage, S!Job, S!NoStage, S!NewClaim,
         S!PublishJob, S!PollJob, S!PCs, S!Idle, S!Worker, S!InFlight, S!Finished, S!Last,
         S!OutcomeUnknown, S!Resolves, S!ClaimsBlock, S!StageSettled, S!KnownFailed,
         S!StageBlocks, S!Blocked, S!LiveStage, S!NoJob, S!Matches, S!Fence, S!Authorized,
         S!Resolved, S!MarkFailed, S!Released, S!Ended, S!Goto, S!Leave, S!Stop, S!Elsewhere,
         S!Decide, S!Approve, S!Reject, S!AssertDelivery, S!Discardable, S!Discard,
         S!ChangeInput, S!Active, S!FetchPublish, S!FetchPoll, S!FailJob, S!Timeout,
         S!TimeoutOrphan, S!Return, S!Crash, S!Preflight, S!Begin, S!RefuseStart, S!Prepare,
         S!SavePrepared, S!Acquirable, S!Acquire, S!Inspect, S!Defer, S!FinalIntent,
         S!AuthorizeFinal, S!Finalize, S!RecordPublished, S!RecordAccepted, S!MayEnd,
         S!EndStage, S!RecordEnd, S!Confirmed, S!RetainReceipt, S!DatabaseError,
         S!LeaseRunsOut, S!DeadlinePasses, S!Recoverable, S!RecoveredPhase, S!Recover,
         S!RecordRecovered, S!SweepPublish, S!Init, S!PersonStep, S!HandlerStep, S!FetchAny,
         S!Next, S!TypeOK, S!Live, S!OneFinalPost, S!FailedIsNonpublic,
         S!PublishedStageHasReceipt, S!OneContainer, S!Cardinality, SP!StagedAssumption,
         SP!dataVars, SP!queueVars, SP!vars, SP!StageNumbers, SP!LivePhases, SP!EndPhases,
         SP!Phases, SP!Row, SP!Claim, SP!Stage, SP!Job, SP!NoStage, SP!NewClaim, SP!PublishJob,
         SP!PollJob, SP!PCs, SP!Idle, SP!Worker, SP!InFlight, SP!Finished, SP!Last,
         SP!OutcomeUnknown, SP!Resolves, SP!ClaimsBlock, SP!StageSettled, SP!KnownFailed,
         SP!StageBlocks, SP!Blocked, SP!LiveStage, SP!NoJob, SP!Matches, SP!Fence,
         SP!Authorized, SP!Resolved, SP!MarkFailed, SP!Released, SP!Ended, SP!Goto, SP!Leave,
         SP!Stop, SP!Elsewhere, SP!Decide, SP!Approve, SP!Reject, SP!AssertDelivery,
         SP!Discardable, SP!Discard, SP!ChangeInput, SP!Active, SP!FetchPublish, SP!FetchPoll,
         SP!FailJob, SP!Timeout, SP!TimeoutOrphan, SP!Return, SP!Crash, SP!Preflight, SP!Begin,
         SP!RefuseStart, SP!Prepare, SP!SavePrepared, SP!Acquirable, SP!Acquire, SP!Inspect,
         SP!Defer, SP!FinalIntent, SP!AuthorizeFinal, SP!Finalize, SP!RecordPublished,
         SP!RecordAccepted, SP!MayEnd, SP!EndStage, SP!RecordEnd, SP!Confirmed,
         SP!RetainReceipt, SP!DatabaseError, SP!LeaseRunsOut, SP!DeadlinePasses,
         SP!Recoverable, SP!RecoveredPhase, SP!Recover, SP!RecordRecovered, SP!SweepPublish,
         SP!Init, SP!PersonStep, SP!HandlerStep, SP!FetchAny, SP!Next, SP!TypeOK, SP!Live,
         SP!OneFinalPost, SP!FailedIsNonpublic, SP!PublishedStageHasReceipt, SP!OneContainer,
         SP!Cardinality

LEMMA LSame ==
    /\ L!Init = LP!Init /\ L!Next = LP!Next /\ L!vars = LP!vars
    /\ L!RowLocksAssumption <=> LP!RowLocksAssumption
    /\ L!NoDeadlock <=> LP!NoDeadlock
    /\ L!PublishedTogether <=> LP!PublishedTogether
    /\ L!ArchivedIsQuiet <=> LP!ArchivedIsQuiet
    /\ L!TypeOK <=> LP!TypeOK
  BY DEF L!RowLocksAssumption, L!vars, L!Items, L!UsedChannels, L!RowsOf, L!RowStatuses,
         L!ItemStatuses, L!Kinds, L!Sweeps, L!WholeItem, L!Undecided, L!Idle, L!Conflicts,
         L!Free, L!Hold, L!Holds, L!NewStatus, L!Writes, L!Seen, L!Scope, L!Wanted, L!RowMode,
         L!NextRow, L!MayInsert, L!MustInsert, L!ItemMode, L!ItemFree, L!NextItemStatus,
         L!RollUp, L!Refused, L!Says, L!Target, L!Begin, L!LockRow, L!LockChannel,
         L!SkipChannel, L!LockItem, L!DeleteChannel, L!Done, L!Commit, L!Rollback, L!Init,
         L!Next, L!TypeOK, L!AsksItem, L!AsksChannel, L!Asks, L!Waits, L!NoDeadlock,
         L!PublishedTogether, L!ArchivedIsQuiet, L!Cardinality, L!IsFiniteSet,
         LP!RowLocksAssumption, LP!vars, LP!Items, LP!UsedChannels, LP!RowsOf, LP!RowStatuses,
         LP!ItemStatuses, LP!Kinds, LP!Sweeps, LP!WholeItem, LP!Undecided, LP!Idle,
         LP!Conflicts, LP!Free, LP!Hold, LP!Holds, LP!NewStatus, LP!Writes, LP!Seen, LP!Scope,
         LP!Wanted, LP!RowMode, LP!NextRow, LP!MayInsert, LP!MustInsert, LP!ItemMode,
         LP!ItemFree, LP!NextItemStatus, LP!RollUp, LP!Refused, LP!Says, LP!Target, LP!Begin,
         LP!LockRow, LP!LockChannel, LP!SkipChannel, LP!LockItem, LP!DeleteChannel, LP!Done,
         LP!Commit, LP!Rollback, LP!Init, LP!Next, LP!TypeOK, LP!AsksItem, LP!AsksChannel,
         LP!Asks, LP!Waits, LP!NoDeadlock, LP!PublishedTogether, LP!ArchivedIsQuiet,
         LP!Cardinality, LP!IsFiniteSet

LEMMA TSame ==
    /\ T!Init = TP!Init /\ T!Next = TP!Next /\ T!vars = TP!vars
    /\ T!TelegramAssumption <=> TP!TelegramAssumption
    /\ T!CheckpointIsTrue <=> TP!CheckpointIsTrue
    /\ T!FailedLeftNoMessage <=> TP!FailedLeftNoMessage
    /\ T!TypeOK <=> TP!TypeOK
  BY DEF T!vars, T!Outcomes, T!Claim, T!NewClaim, T!TelegramAssumption, T!At, T!Idle,
         T!InFlight, T!Partial, T!MayCheckpoint, T!PartialFailure, T!Ending, T!OutcomeOfReply,
         T!OutcomeOfPrimary, T!Goto, T!Leave, T!Fail, T!ClaimSend, T!SendPrimary, T!Release,
         T!Checkpoint, T!Saved, T!FirstCheckpoint, T!SendReply, T!ReplyCheckpoint,
         T!RecordPartial, T!RecordFailure, T!RecordPublished, T!Crash, T!GiveUp, T!Init,
         T!Next, T!PCs, T!TypeOK, T!CheckpointIsTrue, T!FailedLeftNoMessage, TP!vars,
         TP!Outcomes, TP!Claim, TP!NewClaim, TP!TelegramAssumption, TP!At, TP!Idle,
         TP!InFlight, TP!Partial, TP!MayCheckpoint, TP!PartialFailure, TP!Ending,
         TP!OutcomeOfReply, TP!OutcomeOfPrimary, TP!Goto, TP!Leave, TP!Fail, TP!ClaimSend,
         TP!SendPrimary, TP!Release, TP!Checkpoint, TP!Saved, TP!FirstCheckpoint, TP!SendReply,
         TP!ReplyCheckpoint, TP!RecordPartial, TP!RecordFailure, TP!RecordPublished, TP!Crash,
         TP!GiveUp, TP!Init, TP!Next, TP!PCs, TP!TypeOK, TP!CheckpointIsTrue,
         TP!FailedLeftNoMessage

LEMMA WSame ==
    /\ W!Init = WP!Init /\ W!Next = WP!Next /\ W!vars = WP!vars
    /\ W!WebhookAssumption <=> WP!WebhookAssumption
    /\ W!OnlyAskedAgain <=> WP!OnlyAskedAgain
    /\ W!VerdictIsTrue <=> WP!VerdictIsTrue
    /\ W!TypeOK <=> WP!TypeOK
  BY DEF W!WebhookAssumption, W!vars, W!Open, W!Final, W!Answers, W!PCs, W!Idle, W!Scan,
         W!Goto, W!Finish, W!Onward, W!Trigger, W!Record, W!ClosedByRevoke, W!Revoke,
         W!Revoked, W!RevokeCommits, W!Start,
         W!Orphaned, W!CloseRevoked, W!Expired, W!ExpireClaims, W!Claimable, W!Claim,
         W!LoadSubscription, W!OutcomeOfSilence, W!MayRetry, W!Post, W!StillMine, W!RecordEnd,
         W!Fault, W!Age, W!Init, W!ScanStep, W!Next, W!TypeOK, W!OnlyAskedAgain,
         W!VerdictIsTrue, WP!WebhookAssumption, WP!vars, WP!Open, WP!Final, WP!Answers, WP!PCs,
         WP!Idle, WP!Scan, WP!Goto, WP!Finish, WP!Onward, WP!Trigger, WP!Record,
         WP!ClosedByRevoke, WP!Revoke, WP!Revoked,
         WP!RevokeCommits, WP!Start, WP!Orphaned, WP!CloseRevoked, WP!Expired,
         WP!ExpireClaims, WP!Claimable, WP!Claim, WP!LoadSubscription, WP!OutcomeOfSilence,
         WP!MayRetry, WP!Post, WP!StillMine, WP!RecordEnd, WP!Fault, WP!Age, WP!Init,
         WP!ScanStep, WP!Next, WP!TypeOK, WP!OnlyAskedAgain, WP!VerdictIsTrue

LEMMA CSame ==
    /\ C!Init = CP!Init /\ C!Next = CP!Next /\ C!vars = CP!vars
    /\ C!AiCallAssumption <=> CP!AiCallAssumption
    /\ C!LeaseCoversCall <=> CP!LeaseCoversCall
    /\ C!CallsBounded <=> CP!CallsBounded
    /\ C!TypeOK <=> CP!TypeOK
  BY DEF C!AiCallAssumption, C!vars, C!PCs, C!Budget, C!In, C!Live, C!Goto, C!Unlock,
         C!TimedOut, C!Begin, C!LockFree, C!Lock, C!Occupied, C!Admitted, C!Count, C!ExpiresAt,
         C!Commit, C!Refuse, C!Dispatch, C!Settle, C!Release, C!Crash, C!Overdue, C!Tick,
         C!Init, C!Next, C!TypeOK, C!LeaseCoversCall, C!CallsBounded, C!Cardinality,
         C!IsFiniteSet, CP!AiCallAssumption, CP!vars, CP!PCs, CP!Budget, CP!In, CP!Live,
         CP!Goto, CP!Unlock, CP!TimedOut, CP!Begin, CP!LockFree, CP!Lock, CP!Occupied,
         CP!Admitted, CP!Count, CP!ExpiresAt, CP!Commit, CP!Refuse, CP!Dispatch, CP!Settle,
         CP!Release, CP!Crash, CP!Overdue, CP!Tick, CP!Init, CP!Next, CP!TypeOK,
         CP!LeaseCoversCall, CP!CallsBounded, CP!Cardinality, CP!IsFiniteSet

LEMMA ASame ==
    /\ A!Init = AP!Init /\ A!Next = AP!Next /\ A!vars = AP!vars
    /\ A!AutopilotAssumption <=> AP!AutopilotAssumption
    /\ A!VerdictsMatchRuns <=> AP!VerdictsMatchRuns
    /\ A!RunsWithinLimits <=> AP!RunsWithinLimits
    /\ A!TypeOK <=> AP!TypeOK
  BY DEF A!AutopilotAssumption, A!vars, A!Jobs, A!NotYet, A!Pending, A!Closed, A!PCs, A!Idle,
         A!Automatic, A!Live, A!Today, A!Goto, A!NoLiveJob, A!Ask, A!Unlocked, A!Admit,
         A!Create, A!RunEnds, A!Midnight, A!StartScan, A!Fetch, A!FailJob, A!Expire, A!Return,
         A!Throw, A!Crash, A!ClaimAttempt, A!Unanswered, A!Answer, A!Admissible, A!Trigger,
         A!TriggerFails, A!Open, A!Catch, A!Exhausted, A!Stranded, A!SweepManual, A!Init,
         A!HandlerStep, A!Next, A!TypeOK, A!VerdictsMatchRuns, A!RunsWithinLimits,
         A!Cardinality, AP!AutopilotAssumption, AP!vars, AP!Jobs, AP!NotYet, AP!Pending,
         AP!Closed, AP!PCs, AP!Idle, AP!Automatic, AP!Live, AP!Today, AP!Goto, AP!NoLiveJob,
         AP!Ask, AP!Unlocked, AP!Admit, AP!Create, AP!RunEnds, AP!Midnight, AP!StartScan,
         AP!Fetch, AP!FailJob, AP!Expire, AP!Return, AP!Throw, AP!Crash, AP!ClaimAttempt,
         AP!Unanswered, AP!Answer, AP!Admissible, AP!Trigger, AP!TriggerFails, AP!Open,
         AP!Catch, AP!Exhausted, AP!Stranded, AP!SweepManual, AP!Init, AP!HandlerStep, AP!Next,
         AP!TypeOK, AP!VerdictsMatchRuns, AP!RunsWithinLimits, AP!Cardinality

(***************************************************************************)
(* Every part runs as it does alone                                         *)
(***************************************************************************)
LEMMA PartsRun ==
    AllSpec => Spec /\ SP!Spec /\ LP!Spec /\ TP!Spec /\ WP!Spec /\ CP!Spec /\ AP!Spec
<1>1. AllInit => Init /\ SP!Init /\ LP!Init /\ TP!Init /\ WP!Init /\ CP!Init /\ AP!Init
  BY SSame, LSame, TSame, WSame, CSame, ASame DEF AllInit
<1>2. [AllNext]_allVars => [Next]_vars
  BY DEF AllNext, allVars, g
<1>3. [AllNext]_allVars => [TP!Next]_(TP!vars)
  BY TSame DEF AllNext, allVars, t, TP!vars
<1>4. [AllNext]_allVars => [WP!Next]_(WP!vars)
  BY WSame DEF AllNext, allVars, w, WP!vars
<1>5. [AllNext]_allVars => [CP!Next]_(CP!vars)
  BY CSame DEF AllNext, allVars, c, CP!vars
<1>6. [AllNext]_allVars => [AP!Next]_(AP!vars)
  BY ASame DEF AllNext, allVars, a, AP!vars
<1>7. [AllNext]_allVars => [SP!Next]_(SP!vars)
  BY SSame DEF AllNext, allVars, s, SP!vars, SP!dataVars, SP!queueVars
<1>8. [AllNext]_allVars => [LP!Next]_(LP!vars)
  BY LSame DEF AllNext, allVars, l, LP!vars
<1> QED
  BY <1>1, <1>2, <1>3, <1>4, <1>5, <1>6, <1>7, <1>8, PTL
     DEF AllSpec, Spec, SP!Spec, LP!Spec, TP!Spec, WP!Spec, CP!Spec, AP!Spec

LEMMA PartsAssumed ==
    /\ SP!StagedAssumption /\ LP!RowLocksAssumption /\ TP!TelegramAssumption /\ WP!WebhookAssumption
    /\ CP!AiCallAssumption /\ AP!AutopilotAssumption
  BY AroundAssumed, SSame, LSame, TSame, WSame, CSame, ASame DEF AroundAssumption

(***************************************************************************)
(* Theorems                                                                 *)
(***************************************************************************)
\* The types and check constraints of every table, the attempts a job, a webhook or a stage
\* may have among them.
THEOREM TypesKept == AllSpec => []TypesOK
<1>1. AllSpec => Spec /\ SP!Spec /\ LP!Spec /\ TP!Spec /\ WP!Spec /\ CP!Spec /\ AP!Spec
  BY PartsRun
<1>2. AllSpec => [](part \in Parts)
  <2>1. AllInit => part \in Parts
    BY DEF AllInit
  <2>2. part \in Parts /\ [AllNext]_allVars => (part \in Parts)'
    BY DEF AllNext, allVars
  <2> QED
    BY <2>1, <2>2, PTL DEF AllSpec
<1>3. Spec => [](TypeOK /\ Types)
  BY GenerationTypes
<1>4. SP!Spec => []SP!TypeOK
  BY PartsAssumed, SP!StagedTypes
<1>5. LP!Spec => []LP!TypeOK
  BY PartsAssumed, LP!LocksTypes
<1>6. TP!Spec => []TP!TypeOK
  BY PartsAssumed, TP!TelegramTypes
<1>7. WP!Spec => [](WP!TypeOK /\ WP!OnlyAskedAgain /\ WP!VerdictIsTrue)
  BY PartsAssumed, WP!WebhooksTellTheTruth
<1>8. CP!Spec => [](CP!TypeOK /\ CP!LeaseCoversCall /\ CP!CallsBounded)
  BY PartsAssumed, CP!RequestsBounded
<1>9. AP!Spec => []AP!TypeOK
  BY PartsAssumed, AP!AutopilotTypes
<1>10. part \in Parts /\ TypeOK /\ SP!TypeOK /\ LP!TypeOK /\ TP!TypeOK /\ WP!TypeOK /\ CP!TypeOK /\ AP!TypeOK
          => TypesOK
  BY SSame, LSame, TSame, WSame, CSame, ASame DEF TypesOK
<1> QED
  BY <1>1, <1>2, <1>3, <1>4, <1>5, <1>6, <1>7, <1>8, <1>9, <1>10, PTL

\* Meta publication, however often a delivery is approved, prepared and recovered: one post
\* at most that no person has declared undelivered.
THEOREM OneFinalPostKept == AllSpec => []OneFinalPost
<1>1. AllSpec => SP!Spec
  BY PartsRun
<1>2. SP!Spec => []SP!OneFinalPost
  BY PartsAssumed, SP!OneFinalRequest
<1>3. SP!OneFinalPost => OneFinalPost
  BY SSame DEF OneFinalPost
<1> QED
  BY <1>1, <1>2, <1>3, PTL

\* Meta publication: a delivery that reads as plainly failed made nothing public.
THEOREM FailedIsNonpublicKept == AllSpec => []FailedIsNonpublic
<1>1. AllSpec => SP!Spec
  BY PartsRun
<1>2. SP!Spec => []SP!FailedIsNonpublic
  BY PartsAssumed, SP!FailedMeansNothingPublic
<1>3. SP!FailedIsNonpublic => FailedIsNonpublic
  BY SSame DEF FailedIsNonpublic
<1> QED
  BY <1>1, <1>2, <1>3, PTL

\* Meta publication: a stage says published with its own published receipt only.
THEOREM StageReceiptKept == AllSpec => []PublishedStageHasReceipt
<1>1. AllSpec => SP!Spec
  BY PartsRun
<1>2. SP!Spec => []SP!PublishedStageHasReceipt
  BY PartsAssumed, SP!PublishedMeansReceipt
<1>3. SP!PublishedStageHasReceipt => PublishedStageHasReceipt
  BY SSame DEF PublishedStageHasReceipt
<1> QED
  BY <1>1, <1>2, <1>3, PTL

\* Meta publication: no second container while the delivery may own an earlier one.
THEOREM OneContainerKept == AllSpec => []OneContainer
<1>1. AllSpec => SP!Spec
  BY PartsRun
<1>2. SP!Spec => []SP!OneContainer
  BY PartsAssumed, SP!NoSecondContainer
<1>3. SP!OneContainer => OneContainer
  BY SSame DEF OneContainer
<1> QED
  BY <1>1, <1>2, <1>3, PTL

\* Row locks: no transactions wait in a circle, two overlapping sweeps excepted.
THEOREM NoDeadlockKept == AllSpec => []NoDeadlock
<1>1. AllSpec => LP!Spec
  BY PartsRun
<1>2. LP!Spec => []LP!NoDeadlock
  BY PartsAssumed, LP!NobodyWaitsInACircle
<1>3. LP!NoDeadlock => NoDeadlock
  BY LSame DEF NoDeadlock
<1> QED
  BY <1>1, <1>2, <1>3, PTL

\* Row locks: the item reads published exactly when every channel of it does, however the
\* transactions that end its deliveries overlap.
THEOREM PublishedTogetherKept == AllSpec => []PublishedTogether
<1>1. AllSpec => LP!Spec
  BY PartsRun
<1>2. LP!Spec => []LP!PublishedTogether
  BY PartsAssumed, LP!ItemsFollowRows
<1>3. LP!PublishedTogether => PublishedTogether
  BY LSame DEF PublishedTogether
<1> QED
  BY <1>1, <1>2, <1>3, PTL

\* Row locks: an archived item has nothing left to send.
THEOREM ArchivedIsQuietKept == AllSpec => []ArchivedIsQuiet
<1>1. AllSpec => LP!Spec
  BY PartsRun
<1>2. LP!Spec => []LP!ArchivedIsQuiet
  BY PartsAssumed, LP!ArchivedHasNothingToSend
<1>3. LP!ArchivedIsQuiet => ArchivedIsQuiet
  BY LSame DEF ArchivedIsQuiet
<1> QED
  BY <1>1, <1>2, <1>3, PTL

\* Row locks: only a restore brings an archived item back.
THEOREM ArchivedStaysKept == AllSpec => ArchivedStays
<1>1. AllSpec => LP!Spec
  BY PartsRun
<1>2. LP!Spec => LP!ArchivedStays
  BY PartsAssumed, LP!OnlyRestoreRevives
<1>3. LP!ArchivedStays => ArchivedStays
  BY DEF LP!ArchivedStays, ArchivedStays, L!ArchivedStays, LP!vars, L!vars, LP!Items, L!Items
<1> QED
  BY <1>1, <1>2, <1>3, PTL

\* Long Telegram posts: the receipt's remaining text misses no message and repeats at most
\* the one whose answer is outstanding.
THEOREM CheckpointKept == AllSpec => []CheckpointIsTrue
<1>1. AllSpec => TP!Spec
  BY PartsRun
<1>2. TP!Spec => []TP!CheckpointIsTrue
  BY PartsAssumed, TP!CheckpointTellsTruth
<1>3. TP!CheckpointIsTrue => CheckpointIsTrue
  BY TSame DEF CheckpointIsTrue
<1> QED
  BY <1>1, <1>2, <1>3, PTL

\* Long Telegram posts: plain failure left no message behind.
THEOREM FailedLeftNoMessageKept == AllSpec => []FailedLeftNoMessage
<1>1. AllSpec => TP!Spec
  BY PartsRun
<1>2. TP!Spec => []TP!FailedLeftNoMessage
  BY PartsAssumed, TP!FailedLeftNothing
<1>3. TP!FailedLeftNoMessage => FailedLeftNoMessage
  BY TSame DEF FailedLeftNoMessage
<1> QED
  BY <1>1, <1>2, <1>3, PTL

\* Long Telegram posts: what was recorded as delivered stays recorded.
THEOREM RemainingKept == AllSpec => RemainingOnlyShrinks
<1>1. AllSpec => TP!Spec
  BY PartsRun
<1>2. TP!Spec => TP!RemainingOnlyShrinks
  BY PartsAssumed, TP!RemainderShrinks
<1>3. TP!RemainingOnlyShrinks => RemainingOnlyShrinks
  BY DEF TP!RemainingOnlyShrinks, RemainingOnlyShrinks, T!RemainingOnlyShrinks, TP!vars, T!vars,
         TP!Partial, T!Partial
<1> QED
  BY <1>1, <1>2, <1>3, PTL

\* Webhooks: only an explicit request to come again is followed by another request.
THEOREM OnlyAskedAgainKept == AllSpec => []OnlyAskedAgain
<1>1. AllSpec => WP!Spec
  BY PartsRun
<1>2. WP!Spec => [](WP!TypeOK /\ WP!OnlyAskedAgain /\ WP!VerdictIsTrue)
  BY PartsAssumed, WP!WebhooksTellTheTruth
<1>3. WP!OnlyAskedAgain => OnlyAskedAgain
  BY WSame DEF OnlyAskedAgain
<1> QED
  BY <1>1, <1>2, <1>3, PTL

\* Webhooks: sent and failed are true of what the receiver has been told.
THEOREM VerdictIsTrueKept == AllSpec => []VerdictIsTrue
<1>1. AllSpec => WP!Spec
  BY PartsRun
<1>2. WP!Spec => [](WP!TypeOK /\ WP!OnlyAskedAgain /\ WP!VerdictIsTrue)
  BY PartsAssumed, WP!WebhooksTellTheTruth
<1>3. WP!VerdictIsTrue => VerdictIsTrue
  BY WSame DEF VerdictIsTrue
<1> QED
  BY <1>1, <1>2, <1>3, PTL

\* AI admission: a request on its way is covered by its lease to its end.
THEOREM LeaseCoversCallKept == AllSpec => []LeaseCoversCall
<1>1. AllSpec => CP!Spec
  BY PartsRun
<1>2. CP!Spec => [](CP!TypeOK /\ CP!LeaseCoversCall /\ CP!CallsBounded)
  BY PartsAssumed, CP!RequestsBounded
<1>3. CP!LeaseCoversCall => LeaseCoversCall
  BY CSame DEF LeaseCoversCall
<1> QED
  BY <1>1, <1>2, <1>3, PTL

\* AI admission: the limits bound the requests on their way, whatever became of their rows.
THEOREM CallsBoundedKept == AllSpec => []CallsBounded
<1>1. AllSpec => CP!Spec
  BY PartsRun
<1>2. CP!Spec => [](CP!TypeOK /\ CP!LeaseCoversCall /\ CP!CallsBounded)
  BY PartsAssumed, CP!RequestsBounded
<1>3. CP!CallsBounded => CallsBounded
  BY CSame DEF CallsBounded
<1> QED
  BY <1>1, <1>2, <1>3, PTL

\* Autopilot: "dispatched" stands where a run was started and nowhere else.
THEOREM VerdictsMatchRunsKept == AllSpec => []VerdictsMatchRuns
<1>1. AllSpec => AP!Spec
  BY PartsRun
<1>2. AP!Spec => []AP!VerdictsMatchRuns
  BY PartsAssumed, AP!DispatchedMeansOneRun
<1>3. AP!VerdictsMatchRuns => VerdictsMatchRuns
  BY ASame DEF VerdictsMatchRuns
<1> QED
  BY <1>1, <1>2, <1>3, PTL

\* Autopilot: the limits hold, whoever starts runs at the same moment.
THEOREM RunsWithinLimitsKept == AllSpec => []RunsWithinLimits
<1>1. AllSpec => AP!Spec
  BY PartsRun
<1>2. AP!Spec => []AP!RunsWithinLimits
  BY PartsAssumed, AP!LimitsHold
<1>3. AP!RunsWithinLimits => RunsWithinLimits
  BY ASame DEF RunsWithinLimits
<1> QED
  BY <1>1, <1>2, <1>3, PTL

\* A webhook delivery, a scan and a manual check stay as they ended, and so does a stage, but
\* for a person's discard of a lost preparation and a publication that had ended as unknown
\* and that the stage's own published receipt confirms.
THEOREM EndsStay == AllSpec => EndsAreFinal
<1>1. AllSpec => SP!Spec /\ WP!Spec /\ AP!Spec
  BY PartsRun
<1>2. SP!Spec => SP!StageEndsOnce
  BY PartsAssumed, SP!StageKeepsItsEnd
<1>3. WP!Spec => WP!EndIsFinal
  BY PartsAssumed, WP!WebhookEndsAreFinal
<1>4. AP!Spec => AP!AnswersAreFinal
  BY PartsAssumed, AP!AnswersStay
<1>5. SP!StageEndsOnce => S!StageEndsOnce
  BY DEF SP!StageEndsOnce, SP!ReceiptConfirms, SP!vars, SP!dataVars, SP!queueVars,
         SP!EndPhases, SP!Phases, SP!LivePhases, SP!StageNumbers, SP!Discard,
         SP!Discardable, SP!Decide, SP!Ended, SP!Released, SP!NoJob, SP!Blocked,
         SP!ClaimsBlock, SP!StageBlocks, SP!StageSettled, SP!KnownFailed, SP!Resolves,
         SP!InFlight, SP!Finished, SP!Last, S!StageEndsOnce, S!ReceiptConfirms, S!vars,
         S!dataVars, S!queueVars, S!EndPhases, S!Phases, S!LivePhases, S!StageNumbers,
         S!Discard, S!Discardable, S!Decide, S!Ended, S!Released, S!NoJob, S!Blocked,
         S!ClaimsBlock, S!StageBlocks, S!StageSettled, S!KnownFailed, S!Resolves,
         S!InFlight, S!Finished, S!Last
<1>6. WP!EndIsFinal => W!EndIsFinal
  BY DEF WP!EndIsFinal, W!EndIsFinal, WP!vars, W!vars, WP!Final, W!Final
<1>7. AP!AnswersAreFinal => A!AnswersAreFinal
  BY DEF AP!AnswersAreFinal, A!AnswersAreFinal, AP!vars, A!vars, AP!Closed, A!Closed
<1> QED
  BY <1>1, <1>2, <1>3, <1>4, <1>5, <1>6, <1>7 DEF EndsAreFinal

\* Generation runs: one draft a run, under its checkpoint; a verdict stays, no step begins
\* twice, and no call is sent with a key that was replaced.
THEOREM GenerationKept ==
    AllSpec => []OneDraft /\ []DraftIsCheckpointed /\ VerdictIsFinal /\ StepsAreBegunOnce
               /\ CallsUseCurrentKey
  BY PartsRun, RunsLeaveOneDraft, DraftsAreCheckpointed, VerdictsAreFinal, StepsBegunOnce,
     CallsAreCurrent, PTL
=============================================================================
