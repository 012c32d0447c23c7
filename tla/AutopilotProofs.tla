--------------------------- MODULE AutopilotProofs ---------------------------
(***************************************************************************)
(* Module Autopilot proved about: the record of who started which run is    *)
(* true, and the limits hold whoever starts runs at the same moment.        *)
(*                                                                         *)
(* The inductive invariant is AutopilotInv.  A step either leaves           *)
(* the dispatches alone and closes no verdict as "dispatched", or it is the *)
(* one transaction of trigger (lemma Moves); the limits are then a matter   *)
(* of counting, with the room that the advisory lock keeps for the request  *)
(* that holds it (Room).                                                    *)
(***************************************************************************)
EXTENDS Autopilot, FiniteSetTheorems, TLAPS

\* What a scan or a manual check reads as.
Word(j) == IF j \in ScanJobs THEN event[j] ELSE attempt[j]

StartedBy(j) == {t \in Topics : dispatch[t].by = j}

\* A callback at work has a job, and only one of a manual check still has to claim.
Busy ==
    \A h \in Handlers : /\ handler[h].pc # "idle" => handler[h].of \in Jobs
                        /\ handler[h].pc = "fetched" => handler[h].of \in Attempts

OneRunEach ==
    \A j \in Jobs : /\ Word(j) = "dispatched" <=> StartedBy(j) # {}
                    /\ \A t, u \in StartedBy(j) : t = u

\* The request that holds the advisory lock has counted, and nobody started a run since.
Room == holder # None => Cardinality(Live) < MaxConcurrent

OnDay(d) == {t \in Automatic : dispatch[t].day = d}

Counted ==
    /\ IsFiniteSet(Live) /\ Cardinality(Live) <= MaxConcurrent
    /\ IsFiniteSet(Automatic)
    /\ \A t, u \in Automatic : run[t] = "live" /\ run[u] = "live" => t = u
    /\ \A d \in 1..MaxDay : Cardinality(OnDay(d)) <= DailyLimit

AutopilotInv == TypeOK /\ Busy /\ OneRunEach /\ Room /\ Counted

(***************************************************************************)
(* What a step may do                                                       *)
(***************************************************************************)
\* Verdicts change while they are open only, and none becomes "dispatched".
WordsMove ==
    \A j \in Jobs : \/ Word(j)' = Word(j)
                    \/ Word(j) \notin Closed /\ Word(j)' # "dispatched"

\* The transaction of trigger that starts a run.
Started(j, t) ==
    /\ j \in Jobs /\ t \in Topics \ Automatic /\ Word(j) \notin Closed
    /\ Admissible /\ Unlocked
    /\ dispatch' = [dispatch EXCEPT ![t] = [by |-> j, day |-> day]]
    /\ run' = [run EXCEPT ![t] = "live"]
    /\ holder' = holder
    /\ Word(j)' = "dispatched"
    /\ \A k \in Jobs : k # j => Word(k)' = Word(k)

RunsMove ==
    \/ run' = run /\ (holder' = holder \/ Cardinality(Live) < MaxConcurrent)
    \/ \E q \in Requests : holder = q /\ holder' = None /\ run' = [run EXCEPT ![q] = "live"]
    \/ \E o \in Topics \cup Requests : holder' = holder /\ run' = [run EXCEPT ![o] = "over"]

\* Answer records a decision of one job.
LEMMA AnswerIs ==
    ASSUME AutopilotAssumption, TypeOK, NEW j \in Jobs, NEW decision, Answer(j, decision)
    PROVE  Word(j)' = decision /\ \A k \in Jobs : k # j => Word(k)' = Word(k)
  BY DEF AutopilotAssumption, TypeOK, Jobs, Answer, Word

LEMMA AttemptIs ==
    ASSUME AutopilotAssumption, TypeOK, NEW a \in Attempts, NEW word,
           attempt' = [attempt EXCEPT ![a] = word], event' = event
    PROVE  Word(a)' = word /\ Word(a) = attempt[a] /\ \A k \in Jobs : k # a => Word(k)' = Word(k)
  BY DEF AutopilotAssumption, TypeOK, Jobs, Word

LEMMA WordsStay == ASSUME attempt' = attempt, event' = event PROVE WordsMove
  BY DEF WordsMove, Word

LEMMA Moves ==
    ASSUME AutopilotAssumption, TypeOK, Busy, [Next]_vars
    PROVE  \/ dispatch' = dispatch /\ WordsMove /\ RunsMove
           \/ \E j \in Jobs, t \in Topics : Started(j, t)
<1>0. AutopilotAssumption /\ TypeOK
  OBVIOUS
<1>a. "dispatched" \notin {"none", "queued", "running", "failed", "refused"}
      /\ Closed \cap {"none", "queued", "running"} = {}
  BY DEF Closed
<1>1. ASSUME NEW j \in Jobs, Word(j) \notin Closed, NEW word, word # "dispatched",
             Word(j)' = word, \A k \in Jobs : k # j => Word(k)' = Word(k)
      PROVE  WordsMove
  BY <1>1 DEF WordsMove
<1>2. ASSUME NEW a \in Attempts, Ask(a) PROVE WordsMove
  <2> DEFINE gone == {b \in Attempts : attempt[b] \in Pending /\ NoLiveJob(b)}
  <2>1. /\ attempt[a] = "none" /\ event' = event
        /\ attempt' = [b \in Attempts |-> IF b = a THEN "queued"
                                          ELSE IF b \in gone THEN "failed" ELSE attempt[b]]
    BY <1>2 DEF Ask
  <2>2. ASSUME NEW j \in Jobs 
        PROVE  \/ Word(j)' = Word(j)
               \/ Word(j) \notin Closed /\ Word(j)' # "dispatched"
    <3>1. CASE j \in ScanJobs
      BY <2>1, <3>1 DEF Word
    <3>2. CASE j \notin ScanJobs
      <4>1. j \in Attempts /\ Word(j) = attempt[j] /\ Word(j)' = attempt'[j]
        BY <3>2 DEF Word, Jobs
      <4>2. CASE j = a
        BY <2>1, <4>1, <4>2 DEF Closed
      <4>3. CASE j # a /\ j \in gone
        <5>1. attempt[j] \in Pending /\ attempt'[j] = "failed"
          BY <2>1, <4>1, <4>3
        <5> QED
          BY <4>1, <5>1 DEF Pending, Closed
      <4>4. CASE j # a /\ j \notin gone
        <5>1. attempt'[j] = attempt[j]
          BY <2>1, <4>1, <4>4
        <5> QED
          BY <4>1, <5>1
      <4> QED
        BY <4>2, <4>3, <4>4
    <3> QED
      BY <3>1, <3>2
  <2> QED
    BY <2>2 DEF WordsMove
<1>3. ASSUME NEW a \in Attempts, Exhausted(a) PROVE WordsMove
  <2>1. a \in Jobs /\ a \notin ScanJobs
    BY <1>0 DEF AutopilotAssumption, Jobs
  <2>2. CASE attempt' = attempt
    BY <1>3, <2>2, WordsStay DEF Exhausted
  <2>3. CASE attempt' = [attempt EXCEPT ![a] = IF Open(a) THEN "failed" ELSE @] /\ Open(a)
    <3>1. attempt' = [attempt EXCEPT ![a] = "failed"] /\ event' = event /\ attempt[a] \in Pending
      BY <1>3, <2>1, <2>3 DEF Open, Exhausted
    <3>2. Word(a)' = "failed" /\ Word(a) \notin Closed /\ \A k \in Jobs : k # a => Word(k)' = Word(k)
      BY <1>0, <3>1, AttemptIs DEF Pending, Closed
    <3> QED
      BY <1>1, <2>1, <3>2
  <2>4. CASE attempt' = [attempt EXCEPT ![a] = IF Open(a) THEN "failed" ELSE @] /\ ~ Open(a)
    <3>1. attempt' = attempt
      BY <1>0, <2>4 DEF TypeOK
    <3> QED
      BY <1>3, <3>1, WordsStay DEF Exhausted
  <2> QED
    BY <1>3, <2>2, <2>3, <2>4 DEF Exhausted
<1>4. ASSUME NEW a \in Attempts, SweepManual(a) PROVE WordsMove
  <2>1. attempt' = [attempt EXCEPT ![a] = "failed"] /\ event' = event /\ attempt[a] \in Pending
    BY <1>4 DEF SweepManual, Stranded
  <2>2. Word(a)' = "failed" /\ Word(a) \notin Closed /\ \A k \in Jobs : k # a => Word(k)' = Word(k)
    BY <1>0, <2>1, AttemptIs DEF Pending, Closed
  <2> QED
    BY <1>1, <2>2 DEF Jobs
<1>5. ASSUME NEW h \in Handlers, ClaimAttempt(h) PROVE WordsMove
  <2>1. event' = event /\ \E a \in Attempts : a = handler[h].of
    BY <1>5 DEF ClaimAttempt, Busy
  <2>a. PICK a \in Attempts : a = handler[h].of
    BY <2>1
  <2>2. CASE attempt' = attempt
    BY <2>1, <2>2, WordsStay
  <2>3. CASE attempt[a] = "queued" /\ attempt' = [attempt EXCEPT ![a] = "running"]
    <3>1. Word(a)' = "running" /\ Word(a) \notin Closed /\ \A k \in Jobs : k # a => Word(k)' = Word(k)
      BY <1>0, <2>1, <2>3, AttemptIs DEF Closed
    <3> QED
      BY <1>1, <2>1, <3>1 DEF Jobs
  <2> QED
    BY <1>5, <2>a, <2>2, <2>3 DEF ClaimAttempt
<1>6. ASSUME NEW h \in Handlers, Catch(h) PROVE WordsMove
  <2>1. PICK j \in Jobs : j = handler[h].of
    BY <1>6 DEF Catch, Busy
  <2>2. CASE attempt' = attempt /\ event' = event
    BY <2>2, WordsStay
  <2>3. CASE Open(j) /\ Answer(j, "failed")
    <3>1. Word(j) \notin Closed
      BY <2>3 DEF Open, Word, Closed, Pending
    <3> QED
      BY <1>0, <1>1, <2>3, <3>1, AnswerIs
  <2> QED
    BY <1>6, <2>1, <2>2, <2>3 DEF Catch
<1>7. ASSUME NEW h \in Handlers, Trigger(h)
      PROVE  \/ dispatch' = dispatch /\ WordsMove /\ RunsMove
             \/ \E j \in Jobs, t \in Topics : Started(j, t)
  <2>j. PICK j \in Jobs : j = handler[h].of
    BY <1>7 DEF Trigger, Busy
  <2>1. holder' = holder /\ Unlocked
    BY <1>7 DEF Trigger
  <2>2. Unanswered(j) => Word(j) \notin Closed
    BY DEF Unanswered, Word, Closed
  <2>3. CASE UNCHANGED <<dispatch, run, attempt, event>>
    BY <2>1, <2>3, WordsStay DEF RunsMove
  <2>4. CASE Unanswered(j) /\ Answer(j, "refused") /\ UNCHANGED <<dispatch, run>>
    <3>1. WordsMove
      BY <1>0, <1>1, <2>2, <2>4, AnswerIs
    <3> QED
      BY <2>1, <2>4, <3>1 DEF RunsMove
  <2>5. ASSUME Unanswered(j), Admissible, NEW t \in Topics \ Automatic,
               dispatch' = [dispatch EXCEPT ![t] = [by |-> j, day |-> day]],
               run' = [run EXCEPT ![t] = "live"], Answer(j, "dispatched")
        PROVE  Started(j, t)
    BY <1>0, <2>1, <2>2, <2>5, AnswerIs DEF Started
  <2>6. \/ UNCHANGED <<dispatch, run, attempt, event>>
        \/ Unanswered(j) /\ Answer(j, "refused") /\ UNCHANGED <<dispatch, run>>
        \/ /\ Unanswered(j) /\ Admissible
           /\ \E t \in Topics \ Automatic :
                 /\ dispatch' = [dispatch EXCEPT ![t] = [by |-> j, day |-> day]]
                 /\ run' = [run EXCEPT ![t] = "live"]
           /\ Answer(j, "dispatched")
    BY <1>7, <2>j DEF Trigger
  <2> QED
    BY <2>1, <2>3, <2>4, <2>5, <2>6
<1>8. ASSUME NEW q \in Requests, Admit(q)
      PROVE  dispatch' = dispatch /\ WordsMove /\ RunsMove
  BY <1>8, WordsStay DEF Admit, RunsMove
<1>9. ASSUME NEW q \in Requests, Create(q)
      PROVE  dispatch' = dispatch /\ WordsMove /\ RunsMove
  BY <1>9, WordsStay DEF Create, RunsMove
<1>10. ASSUME NEW o \in Topics \cup Requests, RunEnds(o)
       PROVE  dispatch' = dispatch /\ WordsMove /\ RunsMove
  BY <1>10, WordsStay DEF RunEnds, RunsMove
<1>11. ASSUME dispatch' = dispatch, run' = run, holder' = holder, WordsMove
       PROVE  dispatch' = dispatch /\ WordsMove /\ RunsMove
  BY <1>11 DEF RunsMove
<1>12. CASE \E a \in Attempts : Ask(a) \/ Exhausted(a) \/ SweepManual(a)
  <2>1. dispatch' = dispatch /\ run' = run /\ holder' = holder
    BY <1>12 DEF Ask, Exhausted, SweepManual
  <2> QED
    BY <1>2, <1>3, <1>4, <1>11, <1>12, <2>1
<1>13. ASSUME NEW h \in Handlers, HandlerStep(h)
       PROVE  \/ dispatch' = dispatch /\ WordsMove /\ RunsMove
              \/ \E j \in Jobs, t \in Topics : Started(j, t)
  <2>1. CASE ClaimAttempt(h) \/ Catch(h)
    <3>1. dispatch' = dispatch /\ run' = run /\ holder' = holder
      BY <2>1 DEF ClaimAttempt, Catch
    <3> QED
      BY <1>5, <1>6, <1>11, <2>1, <3>1
  <2>2. CASE Return(h) \/ Throw(h)
    <3>1. dispatch' = dispatch /\ run' = run /\ holder' = holder /\ attempt' = attempt /\ event' = event
      BY <2>2 DEF Return, Throw
    <3> QED
      BY <1>11, <3>1, WordsStay
  <2> QED
    BY <1>7, <1>13, <2>1, <2>2 DEF HandlerStep
<1>14. CASE \/ \E j \in ScanJobs : StartScan(j)
            \/ \E j \in Jobs : Expire(j)
            \/ \E h \in Handlers : TriggerFails(h) \/ Crash(h) \/ \E j \in Jobs : Fetch(h, j)
            \/ Midnight
            \/ UNCHANGED vars
  <2>1. dispatch' = dispatch /\ run' = run /\ holder' = holder /\ attempt' = attempt /\ event' = event
    BY <1>14 DEF StartScan, Expire, TriggerFails, Crash, Fetch, Midnight, vars
  <2> QED
    BY <1>11, <2>1, WordsStay
<1> QED
  BY <1>8, <1>9, <1>10, <1>12, <1>13, <1>14 DEF Next

(***************************************************************************)
(* Types                                                                    *)
(***************************************************************************)
JobRec == [st : {"none", "waiting", "active", "ended"}, left : 0..ScanRetries]
HandlerRec == [pc : PCs, of : Jobs \cup {None}]

\* Every handler is idle or has its job.
BusyOne(r) == /\ r.pc # "idle" => r.of \in Jobs
              /\ r.pc = "fetched" => r.of \in Attempts

LEMMA IdleIs == Idle \in HandlerRec /\ BusyOne(Idle)
  BY DEF Idle, HandlerRec, PCs, BusyOne

LEMMA GotoKeeps ==
    ASSUME handler \in [Handlers -> HandlerRec], Busy, NEW h \in Handlers,
           handler[h].pc # "idle", NEW pc \in PCs \ {"fetched"}, Goto(h, pc)
    PROVE  handler' \in [Handlers -> HandlerRec] /\ Busy'
<1>1. [handler[h] EXCEPT !.pc = pc] \in HandlerRec /\ BusyOne([handler[h] EXCEPT !.pc = pc])
  BY DEF HandlerRec, BusyOne, Busy
<1>2. handler' = [handler EXCEPT ![h] = [handler[h] EXCEPT !.pc = pc]]
  BY DEF Goto
<1> QED
  BY <1>1, <1>2 DEF Busy, BusyOne

LEMMA HandlerKeeps ==
    ASSUME handler \in [Handlers -> HandlerRec], Busy, NEW h \in Handlers,
           NEW r \in HandlerRec, BusyOne(r), handler' = [handler EXCEPT ![h] = r]
    PROVE  handler' \in [Handlers -> HandlerRec] /\ Busy'
  BY DEF Busy, BusyOne

LEMMA StatusKeeps ==
    ASSUME job \in [Jobs -> JobRec], NEW j \in Jobs,
           NEW st \in {"none", "waiting", "active", "ended"}, job' = [job EXCEPT ![j].st = st]
    PROVE  job' \in [Jobs -> JobRec]
<1>1. [job[j] EXCEPT !.st = st] \in JobRec
  BY DEF JobRec
<1>2. job' = [job EXCEPT ![j] = [job[j] EXCEPT !.st = st]]
  OBVIOUS
<1> QED
  BY <1>1, <1>2

LEMMA FailJobKeeps ==
    ASSUME AutopilotAssumption, job \in [Jobs -> JobRec], letters \subseteq Attempts,
           NEW j \in Jobs, FailJob(j)
    PROVE  job' \in [Jobs -> JobRec] /\ letters' \subseteq Attempts
<1>1. CASE UNCHANGED <<job, letters>>
  BY <1>1
<1>2. CASE /\ job[j].left > 0
           /\ job' = [job EXCEPT ![j] = [st |-> "waiting", left |-> @.left - 1]]
           /\ UNCHANGED letters
  <2>1. job[j].left - 1 \in 0..ScanRetries
    BY <1>2 DEF JobRec, AutopilotAssumption
  <2>2. [st |-> "waiting", left |-> job[j].left - 1] \in JobRec
    BY <2>1 DEF JobRec
  <2> QED
    BY <1>2, <2>2
<1>3. CASE job' = [job EXCEPT ![j].st = "ended"] /\ letters' = letters \cup ({j} \cap Attempts)
  BY <1>3, StatusKeeps
<1> QED
  BY <1>1, <1>2, <1>3 DEF FailJob

\* The tables of the runs, of the answers and of the queues, one by one.
Words  == /\ attempt \in [Attempts -> {"none"} \cup Pending \cup Closed]
          /\ event \in [ScanJobs -> {"none"} \cup Closed]
Runs   == /\ dispatch \in [Topics -> [by : Jobs \cup {None}, day : 0..MaxDay]]
          /\ run \in [Topics \cup Requests -> {"none", "live", "over"}]
          /\ holder \in Requests \cup {None} /\ day \in 1..MaxDay
Queues == job \in [Jobs -> JobRec] /\ letters \subseteq Attempts
Callbacks == handler \in [Handlers -> HandlerRec] /\ Busy

LEMMA TypesAre == TypeOK /\ Busy <=> Words /\ Runs /\ Queues /\ Callbacks
  BY DEF TypeOK, Words, Runs, Queues, Callbacks, JobRec, HandlerRec

LEMMA WordsKept ==
    ASSUME AutopilotAssumption, Words, NEW j \in Jobs, NEW word \in Closed, Answer(j, word)
    PROVE  Words'
  BY DEF AutopilotAssumption, Words, Answer, Jobs

LEMMA TypesStep ==
    ASSUME AutopilotAssumption, TypeOK, Busy, [Next]_vars PROVE TypeOK' /\ Busy'
<1>0. Words /\ Runs /\ Queues /\ Callbacks
  BY TypesAre
<1>s. SUFFICES Words' /\ Runs' /\ Queues' /\ Callbacks'
  <2>1. TypeOK' /\ Busy' <=> Words' /\ Runs' /\ Queues' /\ Callbacks'
    BY DEF TypeOK, Words, Runs, Queues, Callbacks, JobRec, HandlerRec
  <2> QED
    BY <2>1
<1>w. ASSUME attempt' = attempt, event' = event PROVE Words'
  BY <1>0, <1>w DEF Words
<1>r. ASSUME dispatch' = dispatch, run' = run, holder' = holder, day' = day PROVE Runs'
  BY <1>0, <1>r DEF Runs
<1>q. ASSUME job' = job, letters' = letters PROVE Queues'
  BY <1>0, <1>q DEF Queues
<1>c. ASSUME handler' = handler PROVE Callbacks'
  BY <1>0, <1>c DEF Callbacks, Busy
<1>g. ASSUME NEW h \in Handlers, handler[h].pc # "idle", NEW pc \in PCs \ {"fetched"}, Goto(h, pc)
      PROVE  Callbacks'
  BY <1>0, <1>g, GotoKeeps DEF Callbacks
<1>i. ASSUME NEW h \in Handlers, handler' = [handler EXCEPT ![h] = Idle] PROVE Callbacks'
  BY <1>0, <1>i, HandlerKeeps, IdleIs DEF Callbacks
<1>b. ASSUME NEW h \in Handlers, handler[h].pc # "idle" PROVE \E j \in Jobs : j = handler[h].of
  BY <1>0, <1>b DEF Callbacks, Busy
<1>1. ASSUME NEW a \in Attempts, Ask(a) PROVE Words' /\ Runs' /\ Queues' /\ Callbacks'
  <2> DEFINE gone == {b \in Attempts : attempt[b] \in Pending /\ NoLiveJob(b)}
  <2>1. /\ event' = event
        /\ attempt' = [b \in Attempts |-> IF b = a THEN "queued"
                                          ELSE IF b \in gone THEN "failed" ELSE attempt[b]]
        /\ job' = [job EXCEPT ![a].st = "waiting"] /\ letters' = letters
        /\ UNCHANGED <<dispatch, run, holder, day, handler>>
    BY <1>1 DEF Ask
  <2> HIDE DEF gone
  <2>2. Words'
    BY <1>0, <2>1 DEF Words, Pending, Closed
  <2>3. Queues'
    BY <1>0, <2>1, StatusKeeps DEF Queues, Jobs
  <2> QED
    BY <1>r, <1>c, <2>1, <2>2, <2>3
<1>2. ASSUME NEW a \in Attempts, Exhausted(a) PROVE Words' /\ Runs' /\ Queues' /\ Callbacks'
  <2>1. /\ letters' = letters \ {a} /\ event' = event
        /\ attempt' = [attempt EXCEPT ![a] = "failed"] \/ attempt' = attempt
        /\ UNCHANGED <<dispatch, run, holder, day, handler, job>>
    <3>1. [attempt EXCEPT ![a] = attempt[a]] = attempt
      BY <1>0 DEF Words
    <3> QED
      BY <1>2, <3>1 DEF Exhausted
  <2>2. Words'
    BY <1>0, <2>1 DEF Words, Closed
  <2>3. Queues'
    BY <1>0, <2>1 DEF Queues
  <2> QED
    BY <1>r, <1>c, <2>1, <2>2, <2>3
<1>3. ASSUME NEW a \in Attempts, SweepManual(a) PROVE Words' /\ Runs' /\ Queues' /\ Callbacks'
  <2>1. Words'
    BY <1>0, <1>3 DEF Words, Closed, SweepManual
  <2> QED
    BY <1>3, <1>r, <1>q, <1>c, <2>1 DEF SweepManual
<1>4. ASSUME NEW q \in Requests, Admit(q) \/ Create(q)
      PROVE  Words' /\ Runs' /\ Queues' /\ Callbacks'
  <2>1. Runs'
    BY <1>0, <1>4 DEF Runs, Admit, Create
  <2> QED
    BY <1>4, <1>w, <1>q, <1>c, <2>1 DEF Admit, Create
<1>5. ASSUME NEW o \in Topics \cup Requests, RunEnds(o)
      PROVE  Words' /\ Runs' /\ Queues' /\ Callbacks'
  <2>1. Runs'
    BY <1>0, <1>5 DEF Runs, RunEnds
  <2> QED
    BY <1>5, <1>w, <1>q, <1>c, <2>1 DEF RunEnds
<1>6. ASSUME NEW j \in ScanJobs, StartScan(j) PROVE Words' /\ Runs' /\ Queues' /\ Callbacks'
  <2>1. [st |-> "waiting", left |-> ScanRetries] \in JobRec
    BY DEF JobRec, AutopilotAssumption
  <2>2. Queues'
    BY <1>0, <1>6, <2>1 DEF Queues, StartScan, Jobs
  <2> QED
    BY <1>6, <1>w, <1>r, <1>c, <2>2 DEF StartScan
<1>7. ASSUME NEW j \in Jobs, Expire(j) PROVE Words' /\ Runs' /\ Queues' /\ Callbacks'
  <2>1. Queues'
    BY <1>0, <1>7, FailJobKeeps DEF Queues, Expire
  <2> QED
    BY <1>7, <1>w, <1>r, <1>c, <2>1 DEF Expire
<1>8. ASSUME NEW h \in Handlers, NEW j \in Jobs, Fetch(h, j)
      PROVE  Words' /\ Runs' /\ Queues' /\ Callbacks'
  <2> DEFINE r == [pc |-> IF j \in Attempts THEN "fetched" ELSE "triggering", of |-> j]
  <2>1. r \in HandlerRec /\ BusyOne(r)
    BY DEF HandlerRec, BusyOne, PCs
  <2>2. handler' = [handler EXCEPT ![h] = r] /\ job' = [job EXCEPT ![j].st = "active"]
        /\ letters' = letters
    BY <1>8 DEF Fetch
  <2> HIDE DEF r
  <2>3. Callbacks'
    BY <1>0, <2>1, <2>2, HandlerKeeps DEF Callbacks
  <2>4. Queues'
    BY <1>0, <2>2, StatusKeeps DEF Queues
  <2> QED
    BY <1>8, <1>w, <1>r, <2>3, <2>4 DEF Fetch
<1>9. ASSUME NEW h \in Handlers, Return(h) PROVE Words' /\ Runs' /\ Queues' /\ Callbacks'
  <2>1. PICK j \in Jobs : j = handler[h].of
    BY <1>9, <1>b DEF Return
  <2>2. Queues'
    BY <1>0, <1>9, <2>1, StatusKeeps DEF Queues, Return
  <2> QED
    BY <1>9, <1>w, <1>r, <1>i, <2>2 DEF Return
<1>10. ASSUME NEW h \in Handlers, Throw(h) PROVE Words' /\ Runs' /\ Queues' /\ Callbacks'
  <2>1. PICK j \in Jobs : j = handler[h].of
    BY <1>10, <1>b DEF Throw
  <2>2. Queues'
    BY <1>0, <1>10, <2>1, FailJobKeeps DEF Queues, Throw
  <2> QED
    BY <1>10, <1>w, <1>r, <1>i, <2>2 DEF Throw
<1>11. ASSUME NEW h \in Handlers, Crash(h) PROVE Words' /\ Runs' /\ Queues' /\ Callbacks'
  BY <1>11, <1>w, <1>r, <1>q, <1>i DEF Crash
<1>12. ASSUME NEW h \in Handlers, ClaimAttempt(h) PROVE Words' /\ Runs' /\ Queues' /\ Callbacks'
  <2>1. PICK a \in Attempts : a = handler[h].of
    BY <1>0, <1>12 DEF ClaimAttempt, Callbacks, Busy
  <2>2. Words'
    BY <1>0, <1>12, <2>1 DEF Words, ClaimAttempt, Pending
  <2>3. \E pc \in {"triggering", "returning", "throwing"} : Goto(h, pc)
    BY <1>12 DEF ClaimAttempt
  <2>4. Callbacks'
    BY <1>12, <1>g, <2>3 DEF ClaimAttempt, PCs
  <2> QED
    BY <1>12, <1>r, <1>q, <2>2, <2>4 DEF ClaimAttempt
<1>13. ASSUME NEW h \in Handlers, Trigger(h) PROVE Words' /\ Runs' /\ Queues' /\ Callbacks'
  <2>1. PICK j \in Jobs : j = handler[h].of
    BY <1>13, <1>b DEF Trigger
  <2>2. /\ \/ UNCHANGED <<dispatch, run, attempt, event>>
           \/ Answer(j, "refused") /\ UNCHANGED <<dispatch, run>>
           \/ /\ Answer(j, "dispatched")
              /\ \E t \in Topics :
                    /\ dispatch' = [dispatch EXCEPT ![t] = [by |-> j, day |-> day]]
                    /\ run' = [run EXCEPT ![t] = "live"]
        /\ UNCHANGED <<job, letters, holder, day>>
        /\ \E pc \in {"returning", "catching"} : Goto(h, pc)
    BY <1>13, <2>1 DEF Trigger
  <2>3. Words'
    BY <1>0, <1>w, <2>2, WordsKept DEF Closed
  <2>4. Runs'
    <3>1. [by |-> j, day |-> day] \in [by : Jobs \cup {None}, day : 0..MaxDay]
      BY <1>0 DEF Runs, AutopilotAssumption
    <3>2. CASE dispatch' = dispatch /\ run' = run
      BY <1>r, <2>2, <3>2
    <3>3. ASSUME NEW t \in Topics, dispatch' = [dispatch EXCEPT ![t] = [by |-> j, day |-> day]],
                 run' = [run EXCEPT ![t] = "live"]
          PROVE  Runs'
      BY <1>0, <2>2, <3>1, <3>3 DEF Runs
    <3> QED
      BY <2>2, <3>2, <3>3
  <2>5. Callbacks'
    BY <1>13, <1>g, <2>2 DEF Trigger, PCs
  <2> QED
    BY <1>q, <2>2, <2>3, <2>4, <2>5
<1>14. ASSUME NEW h \in Handlers, TriggerFails(h) PROVE Words' /\ Runs' /\ Queues' /\ Callbacks'
  BY <1>14, <1>w, <1>r, <1>q, <1>g DEF TriggerFails, PCs
<1>15. ASSUME NEW h \in Handlers, Catch(h) PROVE Words' /\ Runs' /\ Queues' /\ Callbacks'
  <2>1. PICK j \in Jobs : j = handler[h].of
    BY <1>15, <1>b DEF Catch
  <2>2. \/ Answer(j, "failed")
        \/ attempt' = attempt /\ event' = event
    BY <1>15, <2>1 DEF Catch
  <2>3. Words'
    BY <1>0, <1>w, <2>2, WordsKept DEF Closed
  <2>4. \E pc \in {"throwing", "returning"} : Goto(h, pc)
    BY <1>15 DEF Catch
  <2>5. Callbacks'
    BY <1>15, <1>g, <2>4 DEF Catch, PCs
  <2> QED
    BY <1>15, <1>r, <1>q, <2>3, <2>5 DEF Catch
<1>16. CASE Midnight
  <2>1. Runs'
    BY <1>0, <1>16 DEF Runs, Midnight, AutopilotAssumption
  <2> QED
    BY <1>16, <1>w, <1>q, <1>c, <2>1 DEF Midnight
<1>17. CASE UNCHANGED vars
  BY <1>17, <1>w, <1>r, <1>q, <1>c DEF vars
<1> QED
  BY <1>1, <1>2, <1>3, <1>4, <1>5, <1>6, <1>7, <1>8, <1>9, <1>10, <1>11, <1>12, <1>13, <1>14,
     <1>15, <1>16, <1>17 DEF Next, HandlerStep

(***************************************************************************)
(* The record of who started what                                           *)
(***************************************************************************)
LEMMA OneRunStep ==
    ASSUME AutopilotAssumption, TypeOK, Busy, OneRunEach, [Next]_vars PROVE OneRunEach'
<1>1. CASE dispatch' = dispatch /\ WordsMove
  <2>1. ASSUME NEW j \in Jobs PROVE Word(j)' = "dispatched" <=> Word(j) = "dispatched"
    BY <1>1 DEF WordsMove, Closed
  <2>2. \A j \in Jobs : StartedBy(j)' = StartedBy(j)
    BY <1>1 DEF StartedBy
  <2> QED
    BY <2>1, <2>2 DEF OneRunEach
<1>2. ASSUME NEW j \in Jobs, NEW t \in Topics, Started(j, t) PROVE OneRunEach'
  <2>1. /\ t \notin Automatic /\ Word(j) # "dispatched" /\ Word(j)' = "dispatched"
        /\ dispatch' = [dispatch EXCEPT ![t] = [by |-> j, day |-> day]]
        /\ \A k \in Jobs : k # j => Word(k)' = Word(k)
    BY <1>2 DEF Started, Closed
  <2>2. dispatch[t].by = None /\ None \notin Jobs
    BY <2>1 DEF Automatic, AutopilotAssumption, Jobs
  <2>3. /\ dispatch'[t].by = j
        /\ \A u \in Topics : u # t => dispatch'[u] = dispatch[u]
    BY <2>1 DEF TypeOK
  <2>4. StartedBy(j) = {}
    BY <2>1 DEF OneRunEach
  <2>5. StartedBy(j)' = {t}
    BY <2>3, <2>4 DEF StartedBy
  <2>6. ASSUME NEW k \in Jobs, k # j PROVE StartedBy(k)' = StartedBy(k)
    BY <2>2, <2>3, <2>6 DEF StartedBy
  <2> QED
    BY <2>1, <2>5, <2>6 DEF OneRunEach
<1> QED
  BY <1>1, <1>2, Moves

LEMMA OneRunCounts ==
    ASSUME OneRunEach PROVE VerdictsMatchRuns
<1>1. ASSUME NEW j \in Jobs
      PROVE  Cardinality(StartedBy(j)) = IF Word(j) = "dispatched" THEN 1 ELSE 0
  <2>1. CASE StartedBy(j) = {}
    <3>1. Word(j) # "dispatched"
      BY <2>1 DEF OneRunEach
    <3> QED
      BY <2>1, <3>1, FS_EmptySet
  <2>2. CASE StartedBy(j) # {}
    <3>1. PICK t : StartedBy(j) = {t}
      BY <2>2 DEF OneRunEach
    <3>2. Word(j) = "dispatched"
      BY <2>2 DEF OneRunEach
    <3> QED
      BY <3>1, <3>2, FS_Singleton
  <2> QED
    BY <2>1, <2>2
<1> QED
  BY <1>1 DEF VerdictsMatchRuns, StartedBy, Word

(***************************************************************************)
(* Counting                                                                 *)
(***************************************************************************)
LEMMA OneMore ==
    ASSUME NEW X, IsFiniteSet(X), NEW n \in Nat, Cardinality(X) < n, NEW x
    PROVE  IsFiniteSet(X \cup {x}) /\ Cardinality(X \cup {x}) <= n
<1>1. Cardinality(X) \in Nat
  BY FS_CardinalityType
<1>2. /\ IsFiniteSet(X \cup {x})
      /\ Cardinality(X \cup {x}) = Cardinality(X) \/ Cardinality(X \cup {x}) = Cardinality(X) + 1
  BY FS_AddElement
<1> QED
  BY <1>1, <1>2

LEMMA OneLess ==
    ASSUME NEW X, IsFiniteSet(X), NEW Y, Y \subseteq X, NEW n \in Nat
    PROVE  /\ IsFiniteSet(Y)
           /\ Cardinality(X) <= n => Cardinality(Y) <= n
           /\ Cardinality(X) < n => Cardinality(Y) < n
<1>1. IsFiniteSet(Y) /\ Cardinality(Y) <= Cardinality(X)
  BY FS_Subset
<1>2. Cardinality(Y) \in Nat /\ Cardinality(X) \in Nat
  BY <1>1, FS_CardinalityType
<1> QED
  BY <1>1, <1>2

\* A run that starts, or that is over.
LEMMA LiveMoves ==
    ASSUME TypeOK, NEW o \in Topics \cup Requests
    PROVE  /\ run' = [run EXCEPT ![o] = "live"] => Live' = Live \cup {o}
           /\ run' = [run EXCEPT ![o] = "over"] => Live' \subseteq Live
  BY DEF TypeOK, Live

LEMMA CountStep ==
    ASSUME AutopilotAssumption, TypeOK, Busy, Room, Counted, [Next]_vars
    PROVE  Room' /\ Counted'
<1>1. MaxConcurrent \in Nat /\ DailyLimit \in Nat
  BY DEF AutopilotAssumption
<1>2. IsFiniteSet(Live) /\ IsFiniteSet(Automatic) /\ Cardinality(Live) <= MaxConcurrent
  BY DEF Counted
<1>3. CASE dispatch' = dispatch /\ RunsMove
  <2>1. Automatic' = Automatic /\ \A d : OnDay(d)' = OnDay(d)
    BY <1>3 DEF Automatic, OnDay
  <2>2. CASE run' = run /\ (holder' = holder \/ Cardinality(Live) < MaxConcurrent)
    <3>1. Live' = Live
      BY <2>2 DEF Live
    <3> QED
      BY <2>1, <2>2, <3>1 DEF Room, Counted
  <2>3. ASSUME NEW q \in Requests, holder = q, holder' = None, run' = [run EXCEPT ![q] = "live"]
        PROVE  Room' /\ Counted'
    <3>1. Live' = Live \cup {q} /\ q # None
      BY <2>3, LiveMoves DEF AutopilotAssumption
    <3>2. Cardinality(Live) < MaxConcurrent
      BY <2>3, <3>1 DEF Room
    <3>3. IsFiniteSet(Live') /\ Cardinality(Live') <= MaxConcurrent
      BY <1>1, <1>2, <3>1, <3>2, OneMore
    <3>4. \A t \in Automatic : run'[t] = run[t]
      BY <2>3 DEF Automatic, TypeOK, AutopilotAssumption
    <3> QED
      BY <2>1, <2>3, <3>3, <3>4 DEF Room, Counted
  <2>4. ASSUME NEW o \in Topics \cup Requests, holder' = holder, run' = [run EXCEPT ![o] = "over"]
        PROVE  Room' /\ Counted'
    <3>1. Live' \subseteq Live
      BY <2>4, LiveMoves
    <3>2. /\ IsFiniteSet(Live') /\ Cardinality(Live') <= MaxConcurrent
          /\ Cardinality(Live) < MaxConcurrent => Cardinality(Live') < MaxConcurrent
      BY <1>1, <1>2, <3>1, OneLess
    <3>3. \A t \in Automatic : run'[t] = "live" => run[t] = "live"
      BY <2>4 DEF Automatic, TypeOK
    <3> QED
      BY <2>1, <2>4, <3>2, <3>3 DEF Room, Counted
  <2> QED
    BY <1>3, <2>2, <2>3, <2>4 DEF RunsMove
<1>4. ASSUME NEW j \in Jobs, NEW t \in Topics, Started(j, t) PROVE Room' /\ Counted'
  <2>1. /\ t \notin Automatic /\ holder' = holder /\ holder = None
        /\ dispatch' = [dispatch EXCEPT ![t] = [by |-> j, day |-> day]]
        /\ run' = [run EXCEPT ![t] = "live"]
    BY <1>4 DEF Started, Unlocked
  <2>d. PICK today \in 1..MaxDay : today = day
    BY DEF TypeOK
  <2>2. /\ Cardinality(OnDay(today)) < DailyLimit
        /\ \A u \in Automatic : run[u] # "live"
        /\ Cardinality(Live) < MaxConcurrent
    BY <1>4, <2>d DEF Started, Admissible, Today, OnDay
  <2>3. /\ dispatch'[t].by = j /\ dispatch'[t].day = today /\ j # None
        /\ \A u \in Topics : u # t => dispatch'[u] = dispatch[u]
    BY <2>1, <2>d DEF TypeOK, AutopilotAssumption, Jobs
  <2>4. Automatic' = Automatic \cup {t}
    BY <2>3 DEF Automatic
  <2>5. /\ OnDay(today)' = OnDay(today) \cup {t}
        /\ \A d \in 1..MaxDay : d # today => OnDay(d)' = OnDay(d)
    <3>1. \A d : OnDay(d)' = {u \in Automatic' : dispatch'[u].day = d}
      BY DEF OnDay
    <3>2. \A u \in Automatic : u # t /\ dispatch'[u] = dispatch[u]
      BY <2>1, <2>3 DEF Automatic
    <3> QED
      BY <2>3, <2>4, <3>1, <3>2 DEF OnDay
  <2>6. Live' = Live \cup {t}
    BY <2>1, LiveMoves
  <2>7. IsFiniteSet(Live') /\ Cardinality(Live') <= MaxConcurrent /\ IsFiniteSet(Automatic')
    BY <1>1, <1>2, <2>2, <2>4, <2>6, OneMore, FS_AddElement
  <2>8. \A u, v \in Automatic' : run'[u] = "live" /\ run'[v] = "live" => u = v
    <3>1. \A u \in Automatic : run'[u] = run[u]
      BY <2>1 DEF Automatic, TypeOK
    <3> QED
      BY <2>2, <2>4, <3>1
  <2>9. ASSUME NEW d \in 1..MaxDay PROVE Cardinality(OnDay(d)') <= DailyLimit
    <3>1. OnDay(d) \subseteq Automatic
      BY DEF OnDay
    <3>2. IsFiniteSet(OnDay(d)) /\ Cardinality(OnDay(d)) <= DailyLimit
      BY <1>2, <3>1, FS_Subset DEF Counted
    <3>3. CASE d = today
      BY <1>1, <2>2, <2>5, <3>2, <3>3, OneMore
    <3>4. CASE d # today
      BY <2>5, <3>2, <3>4
    <3> QED
      BY <3>3, <3>4
  <2> QED
    BY <2>1, <2>7, <2>8, <2>9 DEF Room, Counted
<1> QED
  BY <1>3, <1>4, Moves

LEMMA CountedLimits ==
    ASSUME Counted PROVE RunsWithinLimits
<1> DEFINE alive == {t \in Automatic : run[t] = "live"}
<1>1. Cardinality(alive) <= 1
  <2>1. CASE alive = {}
    BY <2>1, FS_EmptySet
  <2>2. CASE alive # {}
    <3>1. PICK t : alive = {t}
      BY <2>2 DEF Counted
    <3> HIDE DEF alive
    <3>2. Cardinality(alive) = 1
      BY <3>1, FS_Singleton
    <3> QED
      BY <3>2
  <2> QED
    BY <2>1, <2>2
<1> QED
  BY <1>1 DEF RunsWithinLimits, Counted, OnDay

(***************************************************************************)
(* Theorems                                                                 *)
(***************************************************************************)
LEMMA AutopilotInit == AutopilotAssumption /\ Init => AutopilotInv
<1> SUFFICES ASSUME AutopilotAssumption, Init PROVE AutopilotInv
  OBVIOUS
<1>1. TypeOK /\ Busy
  BY DEF AutopilotAssumption, Init, TypeOK, Busy, NotYet, Idle, PCs, Jobs
<1>2. Live = {} /\ Automatic = {} /\ \A d : OnDay(d) = {}
  BY DEF Init, Live, Automatic, OnDay, NotYet
<1>3. Counted /\ Room
  <2>1. Cardinality({}) = 0 /\ IsFiniteSet({}) /\ holder = None
    BY FS_EmptySet DEF Init
  <2>2. DailyLimit \in Nat /\ MaxConcurrent \in Nat
    BY DEF AutopilotAssumption
  <2>3. Cardinality(Live) = 0 /\ \A d : Cardinality(OnDay(d)) = 0
    BY <1>2, <2>1
  <2>4. IsFiniteSet(Live) /\ IsFiniteSet(Automatic)
    BY <1>2, <2>1
  <2>5. \A x, y \in Automatic : x = y
    BY <1>2
  <2> QED
    BY <2>1, <2>2, <2>3, <2>4, <2>5 DEF Counted, Room
<1>4. \A j \in Jobs : StartedBy(j) = {} /\ Word(j) = "none"
  BY DEF Init, StartedBy, Word, NotYet, AutopilotAssumption, Jobs
<1> QED
  BY <1>1, <1>3, <1>4 DEF AutopilotInv, OneRunEach

LEMMA AutopilotSafe == AutopilotAssumption => (Spec => []AutopilotInv)
<1> SUFFICES ASSUME AutopilotAssumption PROVE Spec => []AutopilotInv
  OBVIOUS
<1>1. Init => AutopilotInv
  BY AutopilotInit
<1>2. AutopilotInv /\ [Next]_vars => AutopilotInv'
  BY TypesStep, OneRunStep, CountStep DEF AutopilotInv
<1> QED
  BY <1>1, <1>2, PTL DEF Spec

\* The tables keep their types, and a callback at work its job.
THEOREM AutopilotTypes == AutopilotAssumption => (Spec => []TypeOK)
<1>1. AutopilotInv => TypeOK
  BY DEF AutopilotInv
<1> QED
  BY <1>1, AutopilotSafe, PTL

\* "dispatched" is recorded exactly where that scan or manual check started a run, and it
\* started one only: trigger records its answer in the transaction that starts the run,
\* and asks first whether there is an answer already.
THEOREM DispatchedMeansOneRun == AutopilotAssumption => (Spec => []VerdictsMatchRuns)
<1>1. AutopilotInv => VerdictsMatchRuns
  BY OneRunCounts DEF AutopilotInv
<1> QED
  BY <1>1, AutopilotSafe, PTL

\* One automatic run of the brand at a time, so many a day, and so many of the organization
\* together with those that people start: both admissions count and insert under the
\* organization's advisory lock.
THEOREM LimitsHold == AutopilotAssumption => (Spec => []RunsWithinLimits)
<1>1. AutopilotInv => RunsWithinLimits
  BY CountedLimits DEF AutopilotInv
<1> QED
  BY <1>1, AutopilotSafe, PTL

\* What a scan or a manual check ended as stays: claim, finish, exhausted and the sweep
\* write over an open answer only.
THEOREM AnswersStay == AutopilotAssumption => (Spec => AnswersAreFinal)
<1> SUFFICES ASSUME AutopilotAssumption PROVE Spec => AnswersAreFinal
  OBVIOUS
<1> DEFINE Final == /\ \A a \in Attempts : attempt[a] \in Closed => attempt'[a] = attempt[a]
                    /\ \A j \in ScanJobs : event[j] # "none" => event'[j] = event[j]
<1>1. ASSUME AutopilotInv, [Next]_vars PROVE Final
  <2>1. \A j \in Jobs : Word(j) \in Closed => Word(j)' = Word(j)
    <3>1. CASE WordsMove
      BY <3>1 DEF WordsMove
    <3>2. ASSUME NEW j \in Jobs, NEW t \in Topics, Started(j, t)
          PROVE  \A k \in Jobs : Word(k) \in Closed => Word(k)' = Word(k)
      BY <3>2 DEF Started
    <3> QED
      BY <1>1, <3>1, <3>2, Moves DEF AutopilotInv
  <2>2. \A a \in Attempts : a \in Jobs /\ Word(a) = attempt[a] /\ Word(a)' = attempt'[a]
    BY DEF AutopilotAssumption, Jobs, Word
  <2>3. \A j \in ScanJobs : j \in Jobs /\ Word(j) = event[j] /\ Word(j)' = event'[j]
    BY DEF Jobs, Word
  <2>4. \A j \in ScanJobs : event[j] # "none" => event[j] \in Closed
    BY <1>1 DEF AutopilotInv, TypeOK
  <2> QED
    BY <2>1, <2>2, <2>3, <2>4
<1>2. AutopilotInv /\ [Next]_vars => [Final]_vars
  BY <1>1
<1>3. Spec => []AutopilotInv
  BY AutopilotSafe
<1>4. Spec => [][Next]_vars
  BY DEF Spec
<1> QED
  BY <1>2, <1>3, <1>4, PTL DEF AnswersAreFinal
=============================================================================
