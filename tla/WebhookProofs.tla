---------------------------- MODULE WebhookProofs ----------------------------
(***************************************************************************)
(* Webhooks, for every number of deliveries, scans, attempts and faults:    *)
(* only an answer that asks for it is followed by another request, what the *)
(* history says of a delivery is true, and it stays.                        *)
(***************************************************************************)
EXTENDS WebhookOutbox, TLAPS

HeldPCs  == {"loading", "posting", "finishing", "retrying"}
Got(q)   == {q[i] : i \in 1..Len(q)}
AllAgain(q)   == \A i \in 1..Len(q) : q[i] = "again"
AllButLast(q) == \A i \in 1..(Len(q) - 1) : q[i] = "again"

\* What a verdict says of the answers.
EndTrue(end, q) ==
    /\ end = "sent" => "accepted" \in Got(q)
    /\ end = "failed" => Got(q) \cap {"accepted", "silence"} = {}

\* A scan that holds a delivery is the only one to do so.  Meanwhile the delivery may be
\* given up as unknown, but it can neither end otherwise nor be claimed again.
ScanSound(s) ==
    LET w == scan[s]
    IN  /\ w.of # None <=> w.pc \in HeldPCs
        /\ w.pc \in {"closing", "expiring", "claiming"} => w.left > 0
        /\ w.of # None => status[w.of] \in {"attempting", "unknown"} /\ attempts[w.of] = w.nth
        /\ w.pc \in {"loading", "posting", "retrying"} => AllAgain(answers[w.of])
        /\ w.pc = "retrying" => w.nth < MaxAttempts
        /\ w.pc = "finishing" => EndTrue(w.end, answers[w.of])

Alone == \A s, u \in Scanners : scan[s].of # None /\ scan[s].of = scan[u].of => s = u

\* What may be claimed has an attempt left and was never asked but to come again.
RowSound(d) ==
    /\ status[d] \in {"none", "recording", "pending"} =>
          AllAgain(answers[d]) /\ attempts[d] < MaxAttempts
    /\ AllButLast(answers[d])
    /\ EndTrue(status[d], answers[d])

Inv == /\ TypeOK /\ Alone
       /\ \A s \in Scanners : ScanSound(s)
       /\ \A d \in Deliveries : RowSound(d)

(***************************************************************************)
(* Answers                                                                  *)
(***************************************************************************)
LEMMA AgainIsNoAnswer ==
    ASSUME NEW q \in Seq(Answers), AllAgain(q) PROVE EndTrue("failed", q) /\ AllButLast(q)
<1>1. \A i \in 1..Len(q) : q[i] = "again"
  BY DEF AllAgain
<1>2. Len(q) \in Nat
  OBVIOUS
<1>3. AllButLast(q)
  BY <1>1, <1>2 DEF AllButLast
<1>4. Got(q) \cap {"accepted", "silence"} = {}
  BY <1>1 DEF Got
<1> QED
  BY <1>3, <1>4 DEF EndTrue

LEMMA OneMoreAnswer ==
    ASSUME NEW q \in Seq(Answers), AllAgain(q), NEW a \in Answers
    PROVE  LET r == Append(q, a)
           IN  /\ r \in Seq(Answers) /\ AllButLast(r)
               /\ a = "again" => AllAgain(r)
               /\ a = "accepted" => EndTrue("sent", r)
               /\ a \in {"again", "refused"} => EndTrue("failed", r)
<1> DEFINE r == Append(q, a)
<1>1. /\ r \in Seq(Answers) /\ Len(r) = Len(q) + 1 /\ Len(q) \in Nat
      /\ r[Len(q) + 1] = a /\ \A i \in 1..Len(q) : r[i] = q[i]
  OBVIOUS
<1>2. \A i \in 1..Len(q) : r[i] = "again"
  BY <1>1 DEF AllAgain
<1> HIDE DEF r
<1>3. AllButLast(r) /\ (a = "again" => AllAgain(r))
  BY <1>1, <1>2 DEF AllButLast, AllAgain
<1>4. a \in Got(r) /\ Got(r) \subseteq {"again", a}
  BY <1>1, <1>2 DEF Got
<1>5. a = "accepted" => EndTrue("sent", r)
  BY <1>4 DEF EndTrue
<1>6. a \in {"again", "refused"} => EndTrue("failed", r)
  BY <1>4 DEF EndTrue
<1> QED
  BY <1>1, <1>3, <1>5, <1>6 DEF r

LEMMA OtherEnds ==
    ASSUME NEW end, end \notin {"sent", "failed"}, NEW q PROVE EndTrue(end, q)
  BY DEF EndTrue

\* A scan that has written goes back to rest or looks for the next delivery.
LEMMA Rested ==
    ASSUME WebhookAssumption, NEW w \in Scan, NEW v \in {Idle, Onward(w)}
    PROVE  /\ v \in Scan /\ v.of = None /\ v.pc \notin HeldPCs
           /\ v.pc \in {"closing", "expiring", "claiming"} => v.left > 0
<1>1. w.left \in 0..PerScan /\ PerScan \in Nat
  BY DEF Scan, WebhookAssumption
<1>2. CASE v = Idle
  <2>1. v = [pc |-> "idle", of |-> None, nth |-> 0, end |-> "failed", left |-> 0]
    BY <1>2 DEF Idle
  <2>2. 0 \in 0..MaxAttempts /\ 0 \in 0..PerScan
    BY <1>1 DEF WebhookAssumption
  <2>3. v \in Scan
    BY <2>1, <2>2 DEF Scan, PCs, Final
  <2>4. v.of = None /\ v.pc = "idle"
    BY <2>1
  <2> QED
    BY <2>3, <2>4 DEF HeldPCs
<1>3. CASE w.left # 0 /\ v = [Idle EXCEPT !.pc = "claiming", !.left = w.left]
  <2>1. v = [pc |-> "claiming", of |-> None, nth |-> 0, end |-> "failed", left |-> w.left]
    BY <1>3 DEF Idle
  <2>2. v \in Scan
    BY <1>1, <2>1 DEF Scan, PCs, Final, WebhookAssumption
  <2>3. v.of = None /\ v.pc = "claiming" /\ v.left = w.left
    BY <2>1
  <2> QED
    BY <1>1, <1>3, <2>2, <2>3 DEF HeldPCs
<1>4. v = Idle \/ (w.left # 0 /\ v = [Idle EXCEPT !.pc = "claiming", !.left = w.left])
  <2>1. CASE w.left = 0
    BY <2>1 DEF Onward
  <2>2. CASE w.left # 0
    BY <2>2, Zenon DEF Onward
  <2> QED
    BY <2>1, <2>2
<1> QED
  BY <1>2, <1>3, <1>4

(***************************************************************************)
(* The invariant                                                            *)
(***************************************************************************)
LEMMA InitInv == ASSUME WebhookAssumption PROVE Init => Inv
<1> SUFFICES ASSUME Init PROVE Inv
  OBVIOUS
<1> USE DEF WebhookAssumption, Init
<1>1. Idle \in Scan
  BY DEF Idle, Scan, PCs, Final
<1>2. <<>> \in Seq(Answers) /\ AllAgain(<<>>)
  BY DEF AllAgain
<1>3. TypeOK
  <2>1. scan \in [Scanners -> Scan] /\ answers \in [Deliveries -> Seq(Answers)]
    BY <1>1, <1>2
  <2>2. status \in [Deliveries -> {"none", "recording"} \cup Open \cup Final]
    OBVIOUS
  <2>3. attempts \in [Deliveries -> 0..MaxAttempts] /\ faults \in 0..MaxFaults
    <3>1. 0 \in 0..MaxAttempts /\ 0 \in 0..MaxFaults
      OBVIOUS
    <3>2. attempts = [d \in Deliveries |-> 0] /\ faults = 0
      OBVIOUS
    <3> HIDE DEF Init
    <3> QED
      BY <3>1, <3>2
  <2>4. subscription \in {"active", "revoking", "revoked"} /\ stale \in [Deliveries -> BOOLEAN]
    OBVIOUS
  <2> QED
    BY <2>1, <2>2, <2>3, <2>4 DEF TypeOK
<1>4. Alone /\ \A s \in Scanners : ScanSound(s)
  BY DEF Alone, ScanSound, Idle, HeldPCs
<1>5. ASSUME NEW d \in Deliveries PROVE RowSound(d)
  <2>1. answers[d] = <<>> /\ status[d] = "none" /\ attempts[d] = 0
    OBVIOUS
  <2>2. AllButLast(<<>>)
    BY <1>2, AgainIsNoAnswer
  <2> QED
    BY <1>2, <2>1, <2>2, OtherEnds DEF RowSound
<1> QED
  BY <1>3, <1>4, <1>5 DEF Inv

\* One case an action.  Rows that are not held may end in any way their answers allow; a
\* row that is held only stays or becomes unknown, until its own scan writes.
LEMMA StepInv == ASSUME WebhookAssumption PROVE Inv /\ [Next]_vars => Inv'
<1> SUFFICES ASSUME Inv, [Next]_vars PROVE Inv'
  OBVIOUS
<1>a. /\ None \notin Deliveries /\ MaxAttempts \in Nat \ {0} /\ PerScan \in Nat \ {0} /\ MaxFaults \in Nat
  BY DEF WebhookAssumption
<1>b. /\ TypeOK /\ Alone
      /\ \A s \in Scanners : ScanSound(s) /\ scan[s] \in Scan
      /\ \A d \in Deliveries : RowSound(d) /\ answers[d] \in Seq(Answers)
  BY DEF Inv, TypeOK
<1>c. \A s \in Scanners : scan[s].of # None => scan[s].of \in Deliveries
  BY <1>b DEF Scan
<1> USE <1>a, <1>b, <1>c
\* Who is not the scan that writes sees its row stay or become unknown.
<1>r. ASSUME UNCHANGED <<attempts, answers, faults>>, UNCHANGED scan,
             subscription' \in {"active", "revoking", "revoked"}, stale' \in [Deliveries -> BOOLEAN],
             status' \in [Deliveries -> {"none", "recording"} \cup Open \cup Final],
             \A d \in Deliveries : \/ status'[d] = status[d]
                                   \/ status'[d] = "unknown" /\ status[d] = "attempting"
                                   \/ status[d] = "pending" /\ status'[d] = "failed"
                                   \/ /\ status[d] \in {"none", "recording"}
                                      /\ status'[d] \in {"none", "recording", "pending"}
      PROVE  Inv'
  <2>1. TypeOK'
    BY <1>r DEF TypeOK
  <2>2. Alone'
    BY <1>r DEF Alone
  <2>3. ASSUME NEW s \in Scanners PROVE ScanSound(s)'
    BY <1>r, <2>3 DEF ScanSound, HeldPCs
  <2>4. ASSUME NEW d \in Deliveries PROVE RowSound(d)'
    <3>1. AllAgain(answers[d]) => EndTrue("failed", answers[d])
      BY AgainIsNoAnswer
    <3>2. EndTrue("unknown", answers[d]) /\ EndTrue("none", answers[d])
          /\ EndTrue("recording", answers[d]) /\ EndTrue("pending", answers[d])
      BY OtherEnds
    <3> QED
      BY <1>r, <3>1, <3>2 DEF RowSound
  <2> QED
    BY <2>1, <2>2, <2>3, <2>4 DEF Inv
<1>1. ASSUME NEW d \in Deliveries, Trigger(d) PROVE Inv'
  BY <1>1, <1>r DEF Trigger, TypeOK
<1>2. ASSUME NEW d \in Deliveries, Record(d) PROVE Inv'
  BY <1>2, <1>r DEF Record, TypeOK, Open
<1>3. ASSUME NEW d \in Deliveries, Age(d) PROVE Inv'
  BY <1>3, <1>r DEF Age, TypeOK
<1>4. ASSUME Revoke PROVE Inv'
  <2>1. \A d \in Deliveries : ClosedByRevoke(status[d]) = (IF status[d] = "attempting" THEN "unknown"
                                  ELSE IF status[d] = "pending" THEN "failed" ELSE status[d])
    BY DEF ClosedByRevoke
  <2>2. status' = [d \in Deliveries |-> ClosedByRevoke(status[d])]
    BY <1>4 DEF Revoke
  <2> QED
    BY <1>4, <1>r, <2>1, <2>2 DEF Revoke, TypeOK, Final
<1>v. ASSUME RevokeCommits PROVE Inv'
  BY <1>v, <1>r DEF RevokeCommits, TypeOK
\* A scan that holds nothing and takes nothing.
<1>m. ASSUME NEW s \in Scanners, NEW pc \in {"expiring", "claiming"}, scan[s].pc \in {"closing", "expiring"},
             Goto(s, pc), UNCHANGED <<subscription, attempts, stale, answers, faults>>,
             status' \in [Deliveries -> {"none", "recording"} \cup Open \cup Final],
             \A d \in Deliveries : \/ status'[d] = status[d]
                                   \/ status'[d] = "unknown" /\ status[d] = "attempting"
                                   \/ status[d] = "pending" /\ status'[d] = "failed"
      PROVE  Inv'
  <2>1. /\ scan' \in [Scanners -> Scan] /\ \A u \in Scanners : scan'[u].of = scan[u].of
        /\ \A u \in Scanners : u # s => scan'[u] = scan[u]
        /\ scan'[s].pc = pc /\ scan'[s].left = scan[s].left
    BY <1>m DEF Goto, TypeOK, Scan, PCs
  <2>2. TypeOK' /\ Alone'
    BY <1>m, <2>1 DEF TypeOK, Alone
  <2>3. ASSUME NEW u \in Scanners PROVE ScanSound(u)'
    <3>1. CASE u = s
      BY <1>m, <2>1, <3>1 DEF ScanSound, HeldPCs
    <3>2. CASE u # s
      BY <1>m, <2>1, <3>2 DEF ScanSound, HeldPCs
    <3> QED
      BY <3>1, <3>2
  <2>4. ASSUME NEW d \in Deliveries PROVE RowSound(d)'
    <3>1. AllAgain(answers[d]) => EndTrue("failed", answers[d])
      BY AgainIsNoAnswer
    <3>2. EndTrue("unknown", answers[d])
      BY OtherEnds
    <3> QED
      BY <1>m, <3>1, <3>2 DEF RowSound
  <2> QED
    BY <2>2, <2>3, <2>4 DEF Inv
<1>5. ASSUME NEW s \in Scanners, Start(s) PROVE Inv'
  <2>1. /\ scan' \in [Scanners -> Scan] /\ \A u \in Scanners : u # s => scan'[u] = scan[u]
        /\ scan'[s].pc = "closing" /\ scan'[s].left = PerScan /\ scan'[s].of = None
        /\ scan[s].of = None
    <3>1. /\ scan[s].pc = "idle" /\ scan \in [Scanners -> Scan]
          /\ scan' = [scan EXCEPT ![s] = [scan[s] EXCEPT !.pc = "closing", !.left = PerScan]]
      BY <1>5 DEF Start, TypeOK
    <3>2. scan[s].of = None
      BY <3>1 DEF ScanSound, HeldPCs
    <3>3. [scan[s] EXCEPT !.pc = "closing", !.left = PerScan] \in Scan
      <4>1. scan[s] \in Scan /\ PerScan \in 0..PerScan /\ "closing" \in PCs
        BY DEF PCs
      <4> QED
        BY <4>1 DEF Scan
    <3>4. scan'[s] = [scan[s] EXCEPT !.pc = "closing", !.left = PerScan]
      BY <3>1
    <3>5. scan'[s].pc = "closing" /\ scan'[s].left = PerScan /\ scan'[s].of = scan[s].of
      BY <3>1, <3>4 DEF Scan
    <3>6. scan' \in [Scanners -> Scan] /\ \A u \in Scanners : u # s => scan'[u] = scan[u]
      BY <3>1, <3>3
    <3> QED
      BY <3>2, <3>5, <3>6
  <2>2. TypeOK' /\ Alone'
    BY <1>5, <2>1 DEF Start, TypeOK, Alone
  <2>3. ASSUME NEW u \in Scanners PROVE ScanSound(u)'
    BY <1>5, <2>1 DEF Start, ScanSound, HeldPCs
  <2>4. \A d \in Deliveries : RowSound(d)'
    BY <1>5 DEF Start, RowSound
  <2> QED
    BY <2>2, <2>3, <2>4 DEF Inv
<1>6. ASSUME NEW s \in Scanners, CloseRevoked(s) PROVE Inv'
  <2>1. status' = [d \in Deliveries |-> IF Orphaned(d) THEN "failed" ELSE status[d]]
    BY <1>6 DEF CloseRevoked
  <2>2. status' \in [Deliveries -> {"none", "recording"} \cup Open \cup Final]
    BY <2>1 DEF TypeOK, Final
  <2> QED
    BY <1>6, <1>m, <2>1, <2>2 DEF CloseRevoked, Orphaned
<1>7. ASSUME NEW s \in Scanners, ExpireClaims(s) PROVE Inv'
  <2>1. status' = [d \in Deliveries |->
                     IF status[d] = "attempting" /\ stale[d] THEN "unknown" ELSE status[d]]
    BY <1>7 DEF ExpireClaims, Expired
  <2>2. status' \in [Deliveries -> {"none", "recording"} \cup Open \cup Final]
    BY <2>1 DEF TypeOK, Final
  <2> QED
    BY <1>7, <1>m, <2>1, <2>2 DEF ExpireClaims
\* A scan that goes back to rest, or looks for the next delivery, without writing.
<1>i. ASSUME NEW s \in Scanners, NEW w \in {Idle, Onward(scan[s])}, scan' = [scan EXCEPT ![s] = w],
             faults' \in 0..MaxFaults, UNCHANGED <<subscription, status, attempts, stale, answers>>
      PROVE  Inv'
  <2>1. /\ w \in Scan /\ w.of = None /\ w.pc \notin HeldPCs
        /\ w.pc \in {"closing", "expiring", "claiming"} => w.left > 0
    BY Rested
  <2>2. TypeOK' /\ Alone'
    BY <1>i, <2>1 DEF TypeOK, Alone
  <2>3. ASSUME NEW u \in Scanners PROVE ScanSound(u)'
    <3>1. CASE u = s
      <4>1. scan'[u] = w
        BY <1>i, <3>1 DEF TypeOK
      <4> QED
        BY <2>1, <4>1 DEF ScanSound, HeldPCs
    <3>2. CASE u # s
      BY <1>i, <3>2 DEF ScanSound, HeldPCs
    <3> QED
      BY <3>1, <3>2
  <2>4. \A d \in Deliveries : RowSound(d)'
    BY <1>i DEF RowSound
  <2> QED
    BY <2>2, <2>3, <2>4 DEF Inv
<1>8. ASSUME NEW s \in Scanners, Claim(s) PROVE Inv'
  <2>1. CASE scan' = [scan EXCEPT ![s] = Idle] /\ UNCHANGED <<status, attempts, stale>>
    BY <1>8, <2>1, <1>i DEF Claim, TypeOK
  <2>2. ASSUME NEW d \in Deliveries, Claimable(d),
               status' = [status EXCEPT ![d] = "attempting"],
               attempts' = [attempts EXCEPT ![d] = @ + 1],
               stale' = [stale EXCEPT ![d] = FALSE],
               scan' = [scan EXCEPT ![s] = [scan[s] EXCEPT !.pc = "loading", !.of = d,
                            !.nth = attempts[d] + 1, !.left = scan[s].left - 1]]
        PROVE  Inv'
    <3>1. /\ status[d] = "pending" /\ AllAgain(answers[d]) /\ attempts[d] < MaxAttempts
          /\ attempts[d] \in Nat /\ scan[s].of = None /\ scan[s].pc = "claiming"
          /\ scan[s].left > 0 /\ scan[s].left \in 0..PerScan
          /\ UNCHANGED <<subscription, answers, faults>>
      <4>1. status[d] = "pending" /\ scan[s].pc = "claiming" /\ UNCHANGED <<subscription, answers, faults>>
        BY <1>8, <2>2 DEF Claim, Claimable
      <4>2. AllAgain(answers[d]) /\ attempts[d] < MaxAttempts
        BY <4>1 DEF RowSound
      <4>3. scan[s].of = None /\ scan[s].left > 0
        BY <4>1 DEF ScanSound, HeldPCs
      <4>4. attempts[d] \in Nat /\ scan[s].left \in 0..PerScan
        BY DEF TypeOK, Scan
      <4> QED
        BY <4>1, <4>2, <4>3, <4>4
    <3>2. attempts[d] + 1 \in 0..MaxAttempts /\ scan[s].left - 1 \in 0..PerScan
      BY <3>1
    <3>3. /\ scan'[s].pc = "loading" /\ scan'[s].of = d /\ scan'[s].nth = attempts[d] + 1
          /\ scan' \in [Scanners -> Scan]
          /\ \A u \in Scanners : u # s => scan'[u] = scan[u]
      <4> DEFINE w == [scan[s] EXCEPT !.pc = "loading", !.of = d,
                                      !.nth = attempts[d] + 1, !.left = scan[s].left - 1]
      <4>1. w \in Scan /\ w.pc = "loading" /\ w.of = d /\ w.nth = attempts[d] + 1
        BY <3>2 DEF Scan, PCs
      <4>2. scan' = [scan EXCEPT ![s] = w]
        BY <2>2
      <4>3. scan \in [Scanners -> Scan]
        BY DEF TypeOK
      <4> QED
        BY <4>1, <4>2, <4>3
    <3>4. TypeOK'
      BY <2>2, <3>1, <3>2, <3>3 DEF TypeOK, Open
    <3>5. \A u \in Scanners : scan[u].of # d
      BY <3>1 DEF ScanSound
    <3>6. Alone'
      BY <3>3, <3>5 DEF Alone
    <3>7. ASSUME NEW u \in Scanners PROVE ScanSound(u)'
      <4>1. CASE u = s
        BY <2>2, <3>1, <3>3, <4>1 DEF ScanSound, HeldPCs, TypeOK
      <4>2. CASE u # s
        BY <2>2, <3>1, <3>3, <3>5, <4>2 DEF ScanSound, HeldPCs, TypeOK
      <4> QED
        BY <4>1, <4>2
    <3>8. ASSUME NEW e \in Deliveries PROVE RowSound(e)'
      <4>1. CASE e = d
        BY <2>2, <3>1, <4>1, OtherEnds DEF RowSound, TypeOK
      <4>2. CASE e # d
        BY <2>2, <3>1, <4>2 DEF RowSound, TypeOK
      <4> QED
        BY <4>1, <4>2
    <3> QED
      BY <3>4, <3>6, <3>7, <3>8 DEF Inv
  <2> QED
    BY <1>8, <2>1, <2>2 DEF Claim
\* A scan that goes on with the delivery it holds, with the answer it has got, if any.
<1>h. ASSUME NEW s \in Scanners, scan[s].pc \in {"loading", "posting"},
             NEW pc \in {"posting", "finishing", "retrying"}, NEW end \in Final,
             scan' = [scan EXCEPT ![s].pc = pc, ![s].end = end],
             UNCHANGED <<subscription, status, attempts, stale, faults>>,
             \/ answers' = answers
             \/ \E a \in Answers : answers' = [answers EXCEPT ![scan[s].of] = Append(@, a)],
             pc \in {"posting", "retrying"} => AllAgain(answers'[scan[s].of]),
             pc = "retrying" => scan[s].nth < MaxAttempts,
             pc = "finishing" => EndTrue(end, answers'[scan[s].of])
      PROVE  Inv'
  <2> DEFINE d == scan[s].of
  <2>1. /\ d \in Deliveries /\ status[d] \in {"attempting", "unknown"} /\ AllAgain(answers[d])
        /\ d # None
    BY <1>h DEF ScanSound, HeldPCs
  <2> HIDE DEF d
  <2>2. /\ answers' \in [Deliveries -> Seq(Answers)] /\ AllButLast(answers'[d])
        /\ \A e \in Deliveries : e # d => answers'[e] = answers[e]
    <3>1. CASE answers' = answers
      BY <2>1, <3>1, AgainIsNoAnswer DEF TypeOK
    <3>2. ASSUME NEW a \in Answers, answers' = [answers EXCEPT ![d] = Append(@, a)]
          PROVE  /\ answers' \in [Deliveries -> Seq(Answers)] /\ AllButLast(answers'[d])
                 /\ \A e \in Deliveries : e # d => answers'[e] = answers[e]
      <4>1. Append(answers[d], a) \in Seq(Answers) /\ AllButLast(Append(answers[d], a))
        BY <2>1, OneMoreAnswer
      <4> QED
        BY <2>1, <3>2, <4>1 DEF TypeOK
    <3> QED
      BY <1>h, <3>1, <3>2 DEF d
  <2>3. /\ scan' \in [Scanners -> Scan] /\ \A u \in Scanners : u # s => scan'[u] = scan[u]
        /\ scan'[s].pc = pc /\ scan'[s].of = d /\ scan'[s].end = end /\ scan'[s].nth = scan[s].nth
        /\ \A u \in Scanners : scan'[u].of = scan[u].of
    BY <1>h DEF TypeOK, Scan, PCs, d
  <2>4. TypeOK' /\ Alone'
    BY <1>h, <2>2, <2>3 DEF TypeOK, Alone
  <2>5. ASSUME NEW u \in Scanners PROVE ScanSound(u)'
    <3>1. CASE u = s
      <4>1. attempts[d] = scan[s].nth
        BY <2>1 DEF ScanSound, d
      <4>2. UNCHANGED <<status, attempts>> /\ scan'[s].pc \in {"posting", "finishing", "retrying"}
        BY <1>h, <2>3
      <4>3. /\ scan'[s].pc \in {"posting", "retrying"} => AllAgain(answers'[d])
            /\ scan'[s].pc = "retrying" => scan'[s].nth < MaxAttempts
            /\ scan'[s].pc = "finishing" => EndTrue(scan'[s].end, answers'[d])
        BY <1>h, <2>3 DEF d
      <4> QED
        BY <2>1, <2>3, <3>1, <4>1, <4>2, <4>3 DEF ScanSound, HeldPCs
    <3>2. CASE u # s
      <4>1. scan[u].of # d
        BY <2>1, <3>2 DEF Alone, d
      <4>2. scan[u].of # None => answers'[scan[u].of] = answers[scan[u].of]
        BY <2>2, <4>1
      <4>3. scan'[u] = scan[u] /\ UNCHANGED <<status, attempts>>
        BY <1>h, <2>3, <3>2
      <4> QED
        BY <4>2, <4>3 DEF ScanSound, HeldPCs
    <3> QED
      BY <3>1, <3>2
  <2>6. ASSUME NEW e \in Deliveries PROVE RowSound(e)'
    <3>1. CASE e = d
      BY <1>h, <2>1, <2>2, <3>1, OtherEnds DEF RowSound
    <3>2. CASE e # d
      BY <1>h, <2>2, <3>2 DEF RowSound
    <3> QED
      BY <3>1, <3>2
  <2> QED
    BY <2>4, <2>5, <2>6 DEF Inv
<1>9. ASSUME NEW s \in Scanners, LoadSubscription(s) PROVE Inv'
  <2>1. scan[s].pc = "loading" /\ AllAgain(answers[scan[s].of]) /\ scan[s].of \in Deliveries
        /\ UNCHANGED <<subscription, status, attempts, stale, answers, faults>>
    BY <1>9 DEF LoadSubscription, ScanSound, HeldPCs
  <2>2. EndTrue("failed", answers[scan[s].of])
    BY <2>1, AgainIsNoAnswer
  <2>3. CASE Finish(s, "failed")
    BY <1>h, <2>1, <2>2, <2>3 DEF Finish, Final
  <2>4. CASE Goto(s, "posting")
    <3>1. scan[s].end \in Final
      BY DEF Scan
    <3>2. scan' = [scan EXCEPT ![s].pc = "posting", ![s].end = scan[s].end]
      <4> SUFFICES [scan[s] EXCEPT !.pc = "posting"]
                     = [scan[s] EXCEPT !.pc = "posting", !.end = scan[s].end]
        BY <2>4 DEF Goto
      <4> QED
        BY DEF Scan
    <3> QED
      BY <1>h, <2>1, <3>1, <3>2
  <2> QED
    BY <1>9, <2>3, <2>4 DEF LoadSubscription
<1>10. ASSUME NEW s \in Scanners, Post(s) PROVE Inv'
  <2> DEFINE d == scan[s].of
  <2>1. scan[s].pc = "posting" /\ AllAgain(answers[d]) /\ d \in Deliveries
        /\ UNCHANGED <<subscription, status, attempts, stale, faults>>
    BY <1>10 DEF Post, ScanSound, HeldPCs
  <2>2. EndTrue("failed", answers[d])
    BY <2>1, AgainIsNoAnswer
  <2>3. CASE Finish(s, "failed") /\ UNCHANGED answers
    BY <1>h, <2>1, <2>2, <2>3 DEF Finish, Final
  <2>4. ASSUME NEW a \in Answers,
               answers' = [answers EXCEPT ![d] = Append(@, a)],
               CASE a = "accepted" -> Finish(s, "sent")
                 [] a = "refused"  -> Finish(s, "failed")
                 [] a = "silence"  -> Finish(s, OutcomeOfSilence)
                 [] OTHER -> IF MayRetry(scan[s].nth) THEN Goto(s, "retrying")
                             ELSE Finish(s, "failed")
        PROVE  Inv'
    <3> HIDE DEF d
    <3>1. answers'[d] = Append(answers[d], a)
      BY <2>1, <2>4 DEF TypeOK
    <3>2. /\ a = "again" => AllAgain(answers'[d])
          /\ a = "accepted" => EndTrue("sent", answers'[d])
          /\ a \in {"again", "refused"} => EndTrue("failed", answers'[d])
          /\ EndTrue("unknown", answers'[d])
      BY <2>1, <3>1, OneMoreAnswer, OtherEnds
    <3>3. \E x \in Answers : answers' = [answers EXCEPT ![scan[s].of] = Append(@, x)]
      BY <2>4 DEF d
    <3>4. ASSUME NEW end \in Final, Finish(s, end), EndTrue(end, answers'[d]) PROVE Inv'
      BY <1>h, <2>1, <3>3, <3>4 DEF Finish, d
    <3>5. CASE a = "again" /\ Goto(s, "retrying") /\ MayRetry(scan[s].nth)
      <4>1. scan[s].end \in Final
        BY DEF Scan
      <4>2. scan' = [scan EXCEPT ![s].pc = "retrying", ![s].end = scan[s].end]
        BY <3>5 DEF Goto, TypeOK, Scan
      <4> QED
        BY <1>h, <2>1, <3>2, <3>3, <3>5, <4>1, <4>2 DEF MayRetry, d
    <3>6. \/ a = "accepted" /\ Finish(s, "sent")
          \/ a = "refused" /\ Finish(s, "failed")
          \/ a = "silence" /\ Finish(s, "unknown")
          \/ a = "again" /\ Goto(s, "retrying") /\ MayRetry(scan[s].nth)
          \/ a = "again" /\ Finish(s, "failed")
      BY <2>4 DEF Answers, OutcomeOfSilence
    <3> QED
      BY <3>2, <3>4, <3>5, <3>6 DEF Final
  <2> QED
    BY <1>10, <2>3, <2>4 DEF Post
<1>11. ASSUME NEW s \in Scanners, RecordEnd(s) PROVE Inv'
  <2> DEFINE d   == scan[s].of
             end == IF scan[s].pc = "retrying" THEN "pending" ELSE scan[s].end
  <2>1. /\ scan' = [scan EXCEPT ![s] = Onward(scan[s])]
        /\ UNCHANGED <<subscription, attempts, stale, answers, faults>>
        /\ status' = (IF status[d] = "attempting" THEN [status EXCEPT ![d] = end] ELSE status)
    BY <1>11 DEF RecordEnd, StillMine
  <2>2. /\ d \in Deliveries /\ attempts[d] = scan[s].nth /\ d # None
        /\ scan[s].pc = "retrying" => AllAgain(answers[d]) /\ attempts[d] < MaxAttempts
        /\ scan[s].pc = "finishing" => EndTrue(scan[s].end, answers[d])
        /\ scan[s].pc \in {"retrying", "finishing"}
    BY <1>11 DEF RecordEnd, ScanSound, HeldPCs
  <2>3. CASE status' = status
    BY <1>i, <2>1, <2>3 DEF TypeOK
  <2>4. CASE status[d] = "attempting" /\ status' = [status EXCEPT ![d] = end]
    <3>1. end \in {"pending"} \cup Final
      BY DEF Scan
    <3>2. /\ Onward(scan[s]) \in Scan /\ Onward(scan[s]).of = None
          /\ Onward(scan[s]).pc \notin HeldPCs
          /\ Onward(scan[s]).pc \in {"closing", "expiring", "claiming"} => Onward(scan[s]).left > 0
      BY Rested
    <3>3. EndTrue(end, answers[d])
      BY <2>2, OtherEnds
    <3>4. end = "pending" => AllAgain(answers[d]) /\ attempts[d] < MaxAttempts
      BY <2>2 DEF Scan, Final
    <3>5. end \notin {"none", "recording"}
      BY <3>1 DEF Final
    <3> HIDE DEF end, d
    <3>6. /\ status'[d] = end /\ \A e \in Deliveries : e # d => status'[e] = status[e]
          /\ status' \in [Deliveries -> {"none", "recording"} \cup Open \cup Final]
      BY <2>2, <2>4, <3>1 DEF TypeOK, Open
    <3>7. /\ scan'[s] = Onward(scan[s]) /\ \A u \in Scanners : u # s => scan'[u] = scan[u]
          /\ scan' \in [Scanners -> Scan]
      BY <2>1, <3>2 DEF TypeOK
    <3>8. TypeOK'
      BY <2>1, <3>6, <3>7 DEF TypeOK
    <3>9. Alone'
      BY <3>2, <3>7 DEF Alone
    <3>10. ASSUME NEW u \in Scanners PROVE ScanSound(u)'
      <4>1. CASE u = s
        BY <3>2, <3>7, <4>1 DEF ScanSound, HeldPCs
      <4>2. CASE u # s
        <5>1. scan[u].of # d
          BY <2>2, <4>2 DEF Alone, d
        <5>2. scan[u].of # None => status'[scan[u].of] = status[scan[u].of]
          BY <3>6, <5>1
        <5>3. scan'[u] = scan[u] /\ UNCHANGED <<attempts, answers>>
          BY <2>1, <3>7, <4>2
        <5> QED
          BY <5>2, <5>3 DEF ScanSound, HeldPCs
      <4> QED
        BY <4>1, <4>2
    <3>11. ASSUME NEW e \in Deliveries PROVE RowSound(e)'
      <4>1. CASE e = d
        BY <2>1, <3>3, <3>4, <3>5, <3>6, <4>1 DEF RowSound
      <4>2. CASE e # d
        BY <2>1, <3>6, <4>2 DEF RowSound
      <4> QED
        BY <4>1, <4>2
    <3> QED
      BY <3>8, <3>9, <3>10, <3>11 DEF Inv
  <2> QED
    BY <2>1, <2>3, <2>4
<1>12. ASSUME NEW s \in Scanners, Fault(s) PROVE Inv'
  <2>1. /\ scan' = [scan EXCEPT ![s] = Idle] /\ faults' \in 0..MaxFaults
        /\ UNCHANGED <<subscription, status, attempts, stale>>
    BY <1>12 DEF Fault, TypeOK
  <2>2. CASE answers' = answers
    BY <1>i, <2>1, <2>2
  <2>3. CASE scan[s].pc = "posting" /\ answers' = [answers EXCEPT ![scan[s].of] = Append(@, "silence")]
    <3> DEFINE d == scan[s].of
    <3>1. d \in Deliveries /\ status[d] \in {"attempting", "unknown"} /\ AllAgain(answers[d]) /\ d # None
      BY <2>3 DEF ScanSound, HeldPCs
    <3> HIDE DEF d
    <3>2. Append(answers[d], "silence") \in Seq(Answers) /\ AllButLast(Append(answers[d], "silence"))
      BY <3>1, OneMoreAnswer DEF Answers
    <3>3. /\ answers' \in [Deliveries -> Seq(Answers)] /\ AllButLast(answers'[d])
          /\ \A e \in Deliveries : e # d => answers'[e] = answers[e]
      BY <2>3, <3>1, <3>2 DEF TypeOK, d
    <3>4. Idle \in Scan /\ Idle.of = None /\ Idle.pc = "idle"
      BY DEF Idle, Scan, PCs, Final
    <3>5. /\ scan'[s] = Idle /\ \A u \in Scanners : u # s => scan'[u] = scan[u]
          /\ scan' \in [Scanners -> Scan]
      BY <2>1, <3>4 DEF TypeOK
    <3>6. TypeOK' /\ Alone'
      BY <2>1, <3>3, <3>4, <3>5 DEF TypeOK, Alone
    <3>7. ASSUME NEW u \in Scanners PROVE ScanSound(u)'
      <4>1. CASE u = s
        BY <3>4, <3>5, <4>1 DEF ScanSound, HeldPCs
      <4>2. CASE u # s
        <5>1. scan[u].of # d
          BY <3>1, <4>2 DEF Alone, d
        <5>2. scan[u].of # None => answers'[scan[u].of] = answers[scan[u].of]
          BY <3>3, <5>1
        <5>3. scan'[u] = scan[u] /\ UNCHANGED <<attempts, status>>
          BY <2>1, <3>5, <4>2
        <5> QED
          BY <5>2, <5>3 DEF ScanSound, HeldPCs
      <4> QED
        BY <4>1, <4>2
    <3>8. ASSUME NEW e \in Deliveries PROVE RowSound(e)'
      <4>1. CASE e = d
        BY <2>1, <3>1, <3>3, <4>1, OtherEnds DEF RowSound
      <4>2. CASE e # d
        BY <2>1, <3>3, <4>2 DEF RowSound
      <4> QED
        BY <4>1, <4>2
    <3> QED
      BY <3>6, <3>7, <3>8 DEF Inv
  <2> QED
    BY <1>12, <2>2, <2>3 DEF Fault
<1>13. CASE UNCHANGED vars
  BY <1>13, <1>r DEF vars, TypeOK
<1> QED
  BY <1>1, <1>2, <1>3, <1>4, <1>v, <1>5, <1>6, <1>7, <1>8, <1>9, <1>10, <1>11, <1>12, <1>13
     DEF Next, ScanStep

\* Whatever is crashed, expired, revoked or scanned twice: a request answered with a 2xx or a
\* refusal, or never answered, is the delivery's last; sent and failed are true of the answers.
THEOREM WebhooksTellTheTruth ==
    ASSUME WebhookAssumption PROVE Spec => [](TypeOK /\ OnlyAskedAgain /\ VerdictIsTrue)
<1>1. Init => Inv
  BY InitInv
<1>2. Inv /\ [Next]_vars => Inv'
  BY StepInv
<1>3. Inv => TypeOK /\ OnlyAskedAgain /\ VerdictIsTrue
  BY DEF Inv, RowSound, AllButLast, EndTrue, Got, OnlyAskedAgain, VerdictIsTrue
<1> QED
  BY <1>1, <1>2, <1>3, PTL DEF Spec

\* A delivery that has ended is never moved again: every write asks the status it expects.
THEOREM WebhookEndsAreFinal == ASSUME WebhookAssumption PROVE Spec => EndIsFinal
<1>1. Init => Inv
  BY InitInv
<1>2. Inv /\ [Next]_vars => Inv'
  BY StepInv
<1>3. Inv /\ [Next]_vars => [\A d \in Deliveries : status[d] \in Final => status'[d] = status[d]]_vars
  <2> SUFFICES ASSUME TypeOK, Next, NEW d \in Deliveries, status[d] \in Final
               PROVE  status'[d] = status[d]
    BY DEF Inv
  <2> USE DEF TypeOK, Final
  <2>1. ASSUME NEW e \in Deliveries, Trigger(e) \/ Record(e) \/ Age(e) PROVE status'[d] = status[d]
    BY <2>1 DEF Trigger, Record, Age
  <2>2. ASSUME Revoke \/ RevokeCommits PROVE status'[d] = status[d]
    BY <2>2 DEF Revoke, RevokeCommits, ClosedByRevoke
  <2>3. ASSUME NEW s \in Scanners, CloseRevoked(s) \/ ExpireClaims(s) \/ Claim(s)
        PROVE  status'[d] = status[d]
    BY <2>3 DEF CloseRevoked, Orphaned, ExpireClaims, Claim, Claimable
  <2>4. ASSUME NEW s \in Scanners, Start(s) \/ LoadSubscription(s) \/ Post(s) \/ Fault(s)
        PROVE  status'[d] = status[d]
    BY <2>4 DEF Start, LoadSubscription, Post, Fault
  <2>5. ASSUME NEW s \in Scanners, RecordEnd(s) PROVE status'[d] = status[d]
    BY <2>5 DEF RecordEnd, StillMine
  <2> QED
    BY <2>1, <2>2, <2>3, <2>4, <2>5 DEF Next, ScanStep
<1> QED
  BY <1>1, <1>2, <1>3, PTL DEF Spec, EndIsFinal
=============================================================================
