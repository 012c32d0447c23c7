---------------------------- MODULE AiCallLeases ----------------------------
(***************************************************************************)
(* Admission of one organization's requests to AI providers.  A request     *)
(* commits a lease under an advisory lock before it goes out, outside any   *)
(* transaction, and removes it when it has settled.  A lease that nobody    *)
(* removes counts until it expires.                                         *)
(*                                                                         *)
(* A tick is a unit of elapsed time: the caller's timer and the database    *)
(* clock are never compared, only trusted to run at one rate.               *)
(***************************************************************************)
EXTENDS Integers, FiniteSets

CONSTANTS
    Calls,        \* physical requests, each made once
    Probes,       \* diagnostics: a class with a slot of its own
    ShortCalls,   \* embeddings and probes: aiCallDispatchBudget
    LongBudget, ShortBudget,
    Grace,        \* 60 seconds
    Drain,        \* a provider's SDK settles this soon after it is aborted
    Limit,        \* the plan's concurrentJobs
    MaxTime,      \* bound
    None

AiCallAssumption ==
    /\ IsFiniteSet(Calls) /\ Probes \subseteq Calls /\ None \notin Calls
    /\ LongBudget \in Nat /\ ShortBudget \in Nat /\ Limit \in Nat
    /\ Grace \in Nat /\ Drain \in Nat /\ Drain < Grace

VARIABLES
    now,     \* elapsed time
    call,    \* progress of each request: pc, and when its timer was started
    read,    \* clock_timestamp() as its admission read it
    lease,   \* lease_expires_at of its lease, 0 when there is none
    holder   \* who holds the advisory lock

vars == <<now, call, read, lease, holder>>

PCs == {"idle", "waiting", "locked", "counted", "granted", "dispatching", "releasing", "done"}
Budget(c) == IF c \in ShortCalls THEN ShortBudget ELSE LongBudget

In(pc)     == {c \in Calls : call[c].pc = pc}
Live       == {c \in Calls : lease[c] > now}
Goto(c, pc) ==
    call' = [call EXCEPT ![c] = [pc |-> pc, start |-> IF pc = "done" THEN 0 ELSE @.start]]
Unlock(c)  == holder' = IF holder = c THEN None ELSE holder

(***************************************************************************)
(* withHostedAiCall                                                         *)
(***************************************************************************)
\* AbortSignal.timeout, started before any SQL.
TimedOut(c) == now >= call[c].start + Budget(c)

Begin(c) ==
    /\ call[c].pc = "idle"
    /\ call' = [call EXCEPT ![c] = [pc |-> "waiting", start |-> now]]
    /\ UNCHANGED <<now, read, lease, holder>>

\* Faulty: no lock around the count and the insert.
LockFreeAlways == TRUE

LockFree == holder = None

Lock(c) ==
    /\ call[c].pc = "waiting" /\ LockFree
    /\ holder' = c
    /\ Goto(c, "locked")
    /\ UNCHANGED <<now, read, lease>>

\* A probe counts probes; any other request counts all.
Occupied(c) == {d \in Live : c \in Probes => d \in Probes}

\* assertBillingGrowth with one more, or the single slot of the probes.
Admitted(c) == Cardinality(Occupied(c)) + 1 <= (IF c \in Probes THEN 1 ELSE Limit)

Count(c) ==
    /\ call[c].pc = "locked" /\ Admitted(c)
    /\ read' = [read EXCEPT ![c] = now]
    /\ Goto(c, "counted")
    /\ UNCHANGED <<now, lease, holder>>

\* Faulty: the lease lasts as long as the budget.
ExpiresAtDeadline(c) == read[c] + Budget(c)

ExpiresAt(c) == read[c] + Budget(c) + Grace

\* The insert commits; the answer may get lost.  Expired rows go with it.
Commit(c) ==
    /\ call[c].pc = "counted"
    /\ lease' = [d \in Calls |-> IF d = c THEN ExpiresAt(c)
                                 ELSE IF lease[d] <= read[c] THEN 0 ELSE lease[d]]
    /\ read' = [read EXCEPT ![c] = 0]
    /\ Unlock(c)
    /\ \E pc \in {"granted", "done"} : Goto(c, pc)
    /\ UNCHANGED now

\* Over the limit, aborted, no authority or subscription, a failing query: rolled back.
Refuse(c) ==
    /\ call[c].pc \in {"waiting", "locked", "counted"}
    /\ read' = [read EXCEPT ![c] = 0]
    /\ Goto(c, "done") /\ Unlock(c)
    /\ UNCHANGED <<now, lease>>

\* checkSignal, then the request; no transaction is open.
Dispatch(c) ==
    /\ call[c].pc = "granted"
    /\ Goto(c, IF TimedOut(c) THEN "releasing" ELSE "dispatching")
    /\ UNCHANGED <<now, read, lease, holder>>

\* An answer, an error, or the end of an aborted request; the caller may also abort a
\* granted request that has not gone out.
Settle(c) ==
    /\ call[c].pc \in {"granted", "dispatching"}
    /\ Goto(c, "releasing")
    /\ UNCHANGED <<now, read, lease, holder>>

\* releaseHostedAiCall: the exact lease, or, when the query fails, nothing.
Release(c) ==
    /\ call[c].pc = "releasing"
    /\ \/ lease' = [lease EXCEPT ![c] = 0]
       \/ UNCHANGED lease
    /\ Goto(c, "done")
    /\ UNCHANGED <<now, read, holder>>

\* The process dies: its connections and requests with it, its lease stays.
Crash(c) ==
    /\ call[c].pc \notin {"idle", "done"}
    /\ read' = [read EXCEPT ![c] = 0]
    /\ Goto(c, "done") /\ Unlock(c)
    /\ UNCHANGED <<now, lease>>

\* Cooperative cancellation: no request outlives its budget by more than Drain.
Overdue(c) == call[c].pc = "dispatching" /\ now >= call[c].start + Budget(c) + Drain

Tick ==
    /\ now < MaxTime
    /\ \A c \in Calls : ~Overdue(c)
    /\ now' = now + 1
    /\ UNCHANGED <<call, read, lease, holder>>

Init ==
    /\ now = 1
    /\ call = [c \in Calls |-> [pc |-> "idle", start |-> 0]]
    /\ read = [c \in Calls |-> 0]
    /\ lease = [c \in Calls |-> 0]
    /\ holder = None

Next ==
    \/ \E c \in Calls :
          \/ Begin(c) \/ Lock(c) \/ Count(c) \/ Commit(c) \/ Refuse(c)
          \/ Dispatch(c) \/ Settle(c) \/ Release(c) \/ Crash(c)
    \/ Tick

Spec == Init /\ [][Next]_vars

(***************************************************************************)
(* Properties                                                               *)
(***************************************************************************)
TypeOK ==
    /\ now \in Nat
    /\ call \in [Calls -> [pc : PCs, start : Nat]]
    /\ read \in [Calls -> Nat] /\ lease \in [Calls -> Nat]
    /\ holder \in Calls \cup {None}

\* A request on its way is covered by its lease to its end, so that nobody else counts
\* the slot as free: the admission may be slow, its answer late, the provider slow.
LeaseCoversCall == \A c \in In("dispatching") : lease[c] > now

\* The plan's limit and the single slot of the probes bound the requests that are really
\* on their way, not the rows; crashes, lost answers and failed releases included.
CallsBounded ==
    /\ Cardinality(In("dispatching") \ Probes) <= Limit
    /\ Cardinality(In("dispatching") \cap Probes) <= 1
=============================================================================
