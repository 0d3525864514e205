---------------------------- MODULE QuotaLedger ----------------------------
(* Two quotas of one user's cycles and the books kept of them. Summaries are *)
(* taken and written into summary_ledger in one transaction; seconds are     *)
(* taken in a transaction, and usage_ledger is written after it, statement   *)
(* by statement, with errors only logged. Either transaction first marks the *)
(* cycles that have ended EXPIRED. Requests run side by side and lock the    *)
(* rows of the same cycles, each until its transaction ends; the database    *)
(* (PostgreSQL) rolls back one of those that wait for each other in a circle.*)
(* All are of one meeting; no cycle is granted, reset or cancelled meanwhile.*)
EXTENDS Naturals, Sequences, FiniteSets, FiniteSetsExt

CONSTANTS
    Reqs, Nobody,
    Kind,       \* of each request: "seconds" or "summary"
    Need,       \* what it asks for
    Quotas,     \* quota of each cycle, of either kind, by expiration
    TierOf,     \* tier of each cycle; those of one tier start as they end
    MaxLapsed,  \* bound: cycles whose period ends
    MaxFaults   \* bound: statements that fail, requests that are cut off

Cycles == DOMAIN Quotas
Kinds == {"seconds", "summary"}
\* The tiers in the order of the expiry pass.
PassOrder == <<"PRO", "PRO_MINI", "PAYG", "SPECIAL_OFFER", "PREMIUM", "FREE">>
ASSUME QuotaAssumption ==
    /\ Quotas \in Seq(Nat) /\ Nobody \notin Reqs /\ IsFiniteSet(Reqs)
    /\ Kind \in [Reqs -> Kinds] /\ Need \in [Reqs -> Nat \ {0}] /\ MaxFaults \in Nat
    /\ TierOf \in [DOMAIN Quotas -> {PassOrder[i] : i \in DOMAIN PassOrder}]
    /\ MaxLapsed \in Nat

VARIABLES
    lapsed,     \* how many cycles are past their period_end, by the clock
    state,      \* committed state of the cycles
    clock,      \* what "lapsed" was when a request's expiry pass began
    todo,       \* the cycles its pass has listed and not yet marked
    used,       \* committed used_seconds and summary_used of the cycles
    held,       \* the transaction that has changed the row and not ended
    pc, seen, at,
    took,       \* what a request has taken of each cycle
    wrote,      \* what it has written to summary_ledger, not yet committed
    found,      \* the row of usage_ledger it is about to change, 0 for none
    usage, summary,     \* usage_ledger, row by row; summary_ledger, summed
    faults

quotaVars == <<used, held, pc, seen, at, took, wrote, found, usage, summary, faults,
               lapsed, state, clock, todo>>
tables == <<used, usage, summary, state, lapsed>>
pass == <<clock, todo>>

PerCycle == [Cycles -> Nat]
Zero == [c \in Cycles |-> 0]
QuotaTypeOK ==
    /\ used \in [Kinds -> PerCycle] /\ summary \in PerCycle
    /\ held \in [Cycles -> Reqs \cup {Nobody}]
    /\ pc \in [Reqs -> {"idle", "expire", "take", "record", "find", "write", "done"}]
    /\ {seen, took, wrote} \subseteq [Reqs -> PerCycle]
    /\ at \in [Reqs -> 1..(Len(Quotas) + 1)]
    /\ usage \in Seq([cycle : Cycles, seconds : Nat])
    /\ \A r \in Reqs : found[r] \in 0..Len(usage)
    /\ faults \in 0..MaxFaults /\ lapsed \in 0..MaxLapsed
    /\ state \in [Cycles -> {"ACTIVE", "COMPLETED", "EXPIRED"}]
    /\ clock \in [Reqs -> 0..MaxLapsed] /\ todo \in [Reqs -> SUBSET Cycles]

QuotaInit ==
    /\ used = [k \in Kinds |-> Zero] /\ summary = Zero
    /\ held = [c \in Cycles |-> Nobody]
    /\ pc = [r \in Reqs |-> "idle"] /\ at = [r \in Reqs |-> 1]
    /\ seen = [r \in Reqs |-> Zero] /\ took = seen /\ wrote = seen
    /\ found = [r \in Reqs |-> 0] /\ usage = <<>> /\ faults = 0
    /\ lapsed = 0 /\ state = [c \in Cycles |-> "ACTIVE"]
    /\ clock = [r \in Reqs |-> 0] /\ todo = [r \in Reqs |-> {}]
-----------------------------------------------------------------------------
Sum(f) == MapThenSumSet(LAMBDA c : f[c], Cycles)
Left(r) == Need[r] - Sum(took[r])
GoTo(r, to) == pc' = [pc EXCEPT ![r] = to]
\* The cycles are gone through in the order of their expiration.
Nth_Listed(r) == IF Kind[r] = "summary" THEN Len(Quotas) + 1 - at[r] ELSE at[r]
Nth(r) == at[r]
Over(r) == at[r] > Len(Quotas)
Onward(r) == at' = [at EXCEPT ![r] = @ + 1]
Rewind(r) == at' = [at EXCEPT ![r] = 1]
Release(r) == held' = [c \in Cycles |-> IF held[c] = r THEN Nobody ELSE held[c]]
Fault == faults < MaxFaults /\ faults' = faults + 1

RollBack(r) ==
    /\ GoTo(r, "done") /\ Release(r)
    /\ took' = [took EXCEPT ![r] = Zero] /\ wrote' = [wrote EXCEPT ![r] = Zero]
    /\ UNCHANGED <<seen, at, found, pass, tables>>

PeriodEnds ==
    /\ lapsed < MaxLapsed /\ lapsed' = lapsed + 1
    /\ UNCHANGED <<used, held, pc, seen, at, took, wrote, found, usage, summary, faults,
                   state, pass>>

\* A row a transaction has changed and taken nothing from: it marked it EXPIRED.
Marked(r) == {c \in Cycles : held[c] = r /\ took[r][c] = 0}

\* The transaction begins: CheckAndExpireCycles reads the clock once.
Begin(r) ==
    /\ pc[r] = "idle" /\ GoTo(r, "expire") /\ clock' = [clock EXCEPT ![r] = lapsed]
    /\ UNCHANGED <<held, seen, at, took, wrote, found, faults, todo, tables>>

\* Of Pro and Pro Mini one cycle that has ended expires all that are ACTIVE.
Expiring(r, i) ==
    LET active == {c \in Cycles \ Marked(r) :
                     TierOf[c] = PassOrder[i] /\ state[c] = "ACTIVE"}
        past == {c \in active : c <= clock[r]}
    IN  IF i <= 2 /\ past # {} THEN active ELSE past
Passed(r) == todo[r] = {} /\ \A i \in DOMAIN PassOrder : Expiring(r, i) = {}
ListTier(r) ==
    /\ pc[r] = "expire" /\ todo[r] = {}
    /\ \E i \in DOMAIN PassOrder :
         /\ Expiring(r, i) # {} /\ \A j \in 1..(i - 1) : Expiring(r, j) = {}
         /\ todo' = [todo EXCEPT ![r] = Expiring(r, i)]
    /\ UNCHANGED <<pc, held, seen, at, took, wrote, found, faults, clock, tables>>

\* UPDATE ... WHERE state = 'ACTIVE' waits for the row. If it hits none, the
\* pass is given up, which is only logged: nothing has ended, as it were.
First(r, c) == c \in todo[r] /\ \A d \in todo[r] : c <= d
Mark(r) ==
    /\ pc[r] = "expire"
    /\ \E c \in Cycles :
         /\ First(r, c)
         /\ \/ /\ state[c] = "ACTIVE" /\ held[c] = Nobody
               /\ held' = [held EXCEPT ![c] = r]
               /\ todo' = [todo EXCEPT ![r] = @ \ {c}] /\ UNCHANGED clock
            \/ /\ state[c] # "ACTIVE" /\ UNCHANGED held
               /\ todo' = [todo EXCEPT ![r] = {}] /\ clock' = [clock EXCEPT ![r] = 0]
    /\ UNCHANGED <<pc, seen, at, took, wrote, found, faults, tables>>

\* ListConsumable, and for summaries the completed cycles too, read without a
\* lock; nothing is wanted of a cycle that is not listed.
Listed(r, c) ==
    /\ c > lapsed /\ c \notin Marked(r)
    /\ state[c] = "ACTIVE" \/ (Kind[r] = "summary" /\ state[c] = "COMPLETED")
List(r) ==
    /\ pc[r] = "expire" /\ Passed(r) /\ GoTo(r, "take")
    /\ seen' = [seen EXCEPT ![r] = [c \in Cycles |->
                  IF Listed(r, c) THEN used[Kind[r]][c] ELSE Quotas[c]]]
    /\ UNCHANGED <<held, at, took, wrote, found, faults, pass, tables>>

Least(m, n) == IF m < n THEN m ELSE n
Wanted(r, c) == Least(Quotas[c] - seen[r][c], Left(r))
\* UPDATE ... WHERE used + n <= total decides on the row, not on the list.
RoomFor_Listed(r, c) == seen[r][c] + Wanted(r, c) <= Quotas[c]
RoomFor(r, c) == used[Kind[r]][c] + Wanted(r, c) <= Quotas[c]
\* It waits for a row that has room; one that has less than wanted gives nothing.
TakeFrom(r) ==
    /\ pc[r] = "take" /\ ~Over(r) /\ Left(r) > 0
    /\ LET c == Nth(r) IN
         \/ /\ Wanted(r, c) > 0 /\ held[c] = Nobody /\ RoomFor(r, c)
            /\ held' = [held EXCEPT ![c] = r]
            /\ took' = [took EXCEPT ![r][c] = Wanted(r, c)]
         \/ /\ Wanted(r, c) = 0 \/ ~RoomFor(r, c)
            /\ UNCHANGED <<held, took>>
    /\ Onward(r)
    /\ UNCHANGED <<pc, seen, wrote, found, faults, pass, tables>>

\* "insufficient balance": the transaction is rolled back.
Refuse_Open(r) ==
    /\ pc[r] = "take" /\ Left(r) > 0 /\ Over(r)
    /\ GoTo(r, "done")
    /\ UNCHANGED <<held, seen, at, took, wrote, found, faults, pass, tables>>
Refuse(r) ==
    /\ pc[r] = "take" /\ Left(r) > 0 /\ Over(r) /\ RollBack(r) /\ UNCHANGED faults

\* A transaction of seconds ends by completing the cycles it has emptied, by
\* its list; one that was expired since fails it.
Finished(r) == {c \in Cycles : took[r][c] > 0 /\ seen[r][c] + took[r][c] = Quotas[c]}
Become(r, done) == state' = [c \in Cycles |-> CASE c \in Marked(r) -> "EXPIRED"
                                               [] c \in done -> "COMPLETED"
                                               [] OTHER -> state[c]]
Enough(r) ==
    /\ pc[r] = "take" /\ Left(r) = 0
    /\ \/ /\ Kind[r] = "summary" /\ GoTo(r, "record") /\ Rewind(r)
          /\ UNCHANGED <<held, used, state>>
       \/ /\ Kind[r] = "seconds" /\ \A c \in Finished(r) : state[c] = "ACTIVE"
          /\ GoTo(r, "find") /\ Rewind(r) /\ Release(r) /\ Become(r, Finished(r))
          /\ used' = [used EXCEPT !["seconds"] = [c \in Cycles |-> @[c] + took[r][c]]]
    /\ UNCHANGED <<seen, took, wrote, found, usage, summary, faults, lapsed, pass>>
Stale(r) ==
    /\ pc[r] = "take" /\ Left(r) = 0 /\ Kind[r] = "seconds"
    /\ \E c \in Finished(r) : state[c] # "ACTIVE"
    /\ RollBack(r) /\ UNCHANGED faults

\* summary_ledger, in the transaction: an error ends it.
Lost_Logged(r) ==
    /\ Onward(r) /\ UNCHANGED <<pc, held, seen, took, wrote, found, pass, tables>>
Lost(r) == RollBack(r)
Record(r) ==
    /\ pc[r] = "record" /\ ~Over(r)
    /\ \/ /\ wrote' = [wrote EXCEPT ![r][at[r]] = took[r][at[r]]]
          /\ Onward(r) /\ UNCHANGED <<pc, held, seen, took, found, faults, pass, tables>>
       \/ took[r][at[r]] > 0 /\ Fault /\ Lost(r)
CommitSummary(r) ==
    /\ pc[r] = "record" /\ Over(r) /\ GoTo(r, "done") /\ Release(r) /\ Become(r, {})
    /\ used' = [used EXCEPT !["summary"] = [c \in Cycles |-> @[c] + took[r][c]]]
    /\ summary' = [c \in Cycles |-> summary[c] + wrote[r][c]]
    /\ UNCHANGED <<seen, at, took, wrote, found, usage, faults, lapsed, pass>>

\* usage_ledger, after the commit, for each deduction: the row of the meeting
\* and the cycle, if one is found; an error counts as none.
RowsOf(c) == {i \in DOMAIN usage : usage[i].cycle = c}
Find(r) ==
    /\ pc[r] = "find" /\ ~Over(r)
    /\ \/ took[r][at[r]] = 0 /\ Onward(r) /\ UNCHANGED <<pc, found, faults>>
       \/ /\ took[r][at[r]] > 0 /\ GoTo(r, "write") /\ UNCHANGED at
          /\ \/ /\ \E i \in RowsOf(at[r]) \cup {0} :
                     (i = 0 <=> RowsOf(at[r]) = {}) /\ found' = [found EXCEPT ![r] = i]
                /\ UNCHANGED faults
             \/ Fault /\ found' = [found EXCEPT ![r] = 0]
    /\ UNCHANGED <<held, seen, took, wrote, pass, tables>>
\* UpdateConsumptionWithMeta adds in the database.
Added_Fresh(r) == took[r][at[r]]
Added(r) == usage[found[r]].seconds + took[r][at[r]]
WriteUsage(r) ==
    /\ pc[r] = "write" /\ GoTo(r, "find") /\ Onward(r)
    /\ \/ /\ found[r] # 0 /\ usage' = [usage EXCEPT ![found[r]].seconds = Added(r)]
          /\ UNCHANGED faults
       \/ /\ found[r] = 0 /\ UNCHANGED faults
          /\ usage' = Append(usage, [cycle |-> at[r], seconds |-> took[r][at[r]]])
       \/ Fault /\ UNCHANGED usage
    /\ UNCHANGED <<held, seen, took, wrote, found, used, summary, state, lapsed, pass>>
Written(r) ==
    /\ pc[r] = "find" /\ Over(r) /\ GoTo(r, "done")
    /\ UNCHANGED <<held, seen, at, took, wrote, found, faults, pass, tables>>

\* The request is cut off: a statement fails, the context ends, or the process.
Open(r) == pc[r] \in {"expire", "take", "record"}
CutOff(r) == Fault /\ \/ Open(r) /\ RollBack(r)
                      \/ /\ pc[r] \in {"find", "write"} /\ GoTo(r, "done")
                         /\ UNCHANGED <<held, seen, at, took, wrote, found, pass, tables>>

\* An UPDATE whose row another transaction has changed waits for its end; the
\* database rolls back one of a circle of them (deadlock detected).
WaitsFor(r, q) ==
    \/ /\ pc[r] = "expire"
       /\ \E c \in Cycles : First(r, c) /\ state[c] = "ACTIVE" /\ held[c] = q
    \/ /\ pc[r] = "take" /\ ~Over(r) /\ held[Nth(r)] = q /\ Left(r) > 0
       /\ Wanted(r, Nth(r)) > 0 /\ RoomFor(r, Nth(r))
Circle(S) ==
    /\ S # {}
    /\ \A r \in S : (\E q \in S : WaitsFor(r, q)) /\ (\E q \in S : WaitsFor(q, r))
Victim(r) ==
    /\ Open(r) /\ \E S \in SUBSET Reqs : r \in S /\ Circle(S)
    /\ RollBack(r) /\ UNCHANGED faults

Work(r) ==
    \/ Begin(r) \/ ListTier(r) \/ Mark(r) \/ List(r)
    \/ TakeFrom(r) \/ Refuse(r) \/ Enough(r) \/ Stale(r) \/ Record(r) \/ CommitSummary(r)
    \/ Find(r) \/ WriteUsage(r) \/ Written(r)
QuotaNext == PeriodEnds \/ \E r \in Reqs : Work(r) \/ Victim(r) \/ CutOff(r)
QuotaSpec ==
    /\ QuotaInit /\ [][QuotaNext]_quotaVars
    /\ WF_quotaVars(\E r \in Reqs : Work(r) \/ Victim(r))
-----------------------------------------------------------------------------
(* Properties *)

\* Neither quota of a cycle is exceeded, counting what open transactions hold,
\* though every request decides from a list read without a lock
\* (IncrementUsage, IncrementSummaryUsage).
Holds(r, k, c) == IF Open(r) /\ Kind[r] = k THEN took[r][c] ELSE 0
SumOver(S, f(_)) == MapThenSumSet(f, S)
QuotaKept == \A k \in Kinds, c \in Cycles :
    used[k][c] + SumOver(Reqs, LAMBDA r : Holds(r, k, c)) <= Quotas[c]

\* summary_ledger says of every cycle exactly what was taken, whichever
\* statement of ConsumeSummaryQuota fails.
SummaryAgrees == summary = used["summary"]

\* usage_ledger never says more of a cycle than was taken, and all of it unless
\* a statement failed, however charges of one meeting overlap (facade Consume).
Booked(c) == SumOver(RowsOf(c), LAMBDA i : usage[i].seconds)
ToBook(r, c) == IF pc[r] \in {"find", "write"} /\ c >= at[r] THEN took[r][c] ELSE 0
UsageAgrees == \A c \in Cycles :
    LET booked == Booked(c) + SumOver(Reqs, LAMBDA r : ToBook(r, c)) IN
    booked <= used["seconds"][c] /\ (faults = 0 => booked = used["seconds"][c])

\* The increments of both kinds lock the cycles in one order (sort.Slice in
\* both) and never wait for each other in a circle; when transactions do, one of
\* them has marked expired cycles before, which are locked in another order.
OnlyExpiryCircles ==
    \A S \in SUBSET Reqs : Circle(S) => \E r \in S : Marked(r) # {}

\* Every request is answered, some because the database has found them waiting
\* in a circle: no transaction ends with its rows still locked (WithTransaction).
Answered == \A r \in Reqs : <>(pc[r] = "done")
=============================================================================
