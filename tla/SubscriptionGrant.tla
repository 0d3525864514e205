------------------------- MODULE SubscriptionGrant -------------------------
(* Periodic grants of one user's subscriptions. A worker lists the           *)
(* subscriptions that are due, looks whether a cycle of the same tier covers *)
(* the time of the grant, creates one if none does and moves the time of the *)
(* next grant on: three statements to the database that no transaction joins.*)
(* Workers crash between them; the user cancels.                             *)
EXTENDS Naturals, FiniteSets

CONSTANTS
    Subs, Workers,
    Tier,       \* tier of each subscription; only Premium counts its cycles
    Length,     \* length of a cycle
    Window,     \* from the creation of a subscription to its expires_at
    MaxTime, MaxCycles, MaxCrashes  \* bounds: clock, cycles of all, crashes

Tiers == {"premium", "pro", "pro_mini"}
ASSUME GrantAssumption ==
    /\ Subs # {} /\ Tier \in [Subs -> Tiers]
    /\ Length \in Nat \ {0} /\ Window \in Nat \ {0}
    /\ {MaxTime, MaxCycles, MaxCrashes} \subseteq Nat

VARIABLES
    now,
    sub,        \* the rows of subscriptions
    cycles,     \* the rows of user_cycle_states, numbered as created
    pc, work,   \* of each worker: where it is, the row it read and its grant
    leaving,    \* subscriptions whose cancellation is half done
    crashes

vars == <<now, sub, cycles, pc, work, leaving, crashes>>

Times == 0..(MaxTime + Length)
\* A row as Postgres keeps it; next_grant_at is never NULL for these.
Rows == [status : {"active", "expired", "canceled"}, next : Times, granted : 0..MaxCycles,
         renew : BOOLEAN]
Cycles == [id : 1..MaxCycles, sub : Subs, start : 0..MaxTime, canceled : BOOLEAN]
Jobs == [sub : Subs, granted : 0..MaxCycles, at : 0..MaxTime, end : Times]
NoJob == [sub |-> CHOOSE s \in Subs : TRUE, granted |-> 0, at |-> 0, end |-> 0]
Idle == "idle"

TypeOK ==
    /\ now \in 0..MaxTime
    /\ sub \in [Subs -> Rows]
    /\ cycles \subseteq Cycles
    /\ pc \in [Workers -> {Idle, "look", "postpone", "start", "commit", "full", "renewal", "advance"}]
    /\ work \in [Workers -> Jobs]
    /\ leaving \subseteq Subs /\ crashes \in 0..MaxCrashes

Init ==
    /\ now = 0
    /\ sub = [s \in Subs |-> [status |-> "active", next |-> 0, granted |-> 0, renew |-> TRUE]]
    /\ cycles = {} /\ leaving = {} /\ crashes = 0
    /\ pc = [w \in Workers |-> Idle]
    /\ work = [w \in Workers |-> NoJob]
-----------------------------------------------------------------------------
Go(w, to) == pc' = [pc EXCEPT ![w] = to] /\ UNCHANGED work
Done(w) == pc' = [pc EXCEPT ![w] = Idle] /\ work' = [work EXCEPT ![w] = NoJob]
Begin(w, job) == pc' = [pc EXCEPT ![w] = "look"] /\ work' = [work EXCEPT ![w] = job]
End(c) == c.start + Length
\* ListEffectiveByUserAndStates: not cancelled, and the period has begun and
\* not ended. Used up cycles count; those past their end have expired.
Effective(c) == ~c.canceled /\ c.start <= now /\ now < End(c)
\* ListActiveByPremium, of all states a cycle of the subscription may count in.
Counted(s) == {c \in cycles : c.sub = s /\ ~c.canceled}
MaxOf(s) == (Window + Length - 1) \div Length

\* ListDueForGrant; the grant is for the time that was due or for this moment.
Fetch(w, s) ==
    /\ pc[w] = Idle /\ sub[s].status = "active" /\ sub[s].next <= now
    /\ \E at \in {sub[s].next, now} :
          Begin(w, [sub |-> s, granted |-> sub[s].granted, at |-> at, end |-> 0])
    /\ UNCHANGED <<now, sub, cycles, leaving, crashes>>

\* The status is that of the row it read. GetCycleSnapshot gives the latest end
\* of the effective cycles of the tier, whichever subscription they are of.
Same(c, s) == Tier[c.sub] = Tier[s]
Covering_OfSub(j) == {c \in cycles : Effective(c) /\ c.sub = j.sub /\ End(c) > j.at}
Covering(j) == {c \in cycles : Effective(c) /\ Same(c, j.sub) /\ End(c) > j.at}
Latest(S) == CHOOSE e \in {End(c) : c \in S} : \A c \in S : End(c) <= e
Look(w) ==
    /\ pc[w] = "look"
    /\ \/ Covering(work[w]) = {} /\ Go(w, "start")
       \/ /\ Covering(work[w]) # {}
          /\ pc' = [pc EXCEPT ![w] = "postpone"]
          /\ work' = [work EXCEPT ![w].end = Latest(Covering(work[w]))]
    /\ UNCHANGED <<now, sub, cycles, leaving, crashes>>

\* UpdateNextGrant; the count of the periods is the one that was read.
Moved(s, next, granted) == sub' = [sub EXCEPT ![s].next = next, ![s].granted = granted]
Until_Due(j) == j.at
Until(j) == j.end
Postpone(w) ==
    /\ pc[w] = "postpone"
    /\ Moved(work[w].sub, Until(work[w]), work[w].granted)
    /\ Done(w)
    /\ UNCHANGED <<now, cycles, leaving, crashes>>

\* The transaction of StartPremiumSubscription checks expiry and number of
\* cycles; those of Pro and Pro Mini check nothing.
Limited_ByOne(j) == Tier[j.sub] = "premium" /\ Cardinality(Counted(j.sub)) > MaxOf(j.sub)
Limited(j) ==
    /\ Tier[j.sub] = "premium"
    /\ j.at >= Window \/ Cardinality(Counted(j.sub)) >= MaxOf(j.sub)
Start(w) ==
    /\ pc[w] = "start"
    /\ Go(w, IF Limited(work[w]) THEN "full" ELSE "commit")
    /\ UNCHANGED <<now, sub, cycles, leaving, crashes>>
\* It commits, or an error rolls it back and ends the grant.
Commit(w) ==
    /\ pc[w] = "commit" /\ Cardinality(cycles) < MaxCycles
    /\ \/ /\ cycles' = cycles \cup {[id |-> Cardinality(cycles) + 1, sub |-> work[w].sub,
                                     start |-> work[w].at, canceled |-> FALSE]}
          /\ Go(w, "advance")
       \/ crashes < MaxCrashes /\ Done(w) /\ UNCHANGED cycles
    /\ crashes' = IF cycles' = cycles THEN crashes + 1 ELSE crashes
    /\ UNCHANGED <<now, sub, leaving>>

\* At its limit the subscription expires and is not renewed any more.
Full(w) ==
    /\ pc[w] = "full" /\ sub' = [sub EXCEPT ![work[w].sub].status = "expired"]
    /\ Go(w, "renewal")
    /\ UNCHANGED <<now, cycles, leaving, crashes>>
Renewal(w) ==
    /\ pc[w] = "renewal" /\ sub' = [sub EXCEPT ![work[w].sub].renew = FALSE]
    /\ Done(w)
    /\ UNCHANGED <<now, cycles, leaving, crashes>>

NextAt(j) == j.at + Length
Counting(j) == j.granted + 1
Advance(w) ==
    /\ pc[w] = "advance"
    /\ Moved(work[w].sub, NextAt(work[w]), Counting(work[w]))
    /\ Done(w)
    /\ UNCHANGED <<now, cycles, leaving, crashes>>

\* The process ends; the scheduler tries again.
Crash(w) ==
    /\ pc[w] # Idle /\ crashes < MaxCrashes
    /\ crashes' = crashes + 1 /\ Done(w)
    /\ UNCHANGED <<now, sub, cycles, leaving>>

\* The status is written by the payment service, then CancelPremiumSubscription
\* or CancelProSubscription cancels the ACTIVE cycles in one transaction; those
\* used up or already marked expired stay, and any may be.
Cancel(s) ==
    /\ sub[s].status = "active"
    /\ sub' = [sub EXCEPT ![s].status = "canceled"] /\ leaving' = leaving \cup {s}
    /\ UNCHANGED <<now, cycles, pc, work, crashes>>
CancelCycles(s) ==
    /\ s \in leaving /\ leaving' = leaving \ {s}
    /\ \E active \in SUBSET Counted(s) :
          cycles' = (cycles \ active) \cup {[c EXCEPT !.canceled = TRUE] : c \in active}
    /\ UNCHANGED <<now, sub, pc, work, crashes>>

Tick ==
    /\ now < MaxTime /\ now' = now + 1
    /\ UNCHANGED <<sub, cycles, pc, work, leaving, crashes>>
-----------------------------------------------------------------------------
\* grantPremiumCycle; grantProCycle and grantProMiniCycle differ in the tier only.
Step(w) ==
    \/ \E s \in Subs : Fetch(w, s)
    \/ Look(w) \/ Postpone(w) \/ Start(w) \/ Commit(w) \/ Full(w) \/ Renewal(w) \/ Advance(w)
Next ==
    \/ \E w \in Workers : Step(w) \/ Crash(w)
    \/ \E s \in Subs : Cancel(s) \/ CancelCycles(s)
    \/ Tick

\* The scheduler comes back; a worker that has begun goes on unless it crashes.
Fairness == \A w \in Workers :
    WF_vars(Step(w)) /\ \A s \in Subs : SF_vars(Fetch(w, s))

Spec == Init /\ [][Next]_vars /\ Fairness
-----------------------------------------------------------------------------
(* Properties *)

\* At every moment at most one cycle of a tier runs: the check for a cycle that
\* covers the grant and the creation of the cycle are two steps
\* (grantPremiumCycle, grantProCycle, grantProMiniCycle).
CoveredOnce ==
    \A c, d \in cycles : Effective(c) /\ Effective(d) /\ Same(c, d.sub) => c = d

\* A Premium subscription never has more cycles than fit in its window, however
\* often a grant is interrupted and repeated (StartPremiumSubscription).
WithinLimit == \A s \in Subs :
    Tier[s] = "premium" => Cardinality(Counted(s)) <= MaxOf(s)

\* A subscription that is due gets a cycle of its tier, or expires, or is
\* cancelled, however the workers crash.
Due(s) == sub[s].status = "active" /\ sub[s].next <= now
DueIsServed == \A s \in Subs : Due(s) ~> ~Due(s)
=============================================================================
