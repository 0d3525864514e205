---------------------------- MODULE BalanceWatch ----------------------------
(* The monitor of one session: it bills it, keeps the cached balance, warns  *)
(* the user and stops the session when the balance is used up, while the     *)
(* user pauses and resumes and the balance changes from outside. The cache   *)
(* hands out the session itself (memory) or a copy of it (Redis). A unit of  *)
(* time and of balance is one tick of the monitor, MonitoringInterval; it is *)
(* done with a tick in less than the five seconds for which it keeps the     *)
(* answer of a direct query. A charge that fails takes nothing here; one     *)
(* that is taken and reported as failed is SessionBilling's, and so is a     *)
(* session whose meeting is not there yet.                                   *)
EXTENDS Integers

CONSTANTS
    Shared,             \* the cache is in memory
    Multiplier,         \* units charged per unit transcribed
    Threshold, Window,  \* of each warning
    LowBalance, LowTTL, TTL,    \* how long a cached balance is good
    Enough,             \* balance above which a refused charge is forgiven
    Start,              \* balances sessions begin with
    Top, MaxOwed,       \* bounds: balance; time a charge is counted for
    MaxEvents, MaxFaults    \* bounds: acts of the user, calls that fail

Warnings == DOMAIN Threshold
ASSUME WatchAssumption ==
    /\ Shared \in BOOLEAN /\ Multiplier \in {1, 2}
    /\ Threshold \in [Warnings -> Nat] /\ Window \in [Warnings -> Nat]
    /\ {LowBalance, LowTTL, TTL, Enough, Top, MaxOwed, MaxEvents, MaxFaults} \subseteq Nat
    /\ LowTTL <= TTL /\ Start \subseteq 1..Top
    /\ \A w, v \in Warnings :    \* the order of the tests is of no account
         w = v \/ Threshold[w] <= Threshold[v] - Window[v]
               \/ Threshold[v] <= Threshold[w] - Window[w]

VARIABLES
    balance,    \* in the database
    store,      \* the session in the cache
    copy,       \* the copies that the monitor and the user's command hold
    pc, val,    \* of the monitor: where it is, the balance it was told (0 if unused)
    direct,     \* answer of a direct query in this tick, -1 for none
    billing, checking,  \* ticks since it billed and since it checked
    user, told, \* of the user's command: where it is, the balance it was told
    events, faults,
    hist        \* for the properties

vars == <<balance, store, copy, pc, val, direct, billing, checking, user, told,
          events, faults, hist>>
\* What a step of the monitor that only looks leaves alone.
world == <<balance, user, told, events>>

Least(m, n) == IF m < n THEN m ELSE n
Balances == 0..Top
Session == [state : {"running", "paused", "gone"}, remaining : Balances,
            age : 0..(TTL + 1),     \* since LastRemainingTimeUpdate
            since : 0..MaxOwed,     \* since LastBillingTime
            warned : SUBSET Warnings]
Holders == {"monitor", "user"}

\* unbilled: transcribed and not charged; low: least balance in this tick;
\* broken: a query failed in it; sent: warnings sent, up to 2; disturbed: the
\* balance or the session changed but by billing, or a call failed.
TypeOK ==
    /\ balance \in Balances /\ val \in Balances /\ told \in Balances \cup {-1}
    /\ store \in Session /\ copy \in [Holders -> Session]
    /\ pc \in {"wait", "bill", "charge", "clear", "set", "doubt", "check", "look",
               "echo", "decide", "confirm", "exhausted", "refused"}
    /\ direct \in Balances \cup {-1}
    /\ billing \in 0..3 /\ checking \in 0..2
    /\ user \in {"idle", "ask", "answer"}
    /\ events \in 0..MaxEvents /\ faults \in 0..MaxFaults
    /\ hist.unbilled \in -Top..(2 * MaxOwed) /\ hist.low \in Balances
    /\ hist.sent \in [Warnings -> 0..2]

Init ==
    /\ balance \in Start
    /\ store = [state |-> "running", remaining |-> balance, age |-> 0, since |-> 0, warned |-> {}]
    /\ copy = [h \in Holders |-> store]
    /\ pc = "wait" /\ val = 0 /\ direct = -1 /\ billing = 0 /\ checking = 0
    /\ user = "idle" /\ told = 0 /\ events = 0 /\ faults = 0
    /\ hist = [unbilled |-> 0, low |-> balance, broken |-> FALSE,
               sent |-> [w \in Warnings |-> 0], disturbed |-> FALSE]
-----------------------------------------------------------------------------
Of(h) == IF Shared THEN store ELSE copy[h]
\* A holder changes the session it got, and the cache with it if it is shared.
Change(h, s) ==
    IF Shared THEN store' = s /\ UNCHANGED copy
              ELSE copy' = [copy EXCEPT ![h] = s] /\ UNCHANGED store
Get(h) == copy' = IF Shared THEN copy ELSE [copy EXCEPT ![h] = store]
\* UpdateRemainingTime; that of Redis does not touch LastRemainingTimeUpdate.
Cached(s, n) == [s EXCEPT !.remaining = n, !.age = IF Shared THEN 0 ELSE @]
Cache(n) == store' = Cached(store, n) /\ UNCHANGED copy
\* Both: the cache, and the session the monitor holds.
Told(s, n) == [s EXCEPT !.remaining = n, !.age = 0]
CacheAndTell(n) ==
    IF Shared THEN store' = Told(store, n) /\ UNCHANGED copy
    ELSE /\ store' = Cached(store, n)
         /\ copy' = [copy EXCEPT !["monitor"] = Told(@, n)]

Fault ==
    /\ faults < MaxFaults /\ faults' = faults + 1
    /\ hist' = [hist EXCEPT !.broken = TRUE, !.disturbed = TRUE]
Quiet == UNCHANGED <<faults, hist>>
Keep == UNCHANGED <<store, copy>>
Goto(l) == pc' = l

\* Time passes; every tick the monitor turns to billing and then to checking.
\* The model ends with the session.
Tick ==
    /\ store.state # "gone"
    /\ pc = "wait" /\ Goto("bill") /\ direct' = -1
    /\ billing' = Least(billing + 1, 3) /\ checking' = Least(checking + 1, 2)
    /\ store' = [store EXCEPT !.age = Least(@ + 1, TTL + 1),
                   !.since = IF store.state = "running" THEN Least(@ + 1, MaxOwed) ELSE @]
    /\ hist' = [hist EXCEPT !.low = balance, !.broken = FALSE,
                  !.unbilled = IF store.state = "running"
                               THEN Least(@ + Multiplier, 2 * MaxOwed) ELSE @]
    /\ UNCHANGED <<copy, val, faults, world>>

\* BillingInterval is two ticks; the second may come a little early for it.
SkipBilling ==
    /\ pc = "bill" /\ billing <= 2 /\ Goto("check")
    /\ Keep /\ Quiet /\ UNCHANGED <<val, direct, billing, checking, world>>
Listed == store.state = "running"
ListForBilling ==
    /\ pc = "bill" /\ billing >= 2 /\ billing' = 0
    /\ Get("monitor") /\ Goto(IF Listed /\ store.since > 0 THEN "charge" ELSE "check")
    /\ Quiet /\ UNCHANGED <<store, val, direct, checking, world>>

Due == Of("monitor").since * Multiplier
Payable(n) == n <= balance
Charge ==
    /\ pc = "charge" /\ Keep
    /\ \/ /\ Payable(Due) /\ balance' = balance - Due /\ val' = balance - Due
          /\ hist' = [hist EXCEPT !.unbilled = @ - Due,
                                  !.low = Least(@, balance - Due)]
          /\ Goto("clear") /\ UNCHANGED faults
       \/ ~Payable(Due) /\ Goto("doubt") /\ Quiet /\ UNCHANGED <<balance, val>>
       \/ Payable(Due) /\ Goto("doubt") /\ Fault /\ UNCHANGED <<balance, val>>
    /\ UNCHANGED <<direct, billing, checking, user, told, events>>
Clear ==
    /\ pc = "clear" /\ Goto("set") /\ Cache(0)
    /\ Quiet /\ UNCHANGED <<val, direct, billing, checking, world>>
Billed_Again(s) == s
Billed(s) == [s EXCEPT !.since = 0]
Set ==
    /\ pc = "set" /\ Goto("check")
    /\ IF Shared THEN store' = Billed(Cached(store, val)) /\ UNCHANGED copy
       ELSE /\ store' = Cached(store, val)
            /\ copy' = [copy EXCEPT !["monitor"] = Billed(@)]
    /\ val' = 0 /\ Quiet /\ UNCHANGED <<direct, billing, checking, world>>

\* getUserRemainingTimeDirectThrottled
Answers == IF direct = -1 THEN {balance} ELSE {direct, balance}
Forgiven_Any(n) == n > 0
Forgiven(n) == n > Enough
Doubt ==
    /\ pc = "doubt"
    /\ \/ /\ \E n \in Answers :
               /\ direct' = n
               /\ \/ Forgiven(n) /\ CacheAndTell(n) /\ Goto("check")
                  \/ ~Forgiven(n) /\ Goto("refused") /\ Keep
          /\ Quiet
       \/ direct = -1 /\ Fault /\ Goto("refused") /\ Keep /\ UNCHANGED direct
    /\ UNCHANGED <<val, billing, checking, world>>

\* The check is due every tick, and may miss one for the same reason.
SkipCheck ==
    /\ pc = "check" /\ checking <= 1 /\ Goto("wait")
    /\ Keep /\ Quiet /\ UNCHANGED <<val, direct, billing, checking, world>>
ListForCheck ==
    /\ pc = "check" /\ checking' = 0
    /\ Get("monitor") /\ Goto(IF Listed THEN "look" ELSE "wait")
    /\ Quiet /\ UNCHANGED <<store, val, direct, billing, world>>
\* getUserRemainingTimeCached
Good == store.age <= (IF store.remaining <= LowBalance THEN LowTTL ELSE TTL)
Look ==
    /\ pc = "look"
    /\ \/ Good /\ val' = store.remaining /\ Goto("echo") /\ Keep /\ Quiet
       \/ ~Good /\ val' = balance /\ Goto("echo") /\ Cache(balance) /\ Quiet
       \/ ~Good /\ Fault /\ Goto("wait") /\ Keep /\ UNCHANGED val
    /\ UNCHANGED <<direct, billing, checking, world>>
Echo ==
    /\ pc = "echo" /\ Goto("decide")
    /\ IF Shared THEN Cache(val)
       ELSE /\ store' = Cached(store, val)
            /\ copy' = [copy EXCEPT !["monitor"].age = 0]
    /\ val' = 0 /\ Quiet /\ UNCHANGED <<direct, billing, checking, world>>

Within_Below(w, n) == n < Threshold[w] /\ n > Threshold[w] - Window[w]
Within(w, n) == n <= Threshold[w] /\ n > Threshold[w] - Window[w]
Exhausted_Trusting == "exhausted"
Exhausted == "confirm"
Remind(s, w) == [s EXCEPT !.warned = @ \cup {w}]
Decide ==
    LET s == Of("monitor") IN
    /\ pc = "decide"
    /\ \/ s.remaining <= 0 /\ Goto(Exhausted) /\ Keep /\ UNCHANGED hist
       \/ /\ s.remaining > 0 /\ Goto("wait")
          /\ \E w \in Warnings :
               /\ Within(w, s.remaining) /\ w \notin s.warned
               /\ Change("monitor", Remind(s, w))
               /\ hist' = [hist EXCEPT !.sent[w] = Least(@ + 1, 2)]
       \/ /\ s.remaining > 0 /\ Goto("wait")
          /\ \A w \in Warnings : Within(w, s.remaining) => w \in s.warned
          /\ Keep /\ UNCHANGED hist
    /\ UNCHANGED <<val, direct, billing, checking, faults, world>>
\* The cached balance is used up: it asks the database before it stops.
Confirm ==
    /\ pc = "confirm"
    /\ \/ /\ \E n \in Answers :
               /\ direct' = n
               /\ \/ n > 0 /\ CacheAndTell(n) /\ Goto("decide")
                  \/ n <= 0 /\ Goto("exhausted") /\ Keep
          /\ Quiet
       \/ direct = -1 /\ Fault /\ Goto("exhausted") /\ Keep /\ UNCHANGED direct
    /\ UNCHANGED <<val, billing, checking, world>>
\* forceStopTranscription; what it settles is SessionBilling's.
ForceStop ==
    /\ pc \in {"exhausted", "refused"}
    /\ Goto(IF pc = "refused" THEN "check" ELSE "wait")
    /\ store' = [store EXCEPT !.state = "gone"]
    /\ Quiet /\ UNCHANGED <<copy, val, direct, billing, checking, world>>

Monitor ==
    \/ SkipBilling \/ ListForBilling \/ Charge \/ Clear \/ Set \/ Doubt
    \/ SkipCheck \/ ListForCheck \/ Look \/ Echo \/ Decide \/ Confirm \/ ForceStop
-----------------------------------------------------------------------------
Event == events < MaxEvents /\ events' = events + 1
Disturb(h) == [h EXCEPT !.disturbed = TRUE]
loop == <<pc, val, direct, billing, checking>>
mon == <<loop, faults>>

\* PauseTranscription and ResumeTranscription; each then asks for the balance.
Toggled(s) == IF s.state = "running" THEN [s EXCEPT !.state = "paused"]
              ELSE [s EXCEPT !.state = "running", !.since = 0]
Toggle ==
    /\ user = "idle" /\ store.state # "gone" /\ Event /\ user' = "ask"
    /\ IF Shared THEN store' = Toggled(store) /\ UNCHANGED copy
       ELSE copy' = [copy EXCEPT !["user"] = Toggled(store)] /\ UNCHANGED store
    /\ hist' = Disturb(hist) /\ UNCHANGED <<mon, balance, told>>
Ask ==
    /\ user = "ask" /\ user' = "answer" /\ Keep
    /\ \/ told' = balance /\ Quiet
       \/ told' = -1 /\ Fault
    /\ UNCHANGED <<loop, balance, events>>
Answer ==
    /\ user = "answer" /\ user' = "idle"
    /\ store' = (IF told = -1 THEN Of("user") ELSE Told(Of("user"), told)) /\ told' = 0
    /\ UNCHANGED <<mon, copy, balance, events, hist>>
Leave ==
    /\ user = "idle" /\ store.state # "gone" /\ Event
    /\ store' = [store EXCEPT !.state = "gone"]
    /\ UNCHANGED <<mon, copy, balance, user, told, hist>>
\* A purchase, or seconds that expire or are used up elsewhere.
Recharge ==
    /\ store.state # "gone" /\ Event /\ balance < Top /\ balance' = Top
    /\ hist' = Disturb(hist) /\ UNCHANGED <<mon, store, copy, user, told>>
Drop ==
    /\ store.state # "gone" /\ Event /\ balance > 0
    /\ \E n \in {0, balance - 1} : balance' = n
    /\ hist' = [Disturb(hist) EXCEPT !.low = Least(@, balance')]
    /\ UNCHANGED <<mon, store, copy, user, told>>

Next == Tick \/ Monitor \/ Toggle \/ Ask \/ Answer \/ Leave \/ Recharge \/ Drop
Spec == Init /\ [][Next]_vars /\ WF_vars(Tick) /\ WF_vars(Monitor) /\ WF_vars(Ask \/ Answer)
-----------------------------------------------------------------------------
(* Properties *)

\* A session is stopped for want of time only when the balance was used up in
\* this very tick, or too low for a charge that was refused, or the database
\* could not be asked: never because of a cached balance (the cache reads 0
\* for a moment at every charge, clearUserCache).
StopsOnlyExhausted == [][
    store.state # "gone" /\ store'.state = "gone" /\ ~hist.broken =>
        /\ pc = "exhausted" => hist.low <= 0
        /\ pc = "refused" => hist.low <= Enough]_vars

\* Billing of one or two units at a time cannot step over the window of a
\* warning: a session nothing disturbs is warned before its balance is below
\* it, and once (checkWarningsAndForceStop).
WarnedInTime == ~hist.disturbed => \A w \in Warnings :
    /\ balance <= Threshold[w] - Window[w] => w \in store.warned
    /\ hist.sent[w] <= 1

\* Nothing is charged that was not transcribed (LastBillingTime moves on).
NeverOvercharged == hist.unbilled >= 0

\* A session that goes on at more cost than the balance can pay is stopped,
\* unless a call failed.
Unpaid == store.state = "running" /\ store.since * Multiplier > balance
UnpaidIsStopped == Unpaid ~> (~Unpaid \/ faults > 0)

\* "确认需要停止（余额不足或查询失败）" (to be stopped: balance insufficient or
\* the query failed), said of every refused charge that is not temporary.
RefusedIsStopped == Unpaid ~> ~Unpaid
=============================================================================
