------------------------- MODULE BalanceWatchProofs -------------------------
(* Theorems about BalanceWatch, for any thresholds, times to live, balances *)
(* and bounds that satisfy WatchAssumption. That no session is stopped for  *)
(* a cached balance holds on either cache; that nothing is charged twice    *)
(* only on the one in memory.                                               *)
EXTENDS BalanceWatch, TLAPS

(* TypeOK with the whole of the history, and no bound on what is unbilled. *)
Hist == [unbilled : Int, low : Balances, broken : BOOLEAN, sent : [Warnings -> 0..2],
         disturbed : BOOLEAN]
Scalars ==
    /\ balance \in Balances /\ val \in Balances /\ told \in Balances \cup {-1}
    /\ pc \in {"wait", "bill", "charge", "clear", "set", "doubt", "check", "look",
               "echo", "decide", "confirm", "exhausted", "refused"}
    /\ direct \in Balances \cup {-1}
    /\ billing \in 0..3 /\ checking \in 0..2
    /\ user \in {"idle", "ask", "answer"}
    /\ events \in 0..MaxEvents
Held == store \in Session /\ copy \in [Holders -> Session]
Past == faults \in 0..MaxFaults /\ hist \in Hist
Typed == Scalars /\ Held /\ Past

(* What the cache does to a session leaves it a session. *)
LEMMA Sessions ==
    ASSUME NEW s \in Session, NEW n \in Balances
    PROVE  /\ Cached(s, n) \in Session /\ Told(s, n) \in Session
           /\ Billed(s) \in Session /\ Toggled(s) \in Session
           /\ \A w \in Warnings : Remind(s, w) \in Session
<1>1. 0 \in 0..(TTL + 1) /\ 0 \in 0..MaxOwed
  BY WatchAssumption
<1>2. Cached(s, n) \in Session
  BY <1>1 DEF Session, Cached
<1>3. Told(s, n) \in Session
  BY <1>1 DEF Session, Told
<1>4. Billed(s) \in Session
  BY <1>1 DEF Session, Billed
<1>5. Toggled(s) \in Session
  <2>1. CASE s.state = "running"
    BY <2>1 DEF Session, Toggled
  <2>2. CASE s.state # "running"
    BY <1>1, <2>2 DEF Session, Toggled
  <2> QED
    BY <2>1, <2>2
<1>6. ASSUME NEW w \in Warnings PROVE Remind(s, w) \in Session
  <2>1. s.warned \cup {w} \in SUBSET Warnings
    BY DEF Session
  <2> QED
    BY <2>1 DEF Session, Remind
<1> QED
  BY <1>2, <1>3, <1>4, <1>5, <1>6

LEMMA LeastInt ==
    ASSUME NEW m \in Int, NEW n \in Int
    PROVE  Least(m, n) \in Int /\ Least(m, n) <= m /\ Least(m, n) <= n /\ Least(m, n) \in {m, n}
BY DEF Least

LEMMA Numbers ==
    /\ Top \in Nat /\ MaxOwed \in Nat /\ MaxEvents \in Nat /\ MaxFaults \in Nat
    /\ TTL \in Nat /\ Enough \in Nat
    /\ Multiplier \in {1, 2} /\ Start \subseteq 1..Top /\ Shared \in BOOLEAN
BY WatchAssumption

LEMMA HeldSession == ASSUME Typed, NEW h \in Holders PROVE Of(h) \in Session
BY DEF Typed, Held, Of

LEMMA DueNat == ASSUME Typed PROVE Due \in Nat
<1>1. Of("monitor").since \in Nat
  BY HeldSession, Numbers DEF Holders, Session
<1> QED
  BY <1>1, Numbers DEF Due

(* The ways in which the cache and the copies change. *)
LEMMA CacheTyped ==
    ASSUME Typed, NEW n \in Balances, Cache(n) \/ CacheAndTell(n)
    PROVE  store' \in Session /\ copy' \in [Holders -> Session]
<1>1. \A s \in Session : Cached(s, n) \in Session /\ Told(s, n) \in Session
  BY Sessions
<1>2. "monitor" \in Holders /\ copy["monitor"] \in Session
  BY DEF Holders, Typed, Held
<1> QED
  BY <1>1, <1>2 DEF Typed, Held, Cache, CacheAndTell

LEMMA GetTyped ==
    ASSUME Typed, NEW h \in Holders, Get(h)
    PROVE  copy' \in [Holders -> Session]
BY DEF Typed, Held, Get

LEMMA ChangeTyped ==
    ASSUME Typed, NEW h \in Holders, NEW s \in Session, Change(h, s)
    PROVE  store' \in Session /\ copy' \in [Holders -> Session]
BY DEF Typed, Held, Change

LEMMA FaultTyped ==
    ASSUME Typed, Fault
    PROVE  /\ Past'
           /\ hist'.broken /\ hist'.low = hist.low /\ hist'.unbilled = hist.unbilled
<1>1. faults' \in 0..MaxFaults
  BY Numbers DEF Typed, Past, Fault
<1>2. hist \in Hist
  BY DEF Typed, Past
<1>3. hist' \in Hist
  BY <1>2 DEF Fault, Hist
<1>4. hist'.broken /\ hist'.low = hist.low /\ hist'.unbilled = hist.unbilled
  BY <1>2 DEF Fault, Hist
<1> QED
  BY <1>1, <1>3, <1>4 DEF Past
-----------------------------------------------------------------------------
LEMMA InitTyped == Init => Typed
<1> SUFFICES ASSUME Init PROVE Typed
  OBVIOUS
<1>1. balance \in Balances /\ 0 \in Balances
  BY Numbers DEF Init, Balances
<1>2. store \in Session
  <2>1. 0 \in 0..(TTL + 1) /\ 0 \in 0..MaxOwed
    BY Numbers
  <2> QED
    BY <1>1, <2>1 DEF Init, Session
<1>3. hist \in Hist
  BY <1>1 DEF Init, Hist
<1>4. 0 \in 0..MaxEvents /\ 0 \in 0..MaxFaults
  BY Numbers
<1>5. copy \in [Holders -> Session]
  BY <1>2 DEF Init
<1>6. /\ pc = "wait" /\ user = "idle" /\ direct = -1 /\ val \in Balances /\ told \in Balances
      /\ billing \in 0..3 /\ checking \in 0..2 /\ events \in 0..MaxEvents /\ faults \in 0..MaxFaults
  BY <1>1, <1>4 DEF Init
<1> QED
  BY <1>1, <1>2, <1>3, <1>4, <1>5, <1>6 DEF Typed, Scalars, Held, Past

LEMMA TickTyped == ASSUME Typed, Tick PROVE Typed'
<1>1. store' \in Session
  <2>1. Least(store.age + 1, TTL + 1) \in 0..(TTL + 1)
    BY Numbers DEF Typed, Held, Session, Least
  <2>2. Least(store.since + 1, MaxOwed) \in 0..MaxOwed
    BY Numbers DEF Typed, Held, Session, Least
  <2>3. store \in Session
    BY DEF Typed, Held
  <2> QED
    BY <2>1, <2>2, <2>3 DEF Tick, Session
<1>2. hist' \in Hist
  <2>1. Least(hist.unbilled + Multiplier, 2 * MaxOwed) \in Int
    BY Numbers DEF Typed, Past, Hist, Least
  <2> QED
    BY <2>1 DEF Tick, Typed, Scalars, Past, Hist
<1>3. billing' \in 0..3 /\ checking' \in 0..2
  BY DEF Tick, Typed, Scalars, Least
<1>4. copy' = copy /\ val' = val /\ faults' = faults /\ balance' = balance /\ user' = user
      /\ told' = told /\ events' = events /\ direct' = -1 /\ pc' = "bill"
  BY DEF Tick, world, Goto
<1> QED
  BY <1>1, <1>2, <1>3, <1>4 DEF Typed, Scalars, Held, Past

(* Nothing but the bill changes the balance or what is unbilled. *)
LEMMA ChargeTyped == ASSUME Typed, Charge PROVE Typed'
<1>1. balance \in 0..Top /\ Due \in Nat
  BY DueNat DEF Typed, Scalars, Balances
<1>2. CASE Payable(Due) /\ balance' = balance - Due /\ val' = balance - Due
           /\ hist' = [hist EXCEPT !.unbilled = @ - Due, !.low = Least(@, balance - Due)]
           /\ Goto("clear") /\ UNCHANGED faults
  <2>1. balance - Due \in Balances
    BY <1>1, <1>2, Numbers DEF Payable, Balances
  <2>2. Least(hist.low, balance - Due) \in Balances
    BY <2>1 DEF Typed, Past, Hist, Least
  <2>3. hist \in Hist /\ hist.unbilled - Due \in Int
    BY <1>1 DEF Typed, Past, Hist
  <2>4. hist' \in Hist
    BY <1>2, <2>2, <2>3 DEF Hist
  <2> QED
    BY <1>2, <2>1, <2>4 DEF Typed, Scalars, Held, Past, Charge, Keep, Goto
<1>3. CASE UNCHANGED <<balance, val>> /\ Goto("doubt") /\ (Quiet \/ Fault)
  <2>1. Past'
    BY <1>3, FaultTyped DEF Typed, Past, Quiet
  <2> QED
    BY <1>3, <2>1 DEF Typed, Scalars, Held, Charge, Keep, Goto
<1> QED
  BY <1>2, <1>3 DEF Charge

LEMMA BillingTyped ==
    ASSUME Typed, SkipBilling \/ ListForBilling \/ Clear \/ Set
    PROVE  Typed'
<1>1. 0 \in Balances
  BY Numbers DEF Balances
<1>2. Past'
  BY DEF Typed, Past, Quiet, SkipBilling, ListForBilling, Clear, Set
<1>3. Scalars'
  BY <1>1 DEF Typed, Scalars, SkipBilling, ListForBilling, Clear, Set, Goto, world
<1>4. CASE SkipBilling
  BY <1>2, <1>3, <1>4 DEF Typed, Held, SkipBilling, Keep
<1>5. CASE ListForBilling
  BY <1>2, <1>3, <1>5, GetTyped DEF Typed, Held, ListForBilling, Holders
<1>6. CASE Clear
  BY <1>1, <1>2, <1>3, <1>6, CacheTyped DEF Typed, Held, Clear
<1>7. CASE Set
  <2>1. Cached(store, val) \in Session /\ Billed(Cached(store, val)) \in Session
    BY Sessions, <1>1 DEF Typed, Held, Scalars
  <2>2. Billed(copy["monitor"]) \in Session
    BY Sessions, <1>1 DEF Typed, Held, Holders
  <2> QED
    BY <1>2, <1>3, <1>7, <2>1, <2>2 DEF Typed, Held, Set
<1> QED
  BY <1>4, <1>5, <1>6, <1>7

LEMMA AnswersTyped == ASSUME Typed PROVE Answers \subseteq Balances
BY DEF Typed, Scalars, Answers

LEMMA DoubtTyped == ASSUME Typed, Doubt \/ Confirm PROVE Typed'
<1>1. Past'
  BY FaultTyped DEF Typed, Past, Quiet, Doubt, Confirm
<1>2. Scalars'
  BY AnswersTyped DEF Typed, Scalars, Doubt, Confirm, Goto, world
<1>3. Held'
  BY AnswersTyped, CacheTyped DEF Typed, Held, Doubt, Confirm, Keep
<1> QED
  BY <1>1, <1>2, <1>3 DEF Typed

LEMMA CheckTyped ==
    ASSUME Typed, SkipCheck \/ ListForCheck \/ Look \/ Echo \/ ForceStop
    PROVE  Typed'
<1>1. 0 \in Balances /\ store.remaining \in Balances
  BY Numbers DEF Typed, Held, Session, Balances
<1>2. Past'
  BY FaultTyped DEF Typed, Past, Quiet, SkipCheck, ListForCheck, Look, Echo, ForceStop
<1>3. Scalars'
  BY <1>1 DEF Typed, Scalars, SkipCheck, ListForCheck, Look, Echo, ForceStop, Goto, world
<1>4. CASE SkipCheck \/ ListForCheck
  BY <1>2, <1>3, <1>4, GetTyped DEF Typed, Held, SkipCheck, ListForCheck, Keep, Holders
<1>5. CASE Look
  BY <1>2, <1>3, <1>5, CacheTyped DEF Typed, Held, Look, Keep, Scalars
<1>6. CASE Echo
  <2>1. CASE Shared
    BY <1>2, <1>3, <1>6, <2>1, CacheTyped DEF Typed, Echo, Held, Scalars
  <2>2. CASE ~Shared
    <3>1. Cached(store, val) \in Session
      BY Sessions DEF Typed, Held, Scalars
    <3>2. copy["monitor"] \in Session /\ 0 \in 0..(TTL + 1)
      BY Numbers DEF Typed, Held, Holders
    <3>3. [copy["monitor"] EXCEPT !.age = 0] \in Session
      BY <3>2 DEF Session
    <3> QED
      BY <1>2, <1>3, <1>6, <2>2, <3>1, <3>3 DEF Typed, Held, Echo
  <2> QED
    BY <2>1, <2>2
<1>7. CASE ForceStop
  <2>1. store \in Session
    BY DEF Typed, Held
  <2>2. [store EXCEPT !.state = "gone"] \in Session
    BY <2>1 DEF Session
  <2> QED
    BY <1>2, <1>3, <1>7, <2>2 DEF Typed, Held, ForceStop
<1> QED
  BY <1>4, <1>5, <1>6, <1>7

LEMMA DecideTyped == ASSUME Typed, Decide PROVE Typed'
<1>1. Scalars'
  BY DEF Typed, Scalars, Decide, Exhausted, Goto, world
<1>2. "monitor" \in Holders /\ Of("monitor") \in Session /\ 0 \in Balances
  BY HeldSession, Numbers DEF Holders, Balances
<1>3. CASE Keep /\ UNCHANGED hist
  BY <1>1, <1>3 DEF Typed, Held, Past, Decide, Keep
<1>4. ASSUME NEW w \in Warnings, Change("monitor", Remind(Of("monitor"), w)),
             hist' = [hist EXCEPT !.sent[w] = Least(@ + 1, 2)]
      PROVE  Typed'
  <2>1. Remind(Of("monitor"), w) \in Session
    BY <1>2, Sessions
  <2>2. Held'
    BY <1>2, <1>4, <2>1, ChangeTyped DEF Held
  <2>3. hist \in Hist /\ Least(hist.sent[w] + 1, 2) \in 0..2
    BY DEF Typed, Past, Hist, Least
  <2>4. hist' \in Hist
    BY <1>4, <2>3 DEF Hist
  <2> QED
    BY <1>1, <2>2, <2>4 DEF Typed, Past, Decide
<1> QED
  BY <1>3, <1>4 DEF Decide

LEMMA UserTyped ==
    ASSUME Typed, Toggle \/ Ask \/ Answer \/ Leave \/ Recharge \/ Drop
    PROVE  Typed'
<1>1. 0 \in Balances /\ Top \in Balances /\ hist \in Hist /\ store \in Session /\ events \in 0..MaxEvents
  BY Numbers DEF Typed, Held, Scalars, Past, Balances
<1>2. Event => events' \in 0..MaxEvents
  BY <1>1, Numbers DEF Event
<1>3. Disturb(hist) \in Hist
  BY <1>1 DEF Hist, Disturb
<1>4. CASE Toggle
  <2>1. Toggled(store) \in Session
    BY <1>1, Sessions
  <2> QED
    BY <1>2, <1>3, <1>4, <2>1 DEF Typed, Scalars, Held, Past, Toggle, mon, loop, Holders
<1>5. CASE Ask
  <2>1. Past'
    BY <1>5, FaultTyped DEF Typed, Past, Ask, Quiet
  <2> QED
    BY <1>5, <2>1 DEF Typed, Scalars, Held, Ask, Keep, loop
<1>6. CASE Answer
  <2>1. Of("user") \in Session
    BY HeldSession DEF Holders
  <2>2. told # -1 => Told(Of("user"), told) \in Session
    BY <2>1, Sessions DEF Typed, Scalars
  <2> QED
    BY <1>1, <1>6, <2>1, <2>2 DEF Typed, Scalars, Held, Past, Answer, mon, loop
<1>7. CASE Leave
  <2>1. [store EXCEPT !.state = "gone"] \in Session
    BY <1>1 DEF Session
  <2> QED
    BY <1>2, <1>7, <2>1 DEF Typed, Scalars, Held, Past, Leave, mon, loop
<1>8. CASE Recharge
  BY <1>1, <1>2, <1>3, <1>8 DEF Typed, Scalars, Held, Past, Recharge, mon, loop
<1>9. CASE Drop
  <2>1. balance' \in Balances
    BY <1>1, <1>9, Numbers DEF Drop, Typed, Scalars, Balances
  <2>2. Least(Disturb(hist).low, balance') \in Balances
    BY <1>3, <2>1 DEF Hist, Least
  <2>3. hist' \in Hist
    BY <1>3, <1>9, <2>2 DEF Hist, Drop
  <2> QED
    BY <1>2, <1>9, <2>1, <2>3 DEF Typed, Scalars, Held, Past, Drop, mon, loop
<1> QED
  BY <1>4, <1>5, <1>6, <1>7, <1>8, <1>9

LEMMA TypedStep == Typed /\ [Next]_vars => Typed'
<1> SUFFICES ASSUME Typed, [Next]_vars PROVE Typed'
  OBVIOUS
<1>1. CASE UNCHANGED vars
  BY <1>1 DEF vars, Typed, Scalars, Held, Past
<1> QED
  BY <1>1, TickTyped, ChargeTyped, BillingTyped, DoubtTyped, CheckTyped, DecideTyped, UserTyped
     DEF Next, Monitor

LEMMA TypedAlways == Spec => []Typed
BY InitTyped, TypedStep, PTL DEF Spec
-----------------------------------------------------------------------------
(* Why a session may be stopped: low is the least balance of this tick, and *)
(* a direct query answers with a balance of this tick.                      *)
Reasons ==
    /\ hist.low <= balance
    /\ direct # -1 => hist.low <= direct
    /\ pc = "exhausted" => hist.broken \/ hist.low <= 0
    /\ pc = "refused" => hist.broken \/ hist.low <= Enough

LEMMA Ints ==
    ASSUME Typed
    PROVE  /\ balance \in Int /\ direct \in Int /\ hist.low \in Int /\ hist \in Hist
           /\ Enough \in Int
BY Numbers DEF Typed, Scalars, Past, Hist, Balances

(* A direct query answers with at least that. *)
LEMMA AnswersLow ==
    ASSUME Typed, Reasons
    PROVE  \A n \in Answers : n \in Int /\ hist.low <= n
BY Ints DEF Reasons, Answers

LEMMA ReasonsStep ==
    ASSUME Typed, Reasons, [Next]_vars
    PROVE  Reasons'
<1>1. CASE UNCHANGED vars
  BY <1>1 DEF vars, Reasons
<1>2. CASE Tick
  <2>1. hist'.low = balance /\ balance' = balance /\ direct' = -1 /\ pc' = "bill"
    BY <1>2, Ints DEF Tick, Hist, world, Goto
  <2> QED
    BY <2>1, Ints DEF Reasons
<1>3. CASE Charge
  <2>1. direct' = direct /\ pc' \in {"clear", "doubt"}
    BY <1>3 DEF Charge, Goto
  <2>2. CASE hist' = hist /\ balance' = balance
    BY <2>1, <2>2 DEF Reasons
  <2>3. CASE Fault /\ balance' = balance
    BY <2>1, <2>3, FaultTyped DEF Reasons
  <2>4. CASE /\ balance' = balance - Due
             /\ hist' = [hist EXCEPT !.unbilled = @ - Due, !.low = Least(@, balance - Due)]
    <3>1. balance - Due \in Int
      BY DueNat, Ints
    <3>2. hist'.low = Least(hist.low, balance - Due)
      BY <2>4, Ints DEF Hist
    <3>3. hist'.low \in Int /\ hist'.low <= hist.low /\ hist'.low <= balance'
      BY <2>4, <3>1, <3>2, LeastInt, Ints
    <3> QED
      BY <2>1, <3>3, Ints DEF Reasons
  <2> QED
    BY <1>3, <2>2, <2>3, <2>4 DEF Charge, Quiet
<1>4. CASE Doubt
  <2>1. balance' = balance /\ pc' \in {"check", "refused"}
    BY <1>4 DEF Doubt, Goto, world
  <2>2. ASSUME NEW n \in Answers, direct' = n, hist' = hist,
               pc' = "refused" => ~Forgiven(n)
        PROVE  Reasons'
    <3>1. n \in Int /\ hist.low <= n
      BY AnswersLow
    <3>2. ~Forgiven(n) => n <= Enough
      BY <3>1, Ints DEF Forgiven
    <3> QED
      BY <2>1, <2>2, <3>1, <3>2, Ints DEF Reasons
  <2>3. CASE Fault /\ direct' = direct
    BY <2>1, <2>3, FaultTyped DEF Reasons
  <2> QED
    BY <1>4, <2>2, <2>3 DEF Doubt, Quiet, Goto
<1>5. CASE Confirm
  <2>1. balance' = balance /\ pc' \in {"decide", "exhausted"}
    BY <1>5 DEF Confirm, Goto, world
  <2>2. ASSUME NEW n \in Answers, direct' = n, hist' = hist, pc' = "exhausted" => n <= 0
        PROVE  Reasons'
    <3>1. n \in Int /\ hist.low <= n
      BY AnswersLow
    <3> QED
      BY <2>1, <2>2, <3>1, Ints DEF Reasons
  <2>3. CASE Fault /\ direct' = direct
    BY <2>1, <2>3, FaultTyped DEF Reasons
  <2> QED
    BY <1>5, <2>2, <2>3 DEF Confirm, Quiet, Goto
<1>6. CASE Decide
  <2>1. hist'.low = hist.low
    BY <1>6, Ints DEF Decide, Hist
  <2> QED
    BY <1>6, <2>1 DEF Decide, Exhausted, Goto, world, Reasons
<1>7. CASE SkipBilling \/ ListForBilling \/ Clear \/ Set \/ SkipCheck \/ ListForCheck
           \/ Look \/ Echo \/ ForceStop
  <2>1. hist'.low = hist.low
    BY <1>7, FaultTyped DEF Quiet, SkipBilling, ListForBilling, Clear, Set, SkipCheck,
       ListForCheck, Look, Echo, ForceStop
  <2>2. balance' = balance /\ direct' = direct /\ pc' \notin {"exhausted", "refused"}
    BY <1>7 DEF SkipBilling, ListForBilling, Clear, Set, SkipCheck,
       ListForCheck, Look, Echo, ForceStop, Goto, world
  <2> QED
    BY <2>1, <2>2 DEF Reasons
<1>8. CASE Toggle \/ Ask \/ Answer \/ Leave
  <2>1. hist'.low = hist.low /\ (hist.broken => hist'.broken)
    BY <1>8, Ints, FaultTyped DEF Toggle, Ask, Answer, Leave, Quiet, Disturb, Hist
  <2>2. balance' = balance /\ direct' = direct /\ pc' = pc
    BY <1>8 DEF Toggle, Ask, Answer, Leave, mon, loop
  <2> QED
    BY <2>1, <2>2 DEF Reasons
<1>9. CASE Recharge
  <2>1. hist'.low = hist.low /\ hist'.broken = hist.broken
    BY <1>9, Ints DEF Recharge, Disturb, Hist
  <2>2. balance' \in Int /\ balance < balance' /\ direct' = direct /\ pc' = pc
    BY <1>9, Numbers, Ints DEF Recharge, mon, loop
  <2> QED
    BY <2>1, <2>2, Ints DEF Reasons
<1>10. CASE Drop
  <2>1. balance' \in Int /\ direct' = direct /\ pc' = pc
    BY <1>10, Ints DEF Drop, mon, loop
  <2>2. hist'.low = Least(hist.low, balance') /\ hist'.broken = hist.broken
    BY <1>10, Ints DEF Drop, Disturb, Hist
  <2>3. hist'.low \in Int /\ hist'.low <= hist.low /\ hist'.low <= balance'
    BY <2>1, <2>2, LeastInt, Ints, ZenonT(60)
  <2> QED
    BY <2>1, <2>2, <2>3, Ints DEF Reasons
<1> QED
  BY <1>1, <1>2, <1>3, <1>4, <1>5, <1>6, <1>7, <1>8, <1>9, <1>10 DEF Next, Monitor

(* A session is stopped for want of time only because of a balance that was *)
(* there in that tick, or because a call failed: never for a balance of the *)
(* cache, however the cache is kept.                                        *)
THEOREM StoppedForCause == Spec => StopsOnlyExhausted
<1>1. Init => Reasons
  <2> SUFFICES ASSUME Init PROVE Reasons
    OBVIOUS
  <2>1. hist.low = balance /\ direct = -1 /\ pc = "wait"
    BY DEF Init
  <2>2. balance \in Int
    BY InitTyped, Ints
  <2> QED
    BY <2>1, <2>2 DEF Reasons
<1>2. Reasons /\ [Next]_vars =>
        [store.state # "gone" /\ store'.state = "gone" /\ ~hist.broken =>
            /\ pc = "exhausted" => hist.low <= 0
            /\ pc = "refused" => hist.low <= Enough]_vars
  BY DEF Reasons
<1> QED
  BY <1>1, <1>2, TypedAlways, ReasonsStep, PTL DEF Spec, StopsOnlyExhausted
-----------------------------------------------------------------------------
(* With the cache in memory a charge never exceeds what was transcribed and  *)
(* not charged: since, what the next charge is for, is part of it, except    *)
(* between a charge and the moment LastBillingTime moves on.                 *)
Owed ==
    /\ hist.unbilled >= 0
    /\ pc \notin {"clear", "set"} => store.since * Multiplier <= hist.unbilled

LEMMA Since ==
    ASSUME Typed
    PROVE  /\ store.since \in 0..MaxOwed /\ MaxOwed \in Nat /\ hist.unbilled \in Int
           /\ 0 * Multiplier = 0 /\ Multiplier \in {1, 2} /\ store \in Session /\ hist \in Hist
BY Numbers DEF Typed, Held, Past, Session, Hist

(* What the cache does to a session in memory moves LastBillingTime on or    *)
(* leaves it where it is.                                                    *)
LEMMA SinceKept ==
    ASSUME NEW s \in Session, NEW n \in Balances
    PROVE  /\ Cached(s, n).since = s.since /\ Told(s, n).since = s.since
           /\ Billed(Cached(s, n)).since = 0 /\ Toggled(s).since \in {s.since, 0}
           /\ \A w \in Warnings : Remind(s, w).since = s.since
BY DEF Session, Cached, Told, Billed, Toggled, Remind

LEMMA OwedTick == ASSUME Typed, Owed, Tick PROVE Owed'
<1>1. store.since * Multiplier <= hist.unbilled /\ hist.unbilled >= 0 /\ pc' = "bill"
  BY DEF Owed, Tick, Goto
<1>2. CASE store.state = "running"
  <2>1. store'.since = Least(store.since + 1, MaxOwed)
    BY <1>2, Since DEF Tick, Session
  <2>2. hist'.unbilled = Least(hist.unbilled + Multiplier, 2 * MaxOwed)
    BY <1>2, Since DEF Tick, Hist
  <2> QED
    BY <1>1, <2>1, <2>2, Since DEF Owed, Least
<1>3. CASE store.state # "running"
  <2>1. store'.since = store.since
    BY <1>3, Since DEF Tick, Session
  <2>2. hist'.unbilled = hist.unbilled
    BY <1>3, Since DEF Tick, Hist
  <2> QED
    BY <1>1, <2>1, <2>2 DEF Owed
<1> QED
  BY <1>2, <1>3

LEMMA OwedCharge == ASSUME Shared, Typed, Owed, Charge PROVE Owed'
<1>1. /\ store.since * Multiplier <= hist.unbilled /\ hist.unbilled >= 0
      /\ store' = store /\ pc' \in {"clear", "doubt"}
  BY DEF Owed, Charge, Goto, Keep
<1>2. CASE hist' = [hist EXCEPT !.unbilled = @ - Due, !.low = Least(@, balance - Due)] /\ pc' = "clear"
  <2>1. hist'.unbilled = hist.unbilled - store.since * Multiplier
    BY <1>2, Since DEF Hist, Due, Of
  <2> QED
    BY <1>1, <1>2, <2>1, Since DEF Owed
<1>3. CASE hist'.unbilled = hist.unbilled
  BY <1>1, <1>3 DEF Owed
<1> QED
  BY <1>2, <1>3, FaultTyped DEF Charge, Quiet, Goto

LEMMA OwedStep == ASSUME Shared, Typed, Owed, [Next]_vars PROVE Owed'
<1>1. ASSUME store'.since \in {store.since, 0}, hist'.unbilled = hist.unbilled,
             pc \in {"clear", "set"} => pc' \in {"clear", "set"} \/ store'.since = 0
      PROVE  Owed'
  BY <1>1, Since DEF Owed
<1>2. 0 \in Balances /\ val \in Balances /\ balance \in Balances
  BY Numbers DEF Typed, Scalars, Balances
<1>3. CASE Clear
  <2>1. store' = Cached(store, 0) /\ hist' = hist /\ pc' = "set"
    BY <1>3 DEF Clear, Cache, Quiet, Goto
  <2> QED
    BY <1>1, <1>2, <2>1, Since, SinceKept
<1>4. CASE Set
  <2>1. store' = Billed(Cached(store, val)) /\ hist' = hist
    BY <1>4 DEF Set, Quiet
  <2> QED
    BY <1>1, <1>2, <2>1, Since, SinceKept
<1>5. CASE SkipBilling \/ ListForBilling \/ SkipCheck \/ ListForCheck
  <2>1. store' = store /\ hist' = hist /\ pc \notin {"clear", "set"}
    BY <1>5 DEF SkipBilling, ListForBilling, SkipCheck, ListForCheck, Keep, Quiet
  <2> QED
    BY <1>1, <2>1
<1>6. CASE Doubt \/ Confirm
  <2>1. hist'.unbilled = hist.unbilled /\ pc \notin {"clear", "set"}
    BY <1>6, FaultTyped DEF Doubt, Confirm, Quiet
  <2>2. store' = store \/ \E n \in Balances : store' = Told(store, n)
    BY <1>6, AnswersTyped DEF Doubt, Confirm, Keep, CacheAndTell
  <2> QED
    BY <1>1, <2>1, <2>2, Since, SinceKept
<1>7. CASE Look \/ Echo
  <2>1. hist'.unbilled = hist.unbilled /\ pc \notin {"clear", "set"}
    BY <1>7, FaultTyped DEF Look, Echo, Quiet
  <2>2. store' = store \/ \E n \in Balances : store' = Cached(store, n)
    BY <1>2, <1>7 DEF Look, Echo, Keep, Cache
  <2> QED
    BY <1>1, <2>1, <2>2, Since, SinceKept
<1>8. CASE Decide
  <2>1. hist'.unbilled = hist.unbilled /\ pc \notin {"clear", "set"}
    BY <1>8, Since DEF Decide, Hist
  <2>2. store' = store \/ \E w \in Warnings : store' = Remind(store, w)
    BY <1>8 DEF Decide, Keep, Change, Of
  <2> QED
    BY <1>1, <1>2, <2>1, <2>2, Since, SinceKept
<1>9. CASE ForceStop \/ Leave
  <2>1. hist' = hist /\ store'.since = store.since
    BY <1>9, Since DEF ForceStop, Leave, Quiet, Session
  <2>2. pc \in {"clear", "set"} => pc' = pc
    BY <1>9 DEF ForceStop, Leave, mon, loop
  <2> QED
    BY <1>1, <2>1, <2>2
<1>10. CASE Toggle
  <2>1. store' = Toggled(store) /\ pc' = pc /\ hist'.unbilled = hist.unbilled
    BY <1>10, Since DEF Toggle, Disturb, Hist, mon, loop
  <2> QED
    BY <1>1, <1>2, <2>1, Since, SinceKept
<1>11. CASE Ask
  <2>1. store' = store /\ pc' = pc /\ hist'.unbilled = hist.unbilled
    BY <1>11, FaultTyped DEF Ask, Keep, Quiet, loop
  <2> QED
    BY <1>1, <2>1
<1>12. CASE Answer
  <2>1. store' = store \/ (told \in Balances /\ store' = Told(store, told))
    BY <1>12 DEF Answer, Of, Typed, Scalars
  <2>2. pc' = pc /\ hist' = hist
    BY <1>12 DEF Answer, mon, loop
  <2> QED
    BY <1>1, <2>1, <2>2, Since, SinceKept
<1>13. CASE Recharge \/ Drop
  <2>1. store' = store /\ pc' = pc /\ hist'.unbilled = hist.unbilled
    BY <1>13, Since DEF Recharge, Drop, Disturb, Hist, mon, loop
  <2> QED
    BY <1>1, <2>1
<1>14. CASE UNCHANGED vars
  BY <1>14, <1>1 DEF vars
<1> QED
  BY <1>3, <1>4, <1>5, <1>6, <1>7, <1>8, <1>9, <1>10, <1>11, <1>12, <1>13, <1>14,
     OwedTick, OwedCharge DEF Next, Monitor

(* With the cache in memory nothing is charged that was not transcribed, in  *)
(* whatever order the monitor and the user's commands write the session.     *)
THEOREM ChargedOnce == ASSUME Shared PROVE Spec => []NeverOvercharged
<1>1. Init => Owed
  <2> SUFFICES ASSUME Init PROVE Owed
    OBVIOUS
  <2>1. hist.unbilled = 0 /\ store.since = 0
    BY DEF Init
  <2> QED
    BY <2>1, Numbers DEF Owed
<1>2. Typed /\ Owed /\ [Next]_vars => Owed'
  BY OwedStep
<1>3. Owed => NeverOvercharged
  BY DEF Owed, NeverOvercharged
<1> QED
  BY <1>1, <1>2, <1>3, TypedAlways, PTL DEF Spec
-----------------------------------------------------------------------------
(* Warnings.  In a session that nothing disturbs the cached balance is the   *)
(* one of the database, except while a charge is written to the cache; every *)
(* charge is for at most three ticks, or more than the balance can pay; and  *)
(* between two charges there is a check.                                     *)
Undisturbed ==
    /\ user = "idle" /\ store.state # "paused"
    /\ pc \notin {"clear", "set"} => store.remaining = balance
    /\ pc \in {"clear", "set", "echo"} => val = balance
    /\ direct \in {-1, balance}
    /\ pc \in {"bill", "charge"} => direct = -1

Owes == store.since * Multiplier > balance
Intervals ==
    /\ pc # "bill" => billing <= 2
    /\ pc \in {"charge", "clear", "set"} => billing = 0
    /\ pc \in {"bill", "charge", "clear", "set", "doubt", "refused", "check"} => checking >= 1
    /\ pc = "charge" => store.since <= 3 \/ Owes
    /\ store.state = "running" /\ pc \notin {"charge", "clear", "set"}
       => store.since <= billing \/ Owes

WarnedBelow == \A w \in Warnings : balance <= Threshold[w] - Window[w] => w \in store.warned
(* Checked since the balance fell: also the windows it is in are warned of. *)
Ready == \A w \in Warnings : balance <= Threshold[w] => w \in store.warned
(* The places at which a charge may still wait for its check. *)
CheckDue ==
    \/ pc \in {"clear", "set"}
    \/ pc = "check" /\ (billing = 0 \/ (billing = 1 /\ checking = 2))
    \/ pc \in {"look", "echo", "decide"} /\ billing <= 1
    \/ pc \in {"confirm", "exhausted"} /\ balance <= 0
    \/ pc = "wait" /\ billing = 0 /\ checking >= 1
    \/ pc = "bill" /\ billing = 1 /\ checking = 2
BilledAfterCheck ==
    /\ WarnedBelow
    /\ pc = "charge" => Ready
    /\ store.state = "running" => Ready \/ CheckDue

Calm == Undisturbed /\ Intervals /\ BilledAfterCheck
SentIsNoted == \A w \in Warnings :
    hist.sent[w] <= 1 /\ (hist.sent[w] = 1 => w \in store.warned)

(* No window is narrower than what three ticks cost (30 seconds at the       *)
(* default configuration), and sessions begin above every threshold.         *)
WideWindows == \A w \in Warnings : 3 * Multiplier <= Window[w]
StartAbove == \A n \in Start : \A w \in Warnings : n > Threshold[w]

LEMMA CacheFields ==
    ASSUME NEW s \in Session, NEW n \in Balances
    PROVE  /\ Cached(s, n).remaining = n /\ Cached(s, n).warned = s.warned
           /\ Cached(s, n).state = s.state /\ Cached(s, n).since = s.since
           /\ Told(s, n).remaining = n /\ Told(s, n).warned = s.warned
           /\ Told(s, n).state = s.state /\ Told(s, n).since = s.since
           /\ Billed(s).remaining = s.remaining /\ Billed(s).warned = s.warned
           /\ Billed(s).state = s.state /\ Billed(s).since = 0
BY DEF Session, Cached, Told, Billed

LEMMA RemindFields ==
    ASSUME NEW s \in Session, NEW w \in Warnings
    PROVE  /\ Remind(s, w).remaining = s.remaining
           /\ Remind(s, w).warned = s.warned \cup {w}
           /\ Remind(s, w).state = s.state /\ Remind(s, w).since = s.since
BY DEF Session, Remind

LEMMA Plain ==
    ASSUME Typed
    PROVE  /\ balance \in Nat /\ val \in Balances /\ balance \in Balances /\ 0 \in Balances
           /\ store \in Session /\ store.since \in Nat /\ store.since <= MaxOwed
           /\ store.remaining \in Nat /\ billing \in 0..3 /\ checking \in 0..2
           /\ hist \in Hist /\ Multiplier \in {1, 2} /\ MaxOwed \in Nat
           /\ Threshold \in [Warnings -> Nat] /\ Window \in [Warnings -> Nat]
BY Numbers, WatchAssumption DEF Typed, Scalars, Held, Past, Session, Balances

LEMMA NoFault == ASSUME Typed, ~hist'.disturbed PROVE ~Fault
BY Plain DEF Fault, Hist

LEMMA CalmTick == ASSUME Typed, Calm, Tick PROVE Calm'
<1> USE DEF Calm
<1>1. /\ pc = "wait" /\ pc' = "bill" /\ direct' = -1 /\ val' = val /\ balance' = balance
      /\ user' = user /\ billing' = Least(billing + 1, 3) /\ checking' = Least(checking + 1, 2)
      /\ store.state = "running"
  BY Plain DEF Tick, Goto, world, Undisturbed, Session
<1>2. /\ store'.state = store.state /\ store'.remaining = store.remaining
      /\ store'.warned = store.warned /\ store'.since = Least(store.since + 1, MaxOwed)
  BY <1>1, Plain DEF Tick, Session
<1>3. billing' = billing + 1 /\ checking' >= 1 /\ (checking >= 1 => checking' = 2)
  BY <1>1, Plain DEF Least, Intervals
<1>4. Undisturbed'
  BY <1>1, <1>2 DEF Undisturbed
<1>5. Intervals'
  <2>1. store'.since <= store.since + 1 /\ store'.since >= store.since /\ store'.since \in Nat
    BY <1>2, Plain DEF Least
  <2>2. store.since <= billing \/ Owes
    BY <1>1 DEF Intervals
  <2>3. Owes => Owes'
    BY <1>1, <2>1, Plain DEF Owes
  <2>4. store'.since <= billing' \/ Owes'
    BY <1>3, <2>1, <2>2, <2>3, Plain
  <2> QED
    BY <1>1, <1>3, <2>4 DEF Intervals
<1>6. BilledAfterCheck'
  <2>1. WarnedBelow' /\ (Ready => Ready')
    BY <1>1, <1>2 DEF BilledAfterCheck, WarnedBelow, Ready
  <2>2. CheckDue => CheckDue'
    BY <1>1, <1>3 DEF CheckDue
  <2> QED
    BY <1>1, <1>2, <2>1, <2>2 DEF BilledAfterCheck
<1> QED
  BY <1>4, <1>5, <1>6

LEMMA CalmBilling == ASSUME Typed, Calm, SkipBilling \/ ListForBilling PROVE Calm'
<1> USE DEF Calm
<1>1. /\ pc = "bill" /\ store' = store /\ balance' = balance /\ user' = user
      /\ direct' = direct /\ val' = val /\ checking' = checking
  BY DEF SkipBilling, ListForBilling, Keep, world
<1>2. CASE SkipBilling
  <2>1. pc' = "check" /\ billing' = billing /\ billing <= 2
    BY <1>2 DEF SkipBilling, Goto
  <2> QED
    BY <1>1, <2>1, Plain
       DEF Undisturbed, Intervals, Owes, BilledAfterCheck, WarnedBelow, Ready, CheckDue
<1>3. CASE ListForBilling
  <2>1. /\ billing >= 2 /\ billing' = 0
        /\ pc' = IF Listed /\ store.since > 0 THEN "charge" ELSE "check"
    BY <1>3 DEF ListForBilling, Goto
  <2>2. Listed => store.since <= 3 \/ Owes
    BY <1>1, Plain DEF Listed, Intervals
  <2>3. Listed => Ready
    BY <1>1, <2>1, Plain DEF Listed, BilledAfterCheck, CheckDue
  <2>4. Undisturbed' /\ WarnedBelow' /\ (Ready => Ready') /\ (Owes => Owes')
    BY <1>1, <2>1 DEF Undisturbed, BilledAfterCheck, WarnedBelow, Ready, Owes
  <2>5. CASE Listed /\ store.since > 0
    BY <1>1, <2>1, <2>2, <2>3, <2>4, <2>5 DEF Intervals, BilledAfterCheck
  <2>6. CASE ~(Listed /\ store.since > 0)
    <3>1. pc' = "check" /\ billing' = 0
      BY <2>1, <2>6
    <3>2. store.state = "running" => store.since <= 0
      BY <2>6, Plain DEF Listed
    <3> QED
      BY <1>1, <2>3, <2>4, <3>1, <3>2 DEF Intervals, BilledAfterCheck, Listed
  <2> QED
    BY <2>5, <2>6
<1> QED
  BY <1>2, <1>3

(* A charge cannot pass a window that is wider than three ticks. *)
LEMMA CalmCharge ==
    ASSUME Shared, WideWindows, Typed, Calm, ~hist'.disturbed, Charge
    PROVE  Calm'
<1> USE DEF Calm
<1>1. /\ pc = "charge" /\ store' = store /\ user' = user /\ direct' = direct
      /\ billing' = billing /\ checking' = checking /\ Ready
  BY DEF Charge, Keep, BilledAfterCheck
<1>2. Due = store.since * Multiplier
  BY DEF Due, Of
<1>3. billing = 0 /\ checking >= 1 /\ (store.since <= 3 \/ Owes) /\ direct = -1
  BY <1>1 DEF Intervals, Undisturbed
<1>4. CASE Payable(Due) /\ balance' = balance - Due /\ val' = balance - Due /\ pc' = "clear"
  <2>1. Due <= 3 * Multiplier
    BY <1>2, <1>3, <1>4, Plain DEF Owes, Payable
  <2>2. WarnedBelow'
    <3>1. SUFFICES ASSUME NEW w \in Warnings, balance - Due <= Threshold[w] - Window[w]
                   PROVE  w \in store.warned
      BY <1>1, <1>4 DEF WarnedBelow
    <3>2. Threshold[w] \in Nat /\ Window[w] \in Nat /\ 3 * Multiplier <= Window[w]
      BY Plain DEF WideWindows
    <3>3. Due \in Nat
      BY DueNat
    <3>4. balance <= Threshold[w]
      BY <2>1, <3>1, <3>2, <3>3, Plain
    <3> QED
      BY <1>1, <3>4 DEF Ready
  <2> QED
    BY <1>1, <1>3, <1>4, <2>2
       DEF Undisturbed, Intervals, BilledAfterCheck, CheckDue
<1>5. CASE ~Payable(Due) /\ balance' = balance /\ val' = val /\ pc' = "doubt"
  <2>1. Owes
    BY <1>2, <1>5, Plain DEF Payable, Owes
  <2> QED
    BY <1>1, <1>3, <1>5, <2>1
       DEF Undisturbed, Intervals, Owes, BilledAfterCheck, WarnedBelow, Ready
<1> QED
  BY <1>4, <1>5, NoFault DEF Charge, Goto

LEMMA CalmRecord == ASSUME Shared, Typed, Calm, Clear \/ Set PROVE Calm'
<1> USE DEF Calm
<1>1. /\ pc \in {"clear", "set"} /\ val = balance /\ val \in Balances
      /\ balance' = balance /\ user' = user /\ direct' = direct
      /\ billing' = billing /\ checking' = checking /\ billing = 0 /\ checking >= 1
  BY Plain DEF Clear, Set, world, Undisturbed, Intervals
<1>2. /\ store'.state = store.state /\ store'.warned = store.warned
      /\ \/ pc' = "set" /\ val' = val
         \/ pc' = "check" /\ store'.remaining = balance /\ store'.since = 0
  <2>1. CASE Clear
    <3>1. store' = Cached(store, 0) /\ pc' = "set" /\ val' = val
      BY <2>1 DEF Clear, Cache, Goto
    <3> QED
      BY <3>1, Plain, CacheFields
  <2>2. CASE Set
    <3>1. store' = Billed(Cached(store, val)) /\ pc' = "check"
      BY <2>2 DEF Set, Goto
    <3>2. Cached(store, val) \in Session
      BY <1>1, Plain, Sessions
    <3> QED
      BY <1>1, <3>1, <3>2, Plain, CacheFields
  <2> QED
    BY <2>1, <2>2
<1>3. WarnedBelow' /\ (Ready => Ready')
  BY <1>1, <1>2 DEF BilledAfterCheck, WarnedBelow, Ready
<1>4. CASE pc' = "set" /\ val' = val
  BY <1>1, <1>2, <1>3, <1>4 DEF Undisturbed, Intervals, BilledAfterCheck, CheckDue
<1>5. CASE pc' = "check" /\ store'.remaining = balance /\ store'.since = 0
  BY <1>1, <1>2, <1>3, <1>5, Plain DEF Undisturbed, Intervals, BilledAfterCheck, CheckDue
<1> QED
  BY <1>2, <1>4, <1>5

(* Every answer of a direct query is the balance. *)
LEMMA CalmDoubt ==
    ASSUME Shared, Typed, Calm, ~hist'.disturbed, Doubt
    PROVE  Calm'
<1> USE DEF Calm
<1>1. /\ pc = "doubt" /\ balance' = balance /\ user' = user
      /\ billing' = billing /\ checking' = checking /\ billing <= 2 /\ checking >= 1
  BY DEF Doubt, world, Intervals
<1>2. Answers = {balance} /\ direct' = balance
  BY NoFault DEF Undisturbed, Answers, Doubt
<1>3. /\ pc' \in {"check", "refused"} /\ store'.remaining = balance
      /\ store'.since = store.since /\ store'.state = store.state
      /\ store'.warned = store.warned
  <2>1. pc' \in {"check", "refused"} /\ (store' = store \/ store' = Told(store, balance))
    BY <1>2, NoFault DEF Doubt, Goto, Keep, CacheAndTell
  <2>2. store.remaining = balance
    BY <1>1 DEF Undisturbed
  <2> QED
    BY <2>1, <2>2, Plain, CacheFields
<1>4. WarnedBelow' /\ (Ready => Ready') /\ (Owes => Owes')
  BY <1>1, <1>3 DEF BilledAfterCheck, WarnedBelow, Ready, Owes
<1> QED
  BY <1>1, <1>2, <1>3, <1>4 DEF Undisturbed, Intervals, BilledAfterCheck, CheckDue

LEMMA CalmCheck ==
    ASSUME Shared, Typed, Calm, ~hist'.disturbed, SkipCheck \/ ListForCheck
    PROVE  Calm'
<1> USE DEF Calm
<1>1. /\ pc = "check" /\ store' = store /\ balance' = balance /\ user' = user
      /\ billing' = billing /\ direct' = direct /\ val' = val
      /\ billing <= 2 /\ checking >= 1 /\ store.remaining = balance
  BY DEF SkipCheck, ListForCheck, Keep, world, Intervals, Undisturbed
<1>2. WarnedBelow' /\ (Ready => Ready') /\ (Owes => Owes')
  BY <1>1 DEF BilledAfterCheck, WarnedBelow, Ready, Owes
<1>3. CASE SkipCheck
  <2>1. pc' = "wait" /\ checking' = checking /\ checking <= 1
    BY <1>3 DEF SkipCheck, Goto
  <2> QED
    BY <1>1, <1>2, <2>1, Plain DEF Undisturbed, Intervals, BilledAfterCheck, CheckDue
<1>4. CASE ListForCheck
  <2>1. pc' = (IF Listed THEN "look" ELSE "wait") /\ checking' = 0
    BY <1>4 DEF ListForCheck, Goto
  <2>2. CASE Listed
    BY <1>1, <1>2, <2>1, <2>2, Plain
       DEF Undisturbed, Intervals, BilledAfterCheck, CheckDue
  <2>3. CASE ~Listed
    BY <1>1, <1>2, <2>1, <2>3, Plain
       DEF Undisturbed, Intervals, BilledAfterCheck, Listed
  <2> QED
    BY <2>2, <2>3
<1> QED
  BY <1>3, <1>4

LEMMA CalmLook ==
    ASSUME Shared, Typed, Calm, ~hist'.disturbed, Look \/ Echo
    PROVE  Calm'
<1> USE DEF Calm
<1>1. /\ pc \in {"look", "echo"} /\ balance' = balance /\ user' = user
      /\ billing' = billing /\ checking' = checking /\ direct' = direct
      /\ billing <= 2 /\ store.remaining = balance
  BY DEF Look, Echo, world, Intervals, Undisturbed
<1>2. /\ store'.remaining = balance /\ store'.since = store.since
      /\ store'.state = store.state /\ store'.warned = store.warned
      /\ (pc = "look" /\ pc' = "echo" /\ val' = balance) \/ (pc = "echo" /\ pc' = "decide")
  <2>1. store' = store \/ store' = Cached(store, balance)
    BY <1>1, NoFault DEF Look, Echo, Keep, Cache, Undisturbed
  <2>2. (pc = "look" /\ pc' = "echo" /\ val' = balance) \/ (pc = "echo" /\ pc' = "decide")
    BY <1>1, NoFault DEF Look, Echo, Goto
  <2> QED
    BY <1>1, <2>1, <2>2, Plain, CacheFields
<1>3. WarnedBelow' /\ (Ready => Ready') /\ (Owes => Owes')
  BY <1>1, <1>2 DEF BilledAfterCheck, WarnedBelow, Ready, Owes
<1> QED
  BY <1>1, <1>2, <1>3 DEF Undisturbed, Intervals, BilledAfterCheck, CheckDue

(* The check warns of the window the balance is in; there is only one. *)
LEMMA DecideReady ==
    ASSUME Typed, WarnedBelow, NEW W, store.warned \subseteq W,
           \A w \in Warnings : Within(w, balance) => w \in W
    PROVE  \A w \in Warnings : balance <= Threshold[w] => w \in W
<1> SUFFICES ASSUME NEW w \in Warnings, balance <= Threshold[w] PROVE w \in W
  OBVIOUS
<1>1. Threshold[w] \in Nat /\ Window[w] \in Nat /\ balance \in Nat
  BY Plain
<1>2. balance <= Threshold[w] - Window[w] \/ Within(w, balance)
  BY <1>1 DEF Within
<1> QED
  BY <1>2 DEF WarnedBelow

LEMMA OneWindow ==
    ASSUME Typed, NEW w \in Warnings, NEW v \in Warnings,
           Within(w, balance), Within(v, balance)
    PROVE  v = w
<1>1. /\ Threshold[w] \in Nat /\ Window[w] \in Nat /\ balance \in Nat
      /\ Threshold[v] \in Nat /\ Window[v] \in Nat
  BY Plain
<1>2. \/ w = v \/ Threshold[w] <= Threshold[v] - Window[v]
      \/ Threshold[v] <= Threshold[w] - Window[w]
  BY WatchAssumption
<1> QED
  BY <1>1, <1>2 DEF Within

LEMMA CalmDecide == ASSUME Shared, Typed, Calm, Decide PROVE Calm'
<1> USE DEF Calm
<1>1. /\ pc = "decide" /\ balance' = balance /\ user' = user
      /\ billing' = billing /\ checking' = checking /\ direct' = direct /\ val' = val
      /\ billing <= 2 /\ store.remaining = balance /\ Of("monitor") = store
  BY DEF Decide, world, Intervals, Undisturbed, Of
<1>2. CASE balance <= 0 /\ pc' = "confirm" /\ store' = store
  <2>1. WarnedBelow' /\ (Owes => Owes')
    BY <1>1, <1>2 DEF BilledAfterCheck, WarnedBelow, Owes
  <2> QED
    BY <1>1, <1>2, <2>1 DEF Undisturbed, Intervals, BilledAfterCheck, CheckDue
<1>3. ASSUME pc' = "wait", store'.remaining = store.remaining, store'.since = store.since,
             store'.state = store.state, store.warned \subseteq store'.warned,
             \A w \in Warnings : Within(w, balance) => w \in store'.warned
      PROVE  Calm'
  <2>1. Ready'
    BY <1>1, <1>3, DecideReady DEF BilledAfterCheck, Ready
  <2>2. WarnedBelow' /\ (Owes => Owes')
    BY <1>1, <1>3 DEF BilledAfterCheck, WarnedBelow, Owes
  <2> QED
    BY <1>1, <1>3, <2>1, <2>2 DEF Undisturbed, Intervals, BilledAfterCheck
<1>4. ASSUME NEW w \in Warnings, Within(w, balance), pc' = "wait",
             Change("monitor", Remind(store, w))
      PROVE  Calm'
  <2>1. store' = Remind(store, w)
    BY <1>4 DEF Change
  <2>2. /\ store'.remaining = store.remaining /\ store'.since = store.since
        /\ store'.state = store.state /\ store'.warned = store.warned \cup {w}
    BY <2>1, Plain, RemindFields
  <2>3. \A v \in Warnings : Within(v, balance) => v \in store'.warned
    BY <1>4, <2>2, OneWindow
  <2> QED
    BY <1>3, <1>4, <2>2, <2>3
<1>5. CASE /\ \A w \in Warnings : Within(w, balance) => w \in store.warned
           /\ pc' = "wait" /\ store' = store
  BY <1>3, <1>5
<1> QED
  BY <1>1, <1>2, <1>4, <1>5 DEF Decide, Exhausted, Goto, Keep

LEMMA CalmStop ==
    ASSUME Shared, Typed, Calm, ~hist'.disturbed, Confirm \/ ForceStop \/ Leave
    PROVE  Calm'
<1> USE DEF Calm
<1>1. CASE Confirm
  <2>1. /\ pc = "confirm" /\ balance' = balance /\ user' = user
        /\ billing' = billing /\ checking' = checking
        /\ billing <= 2 /\ store.remaining = balance
    BY <1>1 DEF Confirm, world, Intervals, Undisturbed
  <2>2. Answers = {balance} /\ direct' = balance
    BY <1>1, NoFault DEF Undisturbed, Answers, Confirm
  <2>3. \/ pc' = "exhausted" /\ store' = store /\ balance <= 0
        \/ pc' = "decide" /\ store' = Told(store, balance) /\ balance > 0
    BY <1>1, <2>2, NoFault DEF Confirm, Goto, Keep, CacheAndTell
  <2>4. /\ store'.remaining = balance /\ store'.since = store.since
        /\ store'.state = store.state /\ store'.warned = store.warned
    BY <2>1, <2>3, Plain, CacheFields
  <2>5. WarnedBelow' /\ (Ready => Ready') /\ (Owes => Owes')
    BY <2>1, <2>4 DEF BilledAfterCheck, WarnedBelow, Ready, Owes
  <2>6. store.state = "running" => Ready \/ balance <= 0
    BY <2>1 DEF BilledAfterCheck, CheckDue
  <2> QED
    BY <2>1, <2>2, <2>3, <2>4, <2>5, <2>6, Plain
       DEF Undisturbed, Intervals, BilledAfterCheck, CheckDue
<1>2. CASE ForceStop \/ Leave
  <2>1. /\ store'.state = "gone" /\ store'.remaining = store.remaining
        /\ store'.since = store.since /\ store'.warned = store.warned
    BY <1>2, Plain DEF ForceStop, Leave, Session
  <2>2. /\ balance' = balance /\ user' = user /\ val' = val /\ direct' = direct
        /\ billing' = billing /\ checking' = checking
    BY <1>2 DEF ForceStop, Leave, world, mon, loop
  <2>3. WarnedBelow' /\ (Ready => Ready') /\ (Owes => Owes')
    BY <2>1, <2>2 DEF BilledAfterCheck, WarnedBelow, Ready, Owes
  <2>4. CASE ForceStop
    <3>1. pc \in {"exhausted", "refused"} /\ pc' = (IF pc = "refused" THEN "check" ELSE "wait")
      BY <2>4 DEF ForceStop, Goto
    <3>2. pc = "refused" => checking >= 1
      BY DEF Intervals
    <3> QED
      BY <2>1, <2>2, <2>3, <3>1, <3>2 DEF Undisturbed, Intervals, BilledAfterCheck
  <2>5. CASE Leave
    <3>1. pc' = pc
      BY <2>5 DEF Leave, mon, loop
    <3> QED
      BY <2>1, <2>2, <2>3, <3>1 DEF Undisturbed, Intervals, BilledAfterCheck
  <2> QED
    BY <1>2, <2>4, <2>5
<1> QED
  BY <1>1, <1>2

LEMMA CalmStep ==
    ASSUME Shared, WideWindows, Typed, ~hist.disturbed => Calm, [Next]_vars
    PROVE  ~hist'.disturbed => Calm'
<1> SUFFICES ASSUME ~hist'.disturbed PROVE Calm'
  OBVIOUS
<1>1. ~hist.disturbed
  <2>1. CASE Tick \/ Charge \/ Decide
    BY <2>1, NoFault, Plain DEF Tick, Charge, Decide, Hist, Quiet
  <2>2. CASE \/ SkipBilling \/ ListForBilling \/ Clear \/ Set \/ Doubt \/ SkipCheck
             \/ ListForCheck \/ Look \/ Echo \/ Confirm \/ ForceStop \/ Ask
    BY <2>2, NoFault DEF SkipBilling, ListForBilling, Clear, Set, Doubt, SkipCheck,
       ListForCheck, Look, Echo, Confirm, ForceStop, Ask, Quiet
  <2>3. CASE Toggle \/ Answer \/ Leave \/ Recharge \/ Drop
    BY <2>3, Plain DEF Toggle, Answer, Leave, Recharge, Drop, Disturb, Hist
  <2> QED
    BY <2>1, <2>2, <2>3 DEF Next, Monitor, vars
<1>2. Calm
  BY <1>1
<1>3. ~(Ask \/ Answer)
  BY <1>2 DEF Calm, Undisturbed, Ask, Answer
<1>4. ~(Toggle \/ Recharge \/ Drop)
  BY Plain DEF Toggle, Recharge, Drop, Disturb, Hist
<1>5. CASE UNCHANGED vars
  BY <1>2, <1>5 DEF vars, Calm, Undisturbed, Intervals, Owes, BilledAfterCheck,
     WarnedBelow, Ready, CheckDue
<1> QED
  BY <1>2, <1>3, <1>4, <1>5, CalmTick, CalmBilling, CalmCharge, CalmRecord, CalmDoubt,
     CalmCheck, CalmLook, CalmDecide, CalmStop DEF Next, Monitor

(* With the cache in memory a warning that was sent is noted in the session  *)
(* for good, so it is not sent again.                                        *)
LEMMA SentStep == ASSUME Shared, Typed, SentIsNoted, [Next]_vars PROVE SentIsNoted'
<1>1. ASSUME hist'.sent = hist.sent, store'.warned = store.warned PROVE SentIsNoted'
  BY <1>1 DEF SentIsNoted
<1>2. ASSUME hist'.sent = hist.sent,
             \/ store' = store
             \/ \E n \in Balances : \/ store' = Cached(store, n) \/ store' = Told(store, n)
                                    \/ store' = Billed(Cached(store, n))
      PROVE  SentIsNoted'
  <2>1. \A n \in Balances : Cached(store, n) \in Session
    BY Plain, Sessions
  <2> QED
    BY <1>1, <1>2, <2>1, Plain, CacheFields
<1>3. Fault => hist'.sent = hist.sent
  BY Plain DEF Fault, Hist
<1>4. CASE Tick \/ Leave \/ ForceStop \/ Toggle \/ Recharge \/ Drop
  <2>1. hist'.sent = hist.sent /\ store'.warned = store.warned
    BY <1>4, Plain DEF Tick, Leave, ForceStop, Toggle, Toggled, Recharge, Drop, Quiet,
       Disturb, Hist, Session
  <2> QED
    BY <1>1, <2>1
<1>5. CASE Charge
  <2>1. hist'.sent = hist.sent /\ store' = store
    BY <1>3, <1>5, Plain DEF Charge, Keep, Quiet, Hist
  <2> QED
    BY <1>2, <2>1
<1>6. CASE SkipBilling \/ ListForBilling \/ SkipCheck \/ ListForCheck \/ Ask
  <2>1. hist'.sent = hist.sent /\ store' = store
    BY <1>3, <1>6 DEF SkipBilling, ListForBilling, SkipCheck, ListForCheck, Ask, Keep, Quiet
  <2> QED
    BY <1>2, <2>1
<1>7. CASE Clear \/ Set \/ Look \/ Echo
  BY <1>2, <1>3, <1>7, Plain DEF Clear, Set, Look, Echo, Cache, Keep, Quiet
<1>8. CASE Doubt \/ Confirm
  <2>1. hist'.sent = hist.sent
    BY <1>3, <1>8 DEF Doubt, Confirm, Quiet
  <2>2. store' = store \/ \E n \in Balances : store' = Told(store, n)
    BY <1>8, AnswersTyped DEF Doubt, Confirm, Keep, CacheAndTell
  <2> QED
    BY <1>2, <2>1, <2>2
<1>9. CASE Answer
  <2>1. hist' = hist /\ (store' = store \/ (told \in Balances /\ store' = Told(store, told)))
    BY <1>9 DEF Answer, Of, Typed, Scalars
  <2> QED
    BY <1>2, <2>1
<1>10. CASE Decide
  <2>1. CASE store' = store /\ hist' = hist
    BY <1>2, <2>1
  <2>2. ASSUME NEW w \in Warnings, w \notin store.warned, store' = Remind(store, w),
               hist' = [hist EXCEPT !.sent[w] = Least(@ + 1, 2)]
        PROVE  SentIsNoted'
    <3>1. hist.sent \in [Warnings -> 0..2] /\ hist.sent[w] = 0
      BY <2>2, Plain DEF SentIsNoted, Hist
    <3>2. hist'.sent = [hist.sent EXCEPT ![w] = Least(hist.sent[w] + 1, 2)]
      BY <2>2, Plain DEF Hist
    <3>3. hist'.sent = [hist.sent EXCEPT ![w] = 1]
      BY <3>1, <3>2 DEF Least
    <3>4. store'.warned = store.warned \cup {w}
      BY <2>2, Plain, RemindFields
    <3> QED
      BY <3>1, <3>3, <3>4 DEF SentIsNoted
  <2> QED
    BY <1>10, <2>1, <2>2 DEF Decide, Keep, Change, Of
<1>11. CASE UNCHANGED vars
  BY <1>2, <1>11 DEF vars
<1> QED
  BY <1>4, <1>5, <1>6, <1>7, <1>8, <1>9, <1>10, <1>11 DEF Next, Monitor

(* With the cache in memory and windows of at least three ticks, a session   *)
(* that begins above its warnings and that nothing disturbs gets each of     *)
(* them before its balance is below the window, and once.                    *)
THEOREM NoWarningMissed ==
    ASSUME Shared, WideWindows, StartAbove
    PROVE  Spec => []WarnedInTime
<1>1. Init => Typed /\ Calm /\ SentIsNoted
  <2> SUFFICES ASSUME Init PROVE Calm /\ SentIsNoted
    BY InitTyped
  <2>1. /\ store.remaining = balance /\ store.since = 0 /\ store.state = "running"
        /\ hist.sent = [w \in Warnings |-> 0]
    BY DEF Init
  <2>2. Ready /\ WarnedBelow
    <3>1. SUFFICES ASSUME NEW w \in Warnings
                   PROVE  ~(balance <= Threshold[w]) /\ ~(balance <= Threshold[w] - Window[w])
      BY DEF Ready, WarnedBelow
    <3>2. balance > Threshold[w]
      BY DEF StartAbove, Init
    <3>3. Threshold[w] \in Nat /\ Window[w] \in Nat /\ balance \in Nat
      BY InitTyped, Plain
    <3> QED
      BY <3>2, <3>3
  <2> QED
    BY <2>1, <2>2 DEF Init, Calm, Undisturbed, Intervals, BilledAfterCheck, SentIsNoted
<1>2. Typed /\ (~hist.disturbed => Calm) /\ [Next]_vars => (~hist.disturbed => Calm)'
  BY CalmStep
<1>3. Typed /\ SentIsNoted /\ [Next]_vars => SentIsNoted'
  BY SentStep
<1>4. SentIsNoted /\ (~hist.disturbed => Calm) => WarnedInTime
  BY DEF Calm, BilledAfterCheck, WarnedBelow, SentIsNoted, WarnedInTime
<1> QED
  BY <1>1, <1>2, <1>3, <1>4, TypedAlways, PTL DEF Spec
=============================================================================
