------------------------------ MODULE CycleLedger ------------------------------
(***************************************************************************)
(* The quota cycles of one user: rows of user_cycle_states, and the        *)
(* transactions of internal/service/account_state_service.go and the cycle *)
(* services that charge, grant, cancel, reset and expire them.             *)
(*                                                                         *)
(* A worker is a goroutine with a transaction, or the job that expires     *)
(* ended cycles without one.  One SQL statement is one step.  As the       *)
(* database defines it (PostgreSQL, READ COMMITTED, pkg/database): a       *)
(* SELECT sees committed rows and those the transaction wrote; an UPDATE   *)
(* waits until no other transaction has written the row and then decides   *)
(* on its latest version; a transaction ends in a commit or a rollback.    *)
(*                                                                         *)
(* Tiers stand for how a cycle expires: "pro" for Pro and Pro Mini, "payg" *)
(* for PAYG, special offer and Premium, "free" for the system's own cycle. *)
(* Every cycle here has a start, when it is granted, and an end; CANCELLED *)
(* stands for REFUNDED too.                                                *)
(***************************************************************************)
EXTENDS Integers, FiniteSets, FiniteSetsExt

CONSTANTS
    Workers,
    None,          \* no worker
    MaxRows,       \* rows ever written (bound)
    MaxTime,       \* the clock's last tick (bound)
    Totals,        \* seconds a purchase grants
    Amounts,       \* seconds a charge asks for
    FreeTotal,     \* billing.FreeAllowanceSeconds
    Lives          \* how long a granted cycle lasts

Ids == 1..MaxRows
Tiers == {"pro", "payg", "free"}
States == {"none", "ACTIVE", "COMPLETED", "EXPIRED", "CANCELLED"}

ASSUME LedgerAssumption ==
    /\ None \notin Workers
    /\ MaxRows \in Nat
    /\ MaxTime \in Nat
    /\ Totals \subseteq Nat
    /\ Amounts \subseteq Nat \ {0}
    /\ FreeTotal \in Nat
    /\ Lives \subseteq Nat

VARIABLES
    now,        \* the clock
    rows,       \* the committed rows
    lock,       \* the transaction that has written each row, or None
    dirty,      \* the latest version of each row, committed or not
    tx,         \* what each worker is doing
    charged     \* history: seconds of committed charges, less those a reset
                \* of the free cycle gave back

vars == <<now, rows, lock, dirty, tx, charged>>

NoRow == [tier |-> "free", state |-> "none", ends |-> 0, total |-> 0, used |-> 0]

(* at: the step under way; tier, amount: what is bought or charged; rest:  *)
(* seconds still to take; checked: tiers whose expiry was checked; todo:   *)
(* rows of the last list still to visit; avail, ends: what the list said   *)
(* of them; done: rows the charge emptied; to: where a cancellation leads. *)
Idle == [op |-> "idle", at |-> "idle", tier |-> "free", amount |-> 0, rest |-> 0,
         checked |-> 0, todo |-> {}, done |-> {}, to |-> "none",
         avail |-> [c \in Ids |-> 0], ends |-> [c \in Ids |-> 0]]

Init ==
    /\ now = 0
    /\ rows = [c \in Ids |-> NoRow]
    /\ lock = [c \in Ids |-> None]
    /\ dirty = rows
    /\ tx = [w \in Workers |-> Idle]
    /\ charged = 0

-----------------------------------------------------------------------------
(* The database. *)

Visible(w, c) == IF lock[c] = w THEN dirty[c] ELSE rows[c]

Unlocked(w, c) == lock[c] \in {None, w}

Write(w, c, row) ==
    /\ lock' = [lock EXCEPT ![c] = w]
    /\ dirty' = [dirty EXCEPT ![c] = row]

Keep == UNCHANGED <<lock, dirty>>

TotalUsed(r) == MapThenSumSet(LAMBDA c : r[c].used, Ids)

Rollback(w) ==
    /\ dirty' = [c \in Ids |-> IF lock[c] = w THEN rows[c] ELSE dirty[c]]
    /\ lock' = [c \in Ids |-> IF lock[c] = w THEN None ELSE lock[c]]
    /\ tx' = [tx EXCEPT ![w] = Idle]

Go(w, t) == tx' = [tx EXCEPT ![w] = t]

Elapse == now < MaxTime /\ now' = now + 1 /\ UNCHANGED <<rows, lock, dirty, tx, charged>>

Active(w, t) == {c \in Ids : Visible(w, c).state = "ACTIVE" /\ Visible(w, c).tier = t}

-----------------------------------------------------------------------------
(* Every transaction first expires what has ended, tier by tier.  The pass *)
(* misses a cycle that ends after its tier was listed, and an error ends   *)
(* it without ending the transaction: here it may stop at any tier.        *)

TierOrder == <<"pro", "payg", "free">>

(* One ended Pro cycle expires every active Pro cycle. *)
ToExpire(w, t) ==
    LET ended == {c \in Active(w, t) : Visible(w, c).ends < now}
    IN  IF t = "pro" /\ ended # {} THEN Active(w, t) ELSE ended

ExpireList(w) ==
    /\ tx[w].at \in {"idle", "expire"} /\ tx[w].todo = {}
    /\ \E k \in (tx[w].checked + 1)..3 :
        /\ ToExpire(w, TierOrder[k]) # {}
        /\ Go(w, [Idle EXCEPT !.op = "expire", !.at = "expire", !.checked = k,
                              !.todo = ToExpire(w, TierOrder[k])])
    /\ UNCHANGED <<now, rows, lock, dirty, charged>>

(* The pass is over and the work of the transaction starts. *)
Ready(w) == tx[w].at \in {"idle", "expire"} /\ tx[w].todo = {}

(* Mutant: the update does not look at the state. *)
CanLeave_Any(row) == row.state # "none"

(* UpdateState: UPDATE ... WHERE id = ? AND state = 'ACTIVE'. *)
CanLeave(row) == row.state = "ACTIVE"

(* The state a listed row goes to. *)
Target(w) ==
    CASE tx[w].at = "expire" -> "EXPIRED"
      [] tx[w].at = "cancel" -> tx[w].to
      [] OTHER               -> "COMPLETED"

(* Listed rows leave ACTIVE one by one; outside the expiry pass a row that *)
(* is not ACTIVE any more fails the transaction.                           *)
Transition(w) ==
    /\ tx[w].at \in {"expire", "retire", "cancel", "complete"}
    /\ \E c \in tx[w].todo :
        /\ \A d \in tx[w].todo : c <= d
        /\ Unlocked(w, c)
        /\ IF CanLeave(Visible(w, c))
           THEN /\ Write(w, c, [Visible(w, c) EXCEPT !.state = Target(w)])
                /\ Go(w, [tx[w] EXCEPT !.todo = @ \ {c}])
           ELSE IF tx[w].at = "expire"
           THEN Keep /\ Go(w, [tx[w] EXCEPT !.todo = {}, !.checked = 3])
           ELSE Rollback(w)
    /\ UNCHANGED <<now, rows, charged>>

-----------------------------------------------------------------------------
(* Consume: list the consumable cycles, take from the one that ends first, *)
(* complete those that were emptied.                                       *)

ConsumeList(w) ==
    /\ Ready(w)
    /\ LET list == {c \in Ids : /\ Visible(w, c).state = "ACTIVE"
                                /\ Visible(w, c).ends > now
                                /\ Visible(w, c).total > Visible(w, c).used}
       IN  \E n \in Amounts :
             Go(w, [Idle EXCEPT
                      !.op = "consume", !.at = "consume", !.todo = list,
                      !.amount = n, !.rest = n,
                      !.avail = [c \in Ids |-> IF c \in list
                                   THEN Visible(w, c).total - Visible(w, c).used ELSE 0],
                      !.ends = [c \in Ids |-> IF c \in list THEN Visible(w, c).ends ELSE 0]])
    /\ UNCHANGED <<now, rows, lock, dirty, charged>>

Earliest(t, c) ==
    \A d \in t.todo : t.ends[c] < t.ends[d] \/ (t.ends[c] = t.ends[d] /\ c <= d)

(* Mutant: all a cycle has is taken. *)
Share_All(t, c) == t.avail[c]

Share(t, c) == IF t.avail[c] < t.rest THEN t.avail[c] ELSE t.rest

(* Mutant: the update does not look at the capacity. *)
Fits_Any(row, n) == TRUE

(* IncrementUsage: UPDATE ... WHERE id = ? AND used + n <= total. *)
Fits(row, n) == row.used + n <= row.total

(* Mutant: a cycle whose share was refused counts as charged. *)
Rest_Skipped(t, c, took) == t.rest - Share(t, c)

Rest(t, c, took) == IF took THEN t.rest - Share(t, c) ELSE t.rest

(* Mutant: any cycle the charge took from is finished. *)
Emptied_Touched(t, c) == TRUE

Emptied(t, c) == Share(t, c) = t.avail[c]

Take(w) ==
    /\ tx[w].at = "consume" /\ tx[w].rest > 0
    /\ \E c \in tx[w].todo :
        /\ Earliest(tx[w], c)
        /\ Unlocked(w, c)
        /\ LET t    == tx[w]
               row  == Visible(w, c)
               took == Fits(row, Share(t, c))
           IN /\ IF took
                 THEN Write(w, c, [row EXCEPT !.used = @ + Share(t, c)])
                 ELSE Keep
              /\ Go(w, [t EXCEPT !.todo = @ \ {c}, !.rest = Rest(t, c, took),
                          !.avail[c] = 0, !.ends[c] = 0,
                          !.done = IF took /\ Emptied(t, c) THEN @ \cup {c} ELSE @])
    /\ UNCHANGED <<now, rows, charged>>

(* "insufficient balance", or on to the cycles that were emptied. *)
Taken(w) ==
    /\ tx[w].at = "consume" /\ (tx[w].todo = {} \/ tx[w].rest = 0)
    /\ IF tx[w].rest > 0
       THEN Rollback(w)
       ELSE /\ Go(w, [Idle EXCEPT !.op = "consume", !.at = "complete",
                                  !.amount = tx[w].amount, !.todo = tx[w].done])
            /\ Keep
    /\ UNCHANGED <<now, rows, charged>>

-----------------------------------------------------------------------------
(* Purchases and resets first complete the active free cycles. *)

Retire(w) ==
    /\ Ready(w)
    /\ LET free == [Idle EXCEPT !.at = "retire", !.todo = Active(w, "free")]
       IN \/ \E t \in {"pro", "payg"}, n \in Totals :
                Go(w, [free EXCEPT !.op = "purchase", !.tier = t, !.amount = n])
          \/ Go(w, [free EXCEPT !.op = "reset"])
    /\ UNCHANGED <<now, rows, lock, dirty, charged>>

NewRow(t, n, life) ==
    [tier |-> t, state |-> "ACTIVE", ends |-> now + life, total |-> n, used |-> 0]

Create(w, t, n) ==
    \E c \in Ids, life \in Lives :
        /\ rows[c].state = "none" /\ lock[c] = None
        /\ \A d \in Ids : rows[d].state = "none" /\ lock[d] = None => c <= d
        /\ Write(w, c, NewRow(t, n, life))
        /\ Go(w, [tx[w] EXCEPT !.at = "commit"])

Grant(w) ==
    /\ tx[w].op = "purchase" /\ tx[w].at = "retire" /\ tx[w].todo = {}
    /\ Create(w, tx[w].tier, tx[w].amount)
    /\ UNCHANGED <<now, rows, charged>>

(* FindSystemFreeCycle and ResetSystemFreeCycle, or the first free cycle. *)
Reset(w) ==
    /\ tx[w].op = "reset" /\ tx[w].at = "retire" /\ tx[w].todo = {}
    /\ LET free == {c \in Ids : Visible(w, c).state # "none" /\ Visible(w, c).tier = "free"}
       IN \/ /\ free = {}
             /\ Create(w, "free", FreeTotal)
          \/ \E c \in free, life \in Lives :
                /\ Unlocked(w, c)
                /\ Write(w, c, NewRow("free", FreeTotal, life))
                /\ Go(w, [tx[w] EXCEPT !.at = "commit"])
    /\ UNCHANGED <<now, rows, charged>>

(* A reset finds that the user has paid before, or a cancellation nothing  *)
(* to cancel.                                                              *)
NothingToDo(w) ==
    /\ tx[w].at = "expire" /\ tx[w].todo = {}
    /\ Go(w, [Idle EXCEPT !.op = "expire", !.at = "commit"])
    /\ UNCHANGED <<now, rows, lock, dirty, charged>>

(* The cycles of a refunded transaction or of a subscription. *)
CancelList(w) ==
    /\ Ready(w)
    /\ \E t \in {"pro", "payg"}, to \in {"CANCELLED", "EXPIRED"} :
        \E S \in (SUBSET Active(w, t)) \ {{}} :
            Go(w, [Idle EXCEPT !.op = "cancel", !.at = "cancel", !.todo = S, !.to = to])
    /\ UNCHANGED <<now, rows, lock, dirty, charged>>

-----------------------------------------------------------------------------
Commit(w) ==
    /\ tx[w].at \in {"commit", "cancel", "complete"} /\ tx[w].todo = {}
    /\ rows' = [c \in Ids |-> IF lock[c] = w THEN dirty[c] ELSE rows[c]]
    /\ lock' = [c \in Ids |-> IF lock[c] = w THEN None ELSE lock[c]]
    /\ charged' = CASE tx[w].op = "consume" -> charged + tx[w].amount
                    [] tx[w].op = "reset"   -> charged - (TotalUsed(rows) - TotalUsed(rows'))
                    [] OTHER                -> charged
    /\ Go(w, Idle)
    /\ UNCHANGED <<now, dirty>>

(* A lost connection, a deadlock victim, a caller that gave up. *)
Abort(w) ==
    /\ tx[w].op \notin {"idle", "sweep", "query"}
    /\ Rollback(w)
    /\ UNCHANGED <<now, rows, charged>>

(* Two passes run without a transaction, every statement on its own: the   *)
(* expiry job (ExpireAllEndedCycles), which skips a row that changed since *)
(* the list, and the expiry before a balance query, which then ends.       *)
SweepList(w) ==
    /\ tx[w].op = "idle"
    /\ LET ended(s) == {c \in Ids : rows[c].state = s /\ rows[c].ends <= now}
       IN \/ /\ ended("ACTIVE") \cup ended("COMPLETED") # {}
             /\ Go(w, [Idle EXCEPT !.op = "sweep", !.at = "sweep",
                                   !.todo = ended("ACTIVE"), !.done = ended("COMPLETED")])
          \/ \E t \in Tiers :
                /\ ToExpire(w, t) # {}
                /\ Go(w, [Idle EXCEPT !.op = "query", !.at = "sweep",
                                      !.todo = ToExpire(w, t)])
    /\ UNCHANGED <<now, rows, lock, dirty, charged>>

SweepRow(w) ==
    /\ tx[w].at = "sweep"
    /\ \E c \in tx[w].todo \cup tx[w].done :
        LET from == IF c \in tx[w].todo THEN "ACTIVE" ELSE "COMPLETED"
            hit  == rows[c].state = from
            left == [tx[w] EXCEPT !.todo = @ \ {c}, !.done = @ \ {c}]
        IN /\ lock[c] = None
           /\ rows' = IF hit THEN [rows EXCEPT ![c].state = "EXPIRED"] ELSE rows
           /\ dirty' = IF hit THEN [dirty EXCEPT ![c].state = "EXPIRED"] ELSE dirty
           /\ Go(w, IF left.todo \cup left.done = {} \/ (tx[w].op = "query" /\ ~hit)
                    THEN Idle ELSE left)
    /\ UNCHANGED <<now, lock, charged>>

Next ==
    \/ Elapse
    \/ \E w \in Workers :
          \/ ExpireList(w) \/ Transition(w)
          \/ ConsumeList(w) \/ Take(w) \/ Taken(w)
          \/ Retire(w) \/ Grant(w) \/ Reset(w) \/ NothingToDo(w) \/ CancelList(w)
          \/ Commit(w) \/ Abort(w)
          \/ SweepList(w) \/ SweepRow(w)

Spec == Init /\ [][Next]_vars

-----------------------------------------------------------------------------
Row == [tier : Tiers, state : States, ends : Nat, total : Nat, used : Nat]

TxType ==
    [op : {"idle", "expire", "consume", "purchase", "cancel", "reset", "sweep", "query"},
     at : {"idle", "expire", "retire", "consume", "complete", "cancel", "commit", "sweep"},
     tier : Tiers, amount : Nat, rest : Nat, checked : 0..3,
     todo : SUBSET Ids, done : SUBSET Ids, to : States,
     avail : [Ids -> Nat], ends : [Ids -> Nat]]

(* The values the rows and the transactions can hold. *)
TypeOK ==
    /\ now \in Nat
    /\ rows \in [Ids -> Row]
    /\ dirty \in [Ids -> Row]
    /\ lock \in [Ids -> Workers \cup {None}]
    /\ tx \in [Workers -> TxType]

(* However charges overlap, none takes more from a cycle than it holds     *)
(* (IncrementUsage decides on the row, not on the list).                   *)
NeverOverused == \A c \in Ids : rows[c].used <= rows[c].total

(* A committed charge takes exactly the seconds it asked for, spread over  *)
(* the cycles, and a failed one takes none: the seconds used of all cycles *)
(* are those charged.                                                      *)
SecondsAccountedFor == TotalUsed(rows) = charged

(* A paid cycle is completed only when it is used up, though a charge      *)
(* decides that from a list that may be old (Consume, FinishedIDs).        *)
CompletedIsExhausted ==
    \A c \in Ids : rows[c].state = "COMPLETED" /\ rows[c].tier # "free"
        => rows[c].used = rows[c].total

(* A paid cycle leaves ACTIVE once: what was expired, refunded, cancelled  *)
(* or completed by one transaction is not taken back or moved on by another *)
(* that listed it before, but a completed one expires in the end.          *)
EndsOnce ==
    [][\A c \in Ids :
        /\ rows[c].state # "none" /\ rows[c].tier # "free"
        /\ rows'[c].state # rows[c].state
        => \/ rows[c].state = "ACTIVE"
           \/ rows[c].state = "COMPLETED" /\ rows'[c].state = "EXPIRED"]_vars

(* "对 ACTIVE 周期执行扣费逻辑" (charges are taken from ACTIVE cycles): a   *)
(* charge is committed only on a cycle that was still active.              *)
ChargesActiveOnly ==
    [][\A c \in Ids : rows[c].used < rows'[c].used => rows[c].state = "ACTIVE"]_vars

(* "检查并处理过期的周期" (check for cycles that have expired and handle them): *)
(* unless it is cancelled, a cycle expires only after its end.             *)
OnlyEndedCyclesExpire ==
    [][\A c \in Ids :
        /\ rows[c].state # "EXPIRED" /\ rows'[c].state = "EXPIRED"
        /\ \A w \in Workers : tx[w].op = "cancel" => lock[c] # w
        => rows[c].ends <= now]_vars
=============================================================================
