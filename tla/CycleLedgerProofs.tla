------------------------- MODULE CycleLedgerProofs -------------------------
(***************************************************************************)
(* Proofs about the ledgers.  CycleLedger, for any number of workers and   *)
(* rows, any purchases and charges: what every row holds (Inv), what a     *)
(* charge knows of the rows it listed (XInv), and what the rows hold       *)
(* together (AInv).  Then QuotaLedger, for any number of requests and      *)
(* cycles: what open transactions hold (QInv), what is in summary_ledger   *)
(* (Agreed) and in usage_ledger (BooksRight).  Both rest on the lemmas     *)
(* about sums, SumOf.                                                      *)
(***************************************************************************)
EXTENDS CycleLedger, QuotaLedger, FiniteSetTheorems, WellFoundedInduction, TLAPS

(* No version of a row, committed or not, has more used than it holds. *)
Within == \A c \in Ids :
    /\ rows[c].used <= rows[c].total
    /\ dirty[c].used <= dirty[c].total

(* A row no transaction holds is as it was committed; a row keeps its tier; *)
(* and a paid row that was committed in another state than ACTIVE keeps it. *)
Owned == \A c \in Ids :
    /\ lock[c] = None => dirty[c] = rows[c]
    /\ rows[c].state # "none" => dirty[c].tier = rows[c].tier
    /\ /\ rows[c].state # "none" /\ rows[c].tier # "free"
       /\ dirty[c].state # rows[c].state
       => rows[c].state = "ACTIVE"

RowsTyped ==
    /\ now \in Nat
    /\ rows \in [Ids -> Row]
    /\ dirty \in [Ids -> Row]
    /\ lock \in [Ids -> Workers \cup {None}]

(* The invariant: what the database holds, and what the workers do. *)
DataOK == RowsTyped /\ Within /\ Owned
TxOK == tx \in [Workers -> TxType]
Inv == DataOK /\ TxOK

LEMMA InvType == Inv => TypeOK /\ NeverOverused
  BY DEF Inv, DataOK, TxOK, RowsTyped, TypeOK, Within, NeverOverused

-----------------------------------------------------------------------------
(* What the workers do stays well formed. *)

LEMMA IdleTyped == Idle \in TxType
  <1>1. [c \in Ids |-> 0] \in [Ids -> Nat]
    OBVIOUS
  <1> QED BY <1>1 DEF Idle, TxType, Tiers, States

(* What a worker does next is a record of TxType: the other workers keep theirs. *)
LEMMA GoTyped ==
  ASSUME tx \in [Workers -> TxType], NEW w \in Workers, NEW t \in TxType, Go(w, t)
  PROVE  tx' \in [Workers -> TxType]
  BY DEF Go

LEMMA VisibleTyped ==
  ASSUME DataOK, NEW w, NEW c \in Ids
  PROVE  Visible(w, c) \in Row /\ Visible(w, c).used <= Visible(w, c).total
  BY DEF Visible, DataOK, RowsTyped, Within

(* A new row is typed and holds what it was granted. *)
LEMMA NewRowTyped ==
  ASSUME now \in Nat, NEW t \in Tiers, NEW n \in Nat, NEW life \in Lives
  PROVE  /\ NewRow(t, n, life) \in Row
         /\ NewRow(t, n, life).used <= NewRow(t, n, life).total
         /\ NewRow(t, n, life).tier = t
  BY LedgerAssumption DEF NewRow, Row, States

(* The share of a charge is no more than is asked for. *)
LEMMA ShareBounds ==
  ASSUME NEW t \in TxType, NEW c \in Ids
  PROVE  Share(t, c) \in Nat /\ t.rest - Share(t, c) \in Nat
  <1>1. t.avail[c] \in Nat /\ t.rest \in Nat
    BY DEF TxType
  <1> QED BY <1>1 DEF Share

-----------------------------------------------------------------------------
(* What the statements and the ends of transactions do to the rows. *)

(* An UPDATE or INSERT by the only transaction that holds the row, to a row *)
(* within its total that keeps a tier and, if paid, leaves only ACTIVE.     *)
LEMMA WriteKeeps ==
  ASSUME DataOK, NEW w \in Workers, NEW c \in Ids, NEW row \in Row,
         Write(w, c, row), UNCHANGED <<now, rows>>,
         row.used <= row.total,
         rows[c].state # "none" => row.tier = rows[c].tier,
         rows[c].state # "none" /\ rows[c].tier # "free" /\ row.state # rows[c].state
           => rows[c].state = "ACTIVE"
  PROVE  DataOK'
  <1>1. RowsTyped'
    BY DEF DataOK, RowsTyped, Write
  <1>2. \A d \in Ids : /\ dirty'[d] = (IF d = c THEN row ELSE dirty[d])
                       /\ lock'[d] = (IF d = c THEN w ELSE lock[d])
    BY DEF DataOK, RowsTyped, Write
  <1>3. Within'
    BY <1>2 DEF DataOK, Within
  <1>4. w # None
    BY LedgerAssumption
  <1>5. Owned'
    BY <1>2, <1>4 DEF DataOK, Owned
  <1> QED BY <1>1, <1>3, <1>5 DEF DataOK

LEMMA KeepKeeps ==
  ASSUME DataOK, UNCHANGED <<rows, lock, dirty>>, now' \in Nat
  PROVE  DataOK'
  BY DEF DataOK, RowsTyped, Within, Owned

LEMMA RollbackKeeps ==
  ASSUME Inv, NEW w \in Workers, Rollback(w), UNCHANGED <<now, rows>>
  PROVE  Inv'
  <1>1. \A d \in Ids : /\ dirty'[d] = (IF lock[d] = w THEN rows[d] ELSE dirty[d])
                       /\ lock'[d] = (IF lock[d] = w THEN None ELSE lock[d])
    BY DEF Rollback
  <1>2. RowsTyped'
    <2>1. dirty' \in [Ids -> Row]
      BY DEF Inv, DataOK, RowsTyped, Rollback
    <2>2. lock' \in [Ids -> Workers \cup {None}]
      BY DEF Inv, DataOK, RowsTyped, Rollback
    <2> QED BY <2>1, <2>2 DEF Inv, DataOK, RowsTyped
  <1>3. Within'
    BY <1>1 DEF Inv, DataOK, Within
  <1>4. Owned'
    BY <1>1 DEF Inv, DataOK, Owned
  <1>5. TxOK'
    BY IdleTyped DEF Rollback, Inv, TxOK
  <1> QED BY <1>2, <1>3, <1>4, <1>5 DEF Inv, DataOK

(* A visible row that is still ACTIVE may be moved on. *)
LEMMA LeaveActive ==
  ASSUME DataOK, NEW w \in Workers, NEW c \in Ids, Unlocked(w, c),
         CanLeave(Visible(w, c)), NEW to \in States,
         Write(w, c, [Visible(w, c) EXCEPT !.state = to]), UNCHANGED <<now, rows>>
  PROVE  DataOK'
  <1> DEFINE row == [Visible(w, c) EXCEPT !.state = to]
  <1>1. Visible(w, c) \in Row /\ Visible(w, c).used <= Visible(w, c).total
    BY VisibleTyped
  <1>2. row \in Row /\ row.used <= row.total /\ row.tier = Visible(w, c).tier
    BY <1>1 DEF Row
  <1>3. Visible(w, c) = dirty[c]
    BY DEF Visible, Unlocked, DataOK, Owned
  <1>4. rows[c].state # "none" => row.tier = rows[c].tier
    BY <1>2, <1>3 DEF DataOK, Owned
  <1>5. rows[c].state # "none" /\ rows[c].tier # "free" /\ row.state # rows[c].state
        => rows[c].state = "ACTIVE"
    BY <1>3 DEF DataOK, Owned, CanLeave
  <1> HIDE DEF row
  <1>6. Write(w, c, row)
    BY DEF row
  <1> QED BY <1>2, <1>4, <1>5, <1>6, WriteKeeps

(* A new cycle goes where no row has been committed. *)
LEMMA CreateKeeps ==
  ASSUME Inv, NEW w \in Workers, NEW t \in Tiers, NEW n \in Nat, Create(w, t, n),
         UNCHANGED <<now, rows>>
  PROVE  Inv'
  <1>1. PICK c \in Ids, life \in Lives :
          /\ rows[c].state = "none" /\ lock[c] = None
          /\ Write(w, c, NewRow(t, n, life))
          /\ Go(w, [tx[w] EXCEPT !.at = "commit"])
    BY DEF Create
  <1>2. /\ NewRow(t, n, life) \in Row
        /\ NewRow(t, n, life).used <= NewRow(t, n, life).total
    BY NewRowTyped DEF Inv, DataOK, RowsTyped
  <1>3. DataOK'
    BY <1>1, <1>2, WriteKeeps DEF Inv
  <1>4. tx[w] \in TxType
    BY DEF Inv, TxOK
  <1>5. [tx[w] EXCEPT !.at = "commit"] \in TxType
    BY <1>4 DEF TxType
  <1>6. TxOK'
    BY <1>1, <1>5, GoTyped DEF Inv, TxOK
  <1> QED BY <1>3, <1>6 DEF Inv

-----------------------------------------------------------------------------
(* Every step keeps the invariant. *)

(* A worker that only reads changes nothing but its own record. *)
LEMMA ReadKeeps ==
  ASSUME Inv, NEW w \in Workers, NEW t \in TxType, Go(w, t),
         UNCHANGED <<now, rows, lock, dirty>>
  PROVE  Inv'
  <1>1. DataOK'
    BY KeepKeeps DEF Inv, DataOK, RowsTyped
  <1>2. TxOK'
    BY GoTyped DEF Inv, TxOK
  <1> QED BY <1>1, <1>2 DEF Inv

LEMMA ExpireListKeeps ==
  ASSUME Inv, NEW w \in Workers, ExpireList(w)
  PROVE  Inv'
  <1>1. tx[w].checked \in 0..3
    BY DEF Inv, TxOK, TxType
  <1>2. PICK k \in (tx[w].checked + 1)..3 :
          Go(w, [Idle EXCEPT !.op = "expire", !.at = "expire", !.checked = k,
                             !.todo = ToExpire(w, TierOrder[k])])
    BY DEF ExpireList
  <1>3. k \in 0..3
    BY <1>1
  <1>4. ToExpire(w, TierOrder[k]) \in SUBSET Ids
    BY DEF ToExpire, Active
  <1> DEFINE t == [Idle EXCEPT !.op = "expire", !.at = "expire", !.checked = k,
                               !.todo = ToExpire(w, TierOrder[k])]
  <1>5. t \in TxType
    BY <1>3, <1>4, IdleTyped DEF TxType
  <1> QED BY <1>2, <1>5, ReadKeeps DEF ExpireList

LEMMA TransitionKeeps ==
  ASSUME Inv, NEW w \in Workers, Transition(w)
  PROVE  Inv'
  <1>1. UNCHANGED <<now, rows>> /\ tx[w] \in TxType
    BY DEF Transition, Inv, TxOK
  <1>2. PICK c \in tx[w].todo :
          /\ Unlocked(w, c)
          /\ IF CanLeave(Visible(w, c))
             THEN /\ Write(w, c, [Visible(w, c) EXCEPT !.state = Target(w)])
                  /\ Go(w, [tx[w] EXCEPT !.todo = @ \ {c}])
             ELSE IF tx[w].at = "expire"
             THEN Keep /\ Go(w, [tx[w] EXCEPT !.todo = {}, !.checked = 3])
             ELSE Rollback(w)
    BY DEF Transition
  <1>3. c \in Ids
    BY <1>1 DEF TxType
  <1>4. Target(w) \in States
    BY <1>1 DEF Target, States, TxType
  <1>5. CASE CanLeave(Visible(w, c))
    <2>1. DataOK'
      BY <1>1, <1>2, <1>3, <1>4, <1>5, LeaveActive DEF Inv
    <2> DEFINE t == [tx[w] EXCEPT !.todo = tx[w].todo \ {c}]
    <2>2. t \in TxType
      BY <1>1 DEF TxType
    <2>3. Go(w, t)
      BY <1>2, <1>5
    <2>4. TxOK'
      BY <2>2, <2>3, GoTyped DEF Inv, TxOK
    <2> QED BY <2>1, <2>4 DEF Inv
  <1>6. CASE ~CanLeave(Visible(w, c)) /\ tx[w].at = "expire"
    <2> DEFINE t == [tx[w] EXCEPT !.todo = {}, !.checked = 3]
    <2>1. 3 \in 0..3 /\ {} \in SUBSET Ids
      OBVIOUS
    <2>2. t \in TxType
      BY ONLY <1>1, <2>1 DEF TxType
    <2> QED BY <1>1, <1>2, <1>6, <2>2, ReadKeeps DEF Keep
  <1>7. CASE ~CanLeave(Visible(w, c)) /\ tx[w].at # "expire"
    BY <1>1, <1>2, <1>7, RollbackKeeps
  <1> QED BY <1>5, <1>6, <1>7

LEMMA ConsumeListKeeps ==
  ASSUME Inv, NEW w \in Workers, ConsumeList(w)
  PROVE  Inv'
  <1> DEFINE list == {c \in Ids : /\ Visible(w, c).state = "ACTIVE"
                                 /\ Visible(w, c).ends > now
                                 /\ Visible(w, c).total > Visible(w, c).used}
             avail == [c \in Ids |-> IF c \in list
                         THEN Visible(w, c).total - Visible(w, c).used ELSE 0]
             ends == [c \in Ids |-> IF c \in list THEN Visible(w, c).ends ELSE 0]
  <1>1. PICK n \in Amounts :
          Go(w, [Idle EXCEPT !.op = "consume", !.at = "consume", !.todo = list,
                             !.amount = n, !.rest = n, !.avail = avail, !.ends = ends])
    BY DEF ConsumeList
  <1>2. \A c \in Ids : Visible(w, c) \in Row
    BY VisibleTyped DEF Inv
  <1>3. \A c \in list : Visible(w, c).total - Visible(w, c).used \in Nat
    BY <1>2 DEF Row
  <1>4. avail \in [Ids -> Nat]
    BY <1>3
  <1>5. ends \in [Ids -> Nat]
    BY <1>2 DEF Row
  <1>6. list \in SUBSET Ids /\ n \in Nat
    BY LedgerAssumption
  <1> HIDE DEF list, avail, ends
  <1> DEFINE t == [Idle EXCEPT !.op = "consume", !.at = "consume", !.todo = list,
                               !.amount = n, !.rest = n, !.avail = avail, !.ends = ends]
  <1>7. t \in TxType
    BY <1>4, <1>5, <1>6, IdleTyped DEF TxType
  <1> QED BY <1>1, <1>7, ReadKeeps DEF ConsumeList

(* A charge changes a row only when its share fits into it. *)
LEMMA TakeKeeps ==
  ASSUME Inv, NEW w \in Workers, Take(w)
  PROVE  Inv'
  <1> DEFINE t == tx[w]
  <1>1. UNCHANGED <<now, rows>> /\ t \in TxType
    BY DEF Take, Inv, TxOK
  <1>2. PICK c \in t.todo :
          /\ Unlocked(w, c)
          /\ IF Fits(Visible(w, c), Share(t, c))
             THEN Write(w, c, [Visible(w, c) EXCEPT !.used = @ + Share(t, c)])
             ELSE Keep
          /\ Go(w, [t EXCEPT !.todo = @ \ {c},
                      !.rest = Rest(t, c, Fits(Visible(w, c), Share(t, c))),
                      !.avail[c] = 0, !.ends[c] = 0,
                      !.done = IF Fits(Visible(w, c), Share(t, c)) /\ Emptied(t, c)
                               THEN @ \cup {c} ELSE @])
    BY DEF Take
  <1>3. c \in Ids
    BY <1>1 DEF TxType
  <1>4. /\ Share(t, c) \in Nat
        /\ \A fits \in BOOLEAN : Rest(t, c, fits) \in Nat
    BY <1>1, <1>3, ShareBounds DEF Rest, TxType
  <1>5. Visible(w, c) \in Row /\ Visible(w, c).used <= Visible(w, c).total
    BY <1>3, VisibleTyped DEF Inv
  <1>6. DataOK'
    <2>1. CASE Fits(Visible(w, c), Share(t, c))
      <3> DEFINE row == [Visible(w, c) EXCEPT !.used = Visible(w, c).used + Share(t, c)]
      <3>1. /\ row \in Row /\ row.used <= row.total
            /\ row.tier = Visible(w, c).tier /\ row.state = Visible(w, c).state
        BY <1>4, <1>5, <2>1 DEF Row, Fits
      <3>2. Write(w, c, row)
        BY <1>2, <2>1
      <3> HIDE DEF row
      <3>3. Visible(w, c) = dirty[c]
        BY <1>2, <1>3 DEF Visible, Unlocked, Inv, DataOK, Owned
      <3>4. /\ rows[c].state # "none" => row.tier = rows[c].tier
            /\ rows[c].state # "none" /\ rows[c].tier # "free" /\ row.state # rows[c].state
               => rows[c].state = "ACTIVE"
        BY <1>3, <3>1, <3>3 DEF Inv, DataOK, Owned
      <3>5. DataOK
        BY DEF Inv
      <3> QED BY <1>1, <1>3, <3>1, <3>2, <3>4, <3>5, WriteKeeps
    <2>2. CASE ~Fits(Visible(w, c), Share(t, c))
      BY <1>1, <1>2, <2>2, KeepKeeps DEF Inv, DataOK, RowsTyped, Keep
    <2> QED BY <2>1, <2>2
  <1>7. TxOK'
    <2>1. PICK fits \in BOOLEAN : fits <=> Fits(Visible(w, c), Share(t, c))
      OBVIOUS
    <2>2. PICK r \in Nat : r = Rest(t, c, Fits(Visible(w, c), Share(t, c)))
      BY <1>4, <2>1 DEF Rest
    <2>3. PICK d \in SUBSET Ids :
            d = (IF Fits(Visible(w, c), Share(t, c)) /\ Emptied(t, c)
                 THEN t.done \cup {c} ELSE t.done)
      BY <1>1, <1>3 DEF TxType
    <2> DEFINE av == [t.avail EXCEPT ![c] = 0]
               en == [t.ends EXCEPT ![c] = 0]
               td == t.todo \ {c}
               u == [t EXCEPT !.todo = td, !.rest = r, !.avail = av, !.ends = en, !.done = d]
    <2>4. av \in [Ids -> Nat] /\ en \in [Ids -> Nat] /\ td \in SUBSET Ids
      BY <1>1 DEF TxType
    <2>5. Go(w, u)
      BY <1>1, <1>2, <2>2, <2>3 DEF TxType
    <2> HIDE DEF av, en, td
    <2>6. u \in TxType
      BY <1>1, <2>4 DEF TxType
    <2> QED BY <2>5, <2>6, GoTyped DEF Inv, TxOK
  <1> QED BY <1>6, <1>7 DEF Inv

LEMMA TakenKeeps ==
  ASSUME Inv, NEW w \in Workers, Taken(w)
  PROVE  Inv'
  <1>1. tx[w] \in TxType /\ UNCHANGED <<now, rows>>
    BY DEF Inv, TxOK, Taken
  <1>2. CASE tx[w].rest > 0
    BY <1>1, <1>2, RollbackKeeps DEF Taken
  <1>3. CASE ~(tx[w].rest > 0)
    <2> DEFINE t == [Idle EXCEPT !.op = "consume", !.at = "complete",
                                 !.amount = tx[w].amount, !.todo = tx[w].done]
    <2>1. t \in TxType
      BY <1>1, IdleTyped DEF TxType
    <2>2. Go(w, t) /\ Keep
      BY <1>3 DEF Taken
    <2> QED BY <1>1, <2>1, <2>2, ReadKeeps DEF Keep
  <1> QED BY <1>2, <1>3

LEMMA RetireKeeps ==
  ASSUME Inv, NEW w \in Workers, Retire(w)
  PROVE  Inv'
  <1> DEFINE free == [Idle EXCEPT !.at = "retire", !.todo = Active(w, "free")]
  <1>1. Active(w, "free") \in SUBSET Ids
    BY DEF Active
  <1>2. free \in TxType
    BY <1>1, IdleTyped DEF TxType
  <1>3. CASE \E t \in {"pro", "payg"}, n \in Totals :
               Go(w, [free EXCEPT !.op = "purchase", !.tier = t, !.amount = n])
    <2>1. PICK t \in {"pro", "payg"}, n \in Totals :
            Go(w, [free EXCEPT !.op = "purchase", !.tier = t, !.amount = n])
      BY <1>3
    <2>2. t \in Tiers /\ n \in Nat
      BY LedgerAssumption DEF Tiers
    <2> DEFINE u == [free EXCEPT !.op = "purchase", !.tier = t, !.amount = n]
    <2> HIDE DEF free
    <2>3. u \in TxType
      BY <1>2, <2>2 DEF TxType
    <2> QED BY <2>1, <2>3, ReadKeeps DEF Retire
  <1>4. CASE Go(w, [free EXCEPT !.op = "reset"])
    <2> DEFINE u == [free EXCEPT !.op = "reset"]
    <2> HIDE DEF free
    <2>1. u \in TxType
      BY <1>2 DEF TxType
    <2> QED BY <1>4, <2>1, ReadKeeps DEF Retire
  <1> QED BY <1>3, <1>4 DEF Retire

LEMMA GrantKeeps ==
  ASSUME Inv, NEW w \in Workers, Grant(w)
  PROVE  Inv'
  <1>1. tx[w].tier \in Tiers /\ tx[w].amount \in Nat
    BY DEF Inv, TxOK, TxType
  <1> QED BY <1>1, CreateKeeps DEF Grant

LEMMA ResetKeeps ==
  ASSUME Inv, NEW w \in Workers, Reset(w)
  PROVE  Inv'
  <1>1. FreeTotal \in Nat /\ "free" \in Tiers
    BY LedgerAssumption DEF Tiers
  <1>2. CASE Create(w, "free", FreeTotal)
    BY <1>1, <1>2, CreateKeeps DEF Reset
  <1>3. ASSUME NEW c \in Ids, NEW life \in Lives,
               Visible(w, c).state # "none", Visible(w, c).tier = "free",
               Unlocked(w, c), Write(w, c, NewRow("free", FreeTotal, life)),
               Go(w, [tx[w] EXCEPT !.at = "commit"])
        PROVE  Inv'
    <2>1. /\ NewRow("free", FreeTotal, life) \in Row
          /\ NewRow("free", FreeTotal, life).used <= NewRow("free", FreeTotal, life).total
          /\ NewRow("free", FreeTotal, life).tier = "free"
      BY <1>1, NewRowTyped DEF Inv, DataOK, RowsTyped
    <2>2. Visible(w, c) = dirty[c]
      BY <1>3 DEF Visible, Unlocked, Inv, DataOK, Owned
    <2>3. rows[c].state # "none" => rows[c].tier = "free"
      BY <1>3, <2>2 DEF Inv, DataOK, Owned
    <2>4. DataOK'
      BY <1>3, <2>1, <2>3, WriteKeeps DEF Inv, Reset
    <2>5. tx[w] \in TxType
      BY DEF Inv, TxOK
    <2>6. [tx[w] EXCEPT !.at = "commit"] \in TxType
      BY <2>5 DEF TxType
    <2>7. TxOK'
      BY <1>3, <2>6, GoTyped DEF Inv, TxOK
    <2> QED BY <2>4, <2>7 DEF Inv
  <1>4. \/ Create(w, "free", FreeTotal)
        \/ \E c \in {d \in Ids : Visible(w, d).state # "none" /\ Visible(w, d).tier = "free"},
             life \in Lives :
             /\ Unlocked(w, c)
             /\ Write(w, c, NewRow("free", FreeTotal, life))
             /\ Go(w, [tx[w] EXCEPT !.at = "commit"])
    BY DEF Reset
  <1> QED BY <1>2, <1>3, <1>4

LEMMA NothingToDoKeeps ==
  ASSUME Inv, NEW w \in Workers, NothingToDo(w)
  PROVE  Inv'
  <1> DEFINE t == [Idle EXCEPT !.op = "expire", !.at = "commit"]
  <1>1. t \in TxType
    BY IdleTyped DEF TxType
  <1> QED BY <1>1, ReadKeeps DEF NothingToDo

LEMMA CancelListKeeps ==
  ASSUME Inv, NEW w \in Workers, CancelList(w)
  PROVE  Inv'
  <1>1. PICK to \in {"CANCELLED", "EXPIRED"}, S \in SUBSET Ids :
          Go(w, [Idle EXCEPT !.op = "cancel", !.at = "cancel", !.todo = S, !.to = to])
    BY DEF CancelList, Active
  <1>2. to \in States
    BY DEF States
  <1> DEFINE u == [Idle EXCEPT !.op = "cancel", !.at = "cancel", !.todo = S, !.to = to]
  <1>3. u \in TxType
    BY <1>2, IdleTyped DEF TxType
  <1> QED BY <1>1, <1>3, ReadKeeps DEF CancelList

(* A commit publishes what the transaction wrote and releases its rows. *)
LEMMA CommitKeeps ==
  ASSUME Inv, NEW w \in Workers, Commit(w)
  PROVE  Inv'
  <1>1. \A d \in Ids : /\ rows'[d] = (IF lock[d] = w THEN dirty[d] ELSE rows[d])
                       /\ lock'[d] = (IF lock[d] = w THEN None ELSE lock[d])
                       /\ dirty'[d] = dirty[d]
    BY DEF Commit
  <1>2. RowsTyped'
    <2>1. rows' \in [Ids -> Row]
      BY DEF Inv, DataOK, RowsTyped, Commit
    <2>2. lock' \in [Ids -> Workers \cup {None}]
      BY DEF Inv, DataOK, RowsTyped, Commit
    <2> QED BY <2>1, <2>2 DEF Inv, DataOK, RowsTyped, Commit
  <1>3. Within'
    BY <1>1 DEF Inv, DataOK, Within
  <1>4. Owned'
    BY <1>1 DEF Inv, DataOK, Owned
  <1>5. TxOK'
    BY IdleTyped, GoTyped DEF Commit, Inv, TxOK
  <1> QED BY <1>2, <1>3, <1>4, <1>5 DEF Inv, DataOK

LEMMA SweepListKeeps ==
  ASSUME Inv, NEW w \in Workers, SweepList(w)
  PROVE  Inv'
  <1> DEFINE ended(s) == {c \in Ids : rows[c].state = s /\ rows[c].ends <= now}
             job == [Idle EXCEPT !.op = "sweep", !.at = "sweep",
                                 !.todo = ended("ACTIVE"), !.done = ended("COMPLETED")]
             query(t) == [Idle EXCEPT !.op = "query", !.at = "sweep", !.todo = ToExpire(w, t)]
  <1>1. ended("ACTIVE") \in SUBSET Ids /\ ended("COMPLETED") \in SUBSET Ids
    OBVIOUS
  <1>2. Go(w, job) \/ \E t \in Tiers : Go(w, query(t))
    BY DEF SweepList
  <1> HIDE DEF ended
  <1>3. job \in TxType
    BY <1>1, IdleTyped DEF TxType
  <1>4. ASSUME NEW t \in Tiers
        PROVE  query(t) \in TxType
    <2>1. ToExpire(w, t) \in SUBSET Ids
      BY DEF ToExpire, Active
    <2> QED BY <2>1, IdleTyped DEF TxType
  <1> HIDE DEF job, query
  <1> QED BY <1>2, <1>3, <1>4, ReadKeeps DEF SweepList

(* A statement without a transaction changes a row nobody holds. *)
LEMMA SweepRowKeeps ==
  ASSUME Inv, NEW w \in Workers, SweepRow(w)
  PROVE  Inv'
  <1> DEFINE from(c) == IF c \in tx[w].todo THEN "ACTIVE" ELSE "COMPLETED"
             hit(c) == rows[c].state = from(c)
             left(c) == [tx[w] EXCEPT !.todo = @ \ {c}, !.done = @ \ {c}]
  <1>1. PICK c \in tx[w].todo \cup tx[w].done :
          /\ lock[c] = None
          /\ rows' = IF hit(c) THEN [rows EXCEPT ![c].state = "EXPIRED"] ELSE rows
          /\ dirty' = IF hit(c) THEN [dirty EXCEPT ![c].state = "EXPIRED"] ELSE dirty
          /\ Go(w, IF left(c).todo \cup left(c).done = {} \/ (tx[w].op = "query" /\ ~hit(c))
                   THEN Idle ELSE left(c))
    BY DEF SweepRow
  <1>2. tx[w] \in TxType /\ UNCHANGED <<now, lock>>
    BY DEF Inv, TxOK, SweepRow
  <1>3. c \in Ids
    BY <1>2 DEF TxType
  <1>4. left(c) \in TxType
    BY <1>2 DEF TxType
  <1>5. TxOK'
    BY <1>1, <1>4, IdleTyped, GoTyped DEF Inv, TxOK
  <1>6. DataOK'
    <2>1. CASE ~hit(c)
      BY <1>1, <1>2, <2>1, KeepKeeps DEF Inv, DataOK, RowsTyped
    <2>2. CASE hit(c)
      <3>1. /\ rows[c] \in Row /\ dirty[c] = rows[c] /\ rows[c].state # "none"
        BY <1>1, <1>3, <2>2 DEF Inv, DataOK, RowsTyped, Owned
      <3> DEFINE row == [rows[c] EXCEPT !.state = "EXPIRED"]
      <3>2. row \in Row /\ row.used = rows[c].used /\ row.total = rows[c].total
        BY <3>1 DEF Row, States
      <3>3. rows' = [rows EXCEPT ![c] = row] /\ dirty' = [dirty EXCEPT ![c] = row]
        BY <1>1, <2>2, <3>1
      <3> HIDE DEF row
      <3>4. \A d \in Ids : /\ rows'[d] = (IF d = c THEN row ELSE rows[d])
                           /\ dirty'[d] = (IF d = c THEN row ELSE dirty[d])
        BY <3>3 DEF Inv, DataOK, RowsTyped
      <3>5. RowsTyped'
        BY <1>2, <3>2, <3>3 DEF Inv, DataOK, RowsTyped
      <3>6. Within'
        BY <1>3, <3>2, <3>4 DEF Inv, DataOK, Within
      <3>7. Owned'
        BY <1>2, <3>4 DEF Inv, DataOK, Owned
      <3> QED BY <3>5, <3>6, <3>7 DEF DataOK
    <2> QED BY <2>1, <2>2
  <1> QED BY <1>5, <1>6 DEF Inv

LEMMA InitInv == Init => Inv
  <1> SUFFICES ASSUME Init PROVE Inv
    OBVIOUS
  <1>1. NoRow \in Row
    BY DEF NoRow, Row, Tiers, States
  <1>2. RowsTyped
    BY <1>1 DEF Init, RowsTyped
  <1>3. Within
    BY DEF Init, Within, NoRow
  <1>4. Owned
    BY DEF Init, Owned
  <1>5. TxOK
    BY IdleTyped DEF Init, TxOK
  <1> QED BY <1>2, <1>3, <1>4, <1>5 DEF Inv, DataOK

LEMMA NextInv == Inv /\ [Next]_vars => Inv'
  <1> SUFFICES ASSUME Inv, [Next]_vars PROVE Inv'
    OBVIOUS
  <1>1. CASE UNCHANGED vars
    BY <1>1 DEF vars, Inv, DataOK, TxOK, RowsTyped, Within, Owned
  <1>2. CASE Elapse
    <2>1. now' \in Nat
      BY <1>2 DEF Elapse, Inv, DataOK, RowsTyped
    <2> QED BY <1>2, <2>1, KeepKeeps DEF Elapse, Inv, TxOK
  <1>3. ASSUME NEW w \in Workers,
               \/ ExpireList(w) \/ Transition(w)
               \/ ConsumeList(w) \/ Take(w) \/ Taken(w)
               \/ Retire(w) \/ Grant(w) \/ Reset(w) \/ NothingToDo(w) \/ CancelList(w)
               \/ Commit(w) \/ Abort(w)
               \/ SweepList(w) \/ SweepRow(w)
        PROVE  Inv'
    <2>1. CASE ExpireList(w)
      BY <2>1, ExpireListKeeps
    <2>2. CASE Transition(w)
      BY <2>2, TransitionKeeps
    <2>3. CASE ConsumeList(w)
      BY <2>3, ConsumeListKeeps
    <2>4. CASE Take(w)
      BY <2>4, TakeKeeps
    <2>5. CASE Taken(w)
      BY <2>5, TakenKeeps
    <2>6. CASE Retire(w)
      BY <2>6, RetireKeeps
    <2>7. CASE Grant(w)
      BY <2>7, GrantKeeps
    <2>8. CASE Reset(w)
      BY <2>8, ResetKeeps
    <2>9. CASE NothingToDo(w)
      BY <2>9, NothingToDoKeeps
    <2>10. CASE CancelList(w)
      BY <2>10, CancelListKeeps
    <2>11. CASE Commit(w)
      BY <2>11, CommitKeeps
    <2>12. CASE Abort(w)
      BY <2>12, RollbackKeeps DEF Abort
    <2>13. CASE SweepList(w)
      BY <2>13, SweepListKeeps
    <2>14. CASE SweepRow(w)
      BY <2>14, SweepRowKeeps
    <2> QED BY <1>3, <2>1, <2>2, <2>3, <2>4, <2>5, <2>6, <2>7, <2>8, <2>9, <2>10,
               <2>11, <2>12, <2>13, <2>14
  <1> QED BY <1>1, <1>2, <1>3 DEF Next

LEMMA InvAlways == Spec => []Inv
  <1> QED BY InitInv, NextInv, PTL DEF Spec

-----------------------------------------------------------------------------
(* Rows, locks and transactions hold the values the code gives them: a     *)
(* charge never asks a cycle for less than nothing.                        *)
THEOREM TypeCorrect == Spec => []TypeOK
  <1> QED BY InvAlways, InvType, PTL

(* However many charges, resets, cancellations and expiry passes overlap,  *)
(* no cycle has more used than it holds.                                   *)
THEOREM NoCycleOverused == Spec => []NeverOverused
  <1> QED BY InvAlways, InvType, PTL

(* A step that changes the state of a committed row is a commit of the one *)
(* transaction that holds the row, or a statement of an expiry pass.       *)
LEMMA EndsOnceStep ==
  ASSUME Inv, [Next]_vars
  PROVE  \A c \in Ids :
           /\ rows[c].state # "none" /\ rows[c].tier # "free"
           /\ rows'[c].state # rows[c].state
           => \/ rows[c].state = "ACTIVE"
              \/ rows[c].state = "COMPLETED" /\ rows'[c].state = "EXPIRED"
  <1> SUFFICES ASSUME NEW c \in Ids,
                      rows[c].state # "none", rows[c].tier # "free",
                      rows'[c].state # rows[c].state
               PROVE  \/ rows[c].state = "ACTIVE"
                      \/ rows[c].state = "COMPLETED" /\ rows'[c].state = "EXPIRED"
    OBVIOUS
  <1>1. PICK w \in Workers : Commit(w) \/ SweepRow(w)
    BY DEF Next, vars, Elapse, ExpireList, Transition, ConsumeList, Take, Taken, Retire,
           Grant, Reset, NothingToDo, CancelList, Abort, SweepList
  <1>2. CASE Commit(w)
    <2>1. rows'[c] = (IF lock[c] = w THEN dirty[c] ELSE rows[c])
      BY <1>2 DEF Commit
    <2>2. dirty[c].state # rows[c].state
      BY <2>1
    <2> QED BY <2>2 DEF Inv, DataOK, Owned
  <1>3. CASE SweepRow(w)
    <2>1. PICK d \in tx[w].todo \cup tx[w].done, from \in {"ACTIVE", "COMPLETED"} :
            rows' = IF rows[d].state = from THEN [rows EXCEPT ![d].state = "EXPIRED"] ELSE rows
      BY <1>3 DEF SweepRow
    <2>2. rows \in [Ids -> Row]
      BY DEF Inv, DataOK, RowsTyped
    <2>3. rows[d].state = from /\ rows' = [rows EXCEPT ![d].state = "EXPIRED"] /\ c = d
      BY <2>1, <2>2
    <2>4. rows'[c].state = "EXPIRED"
      BY <2>2, <2>3 DEF Row
    <2> QED BY <2>3, <2>4
  <1> QED BY <1>1, <1>2, <1>3

(* What one transaction expired, refunded, cancelled or completed is not   *)
(* moved on by another that listed the cycle as active before.             *)
THEOREM LeavesActiveOnce == Spec => EndsOnce
  <1> DEFINE Once == \A c \in Ids :
               /\ rows[c].state # "none" /\ rows[c].tier # "free"
               /\ rows'[c].state # rows[c].state
               => \/ rows[c].state = "ACTIVE"
                  \/ rows[c].state = "COMPLETED" /\ rows'[c].state = "EXPIRED"
  <1>1. Inv /\ [Next]_vars => [Once]_vars
    BY EndsOnceStep
  <1> QED BY <1>1, InvAlways, PTL DEF Spec, EndsOnce


-----------------------------------------------------------------------------
(* CompletedIsExhausted.  A charge completes a cycle because of a list that *)
(* may be old, and still only completes cycles that are used up: while a    *)
(* charge has a cycle on its list, the row never has more left than the     *)
(* list says, for what is left of a paid cycle only shrinks.  A share that  *)
(* is all the list says and fits into the row therefore empties it, and     *)
(* from then on the charge holds the row.                                   *)

Spent(row) == row.tier # "free" /\ row.state = "COMPLETED" => row.used = row.total

RowsSpent == \A c \in Ids :
    /\ Spent(rows[c]) /\ Spent(dirty[c])
    /\ rows[c].state # "none" =>
        /\ dirty[c].state # "none"
        /\ rows[c].tier # "free" => /\ dirty[c].total = rows[c].total
                                    /\ dirty[c].used >= rows[c].used

(* What worker w, doing t, relies on, when r, d and l are rows, dirty, lock. *)
Plan(w, t, r, d, l) ==
    /\ t.op = "idle" => t.at = "idle"
    /\ t.at = "cancel" => t.to \in {"CANCELLED", "EXPIRED"}
    /\ \A c \in Ids :
        /\ l[c] = w => t.at \notin {"idle", "sweep"}
        /\ l[c] = w /\ t.at = "expire" => d[c].state = "EXPIRED"
        /\ t.at = "retire" /\ c \in t.todo => r[c].state # "none" /\ r[c].tier = "free"
        /\ t.at = "consume" /\ c \in t.todo =>
            /\ l[c] # w /\ r[c].state # "none" /\ t.avail[c] > 0
            /\ r[c].tier # "free" => r[c].total - r[c].used <= t.avail[c]
        /\ \/ t.at = "consume" /\ c \in t.done
           \/ t.at = "complete" /\ c \in t.todo
           => /\ l[c] = w /\ r[c].state # "none"
              /\ r[c].tier # "free" => d[c].used = d[c].total

Plans == \A w \in Workers : Plan(w, tx[w], rows, dirty, lock)

XInv == Inv /\ RowsSpent /\ Plans

-----------------------------------------------------------------------------
(* A step of v leaves the rows that others hold alone, and takes nothing    *)
(* from what they know of the rest.                                         *)
Steady(v) == \A c \in Ids :
    /\ lock[c] \notin {v, None}
       => lock'[c] = lock[c] /\ dirty'[c] = dirty[c] /\ rows'[c] = rows[c]
    /\ lock'[c] \notin {v, None} => lock'[c] = lock[c]
    /\ rows[c].state # "none" =>
        /\ rows'[c].state # "none" /\ rows'[c].tier = rows[c].tier
        /\ rows[c].tier # "free"
           => rows'[c].total - rows'[c].used <= rows[c].total - rows[c].used

LEMMA OthersPlan ==
  ASSUME XInv, Inv', NEW v \in Workers, NEW w \in Workers, w # v, tx'[w] = tx[w], Steady(v)
  PROVE  Plan(w, tx'[w], rows', dirty', lock')
  <1>1. Plan(w, tx[w], rows, dirty, lock)
    BY DEF XInv, Plans
  <1>2. w # None
    BY LedgerAssumption
  <1>3. rows \in [Ids -> Row] /\ rows' \in [Ids -> Row] /\ tx[w].avail \in [Ids -> Nat]
    BY DEF XInv, Inv, DataOK, RowsTyped, TxOK, TxType
  <1>4. ASSUME NEW c \in Ids
        PROVE  /\ lock'[c] = w => lock[c] = w
               /\ lock[c] = w => lock'[c] = w /\ dirty'[c] = dirty[c] /\ rows'[c] = rows[c]
    BY <1>2 DEF Steady
  <1>5. ASSUME NEW c \in Ids, tx[w].at = "consume", c \in tx[w].todo
        PROVE  /\ lock'[c] # w /\ rows'[c].state # "none" /\ tx[w].avail[c] > 0
               /\ rows'[c].tier # "free" => rows'[c].total - rows'[c].used <= tx[w].avail[c]
    <2>1. /\ lock[c] # w /\ rows[c].state # "none" /\ tx[w].avail[c] > 0
          /\ rows[c].tier # "free" => rows[c].total - rows[c].used <= tx[w].avail[c]
      BY <1>1, <1>5 DEF Plan
    <2>2. /\ rows'[c].state # "none" /\ rows'[c].tier = rows[c].tier
          /\ rows[c].tier # "free"
             => rows'[c].total - rows'[c].used <= rows[c].total - rows[c].used
      BY <2>1 DEF Steady
    <2>3. /\ rows[c].total \in Nat /\ rows[c].used \in Nat /\ tx[w].avail[c] \in Nat
          /\ rows'[c].total \in Nat /\ rows'[c].used \in Nat
      BY <1>3 DEF Row
    <2> QED BY <1>4, <2>1, <2>2, <2>3
  <1>6. ASSUME NEW c \in Ids, rows[c].state # "none"
        PROVE  rows'[c].state # "none" /\ rows'[c].tier = rows[c].tier
    BY <1>6 DEF Steady
  <1> QED BY <1>1, <1>4, <1>5, <1>6 DEF Plan

(* The shape of every step of the invariant. *)
LEMMA StepKeeps ==
  ASSUME XInv, Inv', NEW v \in Workers, NEW t, Go(v, t), Steady(v), RowsSpent',
         Plan(v, t, rows', dirty', lock')
  PROVE  XInv'
  <1>1. tx'[v] = t /\ \A w \in Workers : w # v => tx'[w] = tx[w]
    BY DEF Go, XInv, Inv, TxOK
  <1>2. ASSUME NEW w \in Workers PROVE Plan(w, tx'[w], rows', dirty', lock')
    <2>1. CASE w = v
      BY <1>1, <2>1
    <2>2. CASE w # v
      BY <1>1, <2>2, OthersPlan
    <2> QED BY <2>1, <2>2
  <1> QED BY <1>2 DEF XInv, Plans

LEMMA ReadSteady ==
  ASSUME XInv, NEW v \in Workers, UNCHANGED <<rows, lock, dirty>>
  PROVE  Steady(v) /\ RowsSpent'
  <1>1. \A c \in Ids : rows[c].total - rows[c].used <= rows[c].total - rows[c].used
    BY DEF XInv, Inv, DataOK, RowsTyped, Row
  <1>2. Steady(v)
    BY <1>1 DEF Steady
  <1> QED BY <1>2 DEF XInv, RowsSpent, Spent

(* A statement of the transaction that holds the row. *)
LEMMA WriteSteady ==
  ASSUME XInv, NEW v \in Workers, NEW c \in Ids, NEW row \in Row, Unlocked(v, c),
         Write(v, c, row), UNCHANGED rows, Spent(row),
         rows[c].state # "none" =>
            /\ row.state # "none"
            /\ rows[c].tier # "free" => row.total = rows[c].total /\ row.used >= rows[c].used
  PROVE  Steady(v) /\ RowsSpent'
  <1>1. \A d \in Ids : /\ dirty'[d] = (IF d = c THEN row ELSE dirty[d])
                       /\ lock'[d] = (IF d = c THEN v ELSE lock[d])
    BY DEF XInv, Inv, DataOK, RowsTyped, Write
  <1>2. \A d \in Ids : rows[d].total - rows[d].used <= rows[d].total - rows[d].used
    BY DEF XInv, Inv, DataOK, RowsTyped, Row
  <1>3. Steady(v)
    BY <1>1, <1>2 DEF Steady, Unlocked
  <1>4. RowsSpent'
    BY <1>1 DEF XInv, RowsSpent, Spent
  <1> QED BY <1>3, <1>4

(* What a worker sees of a row it does not hold is the committed row. *)
LEMMA SeesCommitted ==
  ASSUME XInv, NEW w \in Workers, NEW c \in Ids, Unlocked(w, c)
  PROVE  /\ Visible(w, c) = dirty[c]
         /\ lock[c] # w => dirty[c] = rows[c]
  BY DEF XInv, Inv, DataOK, Owned, Visible, Unlocked

(* A transaction that has only expired cycles sees no row of its own as active. *)
LEMMA ListsCommitted ==
  ASSUME XInv, NEW w \in Workers, tx[w].at \in {"idle", "expire"}, NEW c \in Ids,
         Visible(w, c).state = "ACTIVE"
  PROVE  lock[c] # w /\ Visible(w, c) = rows[c]
  <1>1. lock[c] = w => dirty[c].state = "EXPIRED"
    BY DEF XInv, Plans, Plan
  <1> QED BY <1>1 DEF Visible

-----------------------------------------------------------------------------
(* Ends of transactions. *)

LEMMA RollbackExhausted ==
  ASSUME XInv, Inv', NEW w \in Workers, Rollback(w), UNCHANGED rows
  PROVE  XInv'
  <1>1. \A d \in Ids : /\ dirty'[d] = (IF lock[d] = w THEN rows[d] ELSE dirty[d])
                       /\ lock'[d] = (IF lock[d] = w THEN None ELSE lock[d])
    BY DEF Rollback
  <1>2. \A d \in Ids : /\ rows[d].total - rows[d].used <= rows[d].total - rows[d].used
                       /\ rows[d].used >= rows[d].used
    BY DEF XInv, Inv, DataOK, RowsTyped, Row
  <1>3. Steady(w)
    BY <1>1, <1>2 DEF Steady
  <1>4. RowsSpent'
    BY <1>1, <1>2 DEF XInv, RowsSpent, Spent
  <1>5. Plan(w, Idle, rows', dirty', lock')
    BY <1>1, LedgerAssumption DEF Plan, Idle
  <1>6. Go(w, Idle)
    BY DEF Rollback, Go
  <1> QED BY <1>3, <1>4, <1>5, <1>6, StepKeeps

LEMMA CommitExhausted ==
  ASSUME XInv, Inv', NEW w \in Workers, Commit(w)
  PROVE  XInv'
  <1>1. \A d \in Ids : /\ rows'[d] = (IF lock[d] = w THEN dirty[d] ELSE rows[d])
                       /\ lock'[d] = (IF lock[d] = w THEN None ELSE lock[d])
                       /\ dirty'[d] = dirty[d]
    BY DEF Commit
  <1>2. \A d \in Ids : rows[d] \in Row /\ dirty[d] \in Row
    BY DEF XInv, Inv, DataOK, RowsTyped
  <1>3. ASSUME NEW d \in Ids, rows[d].state # "none"
        PROVE  /\ dirty[d].state # "none" /\ dirty[d].tier = rows[d].tier
               /\ rows[d].tier # "free"
                  => dirty[d].total - dirty[d].used <= rows[d].total - rows[d].used
    <2>1. /\ dirty[d].state # "none" /\ dirty[d].tier = rows[d].tier
          /\ rows[d].tier # "free" => /\ dirty[d].total = rows[d].total
                                      /\ dirty[d].used >= rows[d].used
      BY <1>3 DEF XInv, RowsSpent, Inv, DataOK, Owned
    <2> QED BY <1>2, <2>1 DEF Row
  <1>4. \A d \in Ids : rows[d].total - rows[d].used <= rows[d].total - rows[d].used
    BY <1>2 DEF Row
  <1>5. Steady(w)
    BY <1>1, <1>3, <1>4 DEF Steady
  <1>6. \A d \in Ids : dirty[d].used >= dirty[d].used
    BY <1>2 DEF Row
  <1>7. RowsSpent'
    BY <1>1, <1>6 DEF XInv, RowsSpent, Spent
  <1>8. Plan(w, Idle, rows', dirty', lock')
    BY <1>1, LedgerAssumption DEF Plan, Idle
  <1> QED BY <1>5, <1>7, <1>8, StepKeeps DEF Commit

-----------------------------------------------------------------------------
(* Lists. *)

LEMMA ExpireListExhausted ==
  ASSUME XInv, Inv', NEW w \in Workers, ExpireList(w)
  PROVE  XInv'
  <1>1. PICK k \in (tx[w].checked + 1)..3 :
          Go(w, [Idle EXCEPT !.op = "expire", !.at = "expire", !.checked = k,
                             !.todo = ToExpire(w, TierOrder[k])])
    BY DEF ExpireList
  <1> DEFINE t == [Idle EXCEPT !.op = "expire", !.at = "expire", !.checked = k,
                               !.todo = ToExpire(w, TierOrder[k])]
  <1>2. t.op = "expire" /\ t.at = "expire"
    BY DEF Idle
  <1> HIDE DEF t
  <1>3. \A c \in Ids : lock[c] = w => dirty[c].state = "EXPIRED"
    BY DEF XInv, Plans, Plan, ExpireList
  <1>4. Plan(w, t, rows', dirty', lock')
    BY <1>2, <1>3 DEF Plan, ExpireList
  <1>5. Go(w, t)
    BY <1>1 DEF t
  <1> QED BY <1>4, <1>5, ReadSteady, StepKeeps DEF ExpireList

LEMMA ConsumeListExhausted ==
  ASSUME XInv, Inv', NEW w \in Workers, ConsumeList(w)
  PROVE  XInv'
  <1> DEFINE list == {c \in Ids : /\ Visible(w, c).state = "ACTIVE"
                                 /\ Visible(w, c).ends > now
                                 /\ Visible(w, c).total > Visible(w, c).used}
             avail == [c \in Ids |-> IF c \in list
                         THEN Visible(w, c).total - Visible(w, c).used ELSE 0]
             ends == [c \in Ids |-> IF c \in list THEN Visible(w, c).ends ELSE 0]
  <1>1. PICK n \in Amounts :
          Go(w, [Idle EXCEPT !.op = "consume", !.at = "consume", !.todo = list,
                             !.amount = n, !.rest = n, !.avail = avail, !.ends = ends])
    BY DEF ConsumeList
  <1>2. ASSUME NEW c \in list
        PROVE  /\ lock[c] # w /\ rows[c].state # "none"
               /\ avail[c] > 0 /\ rows[c].total - rows[c].used <= avail[c]
    <2>1. lock[c] # w /\ Visible(w, c) = rows[c]
      BY ListsCommitted DEF ConsumeList, Ready
    <2>2. rows[c] \in Row
      BY DEF XInv, Inv, DataOK, RowsTyped
    <2> QED BY <2>1, <2>2 DEF Row
  <1>3. list \subseteq Ids
    OBVIOUS
  <1> HIDE DEF list, avail, ends
  <1> DEFINE t == [Idle EXCEPT !.op = "consume", !.at = "consume", !.todo = list,
                               !.amount = n, !.rest = n, !.avail = avail, !.ends = ends]
  <1>4. /\ t.op = "consume" /\ t.at = "consume" /\ t.todo = list /\ t.avail = avail
        /\ t.done = {}
    BY DEF Idle
  <1>5. Go(w, t)
    BY <1>1
  <1> HIDE DEF t
  <1>6. Plan(w, t, rows', dirty', lock')
    BY <1>2, <1>4 DEF Plan, ConsumeList
  <1> QED BY <1>5, <1>6, ReadSteady, StepKeeps DEF ConsumeList

LEMMA RetireExhausted ==
  ASSUME XInv, Inv', NEW w \in Workers, Retire(w)
  PROVE  XInv'
  <1> DEFINE free == [Idle EXCEPT !.at = "retire", !.todo = Active(w, "free")]
  <1>1. PICK t : /\ Go(w, t)
                 /\ t.op \in {"purchase", "reset"} /\ t.at = "retire"
                 /\ t.todo = Active(w, "free")
    <2>1. CASE Go(w, [free EXCEPT !.op = "reset"])
      <3> DEFINE t == [free EXCEPT !.op = "reset"]
      <3>1. t.op = "reset" /\ t.at = "retire" /\ t.todo = Active(w, "free")
        BY DEF Idle
      <3> HIDE DEF t
      <3> QED BY <2>1, <3>1 DEF t
    <2>2. ASSUME NEW r \in {"pro", "payg"}, NEW n \in Totals,
                 Go(w, [free EXCEPT !.op = "purchase", !.tier = r, !.amount = n])
          PROVE  \E t : /\ Go(w, t)
                        /\ t.op \in {"purchase", "reset"} /\ t.at = "retire"
                        /\ t.todo = Active(w, "free")
      <3> DEFINE t == [free EXCEPT !.op = "purchase", !.tier = r, !.amount = n]
      <3>1. t.op = "purchase" /\ t.at = "retire" /\ t.todo = Active(w, "free")
        BY DEF Idle
      <3>2. Go(w, t)
        BY <2>2
      <3> HIDE DEF t
      <3> QED BY <3>1, <3>2
    <2> QED BY <2>1, <2>2 DEF Retire
  <1>2. ASSUME NEW c \in Active(w, "free")
        PROVE  rows[c].state # "none" /\ rows[c].tier = "free"
    BY ListsCommitted DEF Active, Retire, Ready
  <1>3. Plan(w, t, rows', dirty', lock')
    BY <1>1, <1>2 DEF Plan, Retire
  <1> QED BY <1>1, <1>3, ReadSteady, StepKeeps DEF Retire

LEMMA CancelListExhausted ==
  ASSUME XInv, Inv', NEW w \in Workers, CancelList(w)
  PROVE  XInv'
  <1>1. PICK to \in {"CANCELLED", "EXPIRED"}, S \in SUBSET Ids :
          Go(w, [Idle EXCEPT !.op = "cancel", !.at = "cancel", !.todo = S, !.to = to])
    BY DEF CancelList, Active
  <1> DEFINE t == [Idle EXCEPT !.op = "cancel", !.at = "cancel", !.todo = S, !.to = to]
  <1>2. t.op = "cancel" /\ t.at = "cancel" /\ t.to = to
    BY DEF Idle
  <1>3. Go(w, t)
    BY <1>1
  <1> HIDE DEF t
  <1>4. Plan(w, t, rows', dirty', lock')
    BY <1>2 DEF Plan
  <1> QED BY <1>3, <1>4, ReadSteady, StepKeeps DEF CancelList

LEMMA NothingToDoExhausted ==
  ASSUME XInv, Inv', NEW w \in Workers, NothingToDo(w)
  PROVE  XInv'
  <1> DEFINE t == [Idle EXCEPT !.op = "expire", !.at = "commit"]
  <1>1. t.op = "expire" /\ t.at = "commit"
    BY DEF Idle
  <1>2. Go(w, t)
    BY DEF NothingToDo
  <1> HIDE DEF t
  <1>3. Plan(w, t, rows', dirty', lock')
    BY <1>1 DEF Plan
  <1> QED BY <1>2, <1>3, ReadSteady, StepKeeps DEF NothingToDo

LEMMA SweepListExhausted ==
  ASSUME XInv, Inv', NEW w \in Workers, SweepList(w)
  PROVE  XInv'
  <1>1. PICK t : Go(w, t) /\ t.op \in {"sweep", "query"} /\ t.at = "sweep"
    <2> DEFINE ended(s) == {c \in Ids : rows[c].state = s /\ rows[c].ends <= now}
               job == [Idle EXCEPT !.op = "sweep", !.at = "sweep",
                                   !.todo = ended("ACTIVE"), !.done = ended("COMPLETED")]
               query(r) == [Idle EXCEPT !.op = "query", !.at = "sweep", !.todo = ToExpire(w, r)]
    <2>1. Go(w, job) \/ \E r \in Tiers : Go(w, query(r))
      BY DEF SweepList
    <2>2. job.op = "sweep" /\ job.at = "sweep"
      BY DEF Idle
    <2>3. \A r \in Tiers : query(r).op = "query" /\ query(r).at = "sweep"
      BY DEF Idle
    <2> HIDE DEF job, query
    <2> QED BY <2>1, <2>2, <2>3
  <1>2. \A c \in Ids : lock[c] # w
    BY DEF XInv, Plans, Plan, SweepList
  <1>3. Plan(w, t, rows', dirty', lock')
    BY <1>1, <1>2 DEF Plan, SweepList
  <1> QED BY <1>1, <1>3, ReadSteady, StepKeeps DEF SweepList

-----------------------------------------------------------------------------
(* Statements that write. *)

LEMMA CreateExhausted ==
  ASSUME XInv, Inv', NEW w \in Workers, NEW t \in Tiers, NEW n \in Nat, Create(w, t, n),
         tx[w].op # "idle", UNCHANGED rows
  PROVE  XInv'
  <1>1. PICK c \in Ids, life \in Lives :
          /\ rows[c].state = "none" /\ lock[c] = None
          /\ Write(w, c, NewRow(t, n, life))
          /\ Go(w, [tx[w] EXCEPT !.at = "commit"])
    BY DEF Create
  <1>2. NewRow(t, n, life) \in Row /\ Spent(NewRow(t, n, life))
    BY NewRowTyped DEF XInv, Inv, DataOK, RowsTyped, NewRow, Spent
  <1>3. Steady(w) /\ RowsSpent'
    BY <1>1, <1>2, WriteSteady DEF Unlocked
  <1> DEFINE u == [tx[w] EXCEPT !.at = "commit"]
  <1>4. u.at = "commit" /\ u.op = tx[w].op
    BY DEF XInv, Inv, TxOK, TxType
  <1>5. Go(w, u)
    BY <1>1
  <1> HIDE DEF u
  <1>6. Plan(w, u, rows', dirty', lock')
    BY <1>4 DEF Plan
  <1> QED BY <1>3, <1>5, <1>6, StepKeeps

LEMMA GrantExhausted ==
  ASSUME XInv, Inv', NEW w \in Workers, Grant(w)
  PROVE  XInv'
  <1>1. tx[w].tier \in Tiers /\ tx[w].amount \in Nat
    BY DEF XInv, Inv, TxOK, TxType
  <1> QED BY <1>1, CreateExhausted DEF Grant

LEMMA ResetExhausted ==
  ASSUME XInv, Inv', NEW w \in Workers, Reset(w)
  PROVE  XInv'
  <1>1. FreeTotal \in Nat /\ "free" \in Tiers /\ tx[w].op # "idle"
    BY LedgerAssumption DEF Tiers, Reset
  <1>2. CASE Create(w, "free", FreeTotal)
    BY <1>1, <1>2, CreateExhausted DEF Reset
  <1>3. ASSUME NEW c \in Ids, NEW life \in Lives,
               Visible(w, c).state # "none", Visible(w, c).tier = "free",
               Unlocked(w, c), Write(w, c, NewRow("free", FreeTotal, life)),
               Go(w, [tx[w] EXCEPT !.at = "commit"])
        PROVE  XInv'
    <2>1. /\ NewRow("free", FreeTotal, life) \in Row
          /\ Spent(NewRow("free", FreeTotal, life))
          /\ NewRow("free", FreeTotal, life).state # "none"
      BY <1>1, NewRowTyped DEF XInv, Inv, DataOK, RowsTyped, NewRow, Spent
    <2>2. rows[c].state # "none" => rows[c].tier = "free"
      BY <1>3, SeesCommitted DEF XInv, Inv, DataOK, Owned
    <2>3. Steady(w) /\ RowsSpent'
      BY <1>3, <2>1, <2>2, WriteSteady DEF Reset
    <2> DEFINE u == [tx[w] EXCEPT !.at = "commit"]
    <2>4. u.at = "commit" /\ u.op = tx[w].op
      BY DEF XInv, Inv, TxOK, TxType
    <2>5. Go(w, u)
      BY <1>3
    <2> HIDE DEF u
    <2>6. Plan(w, u, rows', dirty', lock')
      BY <1>1, <2>4 DEF Plan
    <2> QED BY <2>3, <2>5, <2>6, StepKeeps
  <1>4. \/ Create(w, "free", FreeTotal)
        \/ \E c \in {d \in Ids : Visible(w, d).state # "none" /\ Visible(w, d).tier = "free"},
             life \in Lives :
             /\ Unlocked(w, c)
             /\ Write(w, c, NewRow("free", FreeTotal, life))
             /\ Go(w, [tx[w] EXCEPT !.at = "commit"])
    BY DEF Reset
  <1> QED BY <1>2, <1>3, <1>4

(* A paid cycle that a charge completes was emptied by that charge; one a   *)
(* purchase or a reset completes is free.                                   *)
LEMMA TransitionExhausted ==
  ASSUME XInv, Inv', NEW w \in Workers, Transition(w)
  PROVE  XInv'
  <1>1. UNCHANGED rows /\ tx[w] \in TxType /\ Plan(w, tx[w], rows, dirty, lock)
        /\ tx[w].at \in {"expire", "retire", "cancel", "complete"}
    BY DEF Transition, XInv, Inv, TxOK, Plans
  <1>2. PICK c \in tx[w].todo :
          /\ Unlocked(w, c)
          /\ IF CanLeave(Visible(w, c))
             THEN /\ Write(w, c, [Visible(w, c) EXCEPT !.state = Target(w)])
                  /\ Go(w, [tx[w] EXCEPT !.todo = @ \ {c}])
             ELSE IF tx[w].at = "expire"
             THEN Keep /\ Go(w, [tx[w] EXCEPT !.todo = {}, !.checked = 3])
             ELSE Rollback(w)
    BY DEF Transition
  <1>3. c \in Ids
    BY <1>1 DEF TxType
  <1>4. CASE CanLeave(Visible(w, c))
    <2> DEFINE row == [dirty[c] EXCEPT !.state = Target(w)]
               t == [tx[w] EXCEPT !.todo = tx[w].todo \ {c}]
    <2>1. Visible(w, c) = dirty[c]
      BY <1>2, <1>3, SeesCommitted
    <2>2. Target(w) \in States \ {"none"}
      BY <1>1 DEF Target, States, Plan
    <2>3. dirty[c] \in Row
      BY <1>3 DEF XInv, Inv, DataOK, RowsTyped
    <2>4. /\ row \in Row /\ row.state = Target(w) /\ row.tier = dirty[c].tier
          /\ row.used = dirty[c].used /\ row.total = dirty[c].total
      BY <2>2, <2>3 DEF Row
    <2>5. Write(w, c, row) /\ Go(w, t)
      BY <1>2, <1>4, <2>1
    <2>6. t.op = tx[w].op /\ t.at = tx[w].at /\ t.to = tx[w].to /\ t.todo = tx[w].todo \ {c}
      BY <1>1 DEF TxType
    <2> HIDE DEF row, t
    <2>7. Target(w) = "COMPLETED" => tx[w].at \in {"retire", "complete"}
      BY <1>1 DEF Target, Plan
    <2>8. rows[c].state # "none" => dirty[c].tier = rows[c].tier
      BY <1>3 DEF XInv, Inv, DataOK, Owned
    <2>9. CASE tx[w].at = "retire"
      <3>1. rows[c].state # "none" /\ rows[c].tier = "free"
        BY <1>1, <1>3, <2>9 DEF Plan
      <3> QED BY <1>1, <1>2, <1>3, <2>2, <2>4, <2>5, <2>6, <2>8, <2>9, <3>1, WriteSteady, StepKeeps
            DEF Spent, Plan
    <2>10. CASE tx[w].at = "complete"
      <3>1. /\ lock[c] = w /\ rows[c].state # "none"
            /\ rows[c].tier # "free" => dirty[c].used = dirty[c].total
        BY <1>1, <1>3, <2>10 DEF Plan
      <3>2. Spent(row)
        BY <2>4, <2>8, <3>1 DEF Spent
      <3>3. Steady(w) /\ RowsSpent'
        BY <1>1, <1>2, <1>3, <2>2, <2>4, <2>5, <3>2, WriteSteady DEF XInv, RowsSpent
      <3>4. \A d \in Ids : d # c => lock'[d] = lock[d] /\ dirty'[d] = dirty[d]
        BY <2>5 DEF Write, XInv, Inv, DataOK, RowsTyped
      <3>5. Plan(w, t, rows', dirty', lock')
        BY <1>1, <2>6, <2>10, <3>4 DEF Plan
      <3> QED BY <2>5, <3>3, <3>5, StepKeeps
    <2>11. CASE tx[w].at \in {"expire", "cancel"}
      <3>1. Spent(row)
        BY <2>4, <2>7, <2>11 DEF Spent
      <3>2. Steady(w) /\ RowsSpent'
        BY <1>1, <1>2, <1>3, <2>2, <2>4, <2>5, <3>1, WriteSteady DEF XInv, RowsSpent
      <3>3. \A d \in Ids : /\ dirty'[d] = (IF d = c THEN row ELSE dirty[d])
                           /\ lock'[d] = (IF d = c THEN w ELSE lock[d])
        BY <2>5 DEF Write, XInv, Inv, DataOK, RowsTyped
      <3>4. tx[w].at = "expire" => row.state = "EXPIRED"
        BY <2>4 DEF Target
      <3>5. Plan(w, t, rows', dirty', lock')
        BY <1>1, <2>6, <2>11, <3>3, <3>4 DEF Plan
      <3> QED BY <2>5, <3>2, <3>5, StepKeeps
    <2> QED BY <1>1, <2>9, <2>10, <2>11
  <1>5. CASE ~CanLeave(Visible(w, c)) /\ tx[w].at = "expire"
    <2> DEFINE t == [tx[w] EXCEPT !.todo = {}, !.checked = 3]
    <2>1. t.op = tx[w].op /\ t.at = "expire"
      BY <1>1, <1>5 DEF TxType
    <2>2. Keep /\ Go(w, t)
      BY <1>2, <1>5
    <2> HIDE DEF t
    <2>3. Plan(w, t, rows', dirty', lock')
      BY <1>1, <1>5, <2>1, <2>2 DEF Plan, Keep
    <2> QED BY <1>1, <2>2, <2>3, ReadSteady, StepKeeps DEF Keep
  <1>6. CASE ~CanLeave(Visible(w, c)) /\ tx[w].at # "expire"
    BY <1>1, <1>2, <1>6, RollbackExhausted
  <1> QED BY <1>4, <1>5, <1>6

(* A share that fits into a listed cycle and is all the list says of it     *)
(* leaves nothing.                                                          *)
LEMMA ShareEmpties ==
  ASSUME XInv, NEW w \in Workers, NEW c \in tx[w].todo,
         tx[w].at = "consume", tx[w].rest > 0, Unlocked(w, c),
         Fits(Visible(w, c), Share(tx[w], c)),
         NEW row, row = [Visible(w, c) EXCEPT !.used = @ + Share(tx[w], c)]
  PROVE  /\ row \in Row /\ Spent(row) /\ row.state = rows[c].state /\ row.tier = rows[c].tier
         /\ row.total = rows[c].total /\ row.used >= rows[c].used
         /\ Emptied(tx[w], c) /\ row.tier # "free" => row.used = row.total
  <1>1. tx[w] \in TxType /\ c \in Ids
    BY DEF XInv, Inv, TxOK, TxType
  <1>2. /\ lock[c] # w /\ tx[w].avail[c] > 0
        /\ rows[c].tier # "free" => rows[c].total - rows[c].used <= tx[w].avail[c]
    BY <1>1 DEF XInv, Plans, Plan
  <1>3. Visible(w, c) = rows[c] /\ rows[c] \in Row
    BY <1>1, <1>2 DEF Visible, XInv, Inv, DataOK, RowsTyped
  <1>4. Share(tx[w], c) \in Nat /\ Share(tx[w], c) > 0
    BY <1>1, <1>2, ShareBounds DEF Share
  <1>5. rows[c].used \in Nat /\ rows[c].total \in Nat
    BY <1>3 DEF Row
  <1>6. /\ row \in Row /\ row.state = rows[c].state /\ row.tier = rows[c].tier
        /\ row.total = rows[c].total /\ row.used = rows[c].used + Share(tx[w], c)
    BY <1>3, <1>4 DEF Row
  <1>7. rows[c].used + Share(tx[w], c) <= rows[c].total
    BY <1>3 DEF Fits
  <1>8. Spent(row)
    <2>1. rows[c].used # rows[c].total
      BY <1>4, <1>5, <1>7
    <2> QED BY <1>1, <1>6, <2>1 DEF Spent, XInv, RowsSpent
  <1>9. ASSUME Emptied(tx[w], c), row.tier # "free" PROVE row.used = row.total
    <2>1. rows[c].total - rows[c].used <= Share(tx[w], c)
      BY <1>2, <1>6, <1>9 DEF Emptied
    <2> QED BY <1>4, <1>5, <1>6, <1>7, <2>1
  <1>10. row.used >= rows[c].used
    BY <1>4, <1>5, <1>6
  <1> QED BY <1>6, <1>8, <1>9, <1>10

LEMMA TakeExhausted ==
  ASSUME XInv, Inv', NEW w \in Workers, Take(w)
  PROVE  XInv'
  <1> DEFINE t == tx[w]
  <1>1. /\ UNCHANGED rows /\ t \in TxType /\ Plan(w, t, rows, dirty, lock)
        /\ t.at = "consume" /\ t.rest > 0
    BY DEF Take, XInv, Inv, TxOK, Plans
  <1>2. PICK c \in t.todo :
          /\ Unlocked(w, c)
          /\ IF Fits(Visible(w, c), Share(t, c))
             THEN Write(w, c, [Visible(w, c) EXCEPT !.used = @ + Share(t, c)])
             ELSE Keep
          /\ Go(w, [t EXCEPT !.todo = @ \ {c},
                      !.rest = Rest(t, c, Fits(Visible(w, c), Share(t, c))),
                      !.avail[c] = 0, !.ends[c] = 0,
                      !.done = IF Fits(Visible(w, c), Share(t, c)) /\ Emptied(t, c)
                               THEN @ \cup {c} ELSE @])
    BY DEF Take
  <1>3. c \in Ids
    BY <1>1 DEF TxType
  <1>4. PICK u : /\ Go(w, u) /\ u.op = t.op /\ u.at = "consume" /\ u.todo = t.todo \ {c}
                 /\ \A d \in Ids : d # c => u.avail[d] = t.avail[d]
                 /\ u.done = IF Fits(Visible(w, c), Share(t, c)) /\ Emptied(t, c)
                             THEN t.done \cup {c} ELSE t.done
    <2> DEFINE r == Rest(t, c, Fits(Visible(w, c), Share(t, c)))
               dn == IF Fits(Visible(w, c), Share(t, c)) /\ Emptied(t, c)
                     THEN t.done \cup {c} ELSE t.done
               av == [t.avail EXCEPT ![c] = 0]
               en == [t.ends EXCEPT ![c] = 0]
               td == t.todo \ {c}
               u == [t EXCEPT !.todo = td, !.rest = r, !.avail = av, !.ends = en, !.done = dn]
    <2>1. Go(w, u)
      BY <1>2
    <2>2. \A d \in Ids : d # c => av[d] = t.avail[d]
      BY <1>1 DEF TxType
    <2>3. /\ u.op = t.op /\ u.at = t.at /\ u.todo = td /\ u.avail = av /\ u.done = dn
      BY ONLY <1>1 DEF TxType
    <2> HIDE DEF u
    <2> QED BY <1>1, <2>1, <2>2, <2>3
  <1>5. lock[c] # w
    BY <1>1, <1>3 DEF Plan
  <1>6. CASE Fits(Visible(w, c), Share(t, c))
    <2> DEFINE row == [Visible(w, c) EXCEPT !.used = @ + Share(t, c)]
    <2>1. /\ row \in Row /\ Spent(row) /\ row.state = rows[c].state /\ row.tier = rows[c].tier
          /\ row.total = rows[c].total /\ row.used >= rows[c].used
          /\ Emptied(t, c) /\ row.tier # "free" => row.used = row.total
      BY <1>1, <1>2, <1>6, ShareEmpties, ZenonT(60)
    <2>2. Write(w, c, row)
      BY <1>2, <1>6
    <2> HIDE DEF row
    <2>3. Steady(w) /\ RowsSpent'
      BY <1>1, <1>2, <1>3, <2>1, <2>2, WriteSteady
    <2>4. \A d \in Ids : /\ dirty'[d] = (IF d = c THEN row ELSE dirty[d])
                         /\ lock'[d] = (IF d = c THEN w ELSE lock[d])
      BY <2>2 DEF Write, XInv, Inv, DataOK, RowsTyped
    <2>5. rows[c].state # "none"
      BY <1>1, <1>3 DEF Plan
    <2>6. Plan(w, u, rows', dirty', lock')
      BY <1>1, <1>4, <1>5, <2>1, <2>4, <2>5 DEF Plan
    <2> QED BY <1>4, <2>3, <2>6, StepKeeps
  <1>7. CASE ~Fits(Visible(w, c), Share(t, c))
    <2>1. UNCHANGED <<rows, lock, dirty>>
      BY <1>1, <1>2, <1>7 DEF Keep
    <2>2. Plan(w, u, rows', dirty', lock')
      BY <1>1, <1>4, <1>7, <2>1 DEF Plan
    <2> QED BY <1>4, <2>1, <2>2, ReadSteady, StepKeeps
  <1> QED BY <1>6, <1>7

LEMMA TakenExhausted ==
  ASSUME XInv, Inv', NEW w \in Workers, Taken(w)
  PROVE  XInv'
  <1>1. UNCHANGED rows /\ Plan(w, tx[w], rows, dirty, lock) /\ tx[w].at = "consume"
    BY DEF Taken, XInv, Plans
  <1>2. CASE tx[w].rest > 0
    BY <1>1, <1>2, RollbackExhausted DEF Taken
  <1>3. CASE ~(tx[w].rest > 0)
    <2> DEFINE t == [Idle EXCEPT !.op = "consume", !.at = "complete",
                                 !.amount = tx[w].amount, !.todo = tx[w].done]
    <2>1. t.op = "consume" /\ t.at = "complete" /\ t.todo = tx[w].done
      BY DEF Idle
    <2>2. Go(w, t) /\ Keep
      BY <1>3 DEF Taken
    <2> HIDE DEF t
    <2>3. Plan(w, t, rows', dirty', lock')
      BY <1>1, <2>1, <2>2 DEF Plan, Keep
    <2> QED BY <1>1, <2>2, <2>3, ReadSteady, StepKeeps DEF Keep
  <1> QED BY <1>2, <1>3

(* A statement of an expiry pass needs a row nobody holds.                  *)
LEMMA SweepRowExhausted ==
  ASSUME XInv, Inv', NEW w \in Workers, SweepRow(w)
  PROVE  XInv'
  <1> DEFINE from(c) == IF c \in tx[w].todo THEN "ACTIVE" ELSE "COMPLETED"
             hit(c) == rows[c].state = from(c)
             left(c) == [tx[w] EXCEPT !.todo = @ \ {c}, !.done = @ \ {c}]
  <1>1. PICK c \in tx[w].todo \cup tx[w].done :
          /\ lock[c] = None
          /\ rows' = IF hit(c) THEN [rows EXCEPT ![c].state = "EXPIRED"] ELSE rows
          /\ dirty' = IF hit(c) THEN [dirty EXCEPT ![c].state = "EXPIRED"] ELSE dirty
          /\ Go(w, IF left(c).todo \cup left(c).done = {} \/ (tx[w].op = "query" /\ ~hit(c))
                   THEN Idle ELSE left(c))
    BY DEF SweepRow
  <1>2. /\ tx[w] \in TxType /\ UNCHANGED lock /\ tx[w].at = "sweep"
        /\ Plan(w, tx[w], rows, dirty, lock)
    BY DEF XInv, Inv, TxOK, Plans, SweepRow
  <1>3. c \in Ids
    BY <1>2 DEF TxType
  <1>4. PICK t : Go(w, t) /\ t.at \in {"idle", "sweep"} /\ (t.op = "idle" => t.at = "idle")
    <2>1. CASE Go(w, Idle)
      <3>1. Idle.at = "idle"
        BY DEF Idle
      <3> QED BY <2>1, <3>1
    <2>2. CASE Go(w, left(c))
      <3>1. left(c).at = "sweep" /\ left(c).op = tx[w].op
        BY <1>2 DEF TxType
      <3>2. tx[w].op # "idle"
        BY <1>2 DEF Plan
      <3> HIDE DEF left
      <3> QED BY <2>2, <3>1, <3>2
    <2> QED BY <1>1, <2>1, <2>2
  <1>5. \A d \in Ids : lock[d] # w
    BY <1>2 DEF Plan
  <1>6. Plan(w, t, rows', dirty', lock')
    BY <1>2, <1>4, <1>5 DEF Plan
  <1>7. CASE ~hit(c)
    BY <1>1, <1>2, <1>4, <1>6, <1>7, ReadSteady, StepKeeps
  <1>8. CASE hit(c)
    <2>1. rows[c] \in Row /\ dirty[c] = rows[c] /\ rows[c].state # "none"
      BY <1>1, <1>3, <1>8 DEF XInv, Inv, DataOK, RowsTyped, Owned
    <2> DEFINE row == [rows[c] EXCEPT !.state = "EXPIRED"]
    <2>2. /\ row.state = "EXPIRED" /\ row.tier = rows[c].tier
          /\ row.used = rows[c].used /\ row.total = rows[c].total
      BY <2>1 DEF Row
    <2>3. rows' = [rows EXCEPT ![c] = row] /\ dirty' = [dirty EXCEPT ![c] = row]
      BY <1>1, <1>8, <2>1
    <2> HIDE DEF row
    <2>4. \A d \in Ids : /\ rows'[d] = (IF d = c THEN row ELSE rows[d])
                         /\ dirty'[d] = (IF d = c THEN row ELSE dirty[d])
      BY <2>3 DEF XInv, Inv, DataOK, RowsTyped
    <2>5. \A d \in Ids : /\ rows[d].total - rows[d].used <= rows[d].total - rows[d].used
                         /\ rows[d].used >= rows[d].used
      BY DEF XInv, Inv, DataOK, RowsTyped, Row
    <2>6. Steady(w)
      BY <1>1, <1>2, <2>1, <2>2, <2>4, <2>5 DEF Steady
    <2>7. RowsSpent'
      BY <2>2, <2>4, <2>5 DEF XInv, RowsSpent, Spent
    <2> QED BY <1>4, <1>6, <2>6, <2>7, StepKeeps
  <1> QED BY <1>7, <1>8

-----------------------------------------------------------------------------
(* The invariant. *)

LEMMA InitExhausted == Init => XInv
  <1> SUFFICES ASSUME Init PROVE XInv
    OBVIOUS
  <1>1. RowsSpent
    BY DEF Init, RowsSpent, Spent, NoRow
  <1>2. ASSUME NEW w \in Workers PROVE Plan(w, tx[w], rows, dirty, lock)
    <2>1. tx[w].at = "idle" /\ \A c \in Ids : lock[c] # w
      BY LedgerAssumption DEF Init, Idle
    <2> QED BY <2>1 DEF Plan
  <1> QED BY <1>1, <1>2, InitInv DEF XInv, Plans

LEMMA NextExhausted == XInv /\ [Next]_vars => XInv'
  <1> SUFFICES ASSUME XInv, [Next]_vars PROVE XInv'
    OBVIOUS
  <1>1. Inv'
    BY NextInv DEF XInv
  <1>2. CASE UNCHANGED <<rows, lock, dirty, tx>>
    BY <1>1, <1>2 DEF XInv, RowsSpent, Spent, Plans, Plan
  <1>3. ASSUME NEW w \in Workers,
               \/ ExpireList(w) \/ Transition(w)
               \/ ConsumeList(w) \/ Take(w) \/ Taken(w)
               \/ Retire(w) \/ Grant(w) \/ Reset(w) \/ NothingToDo(w) \/ CancelList(w)
               \/ Commit(w) \/ Abort(w)
               \/ SweepList(w) \/ SweepRow(w)
        PROVE  XInv'
    <2>1. CASE ExpireList(w)
      BY <1>1, <2>1, ExpireListExhausted
    <2>2. CASE Transition(w)
      BY <1>1, <2>2, TransitionExhausted
    <2>3. CASE ConsumeList(w)
      BY <1>1, <2>3, ConsumeListExhausted
    <2>4. CASE Take(w)
      BY <1>1, <2>4, TakeExhausted
    <2>5. CASE Taken(w)
      BY <1>1, <2>5, TakenExhausted
    <2>6. CASE Retire(w)
      BY <1>1, <2>6, RetireExhausted
    <2>7. CASE Grant(w)
      BY <1>1, <2>7, GrantExhausted
    <2>8. CASE Reset(w)
      BY <1>1, <2>8, ResetExhausted
    <2>9. CASE NothingToDo(w)
      BY <1>1, <2>9, NothingToDoExhausted
    <2>10. CASE CancelList(w)
      BY <1>1, <2>10, CancelListExhausted
    <2>11. CASE Commit(w)
      BY <1>1, <2>11, CommitExhausted
    <2>12. CASE Abort(w)
      BY <1>1, <2>12, RollbackExhausted DEF Abort
    <2>13. CASE SweepList(w)
      BY <1>1, <2>13, SweepListExhausted
    <2>14. CASE SweepRow(w)
      BY <1>1, <2>14, SweepRowExhausted
    <2> QED BY <1>3, <2>1, <2>2, <2>3, <2>4, <2>5, <2>6, <2>7, <2>8, <2>9, <2>10,
               <2>11, <2>12, <2>13, <2>14
  <1> QED BY <1>2, <1>3 DEF Next, Elapse, vars

(* A paid cycle is completed only when it is used up, though the charge     *)
(* that completes it decides so from a list that other charges, resets and  *)
(* cancellations may have made old (Consume, FinishedIDs).                  *)
THEOREM CompletedOnlyWhenExhausted == Spec => []CompletedIsExhausted
  <1>1. XInv => CompletedIsExhausted
    BY DEF XInv, RowsSpent, Spent, CompletedIsExhausted
  <1> QED BY <1>1, InitExhausted, NextExhausted, PTL DEF Spec

-----------------------------------------------------------------------------
(* Sums.  MapThenSumSet goes through a set by a table of the sums of its    *)
(* subsets; the sum of a function over a finite set is the table's last     *)
(* entry.                                                                   *)

Pick(s) == CHOOSE x \in s : TRUE
Entry(f, g, s) == IF s = {} THEN 0 ELSE f[Pick(s)] + g[s \ {Pick(s)}]
IsTable(f, g, S) == g = [s \in SUBSET S |-> Entry(f, g, s)]
SumOf(f, S) == (CHOOSE g : IsTable(f, g, S))[S]

LEMMA Picked == ASSUME NEW s, s # {} PROVE Pick(s) \in s
BY DEF Pick

LEMMA SubsetsWellFounded ==
    ASSUME NEW S, IsFiniteSet(S)
    PROVE  IsWellFoundedOn(StrictSubsetOrdering(S), SUBSET S)
<1>1. FiniteSubsetsOf(S) = SUBSET S
  BY FS_FiniteSubsetsOfFinite
<1> QED
  BY <1>1, FS_StrictSubsetOrderingWellFounded

LEMMA LeastSubset ==
    ASSUME NEW S, IsFiniteSet(S), NEW Bad, Bad \subseteq SUBSET S, Bad # {}
    PROVE  \E T \in Bad : \A U \in Bad : U \subseteq T => U = T
<1>1. PICK T \in Bad : \A U \in Bad : <<U, T>> \notin StrictSubsetOrdering(S)
  BY SubsetsWellFounded, WFMin
<1> QED
  BY <1>1 DEF StrictSubsetOrdering

(* What spreads from a finite set without the picked element to the set is  *)
(* so of all subsets: the good ones are given as a set.                     *)
LEMMA SubsetInduction ==
    ASSUME NEW S, IsFiniteSet(S), NEW Good, {} \in Good,
           \A s \in (SUBSET S) \ {{}} : s \ {Pick(s)} \in Good => s \in Good
    PROVE  SUBSET S \subseteq Good
<1>1. PICK Bad : Bad = (SUBSET S) \ Good
  OBVIOUS
<1>2. SUFFICES ASSUME Bad # {} PROVE FALSE
  BY <1>1
<1>3. Bad \subseteq SUBSET S
  BY <1>1
<1>4. PICK T \in Bad : \A U \in Bad : U \subseteq T => U = T
  BY <1>2, <1>3, LeastSubset
<1>5. T # {} /\ Pick(T) \in T
  BY <1>1, Picked
<1>6. T \ {Pick(T)} \in SUBSET S /\ T \ {Pick(T)} # T
  BY <1>3, <1>5
<1> QED
  BY <1>1, <1>4, <1>5, <1>6

(* The table exists: one that is right for the sets of n elements gives one *)
(* that is right for the sets of n + 1. *)
LEMMA TableExists ==
    ASSUME NEW S, IsFiniteSet(S), NEW f \in [S -> Int]
    PROVE  \E g \in [SUBSET S -> Int] : IsTable(f, g, S)
<1> DEFINE Right(g, n) == \A s \in SUBSET S : Cardinality(s) <= n => g[s] = Entry(f, g, s)
           Good == {s \in SUBSET S : \E g \in [SUBSET S -> Int] : Right(g, Cardinality(s))}
<1>f. \A s \in SUBSET S : IsFiniteSet(s) /\ Cardinality(s) \in Nat
  BY FS_Subset, FS_CardinalityType
<1>0. \A s \in SUBSET S : \A g \in [SUBSET S -> Int] : Entry(f, g, s) \in Int
  BY Picked DEF Entry
<1>1. ASSUME NEW n \in Nat, NEW g \in [SUBSET S -> Int], Right(g, n)
      PROVE  \E h \in [SUBSET S -> Int] : Right(h, n + 1)
  <2> DEFINE h == [s \in SUBSET S |-> Entry(f, g, s)]
  <2>1. h \in [SUBSET S -> Int]
    BY <1>0
  <2>2. ASSUME NEW s \in SUBSET S, Cardinality(s) <= n + 1 PROVE h[s] = Entry(f, h, s)
    <3>1. CASE s = {}
      BY <3>1 DEF Entry
    <3>2. CASE s # {}
      <4>1. Pick(s) \in s /\ s \ {Pick(s)} \in SUBSET S
        BY <3>2, Picked
      <4>2. Cardinality(s \ {Pick(s)}) = Cardinality(s) - 1
        BY <1>f, <4>1, FS_RemoveElement
      <4>3. g[s \ {Pick(s)}] = Entry(f, g, s \ {Pick(s)})
        BY <1>1, <1>f, <2>2, <4>1, <4>2
      <4>4. h[s \ {Pick(s)}] = g[s \ {Pick(s)}]
        BY <4>1, <4>3
      <4> QED
        BY <3>2, <4>4 DEF Entry
    <3> QED
      BY <3>1, <3>2
  <2> QED
    BY <2>1, <2>2
<1>2. \E g \in [SUBSET S -> Int] : Right(g, 0)
  <2> DEFINE g == [s \in SUBSET S |-> 0]
  <2>1. g \in [SUBSET S -> Int]
    OBVIOUS
  <2>2. ASSUME NEW s \in SUBSET S, Cardinality(s) <= 0 PROVE g[s] = Entry(f, g, s)
    <3>1. s = {}
      BY <1>f, <2>2, FS_EmptySet
    <3> QED
      BY <3>1 DEF Entry
  <2> HIDE DEF g
  <2> QED
    BY <2>1, <2>2
<1> HIDE DEF Right
<1>3. S \in Good
  <2>1. {} \in Good
    BY <1>2, FS_EmptySet
  <2>2. ASSUME NEW s \in (SUBSET S) \ {{}}, s \ {Pick(s)} \in Good PROVE s \in Good
    <3>1. PICK n \in Nat : n = Cardinality(s \ {Pick(s)}) /\ Cardinality(s) = n + 1
      BY <1>f, Picked, FS_RemoveElement
    <3>2. PICK g \in [SUBSET S -> Int] : Right(g, n)
      BY <2>2, <3>1
    <3>3. \E h \in [SUBSET S -> Int] : Right(h, Cardinality(s))
      BY <1>1, <3>1, <3>2
    <3> QED
      BY <3>3
  <2> HIDE DEF Good
  <2> QED
    BY <2>1, <2>2, SubsetInduction
<1>4. PICK g \in [SUBSET S -> Int] : Right(g, Cardinality(S))
  BY <1>3
<1>5. \A s \in SUBSET S : g[s] = Entry(f, g, s)
  BY <1>4, <1>f, FS_Subset DEF Right
<1>6. IsTable(f, g, S)
  BY <1>5 DEF IsTable
<1> QED
  BY <1>6

(* What any table of a function on integers gives.  Every fact spreads from *)
(* a set without the picked element to the set. *)
LEMMA TableEntry ==
    ASSUME NEW S, NEW f, NEW g, IsTable(f, g, S), NEW s \in SUBSET S
    PROVE  g[s] = Entry(f, g, s)
BY DEF IsTable

LEMMA EmptyEntry == ASSUME NEW S, NEW f, NEW g, IsTable(f, g, S) PROVE g[{}] = 0
BY DEF IsTable, Entry

LEMMA TableIn ==
    ASSUME NEW S, IsFiniteSet(S), NEW M \in {Int, Nat}, NEW f \in [S -> M], NEW g,
           IsTable(f, g, S), NEW s \in SUBSET S
    PROVE  g[s] \in M
<1> DEFINE Good == {r \in SUBSET S : g[r] \in M}
<1>1. {} \in Good
  <2>1. {} \in SUBSET S /\ g[{}] = 0
    BY EmptyEntry
  <2> QED
    BY <2>1
<1>2. ASSUME NEW r \in (SUBSET S) \ {{}}, r \ {Pick(r)} \in Good PROVE r \in Good
  <2>1. r \in SUBSET S /\ r # {}
    OBVIOUS
  <2>2. g[r] = f[Pick(r)] + g[r \ {Pick(r)}]
    BY <2>1, TableEntry DEF Entry
  <2>3. f[Pick(r)] \in M /\ g[r \ {Pick(r)}] \in M
    BY <1>2, <2>1, Picked
  <2> QED
    BY <2>1, <2>2, <2>3
<1>3. s \in Good
  <2> HIDE DEF Good
  <2> QED
    BY <1>1, <1>2, SubsetInduction
<1> QED
  BY <1>3

(* Tables add up. *)
LEMMA TablesAdd ==
    ASSUME NEW S, IsFiniteSet(S),
           NEW f \in [S -> Int], NEW u \in [S -> Int], NEW v \in [S -> Int],
           \A x \in S : f[x] = u[x] + v[x],
           NEW g, IsTable(f, g, S), NEW gu, IsTable(u, gu, S), NEW gv, IsTable(v, gv, S)
    PROVE  g[S] = gu[S] + gv[S]
<1> DEFINE Good == {s \in SUBSET S : g[s] = gu[s] + gv[s]}
<1>1. {} \in Good
  <2>1. g[{}] = 0 /\ gu[{}] = 0 /\ gv[{}] = 0
    BY EmptyEntry
  <2> QED
    BY <2>1
<1>2. ASSUME NEW s \in (SUBSET S) \ {{}}
      PROVE  \E p \in S, r \in SUBSET S :
               /\ r = s \ {Pick(s)}
               /\ g[s] = f[p] + g[r] /\ gu[s] = u[p] + gu[r] /\ gv[s] = v[p] + gv[r]
  <2>1. s \in SUBSET S /\ s # {} /\ Pick(s) \in S /\ s \ {Pick(s)} \in SUBSET S
    BY Picked
  <2>2. g[s] = Entry(f, g, s) /\ gu[s] = Entry(u, gu, s) /\ gv[s] = Entry(v, gv, s)
    BY TableEntry
  <2> QED
    BY <2>1, <2>2 DEF Entry
<1>3. ASSUME NEW s \in (SUBSET S) \ {{}}, s \ {Pick(s)} \in Good PROVE s \in Good
  <2>1. PICK p \in S, r \in SUBSET S :
          /\ r = s \ {Pick(s)}
          /\ g[s] = f[p] + g[r] /\ gu[s] = u[p] + gu[r] /\ gv[s] = v[p] + gv[r]
    BY <1>2
  <2>2. g[r] = gu[r] + gv[r]
    BY <1>3, <2>1
  <2>3. gu[r] \in Int
    BY TableIn
  <2>4. gv[r] \in Int
    BY TableIn
  <2>5. u[p] \in Int /\ v[p] \in Int /\ f[p] = u[p] + v[p]
    OBVIOUS
  <2> QED
    BY <2>1, <2>2, <2>3, <2>4, <2>5
<1>4. S \in Good
  <2> HIDE DEF Good
  <2> QED
    BY <1>1, <1>3, SubsetInduction
<1> QED
  BY <1>4

(* The sum of a function: its table exists, and any table of it gives it. *)
LEMMA SumIsTables ==
    ASSUME NEW S, IsFiniteSet(S), NEW f \in [S -> Int]
    PROVE  \E g : IsTable(f, g, S) /\ SumOf(f, S) = g[S]
<1>1. PICK g : IsTable(f, g, S)
  BY TableExists
<1>2. IsTable(f, CHOOSE h : IsTable(f, h, S), S)
  BY <1>1
<1> QED
  BY <1>2 DEF SumOf

LEMMA SumIn ==
    ASSUME NEW S, IsFiniteSet(S), NEW f \in [S -> Int]
    PROVE  SumOf(f, S) \in Int /\ (f \in [S -> Nat] => SumOf(f, S) \in Nat)
<1>1. PICK g : IsTable(f, g, S) /\ SumOf(f, S) = g[S]
  BY SumIsTables
<1>2. g[S] \in Int
  BY <1>1, TableIn
<1>3. f \in [S -> Nat] => g[S] \in Nat
  BY <1>1, TableIn
<1> QED
  BY <1>1, <1>2, <1>3

LEMMA SumAdd ==
    ASSUME NEW S, IsFiniteSet(S),
           NEW f \in [S -> Int], NEW u \in [S -> Int], NEW v \in [S -> Int],
           \A x \in S : f[x] = u[x] + v[x]
    PROVE  SumOf(f, S) = SumOf(u, S) + SumOf(v, S)
<1>1. PICK g : IsTable(f, g, S) /\ SumOf(f, S) = g[S]
  BY SumIsTables
<1>2. PICK gu : IsTable(u, gu, S) /\ SumOf(u, S) = gu[S]
  BY SumIsTables
<1>3. PICK gv : IsTable(v, gv, S) /\ SumOf(v, S) = gv[S]
  BY SumIsTables
<1>4. g[S] = gu[S] + gv[S]
  BY <1>1, <1>2, <1>3, TablesAdd
<1> QED
  BY <1>1, <1>2, <1>3, <1>4

LEMMA SumZero ==
    ASSUME NEW S, IsFiniteSet(S), NEW f \in [S -> Int], \A x \in S : f[x] = 0
    PROVE  SumOf(f, S) = 0
<1>1. SumOf(f, S) = SumOf(f, S) + SumOf(f, S)
  BY SumAdd
<1> QED
  BY <1>1, SumIn

(* A function that is zero but at one place sums up to what it is there:    *)
(* the table's entries without the place are zero, those with it are that.  *)
LEMMA SumOne ==
    ASSUME NEW S, IsFiniteSet(S), NEW f \in [S -> Int], NEW x \in S,
           \A y \in S : y # x => f[y] = 0
    PROVE  SumOf(f, S) = f[x]
<1>1. PICK g : IsTable(f, g, S) /\ SumOf(f, S) = g[S]
  BY SumIsTables
<1> DEFINE Good == {s \in SUBSET S : g[s] = IF x \in s THEN f[x] ELSE 0}
<1>2. {} \in Good
  <2>1. {} \in SUBSET S /\ g[{}] = 0
    BY <1>1, EmptyEntry
  <2> QED
    BY <2>1
<1>3. ASSUME NEW s \in (SUBSET S) \ {{}}, s \ {Pick(s)} \in Good PROVE s \in Good
  <2>1. s \in SUBSET S /\ s # {}
    OBVIOUS
  <2>2. PICK p, r : p = Pick(s) /\ r = s \ {p}
    OBVIOUS
  <2>3. p \in s /\ g[s] = f[p] + g[r]
    <3>1. g[s] = f[Pick(s)] + g[s \ {Pick(s)}]
      BY <1>1, <2>1, TableEntry DEF Entry
    <3> QED
      BY <2>1, <2>2, <3>1, Picked
  <2>4. g[r] = IF x \in r THEN f[x] ELSE 0
    BY <1>3, <2>2
  <2>5. CASE p = x
    <3>1. g[r] = 0 /\ x \in s /\ f[x] \in Int
      BY <2>2, <2>3, <2>4, <2>5
    <3> QED
      BY <2>1, <2>3, <2>5, <3>1
  <2>6. CASE p # x
    <3>1. f[p] = 0 /\ (x \in r <=> x \in s) /\ f[x] \in Int
      BY <2>1, <2>2, <2>3, <2>6
    <3> QED
      BY <2>1, <2>3, <2>4, <3>1
  <2> QED
    BY <2>5, <2>6
<1>4. S \in Good
  <2> HIDE DEF Good
  <2> QED
    BY <1>2, <1>3, SubsetInduction
<1> QED
  BY <1>1, <1>4

(* A change at one place changes the sum by as much. *)
LEMMA SumChange ==
    ASSUME NEW S, IsFiniteSet(S), NEW f \in [S -> Int], NEW h \in [S -> Int], NEW x \in S,
           \A y \in S : y # x => h[y] = f[y]
    PROVE  SumOf(h, S) = SumOf(f, S) + (h[x] - f[x])
<1>1. PICK d \in [S -> Int] : \A y \in S : d[y] = h[y] - f[y]
  <2>1. [y \in S |-> h[y] - f[y]] \in [S -> Int]
    OBVIOUS
  <2> QED
    BY <2>1
<1>2. \A y \in S : h[y] = f[y] + d[y] /\ (y # x => d[y] = 0)
  BY <1>1
<1>3. SumOf(h, S) = SumOf(f, S) + SumOf(d, S)
  BY <1>2, SumAdd
<1>4. SumOf(d, S) = d[x]
  BY <1>2, SumOne
<1> QED
  BY <1>1, <1>3, <1>4
-----------------------------------------------------------------------------
(* SecondsAccountedFor.  What the open transaction of w has changed in the  *)
(* seconds used so far is a sum over the rows w holds.                      *)

Used(r) == [c \in Ids |-> r[c].used]

Change(w) == [c \in Ids |-> IF lock[c] = w THEN dirty[c].used - rows[c].used ELSE 0]

Gain(w) == SumOf(Change(w), Ids)

(* A charge has taken what it does not still have to take; a reset may take *)
(* seconds back; every other transaction leaves the sum alone.              *)
Account(t, gain) ==
    /\ t.at = "consume" => t.op = "consume" /\ t.rest \in 0..t.amount
    /\ t.op = "consume" => /\ t.at \in {"consume", "complete"}
                           /\ gain = IF t.at = "consume" THEN t.amount - t.rest ELSE t.amount
    /\ t.op = "reset" => t.at \in {"retire", "commit"}
    /\ t.op \notin {"consume", "reset"} => gain = 0

Blank(row) == row.state = "none" => row.used = 0

Blanks == \A c \in Ids : Blank(rows[c]) /\ Blank(dirty[c])

AInv == /\ XInv
        /\ Blanks
        /\ \A w \in Workers : Account(tx[w], Gain(w))
        /\ SumOf(Used(rows), Ids) = charged

LEMMA IdsFinite == IsFiniteSet(Ids)
  BY LedgerAssumption, FS_Interval DEF Ids

(* All tables of a function give the same sum. *)
LEMMA SumOfAny ==
  ASSUME NEW S, IsFiniteSet(S), NEW f \in [S -> Int], NEW g, IsTable(f, g, S)
  PROVE  g[S] = SumOf(f, S)
  <1>1. PICK z \in [S -> Int] : \A x \in S : z[x] = 0
    <2>1. [x \in S |-> 0] \in [S -> Int] /\ \A x \in S : [y \in S |-> 0][x] = 0
      OBVIOUS
    <2> QED BY <2>1
  <1>2. PICK h : IsTable(f, h, S) /\ SumOf(f, S) = h[S]
    BY SumIsTables
  <1>3. PICK gz : IsTable(z, gz, S) /\ SumOf(z, S) = gz[S]
    BY SumIsTables
  <1>4. gz[S] = 0
    BY <1>1, <1>3, SumZero
  <1>5. \A x \in S : f[x] = f[x] + z[x]
    BY <1>1
  <1>6. g[S] = h[S] + gz[S]
    BY <1>2, <1>3, <1>5, TablesAdd
  <1>7. h[S] \in Int
    BY <1>2, SumIn
  <1> QED BY <1>2, <1>4, <1>6, <1>7

LEMMA UsedIn ==
  ASSUME NEW r \in [Ids -> Row]
  PROVE  Used(r) \in [Ids -> Int]
  BY DEF Used, Row

(* What TotalUsed adds up. *)
LEMMA TotalIsSum ==
  ASSUME NEW r \in [Ids -> Row]
  PROVE  TotalUsed(r) = SumOf(Used(r), Ids)
  <1> DEFINE Iter(g) == g = [s \in SUBSET Ids |->
                               IF s = {} THEN 0
                               ELSE r[Pick(s)].used + g[s \ {Pick(s)}]]
  <1>1. TotalUsed(r) = (CHOOSE g : Iter(g))[Ids]
    BY DEF TotalUsed, MapThenSumSet, MapThenFoldSet, Pick
  <1>2. Used(r) \in [Ids -> Int]
    BY UsedIn
  <1>3. ASSUME NEW g PROVE Iter(g) <=> IsTable(Used(r), g, Ids)
    <2>1. \A s \in SUBSET Ids :
            Entry(Used(r), g, s) = IF s = {} THEN 0 ELSE r[Pick(s)].used + g[s \ {Pick(s)}]
      BY Picked DEF Entry, Used
    <2>2. [s \in SUBSET Ids |-> Entry(Used(r), g, s)]
            = [s \in SUBSET Ids |-> IF s = {} THEN 0 ELSE r[Pick(s)].used + g[s \ {Pick(s)}]]
      BY <2>1
    <2> QED BY <2>2 DEF IsTable
  <1>4. PICK g : IsTable(Used(r), g, Ids)
    BY <1>2, IdsFinite, TableExists
  <1> HIDE DEF Iter
  <1>5. Iter(CHOOSE h : Iter(h))
    BY <1>3, <1>4
  <1>6. IsTable(Used(r), CHOOSE h : Iter(h), Ids)
    BY <1>3, <1>5
  <1> QED BY <1>1, <1>2, <1>6, IdsFinite, SumOfAny

(* A step of v leaves the rows others hold alone, and takes none from them. *)
Apart(v) == \A c \in Ids :
    /\ lock[c] \notin {v, None}
       => lock'[c] = lock[c] /\ dirty'[c] = dirty[c] /\ rows'[c] = rows[c]
    /\ lock'[c] \notin {v, None} => lock'[c] = lock[c]

LEMMA ChangeIn ==
  ASSUME Inv, NEW w \in Workers
  PROVE  Change(w) \in [Ids -> Int]
  BY DEF Inv, DataOK, RowsTyped, Row, Change

LEMMA OthersGain ==
  ASSUME NEW v \in Workers, NEW w \in Workers, w # v, Apart(v)
  PROVE  Gain(w)' = Gain(w)
  <1>1. w # None
    BY LedgerAssumption
  <1>2. \A c \in Ids : /\ lock'[c] = w <=> lock[c] = w
                       /\ lock[c] = w => dirty'[c] = dirty[c] /\ rows'[c] = rows[c]
    BY <1>1 DEF Apart
  <1>3. Change(w)' = Change(w)
    BY <1>2 DEF Change
  <1> QED BY <1>3 DEF Gain

(* The shape of every step. *)
LEMMA StepAccounts ==
  ASSUME AInv, XInv', NEW v \in Workers, NEW t, Go(v, t), Apart(v),
         Blanks',
         Account(t, Gain(v)'),
         SumOf(Used(rows'), Ids) = charged'
  PROVE  AInv'
  <1>1. tx'[v] = t /\ \A w \in Workers : w # v => tx'[w] = tx[w]
    BY DEF Go, AInv, XInv, Inv, TxOK
  <1>2. ASSUME NEW w \in Workers PROVE Account(tx'[w], Gain(w)')
    <2>1. CASE w = v
      BY <1>1, <2>1
    <2>2. CASE w # v
      <3>1. Gain(w)' = Gain(w)
        BY <2>2, OthersGain
      <3> QED BY <1>1, <2>2, <3>1 DEF AInv
    <2> QED BY <2>1, <2>2
  <1> QED BY <1>2 DEF AInv

LEMMA ReadAccounts ==
  ASSUME AInv, XInv', NEW v \in Workers, NEW t, Go(v, t),
         UNCHANGED <<rows, lock, dirty, charged>>, Account(t, Gain(v))
  PROVE  AInv'
  <1>1. Apart(v)
    BY DEF Apart
  <1>2. Gain(v)' = Gain(v)
    BY DEF Gain, Change
  <1>3. Blanks'
    BY DEF AInv, Blanks
  <1>4. SumOf(Used(rows'), Ids) = charged'
    BY DEF AInv
  <1> QED BY <1>1, <1>2, <1>3, <1>4, StepAccounts

(* A statement changes what its transaction has changed by what it does to  *)
(* the row.                                                                 *)
LEMMA WriteAccounts ==
  ASSUME AInv, XInv', NEW v \in Workers, NEW t, Go(v, t),
         NEW c \in Ids, NEW row \in Row, Unlocked(v, c), Write(v, c, row),
         UNCHANGED <<rows, charged>>, Blank(row),
         Account(t, Gain(v) + (row.used - dirty[c].used))
  PROVE  AInv'
  <1>0. Inv /\ Inv'
    BY DEF AInv, XInv
  <1>1. \A d \in Ids : /\ dirty'[d] = (IF d = c THEN row ELSE dirty[d])
                       /\ lock'[d] = (IF d = c THEN v ELSE lock[d])
    BY <1>0 DEF Inv, DataOK, RowsTyped, Write
  <1>2. Apart(v)
    BY <1>1 DEF Apart, Unlocked
  <1>3. Change(v) \in [Ids -> Int] /\ Change(v)' \in [Ids -> Int]
    BY <1>0, ChangeIn DEF Inv, DataOK, RowsTyped, Row, Change
  <1>4. \A d \in Ids : d # c => Change(v)'[d] = Change(v)[d]
    BY <1>1 DEF Change
  <1>5. /\ lock[c] # v => dirty[c] = rows[c]
        /\ row.used \in Nat /\ dirty[c].used \in Nat /\ rows[c].used \in Nat
    BY <1>0 DEF Inv, DataOK, RowsTyped, Row, Owned, Unlocked
  <1>6. Change(v)'[c] - Change(v)[c] = row.used - dirty[c].used
    BY <1>1, <1>5 DEF Change
  <1>7. PICK f \in [Ids -> Int], h \in [Ids -> Int] : f = Change(v) /\ h = Change(v)'
    BY <1>3
  <1>8. SumOf(h, Ids) = SumOf(f, Ids) + (h[c] - f[c])
    BY <1>4, <1>7, IdsFinite, SumChange
  <1>9. Gain(v)' = Gain(v) + (row.used - dirty[c].used)
    BY <1>6, <1>7, <1>8 DEF Gain
  <1>10. Blanks'
    BY <1>1 DEF AInv, Blanks
  <1>11. SumOf(Used(rows'), Ids) = charged'
    BY DEF AInv
  <1> QED BY <1>2, <1>9, <1>10, <1>11, StepAccounts

(* A transaction that has ended holds no row. *)
LEMMA NothingHeld ==
  ASSUME NEW v \in Workers, \A c \in Ids : lock'[c] # v
  PROVE  Gain(v)' = 0
  <1>1. PICK f \in [Ids -> Int] : f = Change(v)' /\ \A c \in Ids : f[c] = 0
    <2>1. Change(v)' = [c \in Ids |-> 0]
      BY DEF Change
    <2> QED BY <2>1
  <1>2. SumOf(f, Ids) = 0
    BY <1>1, IdsFinite, SumZero
  <1> QED BY <1>1, <1>2 DEF Gain

LEMMA RollbackAccounts ==
  ASSUME AInv, XInv', NEW w \in Workers, Rollback(w), UNCHANGED <<rows, charged>>
  PROVE  AInv'
  <1>1. \A d \in Ids : /\ dirty'[d] = (IF lock[d] = w THEN rows[d] ELSE dirty[d])
                       /\ lock'[d] = (IF lock[d] = w THEN None ELSE lock[d])
    BY DEF Rollback
  <1>2. w # None
    BY LedgerAssumption
  <1>3. Apart(w)
    BY <1>1 DEF Apart
  <1>4. Gain(w)' = 0
    BY <1>1, <1>2, NothingHeld
  <1>5. Account(Idle, Gain(w)')
    BY <1>4 DEF Account, Idle
  <1>6. Go(w, Idle)
    BY DEF Rollback, Go
  <1>7. Blanks'
    BY <1>1 DEF AInv, Blanks
  <1>8. SumOf(Used(rows'), Ids) = charged'
    BY DEF AInv
  <1> QED BY <1>3, <1>5, <1>6, <1>7, <1>8, StepAccounts

(* A commit adds to the rows what its transaction has changed, which is what *)
(* it charges.                                                              *)
LEMMA CommitAccounts ==
  ASSUME AInv, XInv', NEW w \in Workers, Commit(w)
  PROVE  AInv'
  <1>0. Inv /\ Inv' /\ XInv
    BY DEF AInv, XInv
  <1>1. \A d \in Ids : /\ rows'[d] = (IF lock[d] = w THEN dirty[d] ELSE rows[d])
                       /\ lock'[d] = (IF lock[d] = w THEN None ELSE lock[d])
                       /\ dirty'[d] = dirty[d]
    BY DEF Commit
  <1>2. w # None
    BY LedgerAssumption
  <1>3. Apart(w)
    BY <1>1 DEF Apart
  <1>4. Gain(w)' = 0
    BY <1>1, <1>2, NothingHeld
  <1>5. Account(Idle, Gain(w)')
    BY <1>4 DEF Account, Idle
  <1>6. rows \in [Ids -> Row] /\ rows' \in [Ids -> Row] /\ dirty \in [Ids -> Row]
    BY <1>0 DEF Inv, DataOK, RowsTyped
  <1>7. PICK f \in [Ids -> Int], h \in [Ids -> Int], d \in [Ids -> Int] :
          f = Used(rows) /\ h = Used(rows') /\ d = Change(w)
    BY <1>0, <1>6, UsedIn, ChangeIn
  <1>8. \A c \in Ids : h[c] = f[c] + d[c]
    <2>1. ASSUME NEW c \in Ids PROVE h[c] = f[c] + d[c]
      <3>1. rows[c].used \in Nat /\ dirty[c].used \in Nat
        BY <1>6 DEF Row
      <3> QED BY <1>1, <1>7, <3>1 DEF Used, Change
    <2> QED BY <2>1
  <1>9. SumOf(h, Ids) = SumOf(f, Ids) + SumOf(d, Ids)
    BY <1>8, IdsFinite, SumAdd
  <1>10. SumOf(Used(rows'), Ids) = charged'
    <2>1. SumOf(f, Ids) = charged /\ SumOf(d, Ids) = Gain(w)
      BY <1>7 DEF AInv, Gain
    <2>2. SumOf(f, Ids) \in Int /\ SumOf(d, Ids) \in Int /\ SumOf(h, Ids) \in Int
      BY IdsFinite, SumIn
    <2>3. Account(tx[w], Gain(w))
      BY DEF AInv
    <2>4. CASE tx[w].op = "consume"
      <3>1. Gain(w) = tx[w].amount
        BY <2>3, <2>4 DEF Account, Commit
      <3>2. charged' = charged + tx[w].amount
        BY <2>4 DEF Commit
      <3> QED BY <1>7, <1>9, <2>1, <3>1, <3>2
    <2>5. CASE tx[w].op = "reset"
      <3>1. TotalUsed(rows) = SumOf(f, Ids) /\ TotalUsed(rows') = SumOf(h, Ids)
        BY <1>6, <1>7, TotalIsSum
      <3>2. charged' = charged - (TotalUsed(rows) - TotalUsed(rows'))
        BY <2>5 DEF Commit
      <3> QED BY <1>7, <2>1, <2>2, <3>1, <3>2
    <2>6. CASE tx[w].op \notin {"consume", "reset"}
      <3>1. Gain(w) = 0
        BY <2>3, <2>6 DEF Account
      <3>2. charged' = charged
        BY <2>6 DEF Commit
      <3> QED BY <1>7, <1>9, <2>1, <2>2, <3>1, <3>2
    <2> QED BY <2>4, <2>5, <2>6
  <1>11. Blanks'
    BY <1>1 DEF AInv, Blanks
  <1> QED BY <1>3, <1>5, <1>10, <1>11, StepAccounts DEF Commit

-----------------------------------------------------------------------------
(* Lists. *)

(* A transaction that starts its work has changed nothing anyone used. *)
LEMMA BeginAccounts ==
  ASSUME AInv, XInv', NEW w \in Workers, tx[w].at \in {"idle", "expire"}, NEW t, Go(w, t),
         UNCHANGED <<rows, lock, dirty, charged>>,
         t.op = "consume" <=> t.at = "consume",
         t.op = "consume" => t.rest = t.amount /\ t.amount \in Nat,
         t.op = "reset" => t.at = "retire"
  PROVE  AInv'
  <1>1. Gain(w) = 0
    BY DEF AInv, Account
  <1>2. Account(t, Gain(w))
    <2>1. CASE t.op = "consume"
      <3>1. t.rest \in 0..t.amount /\ t.amount - t.rest = 0
        BY <2>1
      <3> QED BY <1>1, <2>1, <3>1 DEF Account
    <2>2. CASE t.op # "consume"
      BY <1>1, <2>2 DEF Account
    <2> QED BY <2>1, <2>2
  <1> QED BY <1>2, ReadAccounts

LEMMA ExpireListAccounts ==
  ASSUME AInv, XInv', NEW w \in Workers, ExpireList(w)
  PROVE  AInv'
  <1>1. PICK k \in (tx[w].checked + 1)..3 :
          Go(w, [Idle EXCEPT !.op = "expire", !.at = "expire", !.checked = k,
                             !.todo = ToExpire(w, TierOrder[k])])
    BY DEF ExpireList
  <1> DEFINE t == [Idle EXCEPT !.op = "expire", !.at = "expire", !.checked = k,
                               !.todo = ToExpire(w, TierOrder[k])]
  <1>2. t.op = "expire" /\ t.at = "expire" /\ Go(w, t)
    BY <1>1 DEF Idle
  <1> HIDE DEF t
  <1> QED BY <1>2, BeginAccounts DEF ExpireList

LEMMA ConsumeListAccounts ==
  ASSUME AInv, XInv', NEW w \in Workers, ConsumeList(w)
  PROVE  AInv'
  <1> DEFINE list == {c \in Ids : /\ Visible(w, c).state = "ACTIVE"
                                 /\ Visible(w, c).ends > now
                                 /\ Visible(w, c).total > Visible(w, c).used}
             avail == [c \in Ids |-> IF c \in list
                         THEN Visible(w, c).total - Visible(w, c).used ELSE 0]
             ends == [c \in Ids |-> IF c \in list THEN Visible(w, c).ends ELSE 0]
  <1>1. PICK n \in Amounts :
          Go(w, [Idle EXCEPT !.op = "consume", !.at = "consume", !.todo = list,
                             !.amount = n, !.rest = n, !.avail = avail, !.ends = ends])
    BY DEF ConsumeList
  <1> HIDE DEF list, avail, ends
  <1> DEFINE t == [Idle EXCEPT !.op = "consume", !.at = "consume", !.todo = list,
                               !.amount = n, !.rest = n, !.avail = avail, !.ends = ends]
  <1>2. t.op = "consume" /\ t.at = "consume" /\ t.amount = n /\ t.rest = n /\ Go(w, t)
    BY <1>1 DEF Idle
  <1> HIDE DEF t
  <1>3. n \in Nat
    BY LedgerAssumption
  <1> QED BY <1>2, <1>3, BeginAccounts DEF ConsumeList, Ready

LEMMA RetireAccounts ==
  ASSUME AInv, XInv', NEW w \in Workers, Retire(w)
  PROVE  AInv'
  <1> DEFINE free == [Idle EXCEPT !.at = "retire", !.todo = Active(w, "free")]
  <1>1. PICK t : Go(w, t) /\ t.op \in {"purchase", "reset"} /\ t.at = "retire"
    <2>1. CASE Go(w, [free EXCEPT !.op = "reset"])
      <3> DEFINE t == [free EXCEPT !.op = "reset"]
      <3>1. t.op = "reset" /\ t.at = "retire"
        BY DEF Idle
      <3> HIDE DEF t
      <3> QED BY <2>1, <3>1 DEF t
    <2>2. ASSUME NEW r \in {"pro", "payg"}, NEW n \in Totals,
                 Go(w, [free EXCEPT !.op = "purchase", !.tier = r, !.amount = n])
          PROVE  \E t : Go(w, t) /\ t.op \in {"purchase", "reset"} /\ t.at = "retire"
      <3> DEFINE t == [free EXCEPT !.op = "purchase", !.tier = r, !.amount = n]
      <3>1. t.op = "purchase" /\ t.at = "retire" /\ Go(w, t)
        BY <2>2 DEF Idle
      <3> HIDE DEF t
      <3> QED BY <3>1
    <2> QED BY <2>1, <2>2 DEF Retire
  <1> QED BY <1>1, BeginAccounts DEF Retire, Ready

LEMMA CancelListAccounts ==
  ASSUME AInv, XInv', NEW w \in Workers, CancelList(w)
  PROVE  AInv'
  <1>1. PICK to \in {"CANCELLED", "EXPIRED"}, S \in SUBSET Ids :
          Go(w, [Idle EXCEPT !.op = "cancel", !.at = "cancel", !.todo = S, !.to = to])
    BY DEF CancelList, Active
  <1> DEFINE t == [Idle EXCEPT !.op = "cancel", !.at = "cancel", !.todo = S, !.to = to]
  <1>2. t.op = "cancel" /\ t.at = "cancel" /\ Go(w, t)
    BY <1>1 DEF Idle
  <1> HIDE DEF t
  <1> QED BY <1>2, BeginAccounts DEF CancelList, Ready

LEMMA NothingToDoAccounts ==
  ASSUME AInv, XInv', NEW w \in Workers, NothingToDo(w)
  PROVE  AInv'
  <1> DEFINE t == [Idle EXCEPT !.op = "expire", !.at = "commit"]
  <1>1. t.op = "expire" /\ t.at = "commit" /\ Go(w, t)
    BY DEF Idle, NothingToDo
  <1> HIDE DEF t
  <1> QED BY <1>1, BeginAccounts DEF NothingToDo

LEMMA SweepListAccounts ==
  ASSUME AInv, XInv', NEW w \in Workers, SweepList(w)
  PROVE  AInv'
  <1>1. PICK t : Go(w, t) /\ t.op \in {"sweep", "query"} /\ t.at = "sweep"
    <2> DEFINE ended(s) == {c \in Ids : rows[c].state = s /\ rows[c].ends <= now}
               job == [Idle EXCEPT !.op = "sweep", !.at = "sweep",
                                   !.todo = ended("ACTIVE"), !.done = ended("COMPLETED")]
               query(r) == [Idle EXCEPT !.op = "query", !.at = "sweep", !.todo = ToExpire(w, r)]
    <2>1. Go(w, job) \/ \E r \in Tiers : Go(w, query(r))
      BY DEF SweepList
    <2>2. job.op = "sweep" /\ job.at = "sweep"
      BY DEF Idle
    <2>3. \A r \in Tiers : query(r).op = "query" /\ query(r).at = "sweep"
      BY DEF Idle
    <2> HIDE DEF job, query
    <2> QED BY <2>1, <2>2, <2>3
  <1>2. tx[w].at = "idle"
    BY DEF SweepList, AInv, XInv, Plans, Plan
  <1> QED BY <1>1, <1>2, BeginAccounts DEF SweepList

-----------------------------------------------------------------------------
(* Statements. *)

LEMMA CreateAccounts ==
  ASSUME AInv, XInv', NEW w \in Workers, NEW t \in Tiers, NEW n \in Nat, Create(w, t, n),
         tx[w].op \in {"purchase", "reset"}, UNCHANGED <<rows, charged>>
  PROVE  AInv'
  <1>0. Inv
    BY DEF AInv, XInv
  <1>1. PICK c \in Ids, life \in Lives :
          /\ rows[c].state = "none" /\ lock[c] = None
          /\ Write(w, c, NewRow(t, n, life))
          /\ Go(w, [tx[w] EXCEPT !.at = "commit"])
    BY DEF Create
  <1>2. PICK row \in Row : /\ row = NewRow(t, n, life)
                           /\ row.used = 0 /\ row.state # "none"
    <2>1. NewRow(t, n, life) \in Row
      BY <1>0, NewRowTyped DEF Inv, DataOK, RowsTyped
    <2> QED BY <2>1 DEF NewRow
  <1>3. dirty[c].used = 0
    BY <1>0, <1>1 DEF AInv, Blanks, Blank, Inv, DataOK, Owned
  <1> DEFINE u == [tx[w] EXCEPT !.at = "commit"]
  <1>4. u.at = "commit" /\ u.op = tx[w].op /\ Go(w, u)
    BY <1>0, <1>1 DEF Inv, TxOK, TxType
  <1> HIDE DEF u
  <1>5. Account(tx[w], Gain(w))
    BY DEF AInv
  <1>6. Account(u, Gain(w) + (row.used - dirty[c].used))
    <2>1. CASE tx[w].op = "purchase"
      <3>1. Gain(w) + (row.used - dirty[c].used) = 0
        BY <1>2, <1>3, <1>5, <2>1 DEF Account
      <3> QED BY <1>4, <2>1, <3>1 DEF Account
    <2>2. CASE tx[w].op = "reset"
      BY <1>4, <2>2 DEF Account
    <2> QED BY <2>1, <2>2
  <1>7. Unlocked(w, c) /\ Blank(row)
    BY <1>1, <1>2 DEF Unlocked, Blank
  <1>8. Write(w, c, row)
    BY <1>1, <1>2
  <1> QED BY <1>4, <1>6, <1>7, <1>8, WriteAccounts

LEMMA GrantAccounts ==
  ASSUME AInv, XInv', NEW w \in Workers, Grant(w)
  PROVE  AInv'
  <1>1. tx[w].tier \in Tiers /\ tx[w].amount \in Nat
    BY DEF AInv, XInv, Inv, TxOK, TxType
  <1> QED BY <1>1, CreateAccounts DEF Grant

LEMMA ResetAccounts ==
  ASSUME AInv, XInv', NEW w \in Workers, Reset(w)
  PROVE  AInv'
  <1>1. FreeTotal \in Nat /\ "free" \in Tiers /\ tx[w].op = "reset"
    BY LedgerAssumption DEF Tiers, Reset
  <1>2. CASE Create(w, "free", FreeTotal)
    BY <1>1, <1>2, CreateAccounts DEF Reset
  <1>3. ASSUME NEW c \in Ids, NEW life \in Lives,
               Unlocked(w, c), Write(w, c, NewRow("free", FreeTotal, life)),
               Go(w, [tx[w] EXCEPT !.at = "commit"])
        PROVE  AInv'
    <2>1. PICK row \in Row : /\ row = NewRow("free", FreeTotal, life)
                             /\ row.state # "none"
      <3>1. NewRow("free", FreeTotal, life) \in Row
        BY <1>1, NewRowTyped DEF AInv, XInv, Inv, DataOK, RowsTyped
      <3> QED BY <3>1 DEF NewRow
    <2> DEFINE u == [tx[w] EXCEPT !.at = "commit"]
    <2>2. u.at = "commit" /\ u.op = "reset" /\ Go(w, u)
      BY <1>1, <1>3 DEF AInv, XInv, Inv, TxOK, TxType
    <2> HIDE DEF u
    <2>3. Account(u, Gain(w) + (row.used - dirty[c].used))
      BY <2>2 DEF Account
    <2>4. Write(w, c, row) /\ Blank(row)
      BY <1>3, <2>1 DEF Blank
    <2> QED BY <1>3, <2>2, <2>3, <2>4, WriteAccounts DEF Reset
  <1>4. \/ Create(w, "free", FreeTotal)
        \/ \E c \in {d \in Ids : Visible(w, d).state # "none" /\ Visible(w, d).tier = "free"},
             life \in Lives :
             /\ Unlocked(w, c)
             /\ Write(w, c, NewRow("free", FreeTotal, life))
             /\ Go(w, [tx[w] EXCEPT !.at = "commit"])
    BY DEF Reset
  <1> QED BY <1>2, <1>3, <1>4

(* A row that is moved on keeps the seconds used of it. *)
LEMMA TransitionAccounts ==
  ASSUME AInv, XInv', NEW w \in Workers, Transition(w)
  PROVE  AInv'
  <1>0. Inv /\ XInv
    BY DEF AInv, XInv
  <1>1. /\ UNCHANGED <<rows, charged>> /\ tx[w] \in TxType
        /\ Plan(w, tx[w], rows, dirty, lock) /\ Account(tx[w], Gain(w))
        /\ tx[w].at \in {"expire", "retire", "cancel", "complete"}
    BY <1>0 DEF Transition, AInv, XInv, Inv, TxOK, Plans
  <1>2. PICK c \in tx[w].todo :
          /\ Unlocked(w, c)
          /\ IF CanLeave(Visible(w, c))
             THEN /\ Write(w, c, [Visible(w, c) EXCEPT !.state = Target(w)])
                  /\ Go(w, [tx[w] EXCEPT !.todo = @ \ {c}])
             ELSE IF tx[w].at = "expire"
             THEN Keep /\ Go(w, [tx[w] EXCEPT !.todo = {}, !.checked = 3])
             ELSE Rollback(w)
    BY DEF Transition
  <1>3. c \in Ids
    BY <1>1 DEF TxType
  <1>4. CASE CanLeave(Visible(w, c))
    <2>1. Visible(w, c) = dirty[c] /\ dirty[c] \in Row
      BY <1>0, <1>2, <1>3, SeesCommitted DEF Inv, DataOK, RowsTyped
    <2>2. Target(w) \in States \ {"none"}
      BY <1>1 DEF Target, States, Plan
    <2>3. PICK row \in Row : /\ row = [dirty[c] EXCEPT !.state = Target(w)]
                             /\ row.used = dirty[c].used /\ row.state # "none"
      <3> DEFINE r == [dirty[c] EXCEPT !.state = Target(w)]
      <3>1. r \in Row /\ r.used = dirty[c].used /\ r.state # "none"
        BY <2>1, <2>2 DEF Row
      <3> HIDE DEF r
      <3> QED BY <3>1 DEF r
    <2> DEFINE t == [tx[w] EXCEPT !.todo = tx[w].todo \ {c}]
    <2>4. Write(w, c, row) /\ Go(w, t)
      BY <1>2, <1>4, <2>1, <2>3
    <2>5. t.op = tx[w].op /\ t.at = tx[w].at /\ t.amount = tx[w].amount /\ t.rest = tx[w].rest
      BY <1>1 DEF TxType
    <2> HIDE DEF t
    <2>6. Gain(w) \in Int
      BY <1>0, ChangeIn, IdsFinite, SumIn DEF Gain
    <2>7. Gain(w) + (row.used - dirty[c].used) = Gain(w)
      BY <2>1, <2>3, <2>6 DEF Row
    <2>8. Account(t, Gain(w))
      BY <1>1, <2>5 DEF Account
    <2>9. Account(t, Gain(w) + (row.used - dirty[c].used))
      BY <2>7, <2>8
    <2>10. Blank(row)
      BY <2>3 DEF Blank
    <2> QED BY <1>1, <1>2, <1>3, <2>4, <2>9, <2>10, WriteAccounts
  <1>5. CASE ~CanLeave(Visible(w, c)) /\ tx[w].at = "expire"
    <2> DEFINE t == [tx[w] EXCEPT !.todo = {}, !.checked = 3]
    <2>1. t.op = tx[w].op /\ t.at = "expire"
      BY <1>1, <1>5 DEF TxType
    <2>2. Keep /\ Go(w, t)
      BY <1>2, <1>5
    <2> HIDE DEF t
    <2>3. Account(t, Gain(w))
      BY <1>1, <1>5, <2>1 DEF Account
    <2> QED BY <1>1, <2>2, <2>3, ReadAccounts DEF Keep
  <1>6. CASE ~CanLeave(Visible(w, c)) /\ tx[w].at # "expire"
    BY <1>1, <1>2, <1>6, RollbackAccounts
  <1> QED BY <1>4, <1>5, <1>6

(* A share is taken off what is left to take when, and only when, the row   *)
(* takes it.                                                                *)
LEMMA TakeAccounts ==
  ASSUME AInv, XInv', NEW w \in Workers, Take(w)
  PROVE  AInv'
  <1> DEFINE t == tx[w]
  <1>0. Inv /\ XInv
    BY DEF AInv, XInv
  <1>1. /\ UNCHANGED <<rows, charged>> /\ t \in TxType /\ Plan(w, t, rows, dirty, lock)
        /\ t.at = "consume" /\ t.rest > 0 /\ Account(t, Gain(w))
    BY <1>0 DEF Take, AInv, XInv, Inv, TxOK, Plans
  <1>2. PICK c \in t.todo :
          /\ Unlocked(w, c)
          /\ IF Fits(Visible(w, c), Share(t, c))
             THEN Write(w, c, [Visible(w, c) EXCEPT !.used = @ + Share(t, c)])
             ELSE Keep
          /\ Go(w, [t EXCEPT !.todo = @ \ {c},
                      !.rest = Rest(t, c, Fits(Visible(w, c), Share(t, c))),
                      !.avail[c] = 0, !.ends[c] = 0,
                      !.done = IF Fits(Visible(w, c), Share(t, c)) /\ Emptied(t, c)
                               THEN @ \cup {c} ELSE @])
    BY DEF Take
  <1>3. c \in Ids
    BY <1>1 DEF TxType
  <1>4. PICK u : /\ Go(w, u) /\ u.op = t.op /\ u.at = "consume" /\ u.amount = t.amount
                 /\ u.rest = Rest(t, c, Fits(Visible(w, c), Share(t, c)))
    <2> DEFINE r == Rest(t, c, Fits(Visible(w, c), Share(t, c)))
               dn == IF Fits(Visible(w, c), Share(t, c)) /\ Emptied(t, c)
                     THEN t.done \cup {c} ELSE t.done
               av == [t.avail EXCEPT ![c] = 0]
               en == [t.ends EXCEPT ![c] = 0]
               td == t.todo \ {c}
               u == [t EXCEPT !.todo = td, !.rest = r, !.avail = av, !.ends = en, !.done = dn]
    <2>1. Go(w, u)
      BY <1>2
    <2>2. u.op = t.op /\ u.at = t.at /\ u.amount = t.amount /\ u.rest = r
      BY ONLY <1>1 DEF TxType
    <2> HIDE DEF u
    <2> QED BY <1>1, <2>1, <2>2
  <1>5. /\ Share(t, c) \in Nat /\ t.rest - Share(t, c) \in Nat
        /\ t.rest \in Nat /\ t.amount \in Nat
    BY <1>1, <1>3, ShareBounds DEF TxType
  <1>6. Gain(w) = t.amount - t.rest /\ t.op = "consume" /\ t.rest <= t.amount
    BY <1>1 DEF Account
  <1>7. CASE Fits(Visible(w, c), Share(t, c))
    <2>1. Visible(w, c) = dirty[c] /\ dirty[c] = rows[c] /\ dirty[c] \in Row
          /\ rows[c].state # "none"
      BY <1>0, <1>1, <1>2, <1>3, SeesCommitted DEF Plan, Inv, DataOK, RowsTyped
    <2>2. PICK row \in Row : /\ row = [dirty[c] EXCEPT !.used = dirty[c].used + Share(t, c)]
                             /\ row.used = dirty[c].used + Share(t, c) /\ row.state # "none"
      <3> DEFINE r == [dirty[c] EXCEPT !.used = dirty[c].used + Share(t, c)]
      <3>1. r \in Row /\ r.used = dirty[c].used + Share(t, c) /\ r.state # "none"
        BY <1>5, <2>1 DEF Row
      <3> HIDE DEF r
      <3> QED BY <3>1 DEF r
    <2>3. Write(w, c, row)
      BY <1>2, <1>7, <2>1, <2>2
    <2>4. u.rest = t.rest - Share(t, c)
      BY <1>4, <1>7 DEF Rest
    <2>5. Gain(w) + (row.used - dirty[c].used) = u.amount - u.rest
      BY <1>4, <1>5, <1>6, <2>1, <2>2, <2>4 DEF Row
    <2>6. u.rest \in 0..u.amount
      BY <1>4, <1>5, <1>6, <2>4
    <2>7. Account(u, Gain(w) + (row.used - dirty[c].used))
      BY <1>4, <1>6, <2>5, <2>6 DEF Account
    <2>8. Blank(row)
      BY <2>2 DEF Blank
    <2> QED BY <1>1, <1>2, <1>3, <1>4, <2>3, <2>7, <2>8, WriteAccounts
  <1>8. CASE ~Fits(Visible(w, c), Share(t, c))
    <2>1. UNCHANGED <<rows, lock, dirty, charged>>
      BY <1>1, <1>2, <1>8 DEF Keep
    <2>2. u.rest = t.rest
      BY <1>4, <1>8 DEF Rest
    <2>3. u.rest \in 0..u.amount
      BY <1>4, <1>5, <1>6, <2>2
    <2>4. Account(u, Gain(w))
      BY <1>4, <1>6, <2>2, <2>3 DEF Account
    <2> QED BY <1>4, <2>1, <2>4, ReadAccounts
  <1> QED BY <1>7, <1>8

LEMMA TakenAccounts ==
  ASSUME AInv, XInv', NEW w \in Workers, Taken(w)
  PROVE  AInv'
  <1>1. /\ UNCHANGED <<rows, charged>> /\ tx[w].at = "consume" /\ tx[w] \in TxType
        /\ Account(tx[w], Gain(w))
    BY DEF Taken, AInv, XInv, Inv, TxOK
  <1>2. CASE tx[w].rest > 0
    BY <1>1, <1>2, RollbackAccounts DEF Taken
  <1>3. CASE ~(tx[w].rest > 0)
    <2> DEFINE t == [Idle EXCEPT !.op = "consume", !.at = "complete",
                                 !.amount = tx[w].amount, !.todo = tx[w].done]
    <2>1. t.op = "consume" /\ t.at = "complete" /\ t.amount = tx[w].amount
      BY DEF Idle
    <2>2. Go(w, t) /\ Keep
      BY <1>3 DEF Taken
    <2> HIDE DEF t
    <2>3. Gain(w) = tx[w].amount - tx[w].rest /\ tx[w].rest \in Nat /\ tx[w].amount \in Nat
      BY <1>1 DEF Account, TxType
    <2>4. Gain(w) = t.amount
      BY <1>3, <2>1, <2>3
    <2>5. Account(t, Gain(w))
      BY <2>1, <2>4 DEF Account
    <2> QED BY <1>1, <2>2, <2>5, ReadAccounts DEF Keep
  <1> QED BY <1>2, <1>3

(* An expiry pass moves rows on and leaves the seconds used of them. *)
LEMMA SweepRowAccounts ==
  ASSUME AInv, XInv', NEW w \in Workers, SweepRow(w)
  PROVE  AInv'
  <1> DEFINE from(c) == IF c \in tx[w].todo THEN "ACTIVE" ELSE "COMPLETED"
             hit(c) == rows[c].state = from(c)
             left(c) == [tx[w] EXCEPT !.todo = @ \ {c}, !.done = @ \ {c}]
  <1>0. Inv /\ XInv
    BY DEF AInv, XInv
  <1>1. PICK c \in tx[w].todo \cup tx[w].done :
          /\ lock[c] = None
          /\ rows' = IF hit(c) THEN [rows EXCEPT ![c].state = "EXPIRED"] ELSE rows
          /\ dirty' = IF hit(c) THEN [dirty EXCEPT ![c].state = "EXPIRED"] ELSE dirty
          /\ Go(w, IF left(c).todo \cup left(c).done = {} \/ (tx[w].op = "query" /\ ~hit(c))
                   THEN Idle ELSE left(c))
    BY DEF SweepRow
  <1>2. /\ tx[w] \in TxType /\ UNCHANGED <<lock, charged>> /\ tx[w].at = "sweep"
        /\ Account(tx[w], Gain(w))
    BY <1>0 DEF AInv, Inv, TxOK, SweepRow
  <1>3. c \in Ids
    BY <1>2 DEF TxType
  <1>4. tx[w].op \notin {"consume", "reset"} /\ Gain(w) = 0
    BY <1>2 DEF Account
  <1>5. PICK t : Go(w, t) /\ Account(t, 0)
    <2>1. CASE Go(w, Idle)
      <3>1. Account(Idle, 0)
        BY DEF Account, Idle
      <3> QED BY <2>1, <3>1
    <2>2. CASE Go(w, left(c))
      <3>1. left(c).at = "sweep" /\ left(c).op = tx[w].op
        BY <1>2 DEF TxType
      <3> HIDE DEF left
      <3>2. Account(left(c), 0)
        BY <1>4, <3>1 DEF Account
      <3> QED BY <2>2, <3>2
    <2> QED BY <1>1, <2>1, <2>2
  <1>6. CASE ~hit(c)
    BY <1>1, <1>2, <1>4, <1>5, <1>6, ReadAccounts
  <1>7. CASE hit(c)
    <2>1. /\ rows[c] \in Row /\ dirty[c] = rows[c] /\ rows[c].state # "none"
          /\ rows \in [Ids -> Row] /\ dirty \in [Ids -> Row]
      BY <1>0, <1>1, <1>3, <1>7 DEF Inv, DataOK, RowsTyped, Owned
    <2> DEFINE row == [rows[c] EXCEPT !.state = "EXPIRED"]
    <2>2. row.state = "EXPIRED" /\ row.used = rows[c].used
      BY <2>1 DEF Row
    <2>3. rows' = [rows EXCEPT ![c] = row] /\ dirty' = [dirty EXCEPT ![c] = row]
      BY <1>1, <1>7, <2>1
    <2> HIDE DEF row
    <2>4. \A d \in Ids : /\ rows'[d] = (IF d = c THEN row ELSE rows[d])
                         /\ dirty'[d] = (IF d = c THEN row ELSE dirty[d])
      BY <2>1, <2>3
    <2>5. Apart(w)
      BY <1>1, <1>2, <2>4 DEF Apart
    <2>6. Blanks'
      BY <2>2, <2>4 DEF AInv, Blanks, Blank
    <2>7. \A d \in Ids : rows'[d].used = rows[d].used /\ dirty'[d].used = dirty[d].used
      BY <2>1, <2>2, <2>4
    <2>8. Change(w)' = Change(w) /\ Used(rows') = Used(rows)
      BY <1>2, <2>7 DEF Change, Used
    <2>9. Account(t, Gain(w)')
      BY <1>4, <1>5, <2>8 DEF Gain
    <2>10. SumOf(Used(rows'), Ids) = charged'
      BY <1>2, <2>8 DEF AInv
    <2> QED BY <1>5, <2>5, <2>6, <2>9, <2>10, StepAccounts
  <1> QED BY <1>6, <1>7

-----------------------------------------------------------------------------
LEMMA InitAccounts == Init => AInv
  <1> SUFFICES ASSUME Init PROVE AInv
    OBVIOUS
  <1>1. XInv /\ Inv
    BY InitExhausted, InitInv
  <1>2. Blanks
    BY DEF Init, Blanks, Blank, NoRow
  <1>3. ASSUME NEW w \in Workers PROVE Account(tx[w], Gain(w))
    <2>1. PICK f \in [Ids -> Int] : f = Change(w) /\ \A c \in Ids : f[c] = 0
      <3>1. Change(w) = [c \in Ids |-> 0]
        BY LedgerAssumption DEF Init, Change
      <3> QED BY <3>1
    <2>2. Gain(w) = 0
      BY <2>1, IdsFinite, SumZero DEF Gain
    <2>3. tx[w].op = "idle" /\ tx[w].at = "idle"
      BY DEF Init, Idle
    <2> QED BY <2>2, <2>3 DEF Account
  <1>4. PICK f \in [Ids -> Int] : f = Used(rows) /\ \A c \in Ids : f[c] = 0
    <2>1. Used(rows) = [c \in Ids |-> 0]
      BY DEF Init, Used, NoRow
    <2> QED BY <2>1
  <1>5. SumOf(Used(rows), Ids) = charged
    BY <1>4, IdsFinite, SumZero DEF Init
  <1> QED BY <1>1, <1>2, <1>3, <1>5 DEF AInv

LEMMA NextAccounts == AInv /\ [Next]_vars => AInv'
  <1> SUFFICES ASSUME AInv, [Next]_vars PROVE AInv'
    OBVIOUS
  <1>1. XInv'
    BY NextExhausted DEF AInv
  <1>2. CASE UNCHANGED <<rows, lock, dirty, tx, charged>>
    <2>1. \A w \in Workers : Gain(w)' = Gain(w)
      BY <1>2 DEF Gain, Change
    <2> QED BY <1>1, <1>2, <2>1 DEF AInv, Blanks
  <1>3. ASSUME NEW w \in Workers,
               \/ ExpireList(w) \/ Transition(w)
               \/ ConsumeList(w) \/ Take(w) \/ Taken(w)
               \/ Retire(w) \/ Grant(w) \/ Reset(w) \/ NothingToDo(w) \/ CancelList(w)
               \/ Commit(w) \/ Abort(w)
               \/ SweepList(w) \/ SweepRow(w)
        PROVE  AInv'
    <2>1. CASE ExpireList(w)
      BY <1>1, <2>1, ExpireListAccounts
    <2>2. CASE Transition(w)
      BY <1>1, <2>2, TransitionAccounts
    <2>3. CASE ConsumeList(w)
      BY <1>1, <2>3, ConsumeListAccounts
    <2>4. CASE Take(w)
      BY <1>1, <2>4, TakeAccounts
    <2>5. CASE Taken(w)
      BY <1>1, <2>5, TakenAccounts
    <2>6. CASE Retire(w)
      BY <1>1, <2>6, RetireAccounts
    <2>7. CASE Grant(w)
      BY <1>1, <2>7, GrantAccounts
    <2>8. CASE Reset(w)
      BY <1>1, <2>8, ResetAccounts
    <2>9. CASE NothingToDo(w)
      BY <1>1, <2>9, NothingToDoAccounts
    <2>10. CASE CancelList(w)
      BY <1>1, <2>10, CancelListAccounts
    <2>11. CASE Commit(w)
      BY <1>1, <2>11, CommitAccounts
    <2>12. CASE Abort(w)
      BY <1>1, <2>12, RollbackAccounts DEF Abort
    <2>13. CASE SweepList(w)
      BY <1>1, <2>13, SweepListAccounts
    <2>14. CASE SweepRow(w)
      BY <1>1, <2>14, SweepRowAccounts
    <2> QED BY <1>3, <2>1, <2>2, <2>3, <2>4, <2>5, <2>6, <2>7, <2>8, <2>9, <2>10,
               <2>11, <2>12, <2>13, <2>14
  <1> QED BY <1>2, <1>3 DEF Next, Elapse, vars

(* The seconds used of all cycles are those of the charges that committed,  *)
(* less what a reset of the free cycle gave back: a charge that spreads over *)
(* cycles takes all it asked for or, when a row refuses its share and no    *)
(* other has enough, nothing (Consume).                                     *)
THEOREM EverySecondAccounted == Spec => []SecondsAccountedFor
  <1>1. AInv => SecondsAccountedFor
    <2> SUFFICES ASSUME AInv PROVE SecondsAccountedFor
      OBVIOUS
    <2>1. rows \in [Ids -> Row]
      BY DEF AInv, XInv, Inv, DataOK, RowsTyped
    <2> QED BY <2>1, TotalIsSum DEF AInv, SecondsAccountedFor
  <1> QED BY <1>1, InitAccounts, NextAccounts, PTL DEF Spec

-----------------------------------------------------------------------------
(* More about sums: taken apart at any element, and over a larger set. *)

(* A table's entry of a set splits at any element, not only the picked one. *)
LEMMA AnyEntry ==
    ASSUME NEW S, IsFiniteSet(S), NEW f \in [S -> Int], NEW g, IsTable(f, g, S),
           NEW s \in SUBSET S, NEW x \in s
    PROVE  g[s] = f[x] + g[s \ {x}]
<1> DEFINE Wrong(t) == \E q \in t : g[t] # f[q] + g[t \ {q}]
<1> HIDE DEF Wrong
<1>1. PICK Bad : Bad = {t \in SUBSET S : Wrong(t)}
  OBVIOUS
<1>2. SUFFICES ASSUME Bad # {} PROVE FALSE
  BY <1>1 DEF Wrong
<1>3. PICK t \in Bad : \A u \in Bad : u \subseteq t => u = t
  BY <1>1, <1>2, LeastSubset
<1>4. PICK q \in t : g[t] # f[q] + g[t \ {q}]
  <2>1. Wrong(t)
    BY <1>1, <1>3
  <2> QED
    BY <2>1 DEF Wrong
<1>5. PICK p : p = Pick(t)
  OBVIOUS
<1>6. t \in SUBSET S /\ p \in t /\ p \in S /\ q \in S
  BY <1>1, <1>3, <1>4, <1>5, Picked
<1>7. g[t] = f[p] + g[t \ {p}]
  <2>1. g[t] = Entry(f, g, t)
    BY <1>6, TableEntry
  <2> QED
    BY <2>1, <1>5, <1>6 DEF Entry
<1>8. p # q
  BY <1>4, <1>7
<1>9. \A u \in SUBSET S : u \subseteq t /\ u # t => ~Wrong(u)
  BY <1>1, <1>3
<1>10. PICK v : v = (t \ {p}) \ {q}
  OBVIOUS
<1>11. g[t \ {p}] = f[q] + g[v]
  <2>1. ~Wrong(t \ {p}) /\ q \in t \ {p}
    BY <1>6, <1>8, <1>9
  <2> QED
    BY <2>1, <1>10 DEF Wrong
<1>12. g[t \ {q}] = f[p] + g[v]
  <2>1. ~Wrong(t \ {q}) /\ p \in t \ {q} /\ (t \ {q}) \ {p} = v
    BY <1>6, <1>8, <1>9, <1>10
  <2> QED
    BY <2>1 DEF Wrong
<1>13. g[v] \in Int /\ f[p] \in Int /\ f[q] \in Int
  <2>1. v \in SUBSET S
    BY <1>6, <1>10
  <2> QED
    BY <2>1, <1>6, TableIn
<1> QED
  BY <1>4, <1>7, <1>11, <1>12, <1>13

(* The entry of a smaller set is the sum over it. *)
LEMMA SumWithin ==
    ASSUME NEW S, IsFiniteSet(S), NEW f \in [S -> Int], NEW g, IsTable(f, g, S),
           NEW T \in SUBSET S, NEW h \in [T -> Int], \A x \in T : h[x] = f[x]
    PROVE  g[T] = SumOf(h, T)
<1>1. PICK k : k = [s \in SUBSET T |-> g[s]]
  OBVIOUS
<1>2. \A s \in SUBSET T : k[s] = Entry(h, k, s)
  <2> SUFFICES ASSUME NEW s \in SUBSET T PROVE k[s] = Entry(h, k, s)
    OBVIOUS
  <2>1. k[s] = Entry(f, g, s)
    BY <1>1, TableEntry
  <2>2. CASE s = {}
    BY <2>1, <2>2 DEF Entry
  <2>3. CASE s # {}
    <3>1. Pick(s) \in T /\ s \ {Pick(s)} \in SUBSET T
      BY <2>3, Picked
    <3>2. h[Pick(s)] = f[Pick(s)] /\ k[s \ {Pick(s)}] = g[s \ {Pick(s)}]
      BY <1>1, <3>1
    <3> QED
      BY <2>1, <2>3, <3>2 DEF Entry
  <2> QED
    BY <2>2, <2>3
<1>3. IsTable(h, k, T)
  <2>1. k = [s \in SUBSET T |-> k[s]]
    BY <1>1
  <2>2. [s \in SUBSET T |-> k[s]] = [s \in SUBSET T |-> Entry(h, k, s)]
    BY <1>2
  <2> QED
    BY <2>1, <2>2 DEF IsTable
<1>4. IsFiniteSet(T)
  BY FS_Subset
<1> QED
  BY <1>1, <1>3, <1>4, SumOfAny

(* One element more adds what it has. *)
LEMMA SumJoin ==
    ASSUME NEW S, IsFiniteSet(S), NEW x, x \notin S, NEW h \in [S -> Int],
           NEW f \in [S \cup {x} -> Int], \A y \in S : f[y] = h[y]
    PROVE  SumOf(f, S \cup {x}) = SumOf(h, S) + f[x]
<1>1. IsFiniteSet(S \cup {x})
  BY FS_AddElement
<1>2. PICK g : IsTable(f, g, S \cup {x}) /\ SumOf(f, S \cup {x}) = g[S \cup {x}]
  BY <1>1, SumIsTables
<1>3. (S \cup {x}) \ {x} = S
  OBVIOUS
<1>4. g[S \cup {x}] = f[x] + g[S]
  BY <1>1, <1>2, <1>3, AnyEntry
<1>5. g[S] = SumOf(h, S)
  BY <1>1, <1>2, SumWithin
<1>6. SumOf(h, S) \in Int /\ f[x] \in Int
  BY SumIn
<1> QED
  BY <1>2, <1>4, <1>5, <1>6

(* SumChange, for functions that are given by what they are. *)
MovesAt(S, f, h, x) ==
    /\ IsFiniteSet(S) /\ f \in [S -> Int] /\ h \in [S -> Int] /\ x \in S
    /\ \A y \in S : y # x => h[y] = f[y]

LEMMA SumMoves ==
    ASSUME NEW S, NEW f, NEW h, NEW x, MovesAt(S, f, h, x)
    PROVE  SumOf(h, S) = SumOf(f, S) + (h[x] - f[x])
BY SumChange DEF MovesAt

-----------------------------------------------------------------------------
(* The two quotas of QuotaLedger, whose books are sums as well. *)

LEMMA QuotaGiven ==
    /\ Cycles = 1..Len(Quotas) /\ Len(Quotas) \in Nat
    /\ \A c \in Cycles : Quotas[c] \in Nat
    /\ Nobody \notin Reqs /\ Kind \in [Reqs -> Kinds] /\ Need \in [Reqs -> Nat \ {0}]
    /\ MaxFaults \in Nat
    /\ IsFiniteSet(Reqs) /\ IsFiniteSet(Cycles)
<1>1. Quotas \in Seq(Nat) /\ Cycles = DOMAIN Quotas
  BY QuotaAssumption DEF Cycles
<1>2. Cycles = 1..Len(Quotas) /\ Len(Quotas) \in Nat
  BY <1>1
<1>3. IsFiniteSet(Cycles)
  BY <1>2, FS_Interval
<1>4. IsFiniteSet(Reqs)
  BY QuotaAssumption
<1> QED
  BY <1>1, <1>2, <1>3, <1>4, QuotaAssumption DEF Kinds

(* What the sums of QuotaLedger are. *)
LEMMA AmountSum ==
    ASSUME NEW f \in [Cycles -> Int]
    PROVE  Sum(f) = SumOf(f, Cycles)
<1> DEFINE Iter(g) == g = [s \in SUBSET Cycles |->
                             IF s = {} THEN 0 ELSE f[Pick(s)] + g[s \ {Pick(s)}]]
<1>1. Sum(f) = (CHOOSE g : Iter(g))[Cycles]
  BY DEF Sum, MapThenSumSet, MapThenFoldSet, Pick, Cycles
<1>2. ASSUME NEW g PROVE Iter(g) <=> IsTable(f, g, Cycles)
  BY DEF IsTable, Entry
<1>3. PICK g : IsTable(f, g, Cycles)
  BY QuotaGiven, TableExists
<1> HIDE DEF Iter
<1>4. Iter(CHOOSE h : Iter(h))
  BY <1>2, <1>3
<1>5. IsTable(f, CHOOSE h : Iter(h), Cycles)
  BY <1>2, <1>4
<1> QED
  BY <1>1, <1>5, QuotaGiven, SumOfAny

Holding(k, c) == [r \in Reqs |-> Holds(r, k, c)]
Booking(c) == [r \in Reqs |-> ToBook(r, c)]
InBooks(c) == [i \in RowsOf(c) |-> usage[i].seconds]

LEMMA HoldingSum ==
    ASSUME NEW k, NEW c, Holding(k, c) \in [Reqs -> Int]
    PROVE  SumOver(Reqs, LAMBDA r : Holds(r, k, c)) = SumOf(Holding(k, c), Reqs)
<1> DEFINE Iter(g) == g = [s \in SUBSET Reqs |->
                             IF s = {} THEN 0
                             ELSE Holds(Pick(s), k, c) + g[s \ {Pick(s)}]]
<1>1. SumOver(Reqs, LAMBDA r : Holds(r, k, c)) = (CHOOSE g : Iter(g))[Reqs]
  BY DEF SumOver, MapThenSumSet, MapThenFoldSet, Pick
<1>2. ASSUME NEW g PROVE Iter(g) <=> IsTable(Holding(k, c), g, Reqs)
  <2>1. \A s \in SUBSET Reqs :
          Entry(Holding(k, c), g, s)
            = IF s = {} THEN 0 ELSE Holds(Pick(s), k, c) + g[s \ {Pick(s)}]
    BY Picked DEF Entry, Holding
  <2>2. [s \in SUBSET Reqs |-> Entry(Holding(k, c), g, s)]
          = [s \in SUBSET Reqs |-> IF s = {} THEN 0
                                   ELSE Holds(Pick(s), k, c) + g[s \ {Pick(s)}]]
    BY <2>1
  <2> QED
    BY <2>2 DEF IsTable
<1>3. PICK g : IsTable(Holding(k, c), g, Reqs)
  BY QuotaGiven, TableExists
<1> HIDE DEF Iter
<1>4. Iter(CHOOSE h : Iter(h))
  BY <1>2, <1>3
<1>5. IsTable(Holding(k, c), CHOOSE h : Iter(h), Reqs)
  BY <1>2, <1>4
<1> QED
  BY <1>1, <1>5, QuotaGiven, SumOfAny

LEMMA BookingSum ==
    ASSUME NEW c, Booking(c) \in [Reqs -> Int]
    PROVE  SumOver(Reqs, LAMBDA r : ToBook(r, c)) = SumOf(Booking(c), Reqs)
<1> DEFINE Iter(g) == g = [s \in SUBSET Reqs |->
                             IF s = {} THEN 0
                             ELSE ToBook(Pick(s), c) + g[s \ {Pick(s)}]]
<1>1. SumOver(Reqs, LAMBDA r : ToBook(r, c)) = (CHOOSE g : Iter(g))[Reqs]
  BY DEF SumOver, MapThenSumSet, MapThenFoldSet, Pick
<1>2. ASSUME NEW g PROVE Iter(g) <=> IsTable(Booking(c), g, Reqs)
  <2>1. \A s \in SUBSET Reqs :
          Entry(Booking(c), g, s)
            = IF s = {} THEN 0 ELSE ToBook(Pick(s), c) + g[s \ {Pick(s)}]
    BY Picked DEF Entry, Booking
  <2>2. [s \in SUBSET Reqs |-> Entry(Booking(c), g, s)]
          = [s \in SUBSET Reqs |-> IF s = {} THEN 0
                                   ELSE ToBook(Pick(s), c) + g[s \ {Pick(s)}]]
    BY <2>1
  <2> QED
    BY <2>2 DEF IsTable
<1>3. PICK g : IsTable(Booking(c), g, Reqs)
  BY QuotaGiven, TableExists
<1> HIDE DEF Iter
<1>4. Iter(CHOOSE h : Iter(h))
  BY <1>2, <1>3
<1>5. IsTable(Booking(c), CHOOSE h : Iter(h), Reqs)
  BY <1>2, <1>4
<1> QED
  BY <1>1, <1>5, QuotaGiven, SumOfAny

LEMMA BookedSum ==
    ASSUME NEW c, IsFiniteSet(RowsOf(c)), InBooks(c) \in [RowsOf(c) -> Int]
    PROVE  Booked(c) = SumOf(InBooks(c), RowsOf(c))
<1> DEFINE S == RowsOf(c)
           Iter(g) == g = [s \in SUBSET S |->
                             IF s = {} THEN 0
                             ELSE usage[Pick(s)].seconds + g[s \ {Pick(s)}]]
<1>1. Booked(c) = (CHOOSE g : Iter(g))[S]
  BY DEF Booked, SumOver, MapThenSumSet, MapThenFoldSet, Pick
<1>2. ASSUME NEW g PROVE Iter(g) <=> IsTable(InBooks(c), g, S)
  <2>1. \A s \in SUBSET S :
          Entry(InBooks(c), g, s)
            = IF s = {} THEN 0 ELSE usage[Pick(s)].seconds + g[s \ {Pick(s)}]
    BY Picked DEF Entry, InBooks
  <2>2. [s \in SUBSET S |-> Entry(InBooks(c), g, s)]
          = [s \in SUBSET S |-> IF s = {} THEN 0
                                ELSE usage[Pick(s)].seconds + g[s \ {Pick(s)}]]
    BY <2>1
  <2> QED
    BY <2>2 DEF IsTable
<1>3. PICK g : IsTable(InBooks(c), g, S)
  BY TableExists
<1> HIDE DEF Iter
<1>4. Iter(CHOOSE h : Iter(h))
  BY <1>2, <1>3
<1>5. IsTable(InBooks(c), CHOOSE h : Iter(h), S)
  BY <1>2, <1>4
<1> QED
  BY <1>1, <1>5, SumOfAny

(* Types: cycles give what is above zero only, so that an amount is one. *)
States4 == {"idle", "expire", "take", "record", "find", "write", "done"}
Bill == [cycle : Cycles, seconds : Nat]
QTyped ==
    /\ used \in [Kinds -> PerCycle] /\ summary \in PerCycle
    /\ held \in [Cycles -> Reqs \cup {Nobody}]
    /\ pc \in [Reqs -> States4]
    /\ seen \in [Reqs -> PerCycle] /\ took \in [Reqs -> PerCycle] /\ wrote \in [Reqs -> PerCycle]
    /\ at \in [Reqs -> 1..(Len(Quotas) + 1)]
    /\ usage \in Seq(Bill)
    /\ found \in [Reqs -> Nat] /\ \A r \in Reqs : found[r] <= Len(usage)
    /\ faults \in 0..MaxFaults
    /\ \A r \in Reqs : pc[r] = "write" => at[r] \in Cycles

LEMMA WantedInt ==
    ASSUME QTyped, NEW r \in Reqs, NEW c \in Cycles
    PROVE  Wanted(r, c) \in Int /\ Left(r) \in Int
<1>1. took[r] \in [Cycles -> Int] /\ IsFiniteSet(Cycles)
  BY QuotaGiven DEF QTyped, PerCycle
<1>2. Sum(took[r]) \in Int
  BY <1>1, AmountSum, SumIn
<1>3. Left(r) \in Int
  BY <1>2, QuotaGiven DEF Left
<1>4. Quotas[c] \in Int /\ seen[r][c] \in Int
  BY QuotaGiven DEF QTyped, PerCycle
<1> QED
  BY <1>3, <1>4 DEF Wanted, Least

LEMMA ZeroAmount == Zero \in PerCycle /\ \A c \in Cycles : Zero[c] = 0
BY DEF Zero, PerCycle, Cycles

LEMMA QInit == ASSUME QuotaInit PROVE QTyped
<1>1. held = [c \in Cycles |-> Nobody] /\ pc = [r \in Reqs |-> "idle"]
      /\ at = [r \in Reqs |-> 1] /\ found = [r \in Reqs |-> 0] /\ usage = << >> /\ faults = 0
  BY DEF QuotaInit, Cycles
<1>2. used \in [Kinds -> PerCycle] /\ summary \in PerCycle /\ seen \in [Reqs -> PerCycle]
      /\ took = seen /\ wrote = seen
  BY ZeroAmount DEF QuotaInit, Kinds
<1>3. 1 \in 1..(Len(Quotas) + 1) /\ 0 \in 0..MaxFaults /\ << >> \in Seq(Bill) /\ Len(<< >>) = 0
  BY QuotaGiven
<1> QED
  BY <1>1, <1>2, <1>3 DEF QTyped, States4


(* What the parts of a step do to the types. *)
LEMMA QParts ==
    ASSUME QTyped, NEW r \in Reqs
    PROVE  /\ Fault => faults' \in 0..MaxFaults
           /\ at[r] \in Cycles /\ Onward(r) => at' \in [Reqs -> 1..(Len(Quotas) + 1)]
           /\ Rewind(r) => at' \in [Reqs -> 1..(Len(Quotas) + 1)]
           /\ \A to \in States4 : GoTo(r, to) => pc' \in [Reqs -> States4]
           /\ ~Over(r) => at[r] \in Cycles
           /\ Release(r) => held' \in [Cycles -> Reqs \cup {Nobody}]
           /\ [took EXCEPT ![r] = Zero] \in [Reqs -> PerCycle]
           /\ [wrote EXCEPT ![r] = Zero] \in [Reqs -> PerCycle]
           /\ \A k \in Kinds :
                [used EXCEPT ![k] = [c \in Cycles |-> used[k][c] + took[r][c]]] \in [Kinds -> PerCycle]
<1>1. Cycles = 1..Len(Quotas) /\ Len(Quotas) \in Nat /\ MaxFaults \in Nat
  BY QuotaGiven
<1>2. at \in [Reqs -> 1..(Len(Quotas) + 1)] /\ pc \in [Reqs -> States4] /\ faults \in 0..MaxFaults
  BY DEF QTyped
<1>3. Fault => faults' \in 0..MaxFaults
  BY <1>1, <1>2 DEF Fault
<1>4. at[r] \in Cycles /\ Onward(r) => at' \in [Reqs -> 1..(Len(Quotas) + 1)]
  BY <1>1, <1>2 DEF Onward
<1>5. Rewind(r) => at' \in [Reqs -> 1..(Len(Quotas) + 1)]
  BY <1>1, <1>2 DEF Rewind
<1>6. \A to \in States4 : GoTo(r, to) => pc' \in [Reqs -> States4]
  BY <1>2 DEF GoTo
<1>7. ~Over(r) => at[r] \in Cycles
  BY <1>1, <1>2 DEF Over
<1>8. Release(r) => held' \in [Cycles -> Reqs \cup {Nobody}]
  BY DEF Release, Cycles, QTyped
<1>9. /\ [took EXCEPT ![r] = Zero] \in [Reqs -> PerCycle]
      /\ [wrote EXCEPT ![r] = Zero] \in [Reqs -> PerCycle]
  BY ZeroAmount DEF QTyped
<1>10. ASSUME NEW k \in Kinds
       PROVE  [used EXCEPT ![k] = [c \in Cycles |-> used[k][c] + took[r][c]]] \in [Kinds -> PerCycle]
  <2>1. used[k] \in PerCycle /\ took[r] \in PerCycle /\ used \in [Kinds -> PerCycle]
    BY DEF QTyped
  <2>2. [c \in Cycles |-> used[k][c] + took[r][c]] \in PerCycle
    BY <2>1 DEF PerCycle
  <2> QED
    BY <2>1, <2>2
<1> QED
  BY <1>3, <1>4, <1>5, <1>6, <1>7, <1>8, <1>9, <1>10

(* Who is past the search for a row is at a cycle. *)
LEMMA QAtWrite ==
    ASSUME QTyped, NEW r \in Reqs, NEW to \in States4, GoTo(r, to),
           \A q \in Reqs \ {r} : at'[q] = at[q], to = "write" => at'[r] \in Cycles
    PROVE  \A q \in Reqs : pc'[q] = "write" => at'[q] \in Cycles
BY DEF QTyped, GoTo

LEMMA QKinds == "seconds" \in Kinds /\ "summary" \in Kinds
BY DEF Kinds

LEMMA QTakeTyped ==
    ASSUME QTyped, NEW r \in Reqs, TakeFrom(r)
    PROVE  QTyped'
<1>1. PICK c \in Cycles : c = at[r]
  BY QParts DEF TakeFrom
<1>2. at' \in [Reqs -> 1..(Len(Quotas) + 1)] /\ UNCHANGED pc /\ pc[r] = "take"
      /\ \A q \in Reqs \ {r} : at'[q] = at[q]
  BY <1>1, QParts DEF TakeFrom, Onward, QTyped
<1>3. UNCHANGED <<pc, seen, wrote, found, faults, used, usage, summary>>
  BY DEF TakeFrom, tables
<1>4. \/ UNCHANGED <<held, took>>
      \/ /\ Wanted(r, c) > 0 /\ held' = [held EXCEPT ![c] = r]
         /\ took' = [took EXCEPT ![r][c] = Wanted(r, c)]
  BY <1>1 DEF TakeFrom, Nth
<1>5. took' \in [Reqs -> PerCycle] /\ held' \in [Cycles -> Reqs \cup {Nobody}]
  <2>1. CASE UNCHANGED <<held, took>>
    BY <2>1 DEF QTyped
  <2>2. CASE /\ Wanted(r, c) > 0 /\ held' = [held EXCEPT ![c] = r]
             /\ took' = [took EXCEPT ![r][c] = Wanted(r, c)]
    <3>1. PICK n \in Nat : n = Wanted(r, c)
      BY <2>2, WantedInt
    <3>2. took \in [Reqs -> PerCycle] /\ [took[r] EXCEPT ![c] = n] \in PerCycle
      BY DEF PerCycle, QTyped
    <3>3. took' = [took EXCEPT ![r] = [took[r] EXCEPT ![c] = n]]
      BY <2>2, <3>1
    <3>4. took' \in [Reqs -> PerCycle]
      BY <3>2, <3>3
    <3> QED
      BY <2>2, <3>4 DEF QTyped
  <2> QED
    BY <1>4, <2>1, <2>2
<1>6. \A q \in Reqs : pc'[q] = "write" => at'[q] \in Cycles
  BY <1>2 DEF QTyped
<1> QED
  BY <1>2, <1>3, <1>5, <1>6 DEF QTyped

LEMMA QEnoughTyped ==
    ASSUME QTyped, NEW r \in Reqs, Enough(r)
    PROVE  QTyped'
<1>1. at' \in [Reqs -> 1..(Len(Quotas) + 1)] /\ \A q \in Reqs \ {r} : at'[q] = at[q]
  BY QParts DEF Enough, Rewind, QTyped
<1>2. PICK to \in {"record", "find"} : GoTo(r, to)
  BY DEF Enough
<1>3. to \in States4 /\ to # "write"
  BY DEF States4
<1>4. used' \in [Kinds -> PerCycle] /\ held' \in [Cycles -> Reqs \cup {Nobody}]
  <2>1. CASE UNCHANGED <<held, used>>
    BY <2>1 DEF QTyped
  <2>2. CASE /\ Release(r)
             /\ used' = [used EXCEPT !["seconds"] = [c \in Cycles |-> @[c] + took[r][c]]]
    BY <2>2, QParts, QKinds
  <2> QED
    BY <2>1, <2>2 DEF Enough, Cycles
<1>5. UNCHANGED <<seen, took, wrote, found, usage, summary, faults>>
  BY DEF Enough
<1> QED
  BY <1>1, <1>2, <1>3, <1>4, <1>5, QParts, QAtWrite DEF QTyped

LEMMA QEndTyped ==
    ASSUME QTyped, NEW r \in Reqs,
           GoTo(r, "done"), Release(r), UNCHANGED <<seen, at, found, used, usage, summary>>,
           took' \in [Reqs -> PerCycle], wrote' \in [Reqs -> PerCycle], faults' \in 0..MaxFaults
    PROVE  QTyped'
<1>1. "done" \in States4
  BY DEF States4
<1>2. pc' \in [Reqs -> States4] /\ held' \in [Cycles -> Reqs \cup {Nobody}]
  BY <1>1, QParts
<1>3. \A q \in Reqs : pc'[q] = "write" => at'[q] \in Cycles
  BY <1>1, QAtWrite
<1> QED
  BY <1>2, <1>3 DEF QTyped

LEMMA QRecordTyped ==
    ASSUME QTyped, NEW r \in Reqs, Record(r)
    PROVE  QTyped'
<1>1. CASE Fault /\ Lost(r)
  BY <1>1, QParts, QEndTyped DEF Lost, RollBack, tables
<1>2. CASE /\ wrote' = [wrote EXCEPT ![r][at[r]] = took[r][at[r]]]
           /\ Onward(r) /\ UNCHANGED <<pc, held, seen, took, found, faults, pass, tables>>
  <2>1. PICK c \in Cycles : c = at[r]
    BY QParts DEF Record
  <2>2. took[r] \in PerCycle /\ wrote[r] \in PerCycle /\ wrote \in [Reqs -> PerCycle]
    BY DEF QTyped
  <2>3. PICK n \in Nat : n = took[r][c]
    BY <2>2 DEF PerCycle
  <2>4. [wrote[r] EXCEPT ![c] = n] \in PerCycle
    BY <2>2 DEF PerCycle
  <2>5. wrote' = [wrote EXCEPT ![r] = [wrote[r] EXCEPT ![c] = n]]
    BY <1>2, <2>1, <2>3
  <2>6. wrote' \in [Reqs -> PerCycle]
    BY <2>2, <2>4, <2>5
  <2>7. at' \in [Reqs -> 1..(Len(Quotas) + 1)] /\ \A q \in Reqs \ {r} : at'[q] = at[q]
    BY <1>2, <2>1, QParts DEF Onward, QTyped
  <2>8. UNCHANGED <<pc, held, seen, took, found, faults, used, usage, summary>> /\ pc[r] = "record"
    BY <1>2 DEF tables, Record
  <2> QED
    BY <2>6, <2>7, <2>8 DEF QTyped
<1> QED
  BY <1>1, <1>2 DEF Record

LEMMA QCommitTyped ==
    ASSUME QTyped, NEW r \in Reqs, CommitSummary(r)
    PROVE  QTyped'
<1>1. used' = [used EXCEPT !["summary"] = [c \in Cycles |-> @[c] + took[r][c]]]
  BY DEF CommitSummary, Cycles
<1>2. used' \in [Kinds -> PerCycle]
  BY <1>1, QKinds, QParts
<1>3. summary' \in PerCycle
  <2>1. summary' = [c \in Cycles |-> summary[c] + wrote[r][c]]
    BY DEF CommitSummary, Cycles
  <2> QED
    BY <2>1 DEF QTyped, PerCycle
<1>4. pc' \in [Reqs -> States4] /\ held' \in [Cycles -> Reqs \cup {Nobody}] /\ "done" \in States4
  BY QParts DEF CommitSummary, States4
<1>5. \A q \in Reqs : pc'[q] = "write" => at'[q] \in Cycles
  BY <1>4, QAtWrite DEF CommitSummary
<1> QED
  BY <1>2, <1>3, <1>4, <1>5 DEF QTyped, CommitSummary

LEMMA QFindTyped ==
    ASSUME QTyped, NEW r \in Reqs, Find(r)
    PROVE  QTyped'
<1>1. UNCHANGED <<used, summary, held, seen, took, wrote, usage>>
  BY DEF Find, tables
<1>2. at[r] \in Cycles
  BY QParts DEF Find
<1>3. found' \in [Reqs -> Nat] /\ \A q \in Reqs : found'[q] <= Len(usage)
  <2>1. Len(usage) \in Nat /\ usage \in Seq(Bill)
    BY DEF QTyped
  <2>2. RowsOf(at[r]) \cup {0} \subseteq 0..Len(usage)
    BY <2>1 DEF RowsOf
  <2>3. found' = found \/ \E i \in 0..Len(usage) : found' = [found EXCEPT ![r] = i]
    BY <2>1, <2>2 DEF Find
  <2>4. found \in [Reqs -> Nat] /\ \A q \in Reqs : found[q] <= Len(usage)
    BY DEF QTyped
  <2>5. ASSUME NEW i \in 0..Len(usage), found' = [found EXCEPT ![r] = i]
        PROVE  found' \in [Reqs -> Nat] /\ \A q \in Reqs : found'[q] <= Len(usage)
    <3>1. i \in Nat /\ i <= Len(usage)
      BY <2>1, <2>5
    <3> QED
      BY <2>4, <2>5, <3>1
  <2> QED
    BY <2>3, <2>4, <2>5
<1>4. faults' \in 0..MaxFaults
  BY QParts DEF Find, QTyped
<1>5. CASE Onward(r) /\ UNCHANGED pc
  <2>1. at' \in [Reqs -> 1..(Len(Quotas) + 1)] /\ \A q \in Reqs \ {r} : at'[q] = at[q]
    BY <1>2, <1>5, QParts DEF Onward, QTyped
  <2>2. pc[r] = "find"
    BY DEF Find
  <2> QED
    BY <1>1, <1>3, <1>4, <1>5, <2>1, <2>2 DEF QTyped
<1>6. CASE GoTo(r, "write") /\ UNCHANGED at
  <2>1. "write" \in States4
    BY DEF States4
  <2>2. \A q \in Reqs : pc'[q] = "write" => at'[q] \in Cycles
    BY <1>2, <1>6, <2>1, QAtWrite
  <2> QED
    BY <1>1, <1>3, <1>4, <1>6, <2>1, <2>2, QParts DEF QTyped
<1> QED
  BY <1>5, <1>6 DEF Find

LEMMA QWriteTyped ==
    ASSUME QTyped, NEW r \in Reqs, WriteUsage(r)
    PROVE  QTyped'
<1>1. UNCHANGED <<used, summary, held, seen, took, wrote, found>>
  BY DEF WriteUsage
<1>2. at[r] \in Cycles /\ took[r][at[r]] \in Nat
  BY DEF WriteUsage, QTyped, PerCycle
<1>3. usage' \in Seq(Bill) /\ Len(usage') >= Len(usage)
  <2>1. usage \in Seq(Bill) /\ Len(usage) \in Nat /\ found[r] \in Nat /\ found[r] <= Len(usage)
    BY DEF QTyped
  <2>2. CASE found[r] # 0 /\ usage' = [usage EXCEPT ![found[r]].seconds = Added(r)]
    <3>1. found[r] \in 1..Len(usage)
      BY <2>1, <2>2
    <3>2. usage[found[r]] \in Bill
      BY <2>1, <3>1
    <3>3. PICK n \in Nat : n = Added(r)
      BY <1>2, <3>2 DEF Added, Bill
    <3>4. [usage[found[r]] EXCEPT !.seconds = n] \in Bill
      BY <3>2 DEF Bill
    <3>5. usage' = [usage EXCEPT ![found[r]] = [usage[found[r]] EXCEPT !.seconds = n]]
      BY <2>2, <3>3
    <3> QED
      BY <2>1, <3>1, <3>4, <3>5
  <2>3. CASE usage' = Append(usage, [cycle |-> at[r], seconds |-> took[r][at[r]]])
    <3>1. [cycle |-> at[r], seconds |-> took[r][at[r]]] \in Bill
      BY <1>2 DEF Bill
    <3> QED
      BY <2>1, <2>3, <3>1
  <2>4. CASE UNCHANGED usage
    BY <2>1, <2>4
  <2> QED
    BY <2>2, <2>3, <2>4 DEF WriteUsage
<1>4. found' \in [Reqs -> Nat] /\ \A q \in Reqs : found'[q] <= Len(usage')
  <2>1. Len(usage) \in Nat /\ Len(usage') \in Nat
    BY <1>3 DEF QTyped
  <2> QED
    BY <1>1, <1>3, <2>1 DEF QTyped
<1>5. at' \in [Reqs -> 1..(Len(Quotas) + 1)] /\ \A q \in Reqs \ {r} : at'[q] = at[q]
  BY <1>2, QParts DEF WriteUsage, Onward, QTyped
<1>6. "find" \in States4 /\ GoTo(r, "find")
  BY DEF States4, WriteUsage
<1>7. pc' \in [Reqs -> States4] /\ \A q \in Reqs : pc'[q] = "write" => at'[q] \in Cycles
  BY <1>5, <1>6, QParts, QAtWrite
<1>8. faults' \in 0..MaxFaults
  BY QParts DEF WriteUsage, QTyped
<1> QED
  BY <1>1, <1>3, <1>4, <1>5, <1>7, <1>8 DEF QTyped

LEMMA QListTyped ==
    ASSUME QTyped, NEW r \in Reqs, List(r)
    PROVE  QTyped'
<1>1. "take" \in States4 /\ GoTo(r, "take") /\ UNCHANGED at
  BY DEF States4, List
<1>2. pc' \in [Reqs -> States4] /\ \A q \in Reqs : pc'[q] = "write" => at'[q] \in Cycles
  BY <1>1, QParts, QAtWrite
<1>3. seen' \in [Reqs -> PerCycle]
  <2>1. used[Kind[r]] \in PerCycle /\ seen \in [Reqs -> PerCycle]
    BY QuotaGiven DEF QTyped
  <2>2. PICK f : f = [c \in Cycles |-> IF Listed(r, c) THEN used[Kind[r]][c] ELSE Quotas[c]]
    OBVIOUS
  <2>3. f \in PerCycle
    BY <2>1, <2>2, QuotaGiven DEF PerCycle
  <2>4. seen' = [seen EXCEPT ![r] = f]
    BY <2>2 DEF List
  <2> QED
    BY <2>1, <2>3, <2>4
<1> QED
  BY <1>2, <1>3 DEF QTyped, List, tables

(* The steps of the expiry pass. *)
LEMMA QPassTyped ==
    ASSUME QTyped, NEW r \in Reqs, Begin(r) \/ ListTier(r) \/ Mark(r)
    PROVE  QTyped'
<1>1. UNCHANGED <<used, summary, seen, at, took, wrote, found, usage, faults>>
  BY DEF Begin, ListTier, Mark, tables
<1>2. CASE Begin(r)
  <2>1. "expire" \in States4 /\ GoTo(r, "expire") /\ UNCHANGED held
    BY <1>2 DEF States4, Begin
  <2>2. pc' \in [Reqs -> States4] /\ \A q \in Reqs : pc'[q] = "write" => at'[q] \in Cycles
    BY <1>1, <2>1, QParts, QAtWrite
  <2> QED
    BY <1>1, <2>1, <2>2 DEF QTyped
<1>3. CASE ListTier(r)
  BY <1>1, <1>3 DEF QTyped, ListTier
<1>4. CASE Mark(r)
  <2>1. UNCHANGED pc /\ (UNCHANGED held \/ \E c \in Cycles : held' = [held EXCEPT ![c] = r])
    BY <1>4 DEF Mark
  <2>2. held' \in [Cycles -> Reqs \cup {Nobody}]
    BY <2>1 DEF QTyped
  <2> QED
    BY <1>1, <2>1, <2>2 DEF QTyped
<1> QED
  BY <1>2, <1>3, <1>4

LEMMA QDoneTyped ==
    ASSUME QTyped, NEW r \in Reqs, GoTo(r, "done"),
           faults' \in 0..MaxFaults,
           UNCHANGED <<held, seen, at, took, wrote, found, used, usage, summary>>
    PROVE  QTyped'
<1>1. "done" \in States4
  BY DEF States4
<1>2. pc' \in [Reqs -> States4] /\ \A q \in Reqs : pc'[q] = "write" => at'[q] \in Cycles
  BY <1>1, QParts, QAtWrite
<1> QED
  BY <1>2 DEF QTyped

LEMMA QNextTyped ==
    ASSUME QTyped, [QuotaNext]_quotaVars
    PROVE  QTyped'
<1>1. CASE UNCHANGED quotaVars
  BY <1>1 DEF quotaVars, QTyped
<1>r. ASSUME NEW r \in Reqs, RollBack(r), faults' \in 0..MaxFaults PROVE QTyped'
  BY <1>r, QParts, QEndTyped DEF RollBack, tables
<1>2. ASSUME NEW r \in Reqs, Refuse(r) \/ Stale(r) \/ Victim(r) PROVE QTyped'
  BY <1>2, <1>r DEF Refuse, Stale, Victim, QTyped
<1>p. CASE PeriodEnds
  BY <1>p DEF PeriodEnds, QTyped
<1>3. ASSUME NEW r \in Reqs, Written(r) PROVE QTyped'
  <2>1. faults' \in 0..MaxFaults
    BY <1>3 DEF Written, QTyped
  <2> QED
    BY <1>3, <2>1, QDoneTyped DEF Written, tables
<1>4. ASSUME NEW r \in Reqs, CutOff(r) PROVE QTyped'
  <2>1. faults' \in 0..MaxFaults
    BY <1>4, QParts DEF CutOff
  <2>2. CASE RollBack(r)
    BY <2>1, <2>2, <1>r
  <2>3. CASE GoTo(r, "done") /\ UNCHANGED <<held, seen, at, took, wrote, found, pass, tables>>
    BY <2>1, <2>3, QDoneTyped DEF tables
  <2> QED
    BY <1>4, <2>2, <2>3 DEF CutOff
<1> QED
  BY <1>1, <1>p, <1>2, <1>3, <1>4, QPassTyped, QListTyped, QTakeTyped, QEnoughTyped, QRecordTyped, QCommitTyped,
     QFindTyped, QWriteTyped DEF QuotaNext, Work

-----------------------------------------------------------------------------
(* Neither quota is exceeded.  What an open transaction has taken of a      *)
(* cycle it holds the lock of, so no other has taken of it.                 *)

Bounded == \A k \in Kinds, c \in Cycles : used[k][c] <= Quotas[c]
Secure(r) ==
    /\ Open(r) => \A c \in Cycles : took[r][c] > 0 =>
         held[c] = r /\ used[Kind[r]][c] + took[r][c] <= Quotas[c]
    /\ pc[r] \in {"idle", "expire"} => \A c \in Cycles : took[r][c] = 0
    /\ pc[r] = "record" => Kind[r] = "summary"
QInv == QTyped /\ Bounded /\ \A r \in Reqs : Secure(r)

(* A step of one request leaves the others alone, and what they hold. *)
Spares(r) == \A q \in Reqs \ {r} :
    /\ pc'[q] = pc[q] /\ took'[q] = took[q]
    /\ \A c \in Cycles : held[c] = q => held'[c] = q /\ \A k \in Kinds : used'[k][c] = used[k][c]

LEMMA QOthersSecure ==
    ASSUME NEW r \in Reqs, NEW q \in Reqs \ {r}, Secure(q), Spares(r)
    PROVE  Secure(q)'
<1>1. Kind[q] \in Kinds /\ pc'[q] = pc[q] /\ took'[q] = took[q]
  BY QuotaGiven DEF Spares
<1>2. \A c \in Cycles : held[c] = q => held'[c] = q /\ used'[Kind[q]][c] = used[Kind[q]][c]
  BY <1>1 DEF Spares
<1> QED
  BY <1>1, <1>2 DEF Secure, Open

(* What a transaction that ends leaves to the others, and what it adds. *)
LEMMA QEndSpares ==
    ASSUME QTyped, NEW r \in Reqs, Release(r), Nobody \notin Reqs, NEW to \in States4, GoTo(r, to),
           \A q \in Reqs \ {r} : took'[q] = took[q],
           \A k \in Kinds, c \in Cycles : held[c] \in Reqs \ {r} => used'[k][c] = used[k][c]
    PROVE  Spares(r)
<1>1. \A c \in Cycles : held'[c] = IF held[c] = r THEN Nobody ELSE held[c]
  BY DEF Release, Cycles
<1>2. \A q \in Reqs \ {r} : pc'[q] = pc[q]
  BY DEF GoTo, QTyped
<1> QED
  BY <1>1, <1>2 DEF Spares

LEMMA QChargeBounded ==
    ASSUME QInv, NEW r \in Reqs, Open(r), NEW to \in States4,
           GoTo(r, to), Release(r), UNCHANGED took,
           used' = [used EXCEPT ![Kind[r]] = [c \in Cycles |-> @[c] + took[r][c]]]
    PROVE  Bounded' /\ Spares(r)
<1>1. Kind[r] \in Kinds /\ Nobody \notin Reqs
  BY QuotaGiven
<1>2. used \in [Kinds -> PerCycle] /\ took[r] \in PerCycle
  BY DEF QInv, QTyped
<1>3. \A k \in Kinds, c \in Cycles :
        used'[k][c] = IF k = Kind[r] THEN used[k][c] + took[r][c] ELSE used[k][c]
  BY <1>1, <1>2
<1>4. \A c \in Cycles : took[r][c] \in Nat /\ Quotas[c] \in Nat /\ \A k \in Kinds : used[k][c] \in Nat
  BY <1>2, QuotaGiven DEF PerCycle
<1>5. ASSUME NEW k \in Kinds, NEW c \in Cycles PROVE used'[k][c] <= Quotas[c]
  <2>1. used[k][c] <= Quotas[c]
    BY DEF QInv, Bounded
  <2>2. took[r][c] > 0 => used[Kind[r]][c] + took[r][c] <= Quotas[c]
    BY DEF QInv, Secure
  <2> QED
    BY <2>1, <2>2, <1>3, <1>4
<1>6. ASSUME NEW k \in Kinds, NEW c \in Cycles, held[c] \in Reqs \ {r}
      PROVE  used'[k][c] = used[k][c]
  <2>1. ~(took[r][c] > 0)
    BY <1>6 DEF QInv, Secure
  <2>2. took[r][c] = 0
    BY <2>1, <1>4
  <2> QED
    BY <2>2, <1>3, <1>4
<1>7. Spares(r)
  BY <1>1, <1>6, QEndSpares DEF QInv
<1> QED
  BY <1>5, <1>7 DEF Bounded

LEMMA QTakeSecure ==
    ASSUME QInv, NEW r \in Reqs, TakeFrom(r)
    PROVE  Bounded' /\ Spares(r) /\ Secure(r)'
<1>1. PICK c \in Cycles : c = at[r]
  BY QParts DEF TakeFrom, QInv
<1>2. UNCHANGED <<pc, used>> /\ pc[r] = "take" /\ Open(r)
  BY DEF TakeFrom, tables, Open
<1>3. CASE UNCHANGED <<held, took>>
  BY <1>2, <1>3 DEF QInv, Bounded, Spares, Secure, Open
<1>4. CASE /\ Wanted(r, c) > 0 /\ held[c] = Nobody /\ RoomFor(r, c)
           /\ held' = [held EXCEPT ![c] = r]
           /\ took' = [took EXCEPT ![r][c] = Wanted(r, c)]
  <2>1. held \in [Cycles -> Reqs \cup {Nobody}] /\ took \in [Reqs -> PerCycle] /\ Nobody \notin Reqs
    BY QuotaGiven DEF QInv, QTyped
  <2>2. Wanted(r, c) \in Int
    BY WantedInt DEF QInv
  <2>3. /\ held'[c] = r /\ \A d \in Cycles \ {c} : held'[d] = held[d]
        /\ \A q \in Reqs \ {r} : took'[q] = took[q]
        /\ took'[r][c] = Wanted(r, c) /\ \A d \in Cycles \ {c} : took'[r][d] = took[r][d]
    BY <1>4, <2>1 DEF PerCycle
  <2>4. used[Kind[r]][c] + Wanted(r, c) <= Quotas[c]
    BY <1>4 DEF RoomFor
  <2>5. Spares(r)
    BY <1>2, <1>4, <2>1, <2>3 DEF Spares
  <2>6. Secure(r)'
    <3>1. \A d \in Cycles \ {c} : took[r][d] > 0 =>
             held[d] = r /\ used[Kind[r]][d] + took[r][d] <= Quotas[d]
      BY <1>2 DEF QInv, Secure
    <3>2. \A d \in Cycles : took'[r][d] > 0 =>
             held'[d] = r /\ used'[Kind[r]][d] + took'[r][d] <= Quotas[d]
      BY <1>2, <2>3, <2>4, <3>1
    <3> QED
      BY <1>2, <3>2 DEF Secure
  <2> QED
    BY <1>2, <2>5, <2>6 DEF QInv, Bounded
<1> QED
  BY <1>1, <1>3, <1>4 DEF TakeFrom, Nth

LEMMA QNextInv ==
    ASSUME QInv, [QuotaNext]_quotaVars
    PROVE  QInv'
<1>1. QTyped'
  BY QNextTyped DEF QInv
<1>2. Nobody \notin Reqs /\ QTyped /\ {"expire", "take", "record", "find", "write", "done"} \subseteq States4
  BY QuotaGiven DEF QInv, States4
<1>3. CASE UNCHANGED quotaVars
  BY <1>1, <1>3 DEF quotaVars, QInv, Bounded, Secure, Open
<1>4. ASSUME NEW r \in Reqs, Bounded', Spares(r), Secure(r)' PROVE QInv'
  BY <1>1, <1>4, QOthersSecure DEF QInv
<1>5. ASSUME NEW r \in Reqs, UNCHANGED <<used, held, took>>, NEW to, to \in States4, GoTo(r, to)
      PROVE  Bounded' /\ Spares(r)
  <2>1. \A q \in Reqs \ {r} : pc'[q] = pc[q]
    BY <1>2, <1>5 DEF GoTo, QTyped
  <2> QED
    BY <1>5, <2>1 DEF QInv, Bounded, Spares
<1>6. ASSUME NEW r \in Reqs, UNCHANGED used, GoTo(r, "done"), Release(r),
             took' = [took EXCEPT ![r] = Zero]
      PROVE  QInv'
  <2>1. \A q \in Reqs \ {r} : took'[q] = took[q]
    BY <1>2, <1>6 DEF QTyped
  <2>2. Spares(r)
    BY <1>2, <1>6, <2>1, QEndSpares
  <2>3. pc'[r] = "done"
    BY <1>2, <1>6 DEF GoTo, QTyped
  <2> QED
    BY <1>4, <1>6, <2>2, <2>3 DEF QInv, Bounded, Secure, Open
<1>7. ASSUME NEW r \in Reqs, List(r) PROVE QInv'
  <2>1. pc[r] = "expire" /\ pc'[r] = "take" /\ UNCHANGED <<used, held, took>> /\ GoTo(r, "take")
    BY <1>2, <1>7 DEF List, GoTo, QTyped, tables
  <2>2. Secure(r)'
    BY <2>1 DEF QInv, Secure
  <2> QED
    BY <1>2, <1>4, <1>5, <2>1, <2>2
<1>p. CASE PeriodEnds
  BY <1>1, <1>p DEF PeriodEnds, QInv, Bounded, Secure, Open
<1>b. ASSUME NEW r \in Reqs, Begin(r) PROVE QInv'
  <2>1. pc[r] = "idle" /\ pc'[r] = "expire" /\ UNCHANGED <<used, held, took>> /\ GoTo(r, "expire")
    BY <1>2, <1>b DEF Begin, GoTo, QTyped, tables
  <2>2. Secure(r)'
    BY <2>1 DEF QInv, Secure, Open
  <2> QED
    BY <1>2, <1>4, <1>5, <2>1, <2>2
<1>t. ASSUME NEW r \in Reqs, ListTier(r) PROVE QInv'
  BY <1>1, <1>t DEF ListTier, tables, QInv, Bounded, Secure, Open
<1>m. ASSUME NEW r \in Reqs, Mark(r) PROVE QInv'
  <2>1. UNCHANGED <<pc, used, took>> /\ pc[r] = "expire"
    BY <1>m DEF Mark, tables
  <2>2. \A c \in Cycles : held[c] # Nobody => held'[c] = held[c]
    BY <1>2, <1>m DEF Mark, QTyped
  <2>3. Spares(r)
    BY <1>2, <2>1, <2>2 DEF Spares
  <2>4. Secure(r)'
    BY <1>2, <2>1, <2>2 DEF QInv, Secure, Open
  <2> QED
    BY <1>4, <2>1, <2>3, <2>4 DEF QInv, Bounded
<1>8. ASSUME NEW r \in Reqs, Refuse(r) \/ Stale(r) \/ Victim(r) \/ RollBack(r) PROVE QInv'
  BY <1>6, <1>8 DEF Refuse, Stale, Victim, RollBack, tables
<1>9. ASSUME NEW r \in Reqs, Enough(r) PROVE QInv'
  <2>1. CASE Kind[r] = "summary"
    <3>1. pc[r] = "take" /\ pc'[r] = "record" /\ UNCHANGED <<used, held, took>> /\ GoTo(r, "record")
      BY <1>2, <1>9, <2>1 DEF Enough, GoTo, QTyped
    <3>2. Secure(r)'
      BY <2>1, <3>1 DEF QInv, Secure, Open
    <3> QED
      BY <1>2, <1>4, <1>5, <3>1, <3>2
  <2>2. CASE Kind[r] = "seconds"
    <3>1. /\ Open(r) /\ pc'[r] = "find" /\ UNCHANGED took /\ GoTo(r, "find") /\ Release(r)
          /\ used' = [used EXCEPT ![Kind[r]] = [c \in Cycles |-> @[c] + took[r][c]]]
      BY <1>2, <1>9, <2>2 DEF Enough, GoTo, QTyped, Open, Cycles
    <3>2. Bounded' /\ Spares(r)
      BY <1>2, <3>1, QChargeBounded
    <3>3. Secure(r)'
      BY <3>1 DEF Secure, Open
    <3> QED
      BY <1>4, <3>2, <3>3
  <2> QED
    BY <1>9, <2>1, <2>2 DEF Enough
<1>10. ASSUME NEW r \in Reqs, Record(r) PROVE QInv'
  <2>1. CASE Lost(r)
    BY <1>8, <2>1 DEF Lost
  <2>2. CASE UNCHANGED <<pc, held, took, used>>
    BY <1>1, <2>2 DEF QInv, Bounded, Secure, Open
  <2> QED
    BY <1>10, <2>1, <2>2 DEF Record, tables
<1>11. ASSUME NEW r \in Reqs, CommitSummary(r) PROVE QInv'
  <2>k. Kind[r] = "summary"
    BY <1>11 DEF CommitSummary, QInv, Secure
  <2>1. /\ Open(r) /\ pc'[r] = "done" /\ UNCHANGED took /\ GoTo(r, "done") /\ Release(r)
        /\ used' = [used EXCEPT ![Kind[r]] = [c \in Cycles |-> @[c] + took[r][c]]]
    BY <1>2, <1>11, <2>k DEF CommitSummary, GoTo, QTyped, Open, Cycles
  <2>2. Bounded' /\ Spares(r)
    BY <1>2, <2>1, QChargeBounded
  <2>3. Secure(r)'
    BY <2>1 DEF Secure, Open
  <2> QED
    BY <1>4, <2>2, <2>3
<1>12. ASSUME NEW r \in Reqs, UNCHANGED <<used, held, took>>,
              pc' = pc \/ \E to \in {"find", "write", "done"} : GoTo(r, to)
       PROVE  QInv'
  <2>1. CASE pc' = pc
    BY <1>1, <1>12, <2>1 DEF QInv, Bounded, Secure, Open
  <2>2. CASE \E to \in {"find", "write", "done"} : GoTo(r, to)
    <3>1. PICK to \in {"find", "write", "done"} : GoTo(r, to)
      BY <2>2
    <3>2. pc'[r] = to /\ to \in States4
      BY <1>2, <3>1 DEF GoTo, QTyped
    <3>3. Secure(r)'
      BY <3>2 DEF Secure, Open
    <3> QED
      BY <1>4, <1>5, <1>12, <3>1, <3>2, <3>3
  <2> QED
    BY <1>12, <2>1, <2>2
<1>13. ASSUME NEW r \in Reqs, Find(r) \/ WriteUsage(r) \/ Written(r) PROVE QInv'
  BY <1>12, <1>13 DEF Find, WriteUsage, Written, tables
<1>14. ASSUME NEW r \in Reqs, CutOff(r) PROVE QInv'
  BY <1>8, <1>12, <1>14 DEF CutOff, tables
<1>15. ASSUME NEW r \in Reqs, TakeFrom(r) PROVE QInv'
  BY <1>4, <1>15, QTakeSecure
<1> QED
  BY <1>3, <1>p, <1>b, <1>t, <1>m, <1>7, <1>8, <1>9, <1>10, <1>11, <1>13, <1>14, <1>15
     DEF QuotaNext, Work

LEMMA QInitInv == ASSUME QuotaInit PROVE QInv
<1>1. used = [k \in Kinds |-> Zero] /\ pc = [r \in Reqs |-> "idle"] /\ took = [r \in Reqs |-> Zero]
  BY DEF QuotaInit, Kinds
<1>2. \A c \in Cycles : Zero[c] = 0 /\ 0 <= Quotas[c]
  BY ZeroAmount, QuotaGiven
<1> QED
  BY <1>1, <1>2, QInit DEF QInv, Bounded, Secure, Open

LEMMA QSpecInv == QuotaSpec => []QInv
<1>1. QuotaInit => QInv
  BY QInitInv
<1>2. QInv /\ [QuotaNext]_quotaVars => QInv'
  BY QNextInv
<1> QED
  BY <1>1, <1>2, PTL DEF QuotaSpec

(* Neither quota of a cycle is exceeded, counting what open transactions    *)
(* hold, for any number of requests and cycles, though every request decides *)
(* from a list read without a lock (IncrementUsage, IncrementSummaryUsage). *)
THEOREM QuotasKept == QuotaSpec => []QuotaKept
<1>1. QInv => QuotaKept
  <2> SUFFICES ASSUME QInv, NEW k \in Kinds, NEW c \in Cycles
               PROVE  used[k][c] + SumOver(Reqs, LAMBDA r : Holds(r, k, c)) <= Quotas[c]
    BY DEF QuotaKept, Kinds, Cycles
  <2>1. IsFiniteSet(Reqs) /\ Kind \in [Reqs -> Kinds] /\ Quotas[c] \in Nat
    BY QuotaGiven
  <2>2. used[k][c] \in Nat /\ \A r \in Reqs : took[r][c] \in Nat
    BY DEF QInv, QTyped, PerCycle
  <2>3. Holding(k, c) \in [Reqs -> Int]
    BY <2>2 DEF Holding, Holds
  <2>4. \A r \in Reqs : Holding(k, c)[r] > 0 =>
           held[c] = r /\ used[k][c] + Holding(k, c)[r] <= Quotas[c]
    BY DEF QInv, Secure, Holding, Holds
  <2>5. \A r \in Reqs : Holding(k, c)[r] \in Nat
    BY <2>2 DEF Holding, Holds
  <2>6. used[k][c] <= Quotas[c]
    BY DEF QInv, Bounded
  <2>7. used[k][c] + SumOf(Holding(k, c), Reqs) <= Quotas[c]
    <3>1. CASE \A r \in Reqs : Holding(k, c)[r] = 0
      <4>1. SumOf(Holding(k, c), Reqs) = 0
        BY <2>1, <2>3, <3>1, SumZero
      <4> QED
        BY <2>2, <2>6, <4>1
    <3>2. CASE \E r \in Reqs : Holding(k, c)[r] # 0
      <4>1. PICK r \in Reqs : Holding(k, c)[r] # 0
        BY <3>2
      <4>2. Holding(k, c)[r] > 0
        BY <2>5, <4>1
      <4>3. \A q \in Reqs : q # r => Holding(k, c)[q] = 0
        BY <2>4, <2>5, <4>2
      <4>4. SumOf(Holding(k, c), Reqs) = Holding(k, c)[r]
        BY <2>1, <2>3, <4>3, SumOne, SMTT(30)
      <4> QED
        BY <2>4, <4>2, <4>4
    <3> QED
      BY <3>1, <3>2
  <2> QED
    BY <2>3, <2>7, HoldingSum
<1>2. QuotaSpec => []QInv
  BY QSpecInv
<1> QED
  BY <1>1, <1>2, PTL

-----------------------------------------------------------------------------
(* Waiting in a circle.  Increments go upwards: what a transaction holds of  *)
(* its increments is behind it, and what it waits for is before it.          *)
Upwards(r) == pc[r] = "take" => \A c \in Cycles : took[r][c] > 0 => c < at[r]
QUp == QInv /\ \A r \in Reqs : Upwards(r)

LEMMA QNextUp ==
    ASSUME QUp, [QuotaNext]_quotaVars
    PROVE  QUp'
<1>1. QInv' /\ QInv /\ QTyped
  BY QNextInv DEF QUp, QInv
<1>2. /\ pc \in [Reqs -> States4] /\ at \in [Reqs -> 1..(Len(Quotas) + 1)]
      /\ took \in [Reqs -> PerCycle] /\ Cycles \subseteq Nat
  BY <1>1, QuotaGiven DEF QTyped
<1>3. CASE UNCHANGED <<pc, at, took>>
  BY <1>1, <1>3 DEF QUp, Upwards
<1>4. ASSUME NEW r \in Reqs, pc'[r] # "take",
             \A q \in Reqs \ {r} : pc'[q] = pc[q] /\ at'[q] = at[q] /\ took'[q] = took[q]
      PROVE  QUp'
  BY <1>1, <1>4 DEF QUp, Upwards
<1>5. ASSUME NEW r \in Reqs, RollBack(r) PROVE QUp'
  <2>1. UNCHANGED at /\ pc'[r] = "done"
        /\ \A q \in Reqs \ {r} : pc'[q] = pc[q] /\ took'[q] = took[q]
    BY <1>2, <1>5 DEF RollBack, GoTo
  <2> QED
    BY <1>4, <2>1
<1>6. ASSUME NEW r \in Reqs, Begin(r) \/ Enough(r) \/ CommitSummary(r) PROVE QUp'
  <2>1. /\ pc'[r] # "take" /\ UNCHANGED took
        /\ \A q \in Reqs \ {r} : pc'[q] = pc[q] /\ at'[q] = at[q]
    BY <1>2, <1>6 DEF Begin, Enough, CommitSummary, GoTo, Rewind
  <2> QED
    BY <1>4, <2>1
<1>7. ASSUME NEW r \in Reqs, Record(r) PROVE QUp'
  <2>1. CASE Lost(r)
    BY <1>5, <2>1 DEF Lost
  <2>2. CASE Onward(r) /\ UNCHANGED <<pc, held, seen, took, found, faults, pass, tables>>
    <3>1. pc'[r] # "take" /\ \A q \in Reqs \ {r} : at'[q] = at[q]
      BY <1>2, <1>7, <2>2 DEF Record, Onward
    <3> QED
      BY <1>4, <2>2, <3>1
  <2> QED
    BY <1>7, <2>1, <2>2 DEF Record
<1>8. ASSUME NEW r \in Reqs, Find(r) \/ WriteUsage(r) \/ Written(r) PROVE QUp'
  <2>1. /\ pc'[r] # "take" /\ UNCHANGED took
        /\ \A q \in Reqs \ {r} : pc'[q] = pc[q] /\ at'[q] = at[q]
    BY <1>2, <1>8 DEF Find, WriteUsage, Written, GoTo, Onward
  <2> QED
    BY <1>4, <2>1
<1>9. ASSUME NEW r \in Reqs, CutOff(r) PROVE QUp'
  <2>1. CASE GoTo(r, "done") /\ UNCHANGED <<held, seen, at, took, wrote, found, pass, tables>>
    <3>1. pc'[r] # "take" /\ \A q \in Reqs \ {r} : pc'[q] = pc[q]
      BY <1>2, <2>1 DEF GoTo
    <3> QED
      BY <1>4, <2>1, <3>1
  <2> QED
    BY <1>5, <1>9, <2>1 DEF CutOff
<1>10. ASSUME NEW r \in Reqs, List(r) PROVE QUp'
  <2>1. /\ UNCHANGED <<at, took>> /\ \A q \in Reqs \ {r} : pc'[q] = pc[q]
        /\ \A c \in Cycles : took[r][c] = 0
    BY <1>1, <1>2, <1>10 DEF List, GoTo, QInv, Secure
  <2> QED
    BY <1>1, <2>1 DEF QUp, Upwards
<1>11. ASSUME NEW r \in Reqs, TakeFrom(r) PROVE QUp'
  <2>1. PICK c \in Cycles : c = at[r]
    BY <1>1, <1>11, QParts DEF TakeFrom
  <2>2. /\ at'[r] = c + 1 /\ UNCHANGED pc /\ pc[r] = "take"
        /\ \A q \in Reqs \ {r} : at'[q] = at[q] /\ took'[q] = took[q]
        /\ \A d \in Cycles \ {c} : took'[r][d] = took[r][d]
    BY <1>2, <1>11, <2>1 DEF TakeFrom, Nth, Onward, PerCycle
  <2>3. \A d \in Cycles : d < c => d < c + 1
    BY <1>2
  <2>4. Upwards(r)'
    BY <1>2, <2>1, <2>2, <2>3 DEF QUp, Upwards
  <2> QED
    BY <1>1, <2>2, <2>4 DEF QUp, Upwards
<1>12. CASE UNCHANGED quotaVars
  BY <1>3, <1>12 DEF quotaVars
<1>13. CASE PeriodEnds
  BY <1>3, <1>13 DEF PeriodEnds
<1>14. ASSUME NEW r \in Reqs, ListTier(r) \/ Mark(r) PROVE QUp'
  BY <1>3, <1>14 DEF ListTier, Mark
<1>15. ASSUME NEW r \in Reqs, Refuse(r) \/ Stale(r) \/ Victim(r) PROVE QUp'
  BY <1>5, <1>15 DEF Refuse, Stale, Victim
<1> QED
  BY <1>6, <1>7, <1>8, <1>9, <1>10, <1>11, <1>12, <1>13, <1>14, <1>15 DEF QuotaNext, Work

(* A set of numbers up to n has a greatest one. *)
LEMMA Greatest ==
    ASSUME NEW n \in Nat, NEW T \in SUBSET (0..n), T # {}
    PROVE  \E x \in T : \A y \in T : ~(x < y)
<1> DEFINE U == {n - x : x \in T}
           R == OpToRel(<, Nat)
<1>0. IsWellFoundedOn(R, Nat) /\ \A c, d \in Nat : d < c => <<d, c>> \in R
  BY NatLessThanWellFounded DEF OpToRel
<1>1. U \subseteq Nat /\ U # {}
  <2>1. \A x \in T : n - x \in Nat
    OBVIOUS
  <2> QED
    BY <2>1
<1> HIDE DEF R
<1>2. PICK u \in U : \A v \in U : ~(<<v, u>> \in R)
  BY <1>0, <1>1, WFMin
<1>3. \A v \in U : ~(v < u)
  BY <1>0, <1>1, <1>2
<1>4. PICK x \in T : u = n - x
  OBVIOUS
<1>5. \A y \in T : ~(x < y)
  <2> SUFFICES ASSUME NEW y \in T, x < y PROVE FALSE
    OBVIOUS
  <2>1. n - y \in U /\ n - y < u
    BY <1>4
  <2> QED
    BY <1>3, <2>1
<1> QED
  BY <1>5

(* Transactions that have marked no expired cycle do not wait for each other *)
(* in a circle: the increments of both kinds lock the cycles in one order,   *)
(* for any number of requests and cycles (sort.Slice in both).               *)
THEOREM CirclesByExpiry == QuotaSpec => []OnlyExpiryCircles
<1>1. QuotaInit => QUp
  <2>1. QuotaInit => \A r \in Reqs : pc[r] = "idle"
    BY DEF QuotaInit
  <2> QED
    BY <2>1, QInitInv DEF QUp, Upwards
<1>2. QUp /\ [QuotaNext]_quotaVars => QUp'
  BY QNextUp
<1>3. QUp => OnlyExpiryCircles
  <2> SUFFICES ASSUME QUp, NEW S \in SUBSET Reqs, Circle(S), \A r \in S : Marked(r) = {}
               PROVE  FALSE
    BY DEF OnlyExpiryCircles
  <2>1. /\ QInv /\ QTyped /\ Cycles = 1..Len(Quotas) /\ Len(Quotas) \in Nat
        /\ at \in [Reqs -> 1..(Len(Quotas) + 1)] /\ took \in [Reqs -> PerCycle]
    BY QuotaGiven DEF QUp, QInv, QTyped
  <2>2. ASSUME NEW q \in S, NEW c \in Cycles, held[c] = q PROVE took[q][c] > 0
    <3>1. took[q][c] # 0
      BY <2>2 DEF Marked
    <3>2. took[q][c] \in Nat
      BY <2>1 DEF PerCycle
    <3> QED
      BY <3>1, <3>2
  <2>3. ASSUME NEW r \in S, NEW q \in S, WaitsFor(r, q)
        PROVE  pc[q] = "take" /\ \E c \in Cycles : held[c] = q /\ (pc[r] = "take" => c = at[r])
    <3>1. PICK c \in Cycles : held[c] = q /\ (pc[r] = "take" => c = at[r])
      <4>1. CASE pc[r] = "expire"
        BY <2>3, <4>1 DEF WaitsFor
      <4>2. CASE pc[r] # "expire"
        <5>1. ~Over(r) /\ held[at[r]] = q
          BY <2>3, <4>2 DEF WaitsFor, Nth
        <5>2. at[r] \in Cycles
          BY <2>1, <5>1, QParts
        <5> QED
          BY <5>1, <5>2
      <4> QED
        BY <4>1, <4>2
    <3>2. took[q][c] > 0
      BY <2>2, <3>1
    <3>3. pc[q] \in {"expire", "take"}
      BY DEF Circle, WaitsFor
    <3>4. took[q][c] \in Nat
      BY <2>1 DEF PerCycle
    <3>5. pc[q] = "take"
      BY <2>1, <3>2, <3>3, <3>4 DEF QInv, Secure
    <3> QED
      BY <3>1, <3>5
  <2>4. \A r \in S : pc[r] = "take"
    BY <2>3 DEF Circle
  <2>5. ASSUME NEW r \in S PROVE \E q \in S : at[r] < at[q]
    <3>1. PICK q \in S : WaitsFor(r, q)
      BY DEF Circle
    <3>2. PICK c \in Cycles : held[c] = q /\ c = at[r]
      BY <2>3, <2>4, <3>1
    <3>3. took[q][c] > 0
      BY <2>2, <3>2
    <3>4. pc[q] = "take" /\ Upwards(q)
      BY <2>4 DEF QUp
    <3> QED
      BY <3>2, <3>3, <3>4 DEF Upwards
  <2>6. PICK n \in Nat : n = Len(Quotas) + 1
    BY <2>1
  <2>7. {at[r] : r \in S} \in SUBSET (0..n) /\ {at[r] : r \in S} # {}
    <3>1. \A r \in S : at[r] \in 0..n
      BY <2>1, <2>6
    <3> QED
      BY <3>1 DEF Circle
  <2>8. PICK r \in S : \A q \in S : ~(at[r] < at[q])
    BY <2>7, Greatest
  <2> QED
    BY <2>5, <2>8
<1> QED
  BY <1>1, <1>2, <1>3, PTL DEF QuotaSpec

-----------------------------------------------------------------------------
(* The ledger of summaries.                                                 *)
Copied(r) == pc[r] = "record" => \A c \in Cycles : c < at[r] => wrote[r][c] = took[r][c]
Agreed == QInv /\ summary = used["summary"] /\ \A r \in Reqs : Copied(r)

LEMMA QNextAgreed ==
    ASSUME Agreed, [QuotaNext]_quotaVars
    PROVE  Agreed'
<1>1. QInv' /\ QInv /\ QTyped
  BY QNextInv DEF Agreed, QInv
<1>2. CASE UNCHANGED quotaVars
  BY <1>1, <1>2 DEF Agreed, Copied, quotaVars
<1>3. /\ pc \in [Reqs -> States4] /\ at \in [Reqs -> 1..(Len(Quotas) + 1)]
      /\ took \in [Reqs -> PerCycle] /\ wrote \in [Reqs -> PerCycle] /\ used \in [Kinds -> PerCycle]
      /\ summary \in PerCycle
  BY <1>1 DEF QTyped
\* A step of r that changes neither table, and that r does not record after.
<1>4. ASSUME NEW r \in Reqs, used'["summary"] = used["summary"], UNCHANGED summary, Copied(r)',
             \A q \in Reqs \ {r} : /\ pc'[q] = pc[q] /\ at'[q] = at[q]
                                   /\ took'[q] = took[q] /\ wrote'[q] = wrote[q]
      PROVE  Agreed'
  BY <1>1, <1>4 DEF Agreed, Copied
<1>5. ASSUME NEW r \in Reqs, List(r) \/ Find(r) \/ WriteUsage(r) \/ Written(r)
      PROVE  Agreed'
  <2>1. pc'[r] # "record" /\ UNCHANGED <<used, summary, wrote>>
    BY <1>3, <1>5 DEF List, Find, WriteUsage, Written, GoTo, tables
  <2>2. \A q \in Reqs \ {r} : pc'[q] = pc[q] /\ at'[q] = at[q] /\ took'[q] = took[q]
    BY <1>3, <1>5 DEF List, Find, WriteUsage, Written, GoTo, Onward
  <2> QED
    BY <1>4, <2>1, <2>2 DEF Copied
<1>p. CASE PeriodEnds
  BY <1>1, <1>p DEF PeriodEnds, Agreed, Copied
<1>m. ASSUME NEW r \in Reqs, Begin(r) \/ ListTier(r) \/ Mark(r) PROVE Agreed'
  <2>1. pc'[r] # "record" /\ UNCHANGED <<used, summary, wrote, at, took>>
    BY <1>3, <1>m DEF Begin, ListTier, Mark, GoTo, tables
  <2>2. \A q \in Reqs \ {r} : pc'[q] = pc[q]
    BY <1>3, <1>m DEF Begin, ListTier, Mark, GoTo
  <2> QED
    BY <1>4, <2>1, <2>2 DEF Copied
<1>6. ASSUME NEW r \in Reqs, TakeFrom(r) PROVE Agreed'
  <2>1. UNCHANGED <<pc, used, summary, wrote>> /\ pc[r] = "take"
    BY <1>6 DEF TakeFrom, tables
  <2>2. \A q \in Reqs \ {r} : at'[q] = at[q] /\ took'[q] = took[q]
    BY <1>3, <1>6 DEF TakeFrom, Onward
  <2> QED
    BY <1>4, <2>1, <2>2 DEF Copied
<1>7. ASSUME NEW r \in Reqs, Enough(r) PROVE Agreed'
  <2>1. UNCHANGED <<summary, wrote, took>> /\ used'["summary"] = used["summary"]
    BY <1>3, <1>7, QKinds DEF Enough
  <2>2. /\ \A q \in Reqs \ {r} : at'[q] = at[q] /\ pc'[q] = pc[q]
        /\ at'[r] = 1
    BY <1>3, <1>7 DEF Enough, Rewind, GoTo
  <2>3. \A c \in Cycles : ~(c < 1)
    BY QuotaGiven
  <2> QED
    BY <1>4, <2>1, <2>2, <2>3 DEF Copied
<1>8. ASSUME NEW r \in Reqs, RollBack(r) PROVE Agreed'
  <2>1. pc'[r] = "done" /\ UNCHANGED <<used, summary, at>>
    BY <1>3, <1>8 DEF RollBack, GoTo, tables
  <2>2. \A q \in Reqs \ {r} : pc'[q] = pc[q] /\ took'[q] = took[q] /\ wrote'[q] = wrote[q]
    BY <1>3, <1>8 DEF RollBack, GoTo
  <2> QED
    BY <1>4, <2>1, <2>2 DEF Copied
<1>v. ASSUME NEW r \in Reqs, Refuse(r) \/ Stale(r) \/ Victim(r) PROVE Agreed'
  BY <1>8, <1>v DEF Refuse, Stale, Victim
<1>9. ASSUME NEW r \in Reqs, Record(r) PROVE Agreed'
  <2>1. CASE Lost(r)
    BY <1>8, <2>1 DEF Lost
  <2>2. CASE /\ wrote' = [wrote EXCEPT ![r][at[r]] = took[r][at[r]]]
             /\ Onward(r) /\ UNCHANGED <<pc, held, seen, took, found, faults, pass, tables>>
    <3>1. PICK c \in Cycles : c = at[r]
      BY <1>1, <1>9, QParts DEF Record
    <3>2. /\ at'[r] = c + 1 /\ wrote'[r][c] = took[r][c]
          /\ \A d \in Cycles \ {c} : wrote'[r][d] = wrote[r][d]
      BY <1>3, <2>2, <3>1 DEF Onward, PerCycle
    <3>3. \A q \in Reqs \ {r} : at'[q] = at[q] /\ wrote'[q] = wrote[q]
      BY <1>3, <2>2 DEF Onward
    <3>4. \A d \in Cycles : d < c + 1 => d < c \/ d = c
      BY <3>1, QuotaGiven
    <3>5. Copied(r)'
      BY <2>2, <3>1, <3>2, <3>4 DEF Agreed, Copied
    <3> QED
      BY <1>4, <2>2, <3>3, <3>5 DEF tables
  <2> QED
    BY <1>9, <2>1, <2>2 DEF Record
<1>10. ASSUME NEW r \in Reqs, CommitSummary(r) PROVE Agreed'
  <2>1. \A c \in Cycles : wrote[r][c] = took[r][c]
    <3>1. \A c \in Cycles : c < at[r]
      BY <1>3, <1>10, QuotaGiven DEF CommitSummary, Over
    <3> QED
      BY <1>10, <3>1 DEF Agreed, Copied, CommitSummary
  <2>2. /\ used'["summary"] = [c \in Cycles |-> used["summary"][c] + took[r][c]]
        /\ summary' = [c \in Cycles |-> summary[c] + wrote[r][c]]
    BY <1>3, <1>10, QKinds DEF CommitSummary, Cycles
  <2>3. summary' = used'["summary"]
    BY <2>1, <2>2 DEF Agreed
  <2>4. pc'[r] = "done" /\ \A q \in Reqs \ {r} : pc'[q] = pc[q]
    BY <1>3, <1>10 DEF CommitSummary, GoTo
  <2>5. UNCHANGED <<at, took, wrote>>
    BY <1>10 DEF CommitSummary
  <2> QED
    BY <1>1, <2>3, <2>4, <2>5 DEF Agreed, Copied
<1>11. ASSUME NEW r \in Reqs, CutOff(r) PROVE Agreed'
  <2>1. CASE GoTo(r, "done") /\ UNCHANGED <<held, seen, at, took, wrote, found, pass, tables>>
    <3>1. pc'[r] = "done" /\ \A q \in Reqs \ {r} : pc'[q] = pc[q]
      BY <1>3, <2>1 DEF GoTo
    <3> QED
      BY <1>4, <2>1, <3>1 DEF Copied, tables
  <2> QED
    BY <1>8, <1>11, <2>1 DEF CutOff
<1> QED
  BY <1>2, <1>p, <1>m, <1>v, <1>5, <1>6, <1>7, <1>9, <1>10, <1>11 DEF QuotaNext, Work

(* summary_ledger says of every cycle what was taken, whichever statement   *)
(* of ConsumeSummaryQuota fails, for any number of requests and cycles.     *)
THEOREM SummariesAgree == QuotaSpec => []SummaryAgrees
<1>1. QuotaInit => Agreed
  <2>1. QuotaInit => summary = used["summary"]
    BY DEF QuotaInit, Kinds
  <2> QED
    BY <2>1, QInitInv DEF Agreed, Copied, QuotaInit
<1>2. Agreed /\ [QuotaNext]_quotaVars => Agreed'
  BY QNextAgreed
<1>3. Agreed => SummaryAgrees
  BY DEF Agreed, SummaryAgrees
<1> QED
  BY <1>1, <1>2, <1>3, PTL DEF QuotaSpec

-----------------------------------------------------------------------------
(* The ledger of usage.  What it says of a cycle, with what is still to be  *)
(* written of it, is what was taken, unless a statement has failed.         *)
BookedAll(c) == SumOf(InBooks(c), RowsOf(c)) + SumOf(Booking(c), Reqs)
Fair(c) == /\ BookedAll(c) <= used["seconds"][c]
           /\ faults = 0 => BookedAll(c) = used["seconds"][c]
RowRight(r) == pc[r] = "write" /\ found[r] # 0 => usage[found[r]].cycle = at[r]
BooksRight == QTyped /\ (\A c \in Cycles : Fair(c)) /\ \A r \in Reqs : RowRight(r)

LEMMA RowsTypes ==
    ASSUME QTyped, NEW c
    PROVE  /\ DOMAIN usage = 1..Len(usage) /\ Len(usage) \in Nat
           /\ RowsOf(c) \subseteq 1..Len(usage)
           /\ IsFiniteSet(RowsOf(c))
           /\ InBooks(c) \in [RowsOf(c) -> Nat]
           /\ SumOf(InBooks(c), RowsOf(c)) \in Int
<1>1. usage \in Seq(Bill) /\ DOMAIN usage = 1..Len(usage) /\ Len(usage) \in Nat
  BY DEF QTyped
<1>2. RowsOf(c) \subseteq 1..Len(usage)
  BY <1>1 DEF RowsOf
<1>3. IsFiniteSet(RowsOf(c))
  <2>1. IsFiniteSet(1..Len(usage))
    BY <1>1, FS_Interval
  <2> QED
    BY <1>2, <2>1, FS_Subset
<1>4. InBooks(c) \in [RowsOf(c) -> Nat]
  <2>1. \A i \in 1..Len(usage) : usage[i] \in Bill
    BY <1>1
  <2>2. \A i \in 1..Len(usage) : usage[i].seconds \in Nat
    BY <2>1 DEF Bill
  <2> QED
    BY <1>2, <2>2 DEF InBooks
<1>5. InBooks(c) \in [RowsOf(c) -> Int]
  BY <1>4
<1> QED
  BY <1>1, <1>2, <1>3, <1>4, <1>5, SumIn

LEMMA BookingTypes ==
    ASSUME QTyped, NEW c \in Cycles
    PROVE  /\ IsFiniteSet(Reqs)
           /\ Booking(c) \in [Reqs -> Nat] /\ Booking(c) \in [Reqs -> Int]
           /\ SumOf(Booking(c), Reqs) \in Int /\ used["seconds"][c] \in Nat
           /\ BookedAll(c) \in Int
<1>1. IsFiniteSet(Reqs) /\ \A r \in Reqs : took[r][c] \in Nat
  BY QuotaGiven DEF QTyped, PerCycle
<1>2. Booking(c) \in [Reqs -> Nat]
  BY <1>1 DEF Booking, ToBook
<1>3. Booking(c) \in [Reqs -> Int]
  BY <1>2
<1>4. SumOf(Booking(c), Reqs) \in Int
  BY <1>1, <1>3, SumIn
<1>5. used["seconds"][c] \in Nat
  BY QKinds DEF QTyped, PerCycle
<1>6. SumOf(InBooks(c), RowsOf(c)) \in Int
  BY RowsTypes
<1> QED
  BY <1>1, <1>2, <1>3, <1>4, <1>5, <1>6 DEF BookedAll

(* A step of r moves the sum by what r has to write. *)
LEMMA BookingChange ==
    ASSUME QTyped, QTyped', NEW r \in Reqs, NEW c \in Cycles,
           \A q \in Reqs \ {r} : pc'[q] = pc[q] /\ at'[q] = at[q] /\ took'[q] = took[q]
    PROVE  SumOf(Booking(c)', Reqs)
             = SumOf(Booking(c), Reqs) + (ToBook(r, c)' - ToBook(r, c))
<1>1. IsFiniteSet(Reqs) /\ Booking(c) \in [Reqs -> Int]
  BY BookingTypes
<1>2. PICK h : h = Booking(c)'
  OBVIOUS
<1>3. \A q \in Reqs : took'[q][c] \in Nat
  BY DEF QTyped, PerCycle
<1>4. h = [q \in Reqs |-> IF pc'[q] \in {"find", "write"} /\ c >= at'[q] THEN took'[q][c] ELSE 0]
  BY <1>2 DEF Booking, ToBook
<1>5. h \in [Reqs -> Int]
  BY <1>3, <1>4
<1>6. h[r] = ToBook(r, c)'
  BY <1>4 DEF ToBook
<1>7. Booking(c)[r] = ToBook(r, c)
  BY DEF Booking
<1>8. \A q \in Reqs : q # r => h[q] = Booking(c)[q]
  BY <1>4 DEF Booking, ToBook
<1>9. SumOf(h, Reqs) = SumOf(Booking(c), Reqs) + (h[r] - Booking(c)[r])
  <2>1. MovesAt(Reqs, Booking(c), h, r)
    BY <1>1, <1>5, <1>8 DEF MovesAt
  <2> QED
    BY <2>1, SumMoves
<1> QED
  BY <1>2, <1>6, <1>7, <1>9

(* A step that leaves the ledger alone: what r has to write is taken anew,  *)
(* or given up with a fault.                                                *)
LEMMA BooksStep ==
    ASSUME BooksRight, QTyped', NEW r \in Reqs, UNCHANGED <<usage>>,
           \A q \in Reqs \ {r} : /\ pc'[q] = pc[q] /\ at'[q] = at[q]
                                 /\ took'[q] = took[q] /\ found'[q] = found[q],
           \A c \in Cycles :
             \/ ToBook(r, c)' = ToBook(r, c) /\ used'["seconds"][c] = used["seconds"][c]
             \/ /\ ToBook(r, c)' = took[r][c] /\ ToBook(r, c) = 0
                /\ used'["seconds"][c] = used["seconds"][c] + took[r][c]
             \/ /\ ToBook(r, c)' = 0 /\ used'["seconds"][c] = used["seconds"][c]
                /\ faults' # 0,
           faults' = 0 => faults = 0,
           RowRight(r)'
    PROVE  BooksRight'
<1>1. ASSUME NEW c \in Cycles PROVE Fair(c)'
  <2>1. /\ BookedAll(c) \in Int /\ used["seconds"][c] \in Nat
        /\ SumOf(Booking(c), Reqs) \in Int /\ SumOf(InBooks(c), RowsOf(c)) \in Int
        /\ ToBook(r, c) \in Nat /\ ToBook(r, c)' \in Nat /\ took[r][c] \in Nat
    <3>1. took[r][c] \in Nat /\ took'[r][c] \in Nat
      BY DEF BooksRight, QTyped, PerCycle
    <3> QED
      BY <3>1, BookingTypes, RowsTypes DEF BooksRight, ToBook
  <2>2. InBooks(c)' = InBooks(c) /\ RowsOf(c)' = RowsOf(c)
    BY DEF InBooks, RowsOf
  <2>3. SumOf(Booking(c)', Reqs)
          = SumOf(Booking(c), Reqs) + (ToBook(r, c)' - ToBook(r, c))
    BY BookingChange DEF BooksRight
  <2>4. BookedAll(c)' = BookedAll(c) + (ToBook(r, c)' - ToBook(r, c))
    BY <2>1, <2>2, <2>3 DEF BookedAll
  <2>5. BookedAll(c) <= used["seconds"][c] /\ (faults = 0 => BookedAll(c) = used["seconds"][c])
    BY DEF BooksRight, Fair
  <2>6. BookedAll(c)' <= used'["seconds"][c]
        /\ (faults' = 0 => BookedAll(c)' = used'["seconds"][c])
    <3>1. CASE ToBook(r, c)' = ToBook(r, c) /\ used'["seconds"][c] = used["seconds"][c]
      BY <2>1, <2>4, <2>5, <3>1
    <3>2. CASE /\ ToBook(r, c)' = took[r][c] /\ ToBook(r, c) = 0
               /\ used'["seconds"][c] = used["seconds"][c] + took[r][c]
      BY <2>1, <2>4, <2>5, <3>2
    <3>3. CASE /\ ToBook(r, c)' = 0 /\ used'["seconds"][c] = used["seconds"][c]
               /\ faults' # 0
      BY <2>1, <2>4, <2>5, <3>3
    <3> QED
      BY <3>1, <3>2, <3>3
  <2> QED
    BY <2>6 DEF Fair
<1>2. ASSUME NEW q \in Reqs PROVE RowRight(q)'
  <2>1. CASE q = r
    BY <2>1
  <2>2. CASE q # r
    BY <2>2 DEF BooksRight, RowRight
  <2> QED
    BY <2>1, <2>2
<1> QED
  BY <1>1, <1>2 DEF BooksRight

(* What is written moves from what is to be written into the ledger. *)
LEMMA BooksRow ==
    ASSUME QTyped, QTyped', NEW r \in Reqs, NEW c \in Cycles, c = at[r],
           NEW i \in 1..Len(usage),
           usage[i].cycle = c,
           usage' = [usage EXCEPT ![i].seconds = usage[i].seconds + took[r][c]]
    PROVE  \A d \in Cycles :
             SumOf(InBooks(d)', RowsOf(d)')
               = SumOf(InBooks(d), RowsOf(d)) + (IF d = c THEN took[r][c] ELSE 0)
<1>1. /\ usage \in Seq(Bill) /\ DOMAIN usage = 1..Len(usage) /\ Len(usage) \in Nat
      /\ took[r][c] \in Nat
  BY DEF QTyped, PerCycle
<1>b. usage[i] \in Bill
  BY <1>1
<1>2. PICK n \in Nat : n = usage[i].seconds + took[r][c]
  BY <1>1, <1>b, SMTT(30) DEF Bill
<1>3. usage' = [usage EXCEPT ![i] = [usage[i] EXCEPT !.seconds = n]]
  BY <1>2
<1>e. PICK e : e = [usage[i] EXCEPT !.seconds = n]
  OBVIOUS
<1>4. /\ DOMAIN usage' = 1..Len(usage)
      /\ usage'[i].cycle = c /\ usage'[i].seconds = n
      /\ \A j \in 1..Len(usage) : j # i => usage'[j] = usage[j]
  <2>1. e.cycle = c /\ e.seconds = n
    BY <1>b, <1>e DEF Bill
  <2> QED
    BY <1>1, <1>3, <1>e, <2>1
<1>5. ASSUME NEW d \in Cycles
      PROVE SumOf(InBooks(d)', RowsOf(d)')
              = SumOf(InBooks(d), RowsOf(d)) + (IF d = c THEN took[r][c] ELSE 0)
  <2>1. RowsOf(d)' = RowsOf(d)
    BY <1>1, <1>4 DEF RowsOf
  <2>2. /\ IsFiniteSet(RowsOf(d)) /\ InBooks(d) \in [RowsOf(d) -> Nat]
        /\ SumOf(InBooks(d), RowsOf(d)) \in Int /\ RowsOf(d) \subseteq 1..Len(usage)
    BY RowsTypes
  <2>3. PICK h : h = InBooks(d)'
    OBVIOUS
  <2>4. h = [j \in RowsOf(d) |-> usage'[j].seconds]
    BY <2>1, <2>3 DEF InBooks
  <2>5. CASE d = c
    <3>1. i \in RowsOf(d)
      BY <1>1, <2>5 DEF RowsOf
    <3>2. \A j \in RowsOf(d) : j # i => h[j] = InBooks(d)[j]
      BY <1>4, <2>2, <2>4 DEF InBooks
    <3>3. h[i] = n /\ InBooks(d)[i] = usage[i].seconds /\ InBooks(d)[i] \in Nat
      BY <1>4, <2>2, <2>4, <3>1 DEF InBooks
    <3>4. \A j \in RowsOf(d) : h[j] \in Int
      BY <2>2, <3>2, <3>3
    <3>5. h \in [RowsOf(d) -> Int] /\ InBooks(d) \in [RowsOf(d) -> Int]
      BY <2>2, <2>4, <3>4
    <3>6. SumOf(h, RowsOf(d)) = SumOf(InBooks(d), RowsOf(d)) + (h[i] - InBooks(d)[i])
      <4>1. MovesAt(RowsOf(d), InBooks(d), h, i)
        BY <2>2, <3>1, <3>2, <3>5 DEF MovesAt
      <4> QED
        BY <4>1, SumMoves
    <3>7. h[i] - InBooks(d)[i] = took[r][c]
      BY <1>1, <1>2, <3>3
    <3> QED
      BY <2>1, <2>3, <2>5, <3>6, <3>7
  <2>6. CASE d # c
    <3>1. i \notin RowsOf(d)
      BY <2>6 DEF RowsOf
    <3>2. h = InBooks(d)
      BY <1>4, <2>2, <2>4, <3>1 DEF InBooks
    <3> QED
      BY <2>1, <2>2, <2>3, <2>6, <3>2
  <2> QED
    BY <2>5, <2>6
<1> QED
  BY <1>5

LEMMA BooksAppend ==
    ASSUME QTyped, QTyped', NEW r \in Reqs, NEW c \in Cycles, c = at[r],
           usage' = Append(usage, [cycle |-> c, seconds |-> took[r][c]])
    PROVE  \A d \in Cycles :
             SumOf(InBooks(d)', RowsOf(d)')
               = SumOf(InBooks(d), RowsOf(d)) + (IF d = c THEN took[r][c] ELSE 0)
<1>1. /\ usage \in Seq(Bill) /\ DOMAIN usage = 1..Len(usage) /\ Len(usage) \in Nat
      /\ took[r][c] \in Nat
  BY DEF QTyped, PerCycle
<1>2. PICK i : i = Len(usage) + 1
  OBVIOUS
<1>3. /\ DOMAIN usage' = 1..Len(usage) \cup {i} /\ i \notin 1..Len(usage)
      /\ usage'[i] = [cycle |-> c, seconds |-> took[r][c]]
      /\ \A j \in 1..Len(usage) : usage'[j] = usage[j]
  BY <1>1, <1>2
<1>4. ASSUME NEW d \in Cycles
      PROVE SumOf(InBooks(d)', RowsOf(d)')
              = SumOf(InBooks(d), RowsOf(d)) + (IF d = c THEN took[r][c] ELSE 0)
  <2>1. RowsOf(d)' = IF d = c THEN RowsOf(d) \cup {i} ELSE RowsOf(d)
    BY <1>1, <1>3 DEF RowsOf
  <2>2. /\ IsFiniteSet(RowsOf(d)) /\ InBooks(d) \in [RowsOf(d) -> Nat]
        /\ SumOf(InBooks(d), RowsOf(d)) \in Int /\ RowsOf(d) \subseteq 1..Len(usage)
    BY RowsTypes
  <2>3. PICK h : h = InBooks(d)'
    OBVIOUS
  <2>4. h = [j \in RowsOf(d)' |-> usage'[j].seconds]
    BY <2>3 DEF InBooks
  <2>5. \A j \in RowsOf(d) : h[j] = InBooks(d)[j]
    BY <1>3, <2>1, <2>2, <2>4 DEF InBooks
  <2>6. CASE d = c
    <3>1. RowsOf(d)' = RowsOf(d) \cup {i} /\ i \notin RowsOf(d)
      BY <1>3, <2>1, <2>2, <2>6
    <3>2. h[i] = took[r][c] /\ h[i] \in Int
      BY <1>1, <1>3, <2>4, <3>1
    <3>0. PICK f \in [RowsOf(d) -> Int] : f = InBooks(d)
      BY <2>2
    <3>3. h \in [RowsOf(d) \cup {i} -> Int]
      <4>1. \A j \in RowsOf(d) : h[j] \in Int
        BY <2>5, <3>0
      <4> QED
        BY <2>4, <3>1, <3>2, <4>1
    <3>4. SumOf(h, RowsOf(d) \cup {i}) = SumOf(InBooks(d), RowsOf(d)) + h[i]
      BY <2>2, <2>5, <3>0, <3>1, <3>3, SumJoin, ZenonT(60)
    <3> QED
      BY <2>3, <2>6, <3>1, <3>2, <3>4
  <2>7. CASE d # c
    <3>1. h = InBooks(d) /\ RowsOf(d)' = RowsOf(d)
      BY <2>1, <2>4, <2>5, <2>7 DEF InBooks
    <3> QED
      BY <2>2, <2>3, <2>7, <3>1
  <2> QED
    BY <2>6, <2>7
<1> QED
  BY <1>4

LEMMA BooksWrite ==
    ASSUME BooksRight, QTyped', NEW r \in Reqs, WriteUsage(r)
    PROVE  BooksRight'
<1>1. QTyped /\ at[r] \in Cycles /\ pc[r] = "write"
  BY DEF BooksRight, QTyped, WriteUsage
<1>2. PICK c \in Cycles : c = at[r]
  BY <1>1
<1>3. /\ UNCHANGED <<took, used, found>> /\ pc'[r] = "find" /\ at'[r] = c + 1
      /\ \A q \in Reqs \ {r} : pc'[q] = pc[q] /\ at'[q] = at[q]
  BY <1>1, <1>2 DEF WriteUsage, GoTo, Onward, QTyped
<1>4. Cycles \subseteq Nat /\ took[r][c] \in Nat /\ Len(usage) \in Nat /\ usage \in Seq(Bill)
      /\ DOMAIN usage = 1..Len(usage)
  <2>1. Cycles \subseteq Nat
    BY QuotaGiven
  <2>2. usage \in Seq(Bill) /\ took[r][c] \in Nat
    BY <1>1 DEF QTyped, PerCycle
  <2> QED
    BY <2>1, <2>2
<1>5. \A d \in Cycles : /\ d # c => ToBook(r, d)' = ToBook(r, d)
                        /\ ToBook(r, c)' = 0 /\ ToBook(r, c) = took[r][c]
  BY <1>1, <1>2, <1>3, <1>4 DEF ToBook
<1>6. RowRight(r)'
  BY <1>3 DEF RowRight
<1>7. CASE Fault /\ UNCHANGED usage
  <2>1. faults' # 0 /\ (faults' = 0 => faults = 0)
    BY <1>1, <1>7, QuotaGiven DEF Fault, QTyped
  <2>2. \A d \in Cycles :
          \/ ToBook(r, d)' = ToBook(r, d) /\ used'["seconds"][d] = used["seconds"][d]
          \/ ToBook(r, d)' = 0 /\ used'["seconds"][d] = used["seconds"][d] /\ faults' # 0
    BY <1>3, <1>5, <2>1
  <2> QED
    BY <1>3, <1>6, <1>7, <2>1, <2>2, BooksStep
<1>8. CASE /\ UNCHANGED faults
           /\ \A d \in Cycles :
                SumOf(InBooks(d)', RowsOf(d)')
                  = SumOf(InBooks(d), RowsOf(d)) + (IF d = c THEN took[r][c] ELSE 0)
           /\ \A i \in 1..Len(usage) : i \in 1..Len(usage') /\ usage'[i].cycle = usage[i].cycle
  <2>1. ASSUME NEW d \in Cycles PROVE Fair(d)'
    <3>1. SumOf(Booking(d)', Reqs)
            = SumOf(Booking(d), Reqs) + (ToBook(r, d)' - ToBook(r, d))
      BY <1>1, <1>3, BookingChange
    <3>2. /\ SumOf(Booking(d), Reqs) \in Int /\ SumOf(InBooks(d), RowsOf(d)) \in Int
          /\ ToBook(r, d) \in Int
      <4>1. took[r][d] \in Nat
        BY <1>1 DEF QTyped, PerCycle
      <4> QED
        BY <1>1, <4>1, BookingTypes, RowsTypes DEF ToBook
    <3>3. BookedAll(d)' = BookedAll(d)
      BY <1>4, <1>5, <1>8, <3>1, <3>2 DEF BookedAll
    <3> QED
      BY <1>3, <1>8, <3>3 DEF Fair, BooksRight
  <2>2. ASSUME NEW q \in Reqs PROVE RowRight(q)'
    <3>1. CASE q = r
      BY <1>6, <3>1
    <3>2. CASE q # r
      <4>1. found[q] # 0 => found[q] \in 1..Len(usage)
        BY <1>1, <1>4 DEF QTyped
      <4> QED
        BY <1>3, <1>8, <3>2, <4>1 DEF BooksRight, RowRight
    <3> QED
      BY <3>1, <3>2
  <2> QED
    BY <2>1, <2>2 DEF BooksRight
<1>9. CASE UNCHANGED faults /\ found[r] # 0 /\ usage' = [usage EXCEPT ![found[r]].seconds = Added(r)]
  <2>1. PICK i \in 1..Len(usage) : i = found[r]
    BY <1>1, <1>4, <1>9 DEF QTyped
  <2>2. usage[i].cycle = c
    BY <1>1, <1>2, <1>9, <2>1 DEF BooksRight, RowRight
  <2>3. usage' = [usage EXCEPT ![i].seconds = usage[i].seconds + took[r][c]]
    BY <1>2, <1>9, <2>1 DEF Added
  <2>4. \A j \in 1..Len(usage) : j \in 1..Len(usage') /\ usage'[j].cycle = usage[j].cycle
    BY <1>4, <2>3 DEF Bill
  <2>5. \A d \in Cycles :
          SumOf(InBooks(d)', RowsOf(d)')
            = SumOf(InBooks(d), RowsOf(d)) + (IF d = c THEN took[r][c] ELSE 0)
    BY <1>1, <1>2, <2>2, <2>3, BooksRow
  <2> QED
    BY <1>8, <1>9, <2>4, <2>5
<1>10. CASE UNCHANGED faults /\ usage' = Append(usage, [cycle |-> at[r], seconds |-> took[r][at[r]]])
  <2>1. \A j \in 1..Len(usage) : j \in 1..Len(usage') /\ usage'[j].cycle = usage[j].cycle
    BY <1>4, <1>10
  <2> QED
    BY <1>1, <1>2, <1>8, <1>10, <2>1, BooksAppend
<1> QED
  BY <1>7, <1>9, <1>10 DEF WriteUsage

LEMMA BooksFind ==
    ASSUME BooksRight, QTyped', NEW r \in Reqs, Find(r)
    PROVE  BooksRight'
<1>1. QTyped /\ pc[r] = "find" /\ at[r] \in Cycles
  BY QParts DEF BooksRight, Find
<1>2. UNCHANGED <<took, used, usage>> /\ Cycles \subseteq Nat
  BY QuotaGiven DEF Find, tables
<1>3. \A q \in Reqs \ {r} : pc'[q] = pc[q] /\ at'[q] = at[q] /\ found'[q] = found[q]
  BY <1>1 DEF Find, GoTo, Onward, QTyped
<1>4. faults' = 0 => faults = 0
  BY <1>1, QuotaGiven DEF Find, Fault, QTyped
<1>5. CASE took[r][at[r]] = 0 /\ Onward(r) /\ UNCHANGED <<pc, found, faults>>
  <2>1. at'[r] = at[r] + 1
    BY <1>1, <1>5 DEF Onward, QTyped
  <2>2. \A c \in Cycles : ToBook(r, c)' = ToBook(r, c)
    <3>1. at[r] \in Nat /\ \A c \in Cycles : c \in Nat
      BY <1>1, <1>2
    <3>2. \A c \in Cycles : c >= at'[r] <=> c >= at[r] /\ c # at[r]
      BY <2>1, <3>1
    <3> QED
      BY <1>1, <1>2, <1>5, <3>2 DEF ToBook
  <2>3. RowRight(r)'
    BY <1>1, <1>5 DEF RowRight
  <2> QED
    BY <1>2, <1>3, <1>4, <1>5, <2>2, <2>3, BooksStep
<1>6. CASE GoTo(r, "write") /\ UNCHANGED at
  <2>1. pc'[r] = "write"
    BY <1>1, <1>6 DEF GoTo, QTyped
  <2>2. \A c \in Cycles : ToBook(r, c)' = ToBook(r, c)
    BY <1>1, <1>2, <1>6, <2>1 DEF ToBook
  <2>3. found'[r] \in RowsOf(at[r]) \cup {0}
    BY <1>1, <1>5, <1>6, <2>1 DEF Find, QTyped
  <2>4. RowRight(r)'
    BY <1>2, <1>6, <2>3 DEF RowRight, RowsOf
  <2> QED
    BY <1>2, <1>3, <1>4, <2>2, <2>4, BooksStep
<1> QED
  BY <1>5, <1>6 DEF Find

LEMMA QNextBooked ==
    ASSUME BooksRight, [QuotaNext]_quotaVars
    PROVE  BooksRight'
<1>1. QTyped' /\ QTyped
  BY QNextTyped DEF BooksRight
<1>2. CASE UNCHANGED quotaVars
  BY <1>1, <1>2 DEF quotaVars, BooksRight, Fair, BookedAll, RowRight, InBooks, Booking, 
     RowsOf, ToBook
<1>3. /\ pc \in [Reqs -> States4] /\ at \in [Reqs -> 1..(Len(Quotas) + 1)]
      /\ took \in [Reqs -> PerCycle] /\ used \in [Kinds -> PerCycle] /\ faults \in Nat
      /\ Cycles \subseteq Nat /\ Cycles = 1..Len(Quotas) /\ Len(Quotas) \in Nat
  BY <1>1, QuotaGiven DEF QTyped
\* A request that is not at the ledger, before the step or after it.
<1>4. ASSUME NEW r \in Reqs, UNCHANGED <<usage, found>>, used'["seconds"] = used["seconds"],
             pc[r] \notin {"find", "write"}, pc'[r] \notin {"find", "write"},
             \A q \in Reqs \ {r} : pc'[q] = pc[q] /\ at'[q] = at[q] /\ took'[q] = took[q],
             faults' = 0 => faults = 0
      PROVE  BooksRight'
  <2>1. \A c \in Cycles : ToBook(r, c)' = 0 /\ ToBook(r, c) = 0
    BY <1>4 DEF ToBook
  <2>2. RowRight(r)'
    BY <1>4 DEF RowRight
  <2> QED
    BY <1>1, <1>4, <2>1, <2>2, BooksStep
<1>p. CASE PeriodEnds
  BY <1>1, <1>p DEF PeriodEnds, BooksRight, Fair, BookedAll, RowRight, InBooks, Booking,
     RowsOf, ToBook
<1>m. ASSUME NEW r \in Reqs, Begin(r) \/ ListTier(r) \/ Mark(r) PROVE BooksRight'
  <2>1. /\ pc[r] \notin {"find", "write"} /\ pc'[r] \notin {"find", "write"}
        /\ UNCHANGED <<usage, found, used, faults, at, took>>
    BY <1>3, <1>m DEF Begin, ListTier, Mark, GoTo, tables
  <2>2. \A q \in Reqs \ {r} : pc'[q] = pc[q]
    BY <1>3, <1>m DEF Begin, ListTier, Mark, GoTo
  <2> QED
    BY <1>4, <2>1, <2>2
<1>5. ASSUME NEW r \in Reqs, List(r) \/ TakeFrom(r) PROVE BooksRight'
  <2>1. /\ pc[r] \notin {"find", "write"} /\ pc'[r] \notin {"find", "write"}
        /\ UNCHANGED <<usage, found, used, faults>>
    BY <1>3, <1>5 DEF List, TakeFrom, GoTo, tables
  <2>2. \A q \in Reqs \ {r} : pc'[q] = pc[q] /\ at'[q] = at[q] /\ took'[q] = took[q]
    BY <1>3, <1>5 DEF List, TakeFrom, GoTo, Onward
  <2> QED
    BY <1>4, <2>1, <2>2
<1>6. ASSUME NEW r \in Reqs, Enough(r) PROVE BooksRight'
  <2>1. /\ pc[r] = "take" /\ UNCHANGED <<usage, found, took, faults>> /\ at'[r] = 1
        /\ \A q \in Reqs \ {r} : pc'[q] = pc[q] /\ at'[q] = at[q]
    BY <1>3, <1>6 DEF Enough, Rewind, GoTo
  <2>2. CASE GoTo(r, "record") /\ UNCHANGED used
    <3>1. pc'[r] = "record"
      BY <1>3, <2>2 DEF GoTo
    <3> QED
      BY <1>4, <2>1, <2>2, <3>1
  <2>3. CASE /\ GoTo(r, "find")
             /\ used' = [used EXCEPT !["seconds"] = [c \in Cycles |-> @[c] + took[r][c]]]
    <3>1. pc'[r] = "find"
      BY <1>3, <2>3 DEF GoTo
    <3>2. \A c \in Cycles : used'["seconds"][c] = used["seconds"][c] + took[r][c]
      BY <1>3, <2>3, QKinds
    <3>3. \A c \in Cycles : ToBook(r, c)' = took[r][c] /\ ToBook(r, c) = 0
      BY <1>3, <2>1, <3>1 DEF ToBook
    <3>4. RowRight(r)'
      BY <3>1 DEF RowRight
    <3> QED
      BY <1>1, <2>1, <3>2, <3>3, <3>4, BooksStep
  <2> QED
    BY <1>6, <2>2, <2>3 DEF Enough, Cycles
<1>7. ASSUME NEW r \in Reqs, Open(r), RollBack(r), Fault \/ UNCHANGED faults PROVE BooksRight'
  <2>1. /\ pc[r] \notin {"find", "write"} /\ pc'[r] = "done"
        /\ UNCHANGED <<usage, found, used, at>> /\ (faults' = 0 => faults = 0)
    BY <1>3, <1>7 DEF RollBack, GoTo, tables, Open, Fault
  <2>2. \A q \in Reqs \ {r} : pc'[q] = pc[q] /\ took'[q] = took[q]
    BY <1>3, <1>7 DEF RollBack, GoTo
  <2> QED
    BY <1>4, <2>1, <2>2
<1>v. ASSUME NEW r \in Reqs, Refuse(r) \/ Stale(r) \/ Victim(r) PROVE BooksRight'
  BY <1>7, <1>v DEF Refuse, Stale, Victim, Open
<1>8. ASSUME NEW r \in Reqs, Record(r) PROVE BooksRight'
  <2>1. CASE Lost(r) /\ Fault
    BY <1>7, <1>8, <2>1 DEF Lost, Record, Open
  <2>2. CASE Onward(r) /\ UNCHANGED <<pc, held, seen, took, found, faults, pass, tables>>
    <3>1. \A q \in Reqs \ {r} : at'[q] = at[q]
      BY <1>3, <2>2 DEF Onward
    <3>2. pc[r] = "record" /\ UNCHANGED <<usage, used>>
      BY <1>8, <2>2 DEF Record, tables
    <3> QED
      BY <1>4, <2>2, <3>1, <3>2
  <2> QED
    BY <1>8, <2>1, <2>2 DEF Record
<1>9. ASSUME NEW r \in Reqs, CommitSummary(r) PROVE BooksRight'
  <2>1. /\ pc[r] = "record" /\ pc'[r] = "done" /\ \A q \in Reqs \ {r} : pc'[q] = pc[q]
        /\ UNCHANGED <<usage, found, took, at, faults>>
    BY <1>3, <1>9 DEF CommitSummary, GoTo
  <2>2. used'["seconds"] = used["seconds"]
    BY <1>3, <1>9, QKinds DEF CommitSummary
  <2> QED
    BY <1>4, <2>1, <2>2
<1>10. ASSUME NEW r \in Reqs, Written(r) PROVE BooksRight'
  <2>1. /\ pc[r] = "find" /\ pc'[r] = "done" /\ \A q \in Reqs \ {r} : pc'[q] = pc[q]
        /\ UNCHANGED <<usage, found, took, at, faults, used>>
    BY <1>3, <1>10 DEF Written, GoTo, tables
  <2>2. \A c \in Cycles : ToBook(r, c)' = ToBook(r, c)
    BY <1>3, <1>10, <2>1 DEF ToBook, Written, Over
  <2>3. RowRight(r)'
    BY <2>1 DEF RowRight
  <2> QED
    BY <1>1, <2>1, <2>2, <2>3, BooksStep
<1>11. ASSUME NEW r \in Reqs, CutOff(r) PROVE BooksRight'
  <2>1. CASE GoTo(r, "done") /\ UNCHANGED <<held, seen, at, took, wrote, found, pass, tables>>
    <3>1. pc'[r] = "done" /\ \A q \in Reqs \ {r} : pc'[q] = pc[q]
      BY <1>3, <2>1 DEF GoTo
    <3>2. faults' # 0 /\ UNCHANGED <<usage, used>>
      BY <1>3, <1>11, <2>1 DEF CutOff, Fault, tables
    <3>3. \A c \in Cycles : ToBook(r, c)' = 0
      BY <3>1 DEF ToBook
    <3>4. RowRight(r)'
      BY <3>1 DEF RowRight
    <3> QED
      BY <1>1, <2>1, <3>1, <3>2, <3>3, <3>4, BooksStep
  <2> QED
    BY <1>7, <1>11, <2>1 DEF CutOff
<1>12. ASSUME NEW r \in Reqs, Find(r) \/ WriteUsage(r) PROVE BooksRight'
  BY <1>1, <1>12, BooksFind, BooksWrite
<1> QED
  BY <1>2, <1>p, <1>m, <1>v, <1>5, <1>6, <1>8, <1>9, <1>10, <1>11, <1>12 DEF QuotaNext, Work

LEMMA QInitBooked == ASSUME QuotaInit PROVE BooksRight
<1>1. QTyped /\ usage = << >> /\ pc = [r \in Reqs |-> "idle"]
      /\ used = [k \in Kinds |-> Zero]
  BY QInit DEF QuotaInit, Kinds
<1>2. ASSUME NEW c \in Cycles PROVE Fair(c)
  <2>1. IsFiniteSet(Reqs) /\ Booking(c) \in [Reqs -> Int] /\ used["seconds"][c] = 0
    BY <1>1, BookingTypes, ZeroAmount, QKinds
  <2>2. SumOf(Booking(c), Reqs) = 0
    <3>1. \A r \in Reqs : Booking(c)[r] = 0
      BY <1>1 DEF Booking, ToBook
    <3> QED
      BY <2>1, <3>1, SumZero
  <2>3. SumOf(InBooks(c), RowsOf(c)) = 0
    <3>1. RowsOf(c) = {}
      BY <1>1 DEF RowsOf
    <3>2. IsFiniteSet(RowsOf(c)) /\ InBooks(c) \in [RowsOf(c) -> Int]
      BY <1>1, <3>1, RowsTypes
    <3> QED
      BY <3>1, <3>2, SumZero
  <2> QED
    BY <2>1, <2>2, <2>3 DEF Fair, BookedAll
<1> QED
  BY <1>1, <1>2 DEF BooksRight, RowRight

(* usage_ledger never says more of a cycle than was taken, and all of it    *)
(* unless a statement failed, however charges of one meeting overlap, for   *)
(* any number of requests and cycles (facade Consume).                      *)
THEOREM UsagesAgree == QuotaSpec => []UsageAgrees
<1>1. QuotaInit => BooksRight
  BY QInitBooked
<1>2. BooksRight /\ [QuotaNext]_quotaVars => BooksRight'
  BY QNextBooked
<1>3. BooksRight => UsageAgrees
  <2> SUFFICES ASSUME BooksRight, NEW c \in Cycles
               PROVE  LET booked == Booked(c) + SumOver(Reqs, LAMBDA r : ToBook(r, c))
                      IN booked <= used["seconds"][c] /\ (faults = 0 => booked = used["seconds"][c])
    BY DEF UsageAgrees, Cycles
  <2>1. SumOver(Reqs, LAMBDA r : ToBook(r, c)) = SumOf(Booking(c), Reqs)
    BY BookingTypes, BookingSum DEF BooksRight
  <2>2. Booked(c) = SumOf(InBooks(c), RowsOf(c))
    <3>1. IsFiniteSet(RowsOf(c)) /\ InBooks(c) \in [RowsOf(c) -> Int]
      BY RowsTypes DEF BooksRight
    <3> QED
      BY <3>1, BookedSum
  <2> QED
    BY <2>1, <2>2 DEF BooksRight, Fair, BookedAll
<1> QED
  BY <1>1, <1>2, <1>3, PTL DEF QuotaSpec
=============================================================================
