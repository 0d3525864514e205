---------------------------- MODULE BatcherProofs ----------------------------
(***************************************************************************)
(* Batcher for every number of callers, workers and records: the types      *)
(* hold, the slots and the wait group are accounted for, and every accepted *)
(* record is in exactly one place.                                          *)
(***************************************************************************)
EXTENDS Batcher, FiniteSetTheorems, TLAPS

(* The slots that x holds in the assignment h. *)
Held(h, x) == {t \in Slots : h[t] = x}

LEMMA HeldIsFinite ==
    ASSUME NEW h, NEW x
    PROVE  IsFiniteSet(Held(h, x)) /\ Cardinality(Held(h, x)) \in Nat
<1>1. IsFiniteSet(Slots) /\ Held(h, x) \subseteq Slots
  BY BatcherAssumption DEF Held
<1> QED
  BY <1>1, FS_Subset, FS_CardinalityType

-----------------------------------------------------------------------------
(* Types and counts are inductive together: wg stays a natural number       *)
(* because it is a count.                                                   *)

Count(x) == Cardinality(Held(holder, x))
Busy(f) == IF pc[f] \in {"acquired", "taken"} THEN 1 ELSE 0
LoopAlive == IF pc[Loop] = "exited" THEN 0 ELSE 1

LEMMA CountsRestated ==
    WorkersAccounted <=>
        /\ \A f \in Flushers : Count(f) = Busy(f)
        /\ wg = Count(Writer) + LoopAlive
BY DEF WorkersAccounted, Count, Held, Busy, LoopAlive

LEMMA CountsRestatedNext ==
    WorkersAccounted' <=>
        /\ \A f \in Flushers : Count(f)' = Busy(f)'
        /\ wg' = Count(Writer)' + LoopAlive'
BY DEF WorkersAccounted, Count, Held, Busy, LoopAlive

CInv == TypeOK /\ WorkersAccounted

(* A slot that changes hands moves one unit of the count from its old       *)
(* holder to the new one.                                                   *)
LEMMA HandOver ==
    ASSUME TypeOK, NEW s \in Slots, NEW y \in Flushers \cup {Free, Writer}, holder[s] # y,
           holder' = [holder EXCEPT ![s] = y], NEW x
    PROVE  /\ Cardinality(Held(holder, x)) \in Nat
           /\ x = y => Cardinality(Held(holder', x)) = Cardinality(Held(holder, x)) + 1
           /\ x = holder[s] => Cardinality(Held(holder', x)) = Cardinality(Held(holder, x)) - 1
           /\ x # holder[s] /\ x # y
                => Cardinality(Held(holder', x)) = Cardinality(Held(holder, x))
<1>1. IsFiniteSet(Held(holder, x)) /\ Cardinality(Held(holder, x)) \in Nat
  BY HeldIsFinite
<1>2. \A t \in Slots : holder'[t] = IF t = s THEN y ELSE holder[t]
  BY DEF TypeOK
<1>3. ASSUME x = y PROVE Cardinality(Held(holder', x)) = Cardinality(Held(holder, x)) + 1
  <2>1. Held(holder', x) = Held(holder, x) \cup {s} /\ s \notin Held(holder, x)
    BY <1>2, <1>3 DEF Held
  <2> QED
    BY <2>1, <1>1, FS_AddElement
<1>4. ASSUME x = holder[s] PROVE Cardinality(Held(holder', x)) = Cardinality(Held(holder, x)) - 1
  <2>1. Held(holder', x) = Held(holder, x) \ {s} /\ s \in Held(holder, x)
    BY <1>2, <1>4 DEF Held
  <2> QED
    BY <2>1, <1>1, FS_RemoveElement
<1>5. ASSUME x # holder[s], x # y PROVE Held(holder', x) = Held(holder, x)
  BY <1>2, <1>5 DEF Held
<1> QED
  BY <1>1, <1>3, <1>4, <1>5

(* What a flusher with the right pc holds. *)
LEMMA BusyHoldsOne ==
    ASSUME CInv, NEW f \in Flushers
    PROVE  /\ pc[f] \in {"acquired", "taken"}
                => \E s \in Slots : Held(holder, f) = {s}
           /\ pc[f] \notin {"acquired", "taken"} => Held(holder, f) = {}
<1>1. Cardinality(Held(holder, f)) = Busy(f)
  BY CountsRestated DEF CInv, Count
<1>2. IsFiniteSet(Held(holder, f)) /\ Held(holder, f) \subseteq Slots
  BY HeldIsFinite DEF Held
<1>3. ASSUME pc[f] \in {"acquired", "taken"}
      PROVE  \E s \in Slots : Held(holder, f) = {s}
  <2>1. Cardinality(Held(holder, f)) = 1
    BY <1>1, <1>3 DEF Busy
  <2>2. PICK s : Held(holder, f) = {s}
    BY <2>1, <1>2, FS_Singleton
  <2> QED
    BY <2>2, <1>2
<1>4. ASSUME pc[f] \notin {"acquired", "taken"} PROVE Held(holder, f) = {}
  <2>1. Cardinality(Held(holder, f)) = 0
    BY <1>1, <1>4 DEF Busy
  <2> QED
    BY <2>1, <1>2, FS_EmptySet
<1> QED
  BY <1>3, <1>4

LEMMA TypesDistinct ==
    /\ Loop \in Flushers /\ Callers \subseteq Flushers
    /\ Free \notin Flushers /\ Writer \notin Flushers /\ Free # Writer
BY BatcherAssumption DEF Flushers, Free, Writer

(* The records of a sequence. *)
LEMMA RecordsOfSeq ==
    ASSUME NEW q \in Seq(Records)
    PROVE  RecordsIn(q) \subseteq Records
BY DEF RecordsIn

LEMMA RecordsOfEmpty == RecordsIn(<<>>) = {}
BY DEF RecordsIn

LEMMA RecordsOfAppend ==
    ASSUME NEW q \in Seq(Records), NEW r \in Records
    PROVE  RecordsIn(Append(q, r)) = RecordsIn(q) \cup {r}
<1> DEFINE p == Append(q, r)
<1>1. /\ Len(q) \in Nat /\ DOMAIN q = 1..Len(q)
      /\ DOMAIN p = 1..(Len(q) + 1)
      /\ p[Len(q) + 1] = r
      /\ \A i \in 1..Len(q) : p[i] = q[i]
  OBVIOUS
<1> HIDE DEF p
<1>2. ASSUME NEW x \in RecordsIn(p) PROVE x \in RecordsIn(q) \cup {r}
  <2>1. PICK i \in 1..(Len(q) + 1) : x = p[i]
    BY <1>1, <1>2 DEF RecordsIn
  <2> QED
    BY <1>1, <2>1 DEF RecordsIn
<1>3. ASSUME NEW x \in RecordsIn(q) PROVE x \in RecordsIn(p)
  <2>1. PICK i \in 1..Len(q) : x = q[i]
    BY <1>1, <1>3 DEF RecordsIn
  <2>2. i \in DOMAIN p /\ x = p[i]
    BY <1>1, <2>1
  <2> QED
    BY <2>2 DEF RecordsIn
<1>4. r \in RecordsIn(p)
  <2>1. Len(q) + 1 \in DOMAIN p
    BY <1>1
  <2> QED
    BY <1>1, <2>1 DEF RecordsIn
<1> QED
  BY <1>2, <1>3, <1>4 DEF p

-----------------------------------------------------------------------------
(* Every step preserves the types and the counts. *)

LEMMA AddKeeps ==
    ASSUME CInv, NEW c \in Callers, Add(c)
    PROVE  CInv'
<1> USE TypesDistinct
<1>1. TypeOK /\ pc[c] = "idle" /\ c # Loop
  BY BatcherAssumption DEF CInv, Add
<1>2. accepted + 1 \in 1..MaxRecords /\ accepted' = accepted + 1
  BY <1>1, BatcherAssumption DEF Add, TypeOK
<1>3. buffer' \in Seq(Records) /\ Len(buffer') <= MaxBufferSize
  <2>1. accepted + 1 \in Records /\ buffer \in Seq(Records) /\ buffer' = Append(buffer, accepted + 1)
    BY <1>1, <1>2 DEF Add, TypeOK, Records
  <2>2. Len(buffer) < MaxBufferSize
    BY <1>1, BatcherAssumption DEF Add, Full, TypeOK
  <2> QED
    BY <2>1, <2>2, BatcherAssumption
<1>4. PICK q \in {"idle", "flush"} : pc' = [pc EXCEPT ![c] = q]
  BY <1>1 DEF Add
<1>5. TypeOK'
  BY <1>1, <1>2, <1>3, <1>4 DEF Add, TypeOK
<1>6. /\ holder' = holder /\ wg' = wg
      /\ LoopAlive' = LoopAlive
      /\ \A f \in Flushers : Busy(f)' = Busy(f)
  BY <1>1, <1>4 DEF Add, TypeOK, LoopAlive, Busy
<1>7. WorkersAccounted'
  BY <1>6, CountsRestated, CountsRestatedNext DEF CInv, Count
<1> QED
  BY <1>5, <1>7 DEF CInv

(* A step that moves the loop inside its select. *)
LEMMA LoopKeeps ==
    ASSUME CInv, Tick \/ SeeClosed
    PROVE  CInv'
<1> USE TypesDistinct
<1>1. TypeOK /\ pc[Loop] = "ticking" /\ pc' = [pc EXCEPT ![Loop] = "flush"]
  BY DEF CInv, Tick, SeeClosed
<1>2. TypeOK'
  BY <1>1 DEF Tick, SeeClosed, TypeOK
<1>3. /\ holder' = holder /\ wg' = wg
      /\ LoopAlive' = LoopAlive
      /\ \A f \in Flushers : Busy(f)' = Busy(f)
  BY <1>1 DEF Tick, SeeClosed, TypeOK, LoopAlive, Busy
<1>4. WorkersAccounted'
  BY <1>3, CountsRestated, CountsRestatedNext DEF CInv, Count
<1> QED
  BY <1>2, <1>4 DEF CInv

(* The wait group covers the loop until its last flush returns. *)
LEMMA FlushReturns ==
    ASSUME CInv, NEW f \in Flushers, pc[f] \in {"flush", "acquired", "taken"},
           pc' = [pc EXCEPT ![f] = Returned(f)]
    PROVE  /\ Returned(f) \in {"idle", "ticking", "exited"}
           /\ pc' \in [Flushers -> {"idle", "ticking", "flush", "acquired", "taken", "exited"}]
           /\ LoopAlive' = LoopAlive - LoopDone(f) /\ LoopAlive \in {0, 1} /\ LoopDone(f) \in {0, 1}
           /\ \A g \in Flushers : Busy(g)' = IF g = f THEN 0 ELSE Busy(g)
<1> USE TypesDistinct
<1>1. pc \in [Flushers -> {"idle", "ticking", "flush", "acquired", "taken", "exited"}] /\ last \in BOOLEAN
  BY DEF CInv, TypeOK
<1>2. Returned(f) \in {"idle", "ticking", "exited"}
  BY DEF Returned
<1>3. \A g \in Flushers : pc'[g] = IF g = f THEN Returned(f) ELSE pc[g]
  BY <1>1
<1>4. LoopAlive' = LoopAlive - LoopDone(f) /\ LoopAlive \in {0, 1} /\ LoopDone(f) \in {0, 1}
  BY <1>1, <1>3 DEF LoopAlive, LoopDone, Returned
<1>5. \A g \in Flushers : Busy(g)' = IF g = f THEN 0 ELSE Busy(g)
  BY <1>2, <1>3 DEF Busy
<1> QED
  BY <1>1, <1>2, <1>4, <1>5

LEMMA CountedIsNat ==
    ASSUME WorkersAccounted
    PROVE  wg \in Nat /\ wg = Count(Writer) + LoopAlive /\ Count(Writer) \in Nat
BY CountsRestated, HeldIsFinite DEF LoopAlive, Count

LEMMA CountedIsNatNext ==
    ASSUME WorkersAccounted'
    PROVE  wg' \in Nat
BY CountsRestatedNext, HeldIsFinite DEF LoopAlive, Count

LEMMA TryAcquireKeeps ==
    ASSUME CInv, NEW f \in Flushers, TryAcquire(f)
    PROVE  CInv'
<1> USE TypesDistinct
<1>1. TypeOK /\ pc[f] = "flush" /\ pc' = [pc EXCEPT ![f] = "acquired"] /\ wg' = wg
  BY DEF CInv, TryAcquire
<1>2. PICK s \in Slots : holder[s] = Free /\ holder' = [holder EXCEPT ![s] = f]
  BY DEF TryAcquire
<1>3. TypeOK'
  BY <1>1, <1>2 DEF TryAcquire, TypeOK
<1>4. /\ LoopAlive' = LoopAlive
      /\ \A g \in Flushers : Busy(g)' = IF g = f THEN Busy(g) + 1 ELSE Busy(g)
  BY <1>1 DEF TypeOK, LoopAlive, Busy
<1>5. Count(f)' = Count(f) + 1 /\ \A x : x \notin {f, Free} => Count(x)' = Count(x)
  <2>1. holder[s] # f /\ f \in Flushers \cup {Free, Writer}
    BY <1>2
  <2>2. ASSUME NEW x
        PROVE  /\ x = f => Count(x)' = Count(x) + 1
               /\ x \notin {f, Free} => Count(x)' = Count(x)
    BY <1>1, <1>2, <2>1, HandOver DEF Count
  <2> QED
    BY <2>2
<1>6. WorkersAccounted'
  BY <1>1, <1>4, <1>5, CountsRestated, CountsRestatedNext DEF CInv
<1> QED
  BY <1>3, <1>6 DEF CInv

LEMMA GiveUpKeeps ==
    ASSUME CInv, NEW f \in Flushers, GiveUp(f)
    PROVE  CInv'
<1>1. TypeOK /\ pc[f] = "flush" /\ pc' = [pc EXCEPT ![f] = Returned(f)]
      /\ wg' = wg - LoopDone(f) /\ holder' = holder
  BY DEF CInv, GiveUp
<1>2. Busy(f) = 0
  BY <1>1 DEF Busy
<1>r. /\ LoopAlive' = LoopAlive - LoopDone(f) /\ LoopAlive \in {0, 1} /\ LoopDone(f) \in {0, 1}
      /\ \A g \in Flushers : Busy(g)' = IF g = f THEN 0 ELSE Busy(g)
  BY <1>1, FlushReturns
<1>c. /\ wg = Count(Writer) + LoopAlive /\ Count(Writer) \in Nat
      /\ \A g \in Flushers : Count(g) = Busy(g)
  BY CountedIsNat, CountsRestated DEF CInv
<1>3. WorkersAccounted'
  <2>1. \A x : Count(x)' = Count(x)
    BY <1>1 DEF Count
  <2>2. \A g \in Flushers : Count(g)' = Busy(g)'
    BY <1>2, <1>r, <1>c, <2>1
  <2>3. wg' = Count(Writer)' + LoopAlive'
    BY <1>1, <1>r, <1>c, <2>1
  <2> QED
    BY <2>2, <2>3, CountsRestatedNext
<1>4. TypeOK'
  BY <1>1, <1>3, FlushReturns, CountedIsNatNext DEF GiveUp, TypeOK
<1> QED
  BY <1>3, <1>4 DEF CInv

LEMMA FindEmptyKeeps ==
    ASSUME CInv, NEW f \in Flushers, FindEmpty(f)
    PROVE  CInv'
<1> USE TypesDistinct
<1>1. TypeOK /\ pc[f] = "acquired" /\ pc' = [pc EXCEPT ![f] = Returned(f)]
      /\ wg' = wg - LoopDone(f)
  BY DEF CInv, FindEmpty
<1>2. PICK s \in Slots : holder[s] = f /\ holder' = [holder EXCEPT ![s] = Free]
  BY DEF FindEmpty, Release
<1>3. Busy(f) = 1
  BY <1>1 DEF Busy
<1>4. Count(f)' = Count(f) - 1 /\ \A x : x \notin {f, Free} => Count(x)' = Count(x)
  BY <1>1, <1>2, HandOver, ZenonT(60) DEF Count
<1>r. /\ LoopAlive' = LoopAlive - LoopDone(f) /\ LoopAlive \in {0, 1} /\ LoopDone(f) \in {0, 1}
      /\ \A g \in Flushers : Busy(g)' = IF g = f THEN 0 ELSE Busy(g)
  BY <1>1, FlushReturns
<1>c. /\ wg = Count(Writer) + LoopAlive /\ Count(Writer) \in Nat
      /\ \A g \in Flushers : Count(g) = Busy(g)
  BY CountedIsNat, CountsRestated DEF CInv
<1>5. WorkersAccounted'
  <2>1. \A g \in Flushers : Count(g)' = Busy(g)'
    BY <1>3, <1>4, <1>r, <1>c
  <2>2. wg' = Count(Writer)' + LoopAlive'
    BY <1>1, <1>4, <1>r, <1>c
  <2> QED
    BY <2>1, <2>2, CountsRestatedNext
<1>6. TypeOK'
  BY <1>1, <1>2, <1>5, FlushReturns, CountedIsNatNext DEF FindEmpty, TypeOK
<1> QED
  BY <1>5, <1>6 DEF CInv

LEMMA TakeKeeps ==
    ASSUME CInv, NEW f \in Flushers, Take(f)
    PROVE  CInv'
<1> USE TypesDistinct
<1>1. TypeOK /\ pc[f] = "acquired" /\ pc' = [pc EXCEPT ![f] = "taken"]
      /\ wg' = wg /\ holder' = holder
  BY DEF CInv, Take
<1>2. PICK s \in Slots : holder[s] = f /\ batch' = [batch EXCEPT ![s] = buffer]
  BY DEF Take
<1>3. buffer' \in Seq(Records) /\ Len(buffer') <= MaxBufferSize
  BY BatcherAssumption DEF Take, Emptied
<1>4. TypeOK'
  BY <1>1, <1>2, <1>3 DEF Take, TypeOK
<1>5. /\ LoopAlive' = LoopAlive
      /\ \A g \in Flushers : Busy(g)' = Busy(g)
  BY <1>1 DEF TypeOK, LoopAlive, Busy
<1>6. WorkersAccounted'
  BY <1>1, <1>5, CountsRestated, CountsRestatedNext DEF CInv, Count
<1> QED
  BY <1>4, <1>6 DEF CInv

LEMMA SpawnKeeps ==
    ASSUME CInv, NEW f \in Flushers, Spawn(f)
    PROVE  CInv'
<1> USE TypesDistinct
<1>1. TypeOK /\ pc[f] = "taken" /\ pc' = [pc EXCEPT ![f] = Returned(f)]
      /\ wg' = (wg + 1) - LoopDone(f)
  BY DEF CInv, Spawn
<1>2. PICK s \in Slots : holder[s] = f /\ holder' = [holder EXCEPT ![s] = Writer]
  BY DEF Spawn
<1>3. Busy(f) = 1
  BY <1>1 DEF Busy
<1>4. /\ Count(f)' = Count(f) - 1 /\ Count(Writer)' = Count(Writer) + 1
      /\ \A x : x \notin {f, Writer} => Count(x)' = Count(x)
  BY <1>1, <1>2, HandOver, ZenonT(60) DEF Count
<1>r. /\ LoopAlive' = LoopAlive - LoopDone(f) /\ LoopAlive \in {0, 1} /\ LoopDone(f) \in {0, 1}
      /\ \A g \in Flushers : Busy(g)' = IF g = f THEN 0 ELSE Busy(g)
  BY <1>1, FlushReturns
<1>c. /\ wg = Count(Writer) + LoopAlive /\ Count(Writer) \in Nat
      /\ \A g \in Flushers : Count(g) = Busy(g)
  BY CountedIsNat, CountsRestated DEF CInv
<1>5. WorkersAccounted'
  <2>1. \A g \in Flushers : Count(g)' = Busy(g)'
    BY <1>3, <1>4, <1>r, <1>c
  <2>2. wg' = Count(Writer)' + LoopAlive'
    BY <1>1, <1>4, <1>r, <1>c
  <2> QED
    BY <2>1, <2>2, CountsRestatedNext
<1>6. TypeOK'
  BY <1>1, <1>2, <1>5, FlushReturns, CountedIsNatNext DEF Spawn, TypeOK
<1> QED
  BY <1>5, <1>6 DEF CInv

LEMMA WriteKeeps ==
    ASSUME CInv, NEW s \in Slots, NEW ok \in BOOLEAN, Write(s, ok)
    PROVE  CInv'
<1> USE TypesDistinct
<1>1. TypeOK /\ holder[s] = Writer /\ holder' = [holder EXCEPT ![s] = Free]
      /\ batch' = [batch EXCEPT ![s] = <<>>] /\ wg' = wg - 1 /\ pc' = pc
  BY DEF CInv, Write, WriteDone
<1>2. RecordsIn(batch[s]) \subseteq Records
  BY <1>1, RecordsOfSeq DEF TypeOK
<1>3. stored' \in SUBSET Records /\ failed' \in SUBSET Records
  BY <1>1, <1>2 DEF Write, TypeOK
<1>4. Count(Writer)' = Count(Writer) - 1 /\ \A x : x \notin {Writer, Free} => Count(x)' = Count(x)
  BY <1>1, HandOver, ZenonT(60) DEF Count
<1>5. WorkersAccounted'
  <2>1. \A g \in Flushers : Count(g)' = Busy(g)'
    BY <1>1, <1>4, CountsRestated DEF CInv, Busy
  <2>2. wg' = Count(Writer)' + LoopAlive'
    BY <1>1, <1>4, CountedIsNat, HeldIsFinite DEF CInv, LoopAlive, Count
  <2> QED
    BY <2>1, <2>2, CountsRestatedNext
<1>6. TypeOK'
  BY <1>1, <1>3, <1>5, CountedIsNatNext DEF Write, TypeOK
<1> QED
  BY <1>5, <1>6 DEF CInv

(* Close only moves its own goroutine and the closed mark. *)
LEMMA CloseKeeps ==
    ASSUME CInv, MarkClosed \/ CloseStep
    PROVE  CInv'
<1>1. TypeOK'
  BY DEF CInv, TypeOK, MarkClosed, CloseStep, SignalLoop, CloseReturn
<1>2. /\ holder' = holder /\ wg' = wg
      /\ LoopAlive' = LoopAlive
      /\ \A f \in Flushers : Busy(f)' = Busy(f)
  BY DEF MarkClosed, CloseStep, SignalLoop, CloseReturn, LoopAlive, Busy
<1>3. WorkersAccounted'
  BY <1>2, CountsRestated, CountsRestatedNext DEF CInv, Count
<1> QED
  BY <1>1, <1>3 DEF CInv

LEMMA CountStep == CInv /\ [Next]_vars => CInv'
<1> SUFFICES ASSUME CInv, [Next]_vars PROVE CInv'
  OBVIOUS
<1>1. ASSUME NEW f \in Flushers, FlushStep(f) PROVE CInv'
  BY <1>1, TryAcquireKeeps, GiveUpKeeps, FindEmptyKeeps, TakeKeeps, SpawnKeeps DEF FlushStep
<1>2. ASSUME NEW s \in Slots, WriteStep(s) PROVE CInv'
  BY <1>2, WriteKeeps DEF WriteStep
<1>3. CASE UNCHANGED vars
  <2>1. TypeOK'
    BY <1>3 DEF CInv, TypeOK, vars
  <2>2. WorkersAccounted'
    BY <1>3 DEF CInv, WorkersAccounted, vars
  <2> QED
    BY <2>1, <2>2 DEF CInv
<1> QED
  BY <1>1, <1>2, <1>3, AddKeeps, LoopKeeps, CloseKeeps DEF Next

LEMMA CountInit == Init => CInv
<1> SUFFICES ASSUME Init PROVE CInv
  OBVIOUS
<1> USE TypesDistinct
<1>1. TypeOK
  <2>1. pc \in [Flushers -> {"idle", "ticking", "flush", "acquired", "taken", "exited"}]
    BY DEF Init
  <2>2. /\ holder \in [Slots -> Flushers \cup {Free, Writer}]
        /\ batch \in [Slots -> Seq(Records)]
    BY DEF Init
  <2>3. buffer \in Seq(Records) /\ Len(buffer) = 0
    BY DEF Init
  <2>4. MaxBufferSize \in Nat /\ MaxRecords \in Nat
    BY BatcherAssumption
  <2>5. stored \in SUBSET Records /\ failed \in SUBSET Records /\ accepted \in 0..MaxRecords
    BY <2>4 DEF Init
  <2>6. /\ closed \in BOOLEAN /\ last \in BOOLEAN /\ wg \in Nat
        /\ closer \in {"open", "marked", "waiting", "returned"}
    BY DEF Init
  <2> QED
    BY <2>1, <2>2, <2>3, <2>4, <2>5, <2>6 DEF TypeOK
<1>2. \A x \in Flushers \cup {Writer} : Held(holder, x) = {}
  BY DEF Init, Held
<1>3. \A x \in Flushers \cup {Writer} : Count(x) = 0
  BY <1>2, FS_EmptySet DEF Count
<1>4. LoopAlive = 1 /\ \A f \in Flushers : Busy(f) = 0
  BY DEF Init, LoopAlive, Busy
<1>5. WorkersAccounted
  BY <1>3, <1>4, CountsRestated DEF Init
<1> QED
  BY <1>1, <1>5 DEF CInv

(* The counts and types hold in every state: no flush leaks a slot of        *)
(* flushSem, and wg is exactly the running writes and the loop.              *)
THEOREM WorkersAlwaysAccounted == Spec => []WorkersAccounted
<1>1. CInv => WorkersAccounted
  BY DEF CInv
<1> QED
  BY <1>1, CountInit, CountStep, PTL DEF Spec

(* The state keeps its types, and the buffer its limit.                      *)
THEOREM TypeCorrect == Spec => []TypeOK
<1>1. CInv => TypeOK
  BY DEF CInv
<1> QED
  BY <1>1, CountInit, CountStep, PTL DEF Spec

-----------------------------------------------------------------------------
(* Every accepted record is in one place.  A batch is only ever in the hands *)
(* of the flusher that took it or of its writer, so a flusher that takes the *)
(* buffer overwrites no records.                                             *)

BatchesOwned ==
    \A s \in Slots : batch[s] # <<>> =>
        \/ holder[s] = Writer
        \/ holder[s] \in Flushers /\ pc[holder[s]] = "taken"

OnlyAccepted == \A r \in Records : \A p \in Places : At(r, p) => r <= accepted

PInv == CInv /\ BatchesOwned /\ OnlyAccepted /\ EachRecordOnce

LEMMA PlacesDistinct ==
    /\ \A s \in Slots : s \notin {"buffer", "stored", "failed"}
    /\ \A s \in Slots : s \in Places
    /\ {"buffer", "stored", "failed"} \subseteq Places
BY BatcherAssumption DEF Places

LEMMA OwnedStep ==
    ASSUME PInv, Next
    PROVE  BatchesOwned'
<1> USE TypesDistinct
<1>0. /\ CInv /\ BatchesOwned
      /\ holder \in [Slots -> Flushers \cup {Free, Writer}]
      /\ pc \in [Flushers -> {"idle", "ticking", "flush", "acquired", "taken", "exited"}]
      /\ batch \in [Slots -> Seq(Records)]
  BY DEF PInv, CInv, TypeOK
<1>1. ASSUME NEW c \in Callers, Add(c) PROVE BatchesOwned'
  BY <1>0, <1>1 DEF Add, BatchesOwned
<1>2. ASSUME Tick \/ SeeClosed PROVE BatchesOwned'
  BY <1>0, <1>2 DEF Tick, SeeClosed, BatchesOwned
<1>3. ASSUME NEW f \in Flushers, TryAcquire(f) PROVE BatchesOwned'
  BY <1>0, <1>3 DEF TryAcquire, BatchesOwned
<1>4. ASSUME NEW f \in Flushers, GiveUp(f) PROVE BatchesOwned'
  BY <1>0, <1>4 DEF GiveUp, BatchesOwned
<1>5. ASSUME NEW f \in Flushers, FindEmpty(f) PROVE BatchesOwned'
  BY <1>0, <1>5 DEF FindEmpty, Release, BatchesOwned
<1>6. ASSUME NEW f \in Flushers, Take(f) PROVE BatchesOwned'
  BY <1>0, <1>6 DEF Take, BatchesOwned
<1>7. ASSUME NEW f \in Flushers, Spawn(f) PROVE BatchesOwned'
  <2>1. PICK s \in Slots : holder[s] = f /\ holder' = [holder EXCEPT ![s] = Writer]
    BY <1>7 DEF Spawn
  <2>2. PICK t \in Slots : Held(holder, f) = {t}
    BY <1>0, <1>7, BusyHoldsOne DEF Spawn
  <2>3. \A u \in Slots : holder[u] = f => u = s
    BY <2>1, <2>2 DEF Held
  <2> QED
    BY <1>0, <1>7, <2>1, <2>3 DEF Spawn, BatchesOwned
<1>8. ASSUME NEW s \in Slots, NEW ok \in BOOLEAN, Write(s, ok) PROVE BatchesOwned'
  BY <1>0, <1>8 DEF Write, BatchesOwned
<1>9. ASSUME MarkClosed \/ CloseStep PROVE BatchesOwned'
  BY <1>0, <1>9 DEF MarkClosed, CloseStep, SignalLoop, CloseReturn, BatchesOwned
<1> QED
  BY <1>1, <1>2, <1>3, <1>4, <1>5, <1>6, <1>7, <1>8, <1>9 DEF Next, FlushStep, WriteStep

(* A step that leaves the buffer, the batches and the outcomes alone.        *)
LEMMA StillPlaced ==
    ASSUME OnlyAccepted, EachRecordOnce, UNCHANGED <<buffer, batch, accepted, stored, failed>>
    PROVE  OnlyAccepted' /\ EachRecordOnce'
<1>1. \A r, p : At(r, p)' <=> At(r, p)
  BY DEF At
<1> QED
  BY <1>1 DEF OnlyAccepted, EachRecordOnce

LEMMA AddPlaces ==
    ASSUME PInv, NEW c \in Callers, Add(c)
    PROVE  OnlyAccepted' /\ EachRecordOnce'
<1> USE PlacesDistinct
<1>1. /\ buffer \in Seq(Records) /\ accepted \in 0..MaxRecords /\ MaxRecords \in Nat
      /\ accepted' = accepted + 1 /\ accepted + 1 \in Records
      /\ buffer' = Append(buffer, accepted + 1)
      /\ UNCHANGED <<batch, stored, failed>>
  BY BatcherAssumption DEF PInv, CInv, TypeOK, Add, Records
<1>2. RecordsIn(buffer') = RecordsIn(buffer) \cup {accepted + 1}
  BY <1>1, RecordsOfAppend
<1>3. \A r, p : At(r, p)' <=> At(r, p) \/ (r = accepted + 1 /\ p = "buffer")
  BY <1>1, <1>2 DEF At
<1>4. \A p \in Places : ~At(accepted + 1, p)
  BY <1>1 DEF PInv, OnlyAccepted
<1>5. OnlyAccepted'
  BY <1>1, <1>3 DEF PInv, OnlyAccepted, Records
<1>6. EachRecordOnce'
  <2> SUFFICES ASSUME NEW r \in 1..(accepted + 1)
               PROVE  \E p \in Places : \A q \in Places : At(r, q)' <=> q = p
    BY <1>1 DEF EachRecordOnce
  <2>1. CASE r = accepted + 1
    BY <1>3, <1>4, <2>1
  <2>2. CASE r \in 1..accepted
    <3>1. r # accepted + 1
      BY <1>1, <2>2
    <3> QED
      BY <1>3, <2>2, <3>1 DEF PInv, EachRecordOnce
  <2> QED
    BY <1>1, <2>1, <2>2
<1> QED
  BY <1>5, <1>6

(* A step that moves all records of one place to another, and only those.    *)
LEMMA MovePlaces ==
    ASSUME OnlyAccepted, EachRecordOnce, accepted' = accepted,
           NEW a \in Places, NEW b \in Places, a # b,
           \A r \in Records : ~At(r, a)',
           \A r \in Records : At(r, b)' <=> At(r, a) \/ At(r, b),
           \A r \in Records : \A p \in Places \ {a, b} : At(r, p)' <=> At(r, p),
           1..accepted \subseteq Records
    PROVE  OnlyAccepted' /\ EachRecordOnce'
<1>1. OnlyAccepted'
  BY DEF OnlyAccepted
<1>2. ASSUME NEW r \in 1..accepted
      PROVE  \E p \in Places : \A q \in Places : At(r, q)' <=> q = p
  <2>1. PICK p \in Places : \A q \in Places : At(r, q) <=> q = p
    BY DEF EachRecordOnce
  <2>2. CASE p = a
    BY <2>1, <2>2
  <2>3. CASE p # a
    BY <2>1, <2>3
  <2> QED
    BY <2>2, <2>3
<1> QED
  BY <1>1, <1>2 DEF EachRecordOnce

LEMMA TakePlaces ==
    ASSUME PInv, NEW f \in Flushers, Take(f)
    PROVE  OnlyAccepted' /\ EachRecordOnce'
<1> USE PlacesDistinct
<1>1. PICK s \in Slots : holder[s] = f /\ batch' = [batch EXCEPT ![s] = buffer]
  BY DEF Take
<1>2. batch[s] = <<>>
  BY <1>1, TypesDistinct DEF PInv, BatchesOwned, Take
<1>3. /\ batch \in [Slots -> Seq(Records)] /\ buffer' = <<>>
      /\ UNCHANGED <<accepted, stored, failed>> /\ 1..accepted \subseteq Records
  BY BatcherAssumption DEF PInv, CInv, TypeOK, Take, Emptied, Records
<1>4. /\ \A r : ~At(r, "buffer")'
      /\ \A r : At(r, s)' <=> At(r, "buffer") \/ At(r, s)
      /\ \A r : \A p \in Places \ {"buffer", s} : At(r, p)' <=> At(r, p)
  BY <1>1, <1>2, <1>3, RecordsOfEmpty DEF At
<1> QED
  BY <1>3, <1>4, MovePlaces DEF PInv

LEMMA WritePlaces ==
    ASSUME PInv, NEW s \in Slots, NEW ok \in BOOLEAN, Write(s, ok)
    PROVE  OnlyAccepted' /\ EachRecordOnce'
<1> USE PlacesDistinct
<1>1. /\ batch \in [Slots -> Seq(Records)] /\ batch' = [batch EXCEPT ![s] = <<>>]
      /\ UNCHANGED <<accepted, buffer>> /\ 1..accepted \subseteq Records
  BY BatcherAssumption DEF PInv, CInv, TypeOK, Write, Records
<1>2. CASE ok
  <2>1. stored' = stored \cup RecordsIn(batch[s]) /\ failed' = failed
    BY <1>2 DEF Write
  <2>2. /\ \A r : ~At(r, s)'
        /\ \A r : At(r, "stored")' <=> At(r, s) \/ At(r, "stored")
        /\ \A r : \A p \in Places \ {s, "stored"} : At(r, p)' <=> At(r, p)
    BY <1>1, <2>1, RecordsOfEmpty DEF At
  <2> QED
    BY <1>1, <2>2, MovePlaces DEF PInv
<1>3. CASE ~ok
  <2>1. failed' = failed \cup RecordsIn(batch[s]) /\ stored' = stored
    BY <1>3 DEF Write
  <2>2. /\ \A r : ~At(r, s)'
        /\ \A r : At(r, "failed")' <=> At(r, s) \/ At(r, "failed")
        /\ \A r : \A p \in Places \ {s, "failed"} : At(r, p)' <=> At(r, p)
    BY <1>1, <2>1, RecordsOfEmpty DEF At
  <2> QED
    BY <1>1, <2>2, MovePlaces DEF PInv
<1> QED
  BY <1>2, <1>3

LEMMA PlacedStep == PInv /\ [Next]_vars => PInv'
<1> SUFFICES ASSUME PInv, [Next]_vars PROVE PInv'
  OBVIOUS
<1>1. CInv'
  BY CountStep DEF PInv
<1>2. CASE Next
  <2>1. BatchesOwned'
    BY <1>2, OwnedStep
  <2>2. ASSUME NEW f \in Flushers, FlushStep(f) PROVE OnlyAccepted' /\ EachRecordOnce'
    <3>1. CASE Take(f)
      BY <3>1, TakePlaces
    <3>2. CASE ~Take(f)
      <4>1. UNCHANGED <<buffer, batch, accepted, stored, failed>>
        BY <2>2, <3>2 DEF FlushStep, TryAcquire, GiveUp, FindEmpty, Spawn
      <4> QED
        BY <4>1, StillPlaced DEF PInv
    <3> QED
      BY <3>1, <3>2
  <2>3. ASSUME Tick \/ SeeClosed \/ MarkClosed \/ CloseStep
        PROVE  OnlyAccepted' /\ EachRecordOnce'
    <3>1. UNCHANGED <<buffer, batch, accepted, stored, failed>>
      BY <2>3 DEF Tick, SeeClosed, MarkClosed, CloseStep, SignalLoop, CloseReturn
    <3> QED
      BY <3>1, StillPlaced DEF PInv
  <2>4. OnlyAccepted' /\ EachRecordOnce'
    BY <1>2, <2>2, <2>3, AddPlaces, WritePlaces DEF Next, WriteStep
  <2> QED
    BY <1>1, <2>1, <2>4 DEF PInv
<1>3. CASE UNCHANGED vars
  <2>1. OnlyAccepted' /\ EachRecordOnce'
    BY <1>3, StillPlaced DEF PInv, vars
  <2>2. BatchesOwned'
    BY <1>3 DEF PInv, BatchesOwned, vars
  <2> QED
    BY <1>1, <2>1, <2>2 DEF PInv
<1> QED
  BY <1>2, <1>3

(* Every accepted record is in the buffer, in one batch, committed or        *)
(* dropped, and in one of these only.                                        *)
THEOREM NoRecordTwiceOrLost == Spec => []EachRecordOnce
<1>1. Init => PInv
  <2> SUFFICES ASSUME Init PROVE PInv
    OBVIOUS
  <2>1. \A r, p : ~At(r, p)
    BY RecordsOfEmpty DEF Init, At
  <2>2. OnlyAccepted /\ EachRecordOnce
    BY <2>1 DEF OnlyAccepted, EachRecordOnce, Init
  <2>3. BatchesOwned
    BY DEF Init, BatchesOwned
  <2> QED
    BY <2>2, <2>3, CountInit DEF PInv
<1>2. PInv => EachRecordOnce
  BY DEF PInv
<1> QED
  BY <1>1, <1>2, PlacedStep, PTL DEF Spec
=============================================================================
