------------------------ MODULE TranscriptPathProofs ------------------------
(* TranscriptPath implements FinalResults, for any sizes of the queues and   *)
(* any number of inserters: no final result is on the way twice, and none    *)
(* leaves it but into the database as long as nothing is excused.            *)
EXTENDS TranscriptPath, SequenceTheorems, TLAPS

(* Sequences of things with ids: x is in s, and x is in s and final.         *)
Has(s, x) == \E i \in DOMAIN s : s[i].id = x
HasFinal(s, x) == \E i \in DOMAIN s : s[i].id = x /\ s[i].final
Solo(s) == \A i, j \in DOMAIN s : s[i].id = s[j].id => i = j

LEMMA AppendHas ==
    ASSUME NEW T, NEW s \in Seq(T), NEW e \in T
    PROVE  /\ Append(s, e) \in Seq(T)
           /\ \A x : Has(Append(s, e), x) <=> Has(s, x) \/ x = e.id
           /\ \A x : HasFinal(Append(s, e), x) <=> HasFinal(s, x) \/ (x = e.id /\ e.final)
           /\ Solo(s) /\ ~Has(s, e.id) => Solo(Append(s, e))
<1> DEFINE t == Append(s, e)
<1>1. /\ t \in Seq(T) /\ DOMAIN t = 1..(Len(s) + 1) /\ DOMAIN s = 1..Len(s) /\ Len(s) \in Nat
      /\ t[Len(s) + 1] = e /\ \A i \in 1..Len(s) : t[i] = s[i]
  OBVIOUS
<1> HIDE DEF t
<1>2. \A i \in DOMAIN t : i \in DOMAIN s \/ i = Len(s) + 1
  BY <1>1
<1>3. Len(s) + 1 \in DOMAIN t /\ \A i \in DOMAIN s : i \in DOMAIN t
  BY <1>1
<1>4. \A x : Has(t, x) <=> Has(s, x) \/ x = e.id
  BY <1>1, <1>2, <1>3 DEF Has
<1>5. \A x : HasFinal(t, x) <=> HasFinal(s, x) \/ (x = e.id /\ e.final)
  BY <1>1, <1>2, <1>3 DEF HasFinal
<1>6. Solo(s) /\ ~Has(s, e.id) => Solo(t)
  BY <1>1, <1>2, <1>3 DEF Has, Solo
<1> QED
  BY <1>1, <1>4, <1>5, <1>6 DEF t

LEMMA TailHas ==
    ASSUME NEW T, NEW s \in Seq(T), s # << >>
    PROVE  /\ Head(s) \in T /\ Tail(s) \in Seq(T) /\ Has(s, Head(s).id)
           /\ Solo(s) => Solo(Tail(s))
           /\ \A x : Has(Tail(s), x) => Has(s, x)
           /\ \A x : Has(s, x) => Has(Tail(s), x) \/ x = Head(s).id
           /\ Solo(s) => ~Has(Tail(s), Head(s).id)
           /\ \A x : HasFinal(s, x) <=> HasFinal(Tail(s), x) \/ (x = Head(s).id /\ Head(s).final)
<1> DEFINE t == Tail(s)
<1>1. /\ t \in Seq(T) /\ Len(s) \in Nat /\ Len(s) > 0 /\ DOMAIN s = 1..Len(s)
      /\ DOMAIN t = 1..(Len(s) - 1) /\ \A i \in 1..(Len(s) - 1) : t[i] = s[i + 1]
      /\ Head(s) = s[1] /\ Head(s) \in T
  OBVIOUS
<1> HIDE DEF t
<1>2. \A i \in DOMAIN t : i + 1 \in DOMAIN s /\ i + 1 # 1 /\ t[i] = s[i + 1]
  BY <1>1
<1>3. 1 \in DOMAIN s /\ \A i \in DOMAIN s : i = 1 \/ (i - 1 \in DOMAIN t /\ t[i - 1] = s[i])
  BY <1>1
<1>4. \A x : Has(t, x) => Has(s, x)
  BY <1>2 DEF Has
<1>5. \A x : Has(s, x) => Has(t, x) \/ x = Head(s).id
  BY <1>1, <1>3 DEF Has
<1>6. Solo(s) => ~Has(t, Head(s).id)
  BY <1>1, <1>2, <1>3 DEF Has, Solo
<1>7. Solo(s) => Solo(t)
  BY <1>1, <1>2 DEF Solo
<1>8. ASSUME NEW x PROVE HasFinal(s, x) <=> HasFinal(t, x) \/ (x = Head(s).id /\ Head(s).final)
  BY <1>1, <1>2, <1>3 DEF HasFinal
<1>9. Has(s, Head(s).id)
  BY <1>1, <1>3 DEF Has
<1> QED
  BY <1>1, <1>4, <1>5, <1>6, <1>7, <1>8, <1>9 DEF t

LEMMA ConcatHas ==
    ASSUME NEW T, NEW s \in Seq(T), NEW t \in Seq(T)
    PROVE  /\ s \o t \in Seq(T)
           /\ \A x : Has(s \o t, x) <=> Has(s, x) \/ Has(t, x)
           /\ Solo(s) /\ Solo(t) /\ (\A x : ~(Has(s, x) /\ Has(t, x))) => Solo(s \o t)
<1> DEFINE u == s \o t
<1>1. /\ u \in Seq(T) /\ Len(s) \in Nat /\ Len(t) \in Nat /\ DOMAIN s = 1..Len(s)
      /\ DOMAIN t = 1..Len(t) /\ DOMAIN u = 1..(Len(s) + Len(t))
  OBVIOUS
<1>2. /\ \A i \in 1..Len(s) : u[i] = s[i]
      /\ \A i \in 1..(Len(s) + Len(t)) : i > Len(s) => u[i] = t[i - Len(s)]
  OBVIOUS
<1> HIDE DEF u
<1>3. \A i \in DOMAIN u :
        \/ i \in DOMAIN s /\ u[i] = s[i]
        \/ i - Len(s) \in DOMAIN t /\ u[i] = t[i - Len(s)]
  BY <1>1, <1>2
<1>4. /\ \A i \in DOMAIN s : i \in DOMAIN u /\ u[i] = s[i]
      /\ \A i \in DOMAIN t : i + Len(s) \in DOMAIN u /\ u[i + Len(s)] = t[i]
  <2>1. \A i \in DOMAIN s : i \in DOMAIN u /\ u[i] = s[i]
    BY <1>1, <1>2
  <2>2. ASSUME NEW i \in DOMAIN t PROVE i + Len(s) \in DOMAIN u /\ u[i + Len(s)] = t[i]
    <3>1. i + Len(s) \in 1..(Len(s) + Len(t)) /\ i + Len(s) > Len(s) /\ (i + Len(s)) - Len(s) = i
      BY <1>1
    <3> QED
      BY <1>1, <1>2, <3>1
  <2> QED
    BY <2>1, <2>2
<1>5. \A x : Has(u, x) <=> Has(s, x) \/ Has(t, x)
  BY <1>3, <1>4 DEF Has
<1>6. ASSUME Solo(s), Solo(t), \A x : ~(Has(s, x) /\ Has(t, x)) PROVE Solo(u)
  <2> SUFFICES ASSUME NEW i \in DOMAIN u, NEW j \in DOMAIN u, u[i].id = u[j].id PROVE i = j
    BY DEF Solo
  <2>1. CASE i \in DOMAIN s /\ j \in DOMAIN s
    BY <1>4, <1>6, <2>1 DEF Solo
  <2>2. CASE i - Len(s) \in DOMAIN t /\ j - Len(s) \in DOMAIN t
    <3>1. t[i - Len(s)].id = t[j - Len(s)].id
      <4>1. ASSUME NEW k \in DOMAIN u, k - Len(s) \in DOMAIN t PROVE u[k] = t[k - Len(s)]
        BY <1>1, <1>2, <4>1, SMTT(30)
      <4> QED
        BY <2>2, <4>1
    <3>2. i - Len(s) = j - Len(s)
      BY <1>6, <2>2, <3>1 DEF Solo
    <3> QED
      BY <1>1, <3>2
  <2>3. ASSUME NEW k \in DOMAIN s, NEW l \in DOMAIN t PROVE s[k].id # t[l].id
    BY <1>6 DEF Has
  <2> QED
    BY <1>3, <2>1, <2>2, <2>3
<1> QED
  BY <1>1, <1>5, <1>6 DEF u

LEMMA EmptyHas ==
    /\ Solo(<< >>) /\ \A x : ~Has(<< >>, x) /\ ~HasFinal(<< >>, x)
    /\ \A T : << >> \in Seq(T)
BY DEF Has, HasFinal, Solo

LEMMA OneHas ==
    ASSUME NEW T, NEW e \in T
    PROVE  /\ <<e>> \in Seq(T) /\ Solo(<<e>>) /\ <<e>>[1] = e /\ <<e>> # << >>
           /\ \A x : Has(<<e>>, x) <=> x = e.id
           /\ \A x : HasFinal(<<e>>, x) <=> x = e.id /\ e.final
BY DEF Has, HasFinal, Solo

(* Every element of s is of generation g.                                    *)
Fresh(s, g) == \A i \in DOMAIN s : s[i].gen = g

LEMMA FreshHas ==
    ASSUME NEW T, NEW s \in Seq(T), NEW e \in T, NEW g
    PROVE  /\ Fresh(s, g) /\ e.gen = g => Fresh(Append(s, e), g)
           /\ s # << >> /\ Fresh(s, g) => Fresh(Tail(s), g) /\ Head(s).gen = g
           /\ Fresh(<< >>, g) /\ (Fresh(<<e>>, g) <=> e.gen = g)
<1>1. Fresh(s, g) /\ e.gen = g => Fresh(Append(s, e), g)
  BY DEF Fresh
<1>2. ASSUME s # << >>, Fresh(s, g) PROVE Fresh(Tail(s), g) /\ Head(s).gen = g
  <2> DEFINE t == Tail(s)
  <2>1. /\ DOMAIN t = 1..(Len(s) - 1) /\ \A i \in 1..(Len(s) - 1) : t[i] = s[i + 1]
        /\ Len(s) \in Nat /\ Len(s) > 0 /\ DOMAIN s = 1..Len(s) /\ Head(s) = s[1]
    BY <1>2
  <2> HIDE DEF t
  <2>2. \A i \in DOMAIN t : i + 1 \in DOMAIN s /\ t[i] = s[i + 1]
    BY <2>1
  <2>3. 1 \in DOMAIN s
    BY <2>1
  <2> QED
    BY <1>2, <2>1, <2>2, <2>3 DEF Fresh, t
<1>3. Fresh(<< >>, g) /\ (Fresh(<<e>>, g) <=> e.gen = g)
  BY DEF Fresh
<1> QED
  BY <1>1, <1>2, <1>3

(* Families of such sequences: batches by number or by inserter.             *)
Within(a, x) == \E i \in DOMAIN a : Has(a[i], x)
Parted(a) ==
    /\ \A i \in DOMAIN a : Solo(a[i])
    /\ \A i, j \in DOMAIN a : \A x : Has(a[i], x) /\ Has(a[j], x) => i = j

LEMMA AppendWithin ==
    ASSUME NEW T, NEW a \in Seq(Seq(T)), NEW s \in Seq(T)
    PROVE  /\ Append(a, s) \in Seq(Seq(T))
           /\ \A x : Within(Append(a, s), x) <=> Within(a, x) \/ Has(s, x)
           /\ Parted(a) /\ Solo(s) /\ (\A x : ~(Within(a, x) /\ Has(s, x))) => Parted(Append(a, s))
<1> DEFINE b == Append(a, s)
<1>1. /\ b \in Seq(Seq(T)) /\ DOMAIN b = 1..(Len(a) + 1) /\ DOMAIN a = 1..Len(a) /\ Len(a) \in Nat
      /\ b[Len(a) + 1] = s /\ \A i \in 1..Len(a) : b[i] = a[i]
  OBVIOUS
<1> HIDE DEF b
<1>2. \A i \in DOMAIN b : (i \in DOMAIN a /\ b[i] = a[i]) \/ (i = Len(a) + 1 /\ b[i] = s)
  BY <1>1
<1>3. /\ Len(a) + 1 \in DOMAIN b /\ b[Len(a) + 1] = s
      /\ \A i \in DOMAIN a : i \in DOMAIN b /\ b[i] = a[i]
  BY <1>1
<1>4. \A x : Within(b, x) <=> Within(a, x) \/ Has(s, x)
  BY <1>2, <1>3 DEF Within
<1>5. Parted(a) /\ Solo(s) /\ (\A x : ~(Within(a, x) /\ Has(s, x))) => Parted(b)
  BY <1>2 DEF Parted, Within
<1> QED
  BY <1>1, <1>4, <1>5 DEF b

LEMMA TailWithin ==
    ASSUME NEW T, NEW a \in Seq(Seq(T)), a # << >>, Parted(a)
    PROVE  /\ Head(a) \in Seq(T) /\ Tail(a) \in Seq(Seq(T)) /\ Solo(Head(a)) /\ Parted(Tail(a))
           /\ \A x : Within(a, x) <=> Within(Tail(a), x) \/ Has(Head(a), x)
           /\ \A x : ~(Within(Tail(a), x) /\ Has(Head(a), x))
<1> DEFINE b == Tail(a)
<1>1. /\ b \in Seq(Seq(T)) /\ Len(a) \in Nat /\ Len(a) > 0 /\ DOMAIN a = 1..Len(a)
      /\ DOMAIN b = 1..(Len(a) - 1) /\ \A i \in 1..(Len(a) - 1) : b[i] = a[i + 1]
      /\ Head(a) = a[1] /\ Head(a) \in Seq(T)
  OBVIOUS
<1> HIDE DEF b
<1>2. \A i \in DOMAIN b : i + 1 \in DOMAIN a /\ i + 1 # 1 /\ b[i] = a[i + 1] /\ i \in Int
  BY <1>1
<1>3. 1 \in DOMAIN a /\ \A i \in DOMAIN a : i = 1 \/ (i - 1 \in DOMAIN b /\ b[i - 1] = a[i])
  BY <1>1
<1>4. Solo(Head(a)) /\ Parted(b)
  <2>1. \A i \in DOMAIN b : Solo(b[i])
    BY <1>2 DEF Parted
  <2>2. ASSUME NEW i \in DOMAIN b, NEW j \in DOMAIN b, NEW x, Has(b[i], x), Has(b[j], x)
        PROVE  i = j
    <3>1. i + 1 = j + 1
      BY <1>2, <2>2 DEF Parted
    <3> QED
      BY <1>2, <3>1
  <2> QED
    BY <1>1, <1>3, <2>1, <2>2 DEF Parted
<1>5. ASSUME NEW x PROVE Within(a, x) <=> Within(b, x) \/ Has(Head(a), x)
  BY <1>1, <1>2, <1>3 DEF Within
<1>6. ASSUME NEW x, Within(b, x), Has(Head(a), x) PROVE FALSE
  <2>1. PICK i \in DOMAIN b : Has(b[i], x)
    BY <1>6 DEF Within
  <2>2. i + 1 \in DOMAIN a /\ Has(a[i + 1], x) /\ i + 1 # 1
    BY <1>2, <2>1
  <2>3. 1 \in DOMAIN a /\ Has(a[1], x)
    BY <1>1, <1>3, <1>6
  <2> QED
    BY <2>2, <2>3 DEF Parted
<1> QED
  BY <1>1, <1>4, <1>5, <1>6 DEF b

LEMMA ExceptWithin ==
    ASSUME NEW I, NEW T, NEW b \in [I -> Seq(T)], NEW w \in I, NEW t \in Seq(T), Parted(b), Solo(t),
           \A x : Has(t, x) => Has(b[w], x) \/ ~Within(b, x)
    PROVE  /\ [b EXCEPT ![w] = t] \in [I -> Seq(T)] /\ Parted([b EXCEPT ![w] = t])
           /\ \A x : Within([b EXCEPT ![w] = t], x)
                       <=> Has(t, x) \/ (Within(b, x) /\ ~Has(b[w], x))
           /\ Solo(b[w]) /\ \A x : Has(b[w], x) => Within(b, x)
<1> DEFINE c == [b EXCEPT ![w] = t]
<1>1. /\ c \in [I -> Seq(T)] /\ DOMAIN c = I /\ DOMAIN b = I
      /\ c[w] = t /\ \A v \in I : v # w => c[v] = b[v]
  OBVIOUS
<1> HIDE DEF c
<1>2. Parted(c)
  <2>1. \A v \in I : Solo(c[v])
    BY <1>1 DEF Parted
  <2>2. ASSUME NEW u \in I, NEW v \in I, NEW x, Has(c[u], x), Has(c[v], x), u # v PROVE FALSE
    <3>1. CASE u # w /\ v # w
      BY <1>1, <2>2, <3>1 DEF Parted
    <3>2. CASE u = w
      BY <1>1, <2>2, <3>2 DEF Parted, Within
    <3>3. CASE v = w
      BY <1>1, <2>2, <3>3 DEF Parted, Within
    <3> QED
      BY <3>1, <3>2, <3>3
  <2> QED
    BY <1>1, <2>1, <2>2 DEF Parted
<1>3. ASSUME NEW x PROVE Within(c, x) <=> Has(t, x) \/ (Within(b, x) /\ ~Has(b[w], x))
  BY <1>1 DEF Parted, Within
<1>4. Solo(b[w]) /\ \A x : Has(b[w], x) => Within(b, x)
  BY <1>1 DEF Parted, Within
<1> QED
  BY <1>1, <1>2, <1>3, <1>4 DEF c

(* Records of a batch are those that were flushed, with a meeting added.     *)
LEMMA StampedHas ==
    ASSUME NEW T, NEW s \in Seq(T), \A e \in T : e.id \in Nat /\ e.of \in Nat, NEW m \in Nat
    PROVE  LET t == [i \in DOMAIN s |-> [id |-> s[i].id, of |-> s[i].of, meeting |-> m]]
           IN  /\ t \in Seq([id : Nat, of : Nat, meeting : Nat])
               /\ \A x : Has(t, x) <=> Has(s, x)
               /\ Solo(s) => Solo(t)
<1> DEFINE t == [i \in DOMAIN s |-> [id |-> s[i].id, of |-> s[i].of, meeting |-> m]]
<1>1. DOMAIN s = 1..Len(s) /\ Len(s) \in Nat /\ \A i \in DOMAIN s : s[i] \in T
  OBVIOUS
<1>2. DOMAIN t = DOMAIN s /\ \A i \in DOMAIN s : t[i].id = s[i].id
  OBVIOUS
<1>3. t \in Seq([id : Nat, of : Nat, meeting : Nat])
  <2>1. \A i \in 1..Len(s) : t[i] \in [id : Nat, of : Nat, meeting : Nat]
    BY <1>1
  <2> DEFINE R == [id : Nat, of : Nat, meeting : Nat]
  <2>2. t \in [1..Len(s) -> R]
    BY <1>1, <2>1
  <2> HIDE DEF t, R
  <2>3. t \in Seq(R)
    BY <1>1, <2>2, SeqDef
  <2> QED
    BY <2>3 DEF R
<1> HIDE DEF t
<1>4. (\A x : Has(t, x) <=> Has(s, x)) /\ (Solo(s) => Solo(t))
  BY <1>2 DEF Has, Solo
<1> QED
  BY <1>3, <1>4 DEF t

(* The sets of ids in which the refinement speaks.                           *)
LEMMA SetsHas ==
    ASSUME NEW s
    PROVE  \A x : (x \in Finals(s) <=> HasFinal(s, x)) /\ (x \in IdsOf(s) <=> Has(s, x))
BY DEF Finals, IdsOf, Elements, Has, HasFinal
-----------------------------------------------------------------------------
(* The invariant *)

Rs == [id : Nat, final : BOOLEAN, gen : Nat, of : Nat]
Kept1 == [id : Nat, of : Nat]
Rows == [id : Nat, of : Nat, meeting : Nat]

(* What the argument needs of the types.                                     *)
InHand == hand = << >> \/ \E r \in Rs : hand = <<r>>
Typed ==
    /\ arrived \in 0..MaxResults /\ excused \in BOOLEAN /\ closed \in BOOLEAN
    /\ gen \in Nat /\ started \in Nat /\ captured \in Nat /\ meeting \in Nat /\ making \in Nat
    /\ receivers \subseteq [gen : Nat, of : Nat]
    /\ queue \in Seq(Rs) /\ overflow \in Seq(Rs) /\ work \in Seq(Rs) /\ InHand
    /\ pending \in Seq(Kept1) /\ held \in [Flushers -> [recs : Seq(Kept1), meeting : Nat]]
    /\ async \in Seq(Seq(Rows)) /\ batch \in [Inserters -> Seq(Rows)] /\ stored \in Seq(Rows)

(* Where the goroutines are says which places are empty.                     *)
Busy == {"check", "ensure", "attach", "persist", "flush", "put"}
Control ==
    /\ pc \in {"top", "select", "dead"} \cup Busy
    /\ pc \in Busy <=> hand # << >>
    /\ pc = "top" => work = << >>
    /\ pc \in Busy \ {"check"} => hand[1].final
    /\ pc # "flush" => held["processor"].recs = << >>
    /\ reader # "flush" => held["reader"].recs = << >>

(* Until something is excused, everything is of the last generation, and     *)
(* before the first start there is nothing.                                  *)
Latest ==
    /\ started = 0 => arrived = 0 /\ receivers = {}
    /\ reader = "reset" => excused \/ started = 0
    /\ reader \in {"ensure", "attach", "run", "wake"} => started # 0
    /\ ~excused =>
         /\ captured = gen /\ \A c \in receivers : c.gen = gen
         /\ Fresh(queue, gen) /\ Fresh(overflow, gen) /\ Fresh(work, gen) /\ Fresh(hand, gen)

(* Every result that arrived is in at most one place, and there once.        *)
Flushed(f, x) == Has(held[f].recs, x)
Later(x) == Within(async, x) \/ Within(batch, x) \/ Has(stored, x)
Known(x) == Has(pending, x) \/ Flushed("processor", x) \/ Flushed("reader", x) \/ Later(x)
Anywhere(x) == Has(queue, x) \/ Has(overflow, x) \/ Has(work, x) \/ Has(hand, x) \/ Known(x)
Single(x) ==
    /\ Has(queue, x) => ~Has(overflow, x) /\ ~Has(work, x) /\ ~Has(hand, x) /\ ~Known(x)
    /\ Has(overflow, x) => ~Has(work, x) /\ ~Has(hand, x) /\ ~Known(x)
    /\ Has(work, x) => ~Has(hand, x) /\ ~Known(x)
    /\ Has(hand, x) => ~Known(x)
    /\ Has(pending, x) => ~Flushed("processor", x) /\ ~Flushed("reader", x) /\ ~Later(x)
    /\ Flushed("processor", x) => ~Flushed("reader", x) /\ ~Later(x)
    /\ Flushed("reader", x) => ~Later(x)
    /\ Within(async, x) => ~Within(batch, x) /\ ~Has(stored, x)
    /\ Within(batch, x) => ~Has(stored, x)
Alone ==
    /\ Solo(queue) /\ Solo(overflow) /\ Solo(work) /\ Solo(pending)
    /\ Solo(held["processor"].recs) /\ Solo(held["reader"].recs)
    /\ Parted(async) /\ Parted(batch) /\ Solo(stored)
Placed == \A x : Single(x) /\ (Anywhere(x) => x \in 1..arrived)

Inv == Typed /\ Control /\ Latest /\ Alone /\ Placed

(* What a step may do to the final results on the way.                       *)
Way(x) ==
    \/ HasFinal(queue, x) \/ HasFinal(overflow, x) \/ HasFinal(work, x) \/ HasFinal(hand, x)
    \/ Has(pending, x) \/ Flushed("processor", x) \/ Flushed("reader", x)
    \/ Within(async, x) \/ Within(batch, x)
Stays == excused' = excused /\ \A x : (Way(x)' <=> Way(x)) /\ (Has(stored, x)' <=> Has(stored, x))
Loses == excused' = TRUE /\ \A x : (Way(x)' => Way(x)) /\ (Has(stored, x)' <=> Has(stored, x))
Comes ==
    /\ excused' = excused /\ arrived + 1 \in Ids
    /\ ~Way(arrived + 1) /\ ~Has(stored, arrived + 1)
    /\ \A x : (Way(x)' <=> Way(x) \/ x = arrived + 1) /\ (Has(stored, x)' <=> Has(stored, x))
Rests(s) ==
    /\ excused' = excused /\ \A x : Has(s, x) => Way(x)
    /\ \A x : (Way(x)' <=> Way(x) /\ ~Has(s, x)) /\ (Has(stored, x)' <=> Has(stored, x) \/ Has(s, x))
Simulates == Stays \/ Loses \/ Comes \/ \E s : Rests(s)

LEMMA FinalHas == \A s, x : HasFinal(s, x) => Has(s, x)
BY DEF Has, HasFinal

LEMMA FlightWay ==
    ASSUME DOMAIN batch = Inserters
    PROVE  \A x : (x \in Flight <=> Way(x)) /\ (x \in IdsOf(stored) <=> Has(stored, x))
<1> DEFINE H == UNION {IdsOf(held[f].recs) : f \in Flushers}
           A == UNION {IdsOf(b) : b \in Elements(async)}
           B == UNION {IdsOf(batch[w]) : w \in Inserters}
<1>1. \A x : x \in H
             <=> Flushed("processor", x) \/ Flushed("reader", x)
  BY SetsHas DEF Flushers, Flushed
<1>2. \A x : x \in A <=> Within(async, x)
  BY SetsHas DEF Elements, Within
<1>3. \A x : x \in B <=> Within(batch, x)
  BY SetsHas DEF Within
<1>4. Flight = Finals(queue) \cup Finals(overflow) \cup Finals(work) \cup Finals(hand)
                 \cup IdsOf(pending) \cup H \cup A \cup B
  BY DEF Flight
<1>5. \A x : Way(x) <=>
        \/ x \in Finals(queue) \/ x \in Finals(overflow) \/ x \in Finals(work) \/ x \in Finals(hand)
        \/ x \in IdsOf(pending) \/ Flushed("processor", x) \/ Flushed("reader", x)
        \/ Within(async, x) \/ Within(batch, x)
  BY SetsHas DEF Way
<1> HIDE DEF H, A, B
<1> QED
  BY <1>1, <1>2, <1>3, <1>4, <1>5, SetsHas

LEMMA NextWay ==
    ASSUME DOMAIN batch' = Inserters
    PROVE  \A x : (x \in Flight' <=> Way(x)') /\ (x \in IdsOf(stored') <=> Has(stored', x))
<1> DEFINE H == UNION {IdsOf(held'[f].recs) : f \in Flushers}
           A == UNION {IdsOf(b) : b \in Elements(async')}
           B == UNION {IdsOf(batch'[w]) : w \in Inserters}
<1>1. \A x : x \in H
             <=> Flushed("processor", x)' \/ Flushed("reader", x)'
  BY SetsHas DEF Flushers, Flushed
<1>2. \A x : x \in A <=> Within(async', x)
  BY SetsHas DEF Elements, Within
<1>3. \A x : x \in B <=> Within(batch', x)
  BY SetsHas DEF Within
<1>4. Flight' = Finals(queue') \cup Finals(overflow') \cup Finals(work') \cup Finals(hand')
                 \cup IdsOf(pending') \cup H \cup A \cup B
  BY DEF Flight
<1>5. \A x : Way(x)' <=>
        \/ x \in Finals(queue') \/ x \in Finals(overflow') \/ x \in Finals(work') \/ x \in Finals(hand')
        \/ x \in IdsOf(pending') \/ Flushed("processor", x)' \/ Flushed("reader", x)'
        \/ Within(async', x) \/ Within(batch', x)
  BY SetsHas DEF Way
<1> HIDE DEF H, A, B
<1> QED
  BY <1>1, <1>2, <1>3, <1>4, <1>5, SetsHas

LEMMA Numbers == MaxResults \in Nat /\ PendingSize \in Nat /\ PendingSize > 0
BY PathAssumption

LEMMA WayPlaced ==
    ASSUME Inv, NEW x, Way(x)
    PROVE  Anywhere(x) /\ x \in Ids /\ ~Has(stored, x)
<1>1. Anywhere(x)
  BY FinalHas DEF Way, Anywhere, Known, Later
<1>2. x \in 1..arrived
  BY <1>1 DEF Inv, Placed
<1>3. ~Has(stored, x)
  BY FinalHas DEF Way, Inv, Placed, Single, Known, Later
<1> QED
  BY <1>1, <1>2, <1>3, Numbers DEF Inv, Typed, Ids

(* What a step does to the final results is a step of FinalResults.          *)
LEMMA Simulation ==
    ASSUME Inv, Typed', Simulates
    PROVE  [Path!FNext]_(Path!fvars)
<1>1. \A x : (x \in Flight <=> Way(x)) /\ (x \in IdsOf(stored) <=> Has(stored, x))
  BY FlightWay DEF Inv, Typed
<1>2. \A x : (x \in Flight' <=> Way(x)') /\ (x \in IdsOf(stored') <=> Has(stored', x))
  BY NextWay DEF Typed
<1>3. Flight \in SUBSET Ids
  BY <1>1, WayPlaced
<1>4. CASE Stays
  <2>1. Flight' = Flight /\ IdsOf(stored)' = IdsOf(stored) /\ excused' = excused
    BY <1>1, <1>2, <1>4 DEF Stays
  <2> QED
    BY <2>1 DEF Path!fvars
<1>5. CASE Loses
  <2> DEFINE lost == Flight \ Flight'
  <2>1. lost \in SUBSET Ids /\ lost \subseteq Flight /\ Flight' = Flight \ lost
    BY <1>1, <1>2, <1>3, <1>5 DEF Loses
  <2>2. IdsOf(stored)' = IdsOf(stored) /\ excused' = TRUE
    BY <1>1, <1>2, <1>5 DEF Loses
  <2> HIDE DEF lost
  <2>3. Path!Drop(lost)
    BY <2>1, <2>2 DEF Path!Drop
  <2> QED
    BY <2>1, <2>3 DEF Path!FNext
<1>6. CASE Comes
  <2>1. Flight' = Flight \cup {arrived + 1} /\ arrived + 1 \notin Flight \cup IdsOf(stored)
    BY <1>1, <1>2, <1>6 DEF Comes
  <2>2. IdsOf(stored)' = IdsOf(stored) /\ excused' = excused /\ arrived + 1 \in Ids
    BY <1>1, <1>2, <1>6 DEF Comes
  <2>3. Path!Accept(arrived + 1)
    BY <2>1, <2>2 DEF Path!Accept
  <2> QED
    BY <2>2, <2>3 DEF Path!FNext
<1>7. ASSUME NEW s, Rests(s) PROVE Path!FNext
  <2>1. IdsOf(s) \in SUBSET Ids /\ IdsOf(s) \subseteq Flight
    BY <1>1, <1>3, <1>7, SetsHas DEF Rests
  <2>2. Flight' = Flight \ IdsOf(s) /\ IdsOf(stored)' = IdsOf(stored) \cup IdsOf(s)
    BY <1>1, <1>2, <1>7, SetsHas DEF Rests
  <2>3. Path!Store(IdsOf(s))
    BY <1>7, <2>1, <2>2 DEF Path!Store, Rests
  <2> QED
    BY <2>1, <2>3 DEF Path!FNext
<1> QED
  BY <1>4, <1>5, <1>6, <1>7 DEF Simulates
-----------------------------------------------------------------------------
(* The steps *)

(* Steps that move no result.                                                *)
LEMMA Unmoved ==
    ASSUME Inv, UNCHANGED <<arrived, queue, overflow, work, hand, pending, held, async, batch, stored>>
    PROVE  /\ Alone' /\ Placed'
           /\ excused' = excused => Simulates
           /\ excused' = TRUE => Simulates
<1>1. Alone' /\ Placed'
  BY DEF Inv, Alone, Placed, Single, Anywhere, Known, Later, Flushed
<1>2. \A x : (Way(x)' <=> Way(x)) /\ (Has(stored, x)' <=> Has(stored, x))
  BY DEF Way, Flushed
<1> QED
  BY <1>1, <1>2 DEF Simulates, Stays, Loses

(* The reader and the session itself.                                        *)
LEMMA QuietInv ==
    ASSUME Inv,
           \/ StartEnsure \/ StartAttach \/ StartReceiver \/ ResumeReceiver \/ CloseSession \/ Attach
    PROVE  Inv' /\ Simulates
<1>1. UNCHANGED <<arrived, queue, overflow, work, hand, pending, held, async, batch, stored>>
  BY DEF StartEnsure, StartAttach, StartReceiver, ResumeReceiver, CloseSession, Attach,
     input, results, hands, store
<1>2. UNCHANGED <<gen, started, captured>> /\ (excused' = excused \/ excused' = TRUE)
  BY DEF StartEnsure, StartAttach, StartReceiver, ResumeReceiver, CloseSession, Attach,
     input, results, hands, store
<1>3. receivers' = receivers \/ (started # 0 /\ receivers' = receivers \cup {[gen |-> captured, of |-> started]})
  BY DEF StartEnsure, StartAttach, StartReceiver, ResumeReceiver, CloseSession, Attach,
     input, results, hands, store, Inv, Latest
<1>4. Typed'
  <2>1. meeting' \in {meeting, making, started} /\ making' \in {making, 0}
    BY DEF StartEnsure, StartAttach, StartReceiver, ResumeReceiver, CloseSession, Attach,
       input, results, hands, store
  <2>2. closed' \in {closed, TRUE}
    BY DEF StartEnsure, StartAttach, StartReceiver, ResumeReceiver, CloseSession, Attach
  <2>3. /\ meeting' \in Nat /\ making' \in Nat
        /\ closed' \in BOOLEAN /\ excused' \in BOOLEAN
    <3>1. meeting' \in Nat /\ making' \in Nat
      BY <2>1 DEF Inv, Typed
    <3>2. closed' \in BOOLEAN /\ excused' \in BOOLEAN
      BY <1>2, <2>2, Zenon DEF Inv, Typed
    <3> QED
      BY <3>1, <3>2
  <2>4. receivers' \subseteq [gen : Nat, of : Nat]
    BY <1>3 DEF Inv, Typed
  <2>5. gen' \in Nat /\ started' \in Nat /\ captured' \in Nat
    BY <1>2 DEF Inv, Typed
  <2>6. /\ arrived' \in 0..MaxResults /\ InHand'
        /\ queue' \in Seq(Rs) /\ overflow' \in Seq(Rs) /\ work' \in Seq(Rs)
        /\ pending' \in Seq(Kept1) /\ held' \in [Flushers -> [recs : Seq(Kept1), meeting : Nat]]
        /\ async' \in Seq(Seq(Rows)) /\ batch' \in [Inserters -> Seq(Rows)] /\ stored' \in Seq(Rows)
    BY <1>1 DEF Inv, Typed, InHand
  <2> QED
    BY <2>3, <2>4, <2>5, <2>6 DEF Typed
<1>5. Control'
  BY <1>1 DEF StartEnsure, StartAttach, StartReceiver, ResumeReceiver, CloseSession, Attach,
     Inv, Control, Busy
<1>6. Latest'
  <2>1. /\ reader' = "reset" => reader = "reset"
        /\ reader' \in {"ensure", "attach", "run", "wake"} => reader \in {"ensure", "attach", "run", "wake"}
    BY DEF StartEnsure, StartAttach, StartReceiver, ResumeReceiver, CloseSession, Attach
  <2> QED
    BY <1>1, <1>2, <1>3, <2>1 DEF Inv, Latest
<1> QED
  BY <1>1, <1>2, <1>4, <1>5, <1>6, Unmoved DEF Inv

LEMMA ArriveInv ==
    ASSUME Inv, NEW c \in receivers, NEW final \in BOOLEAN, Arrive(c, final)
    PROVE  Inv' /\ Simulates
<1> DEFINE r == [id |-> arrived + 1, final |-> final, gen |-> c.gen, of |-> c.of]
<1>1. /\ r \in Rs /\ r.id = arrived + 1 /\ r.final = final /\ r.gen = c.gen
      /\ arrived' = arrived + 1 /\ arrived' \in 0..MaxResults /\ arrived + 1 \in Ids
  BY Numbers DEF Inv, Typed, Arrive, Rs, Ids
<1>2. ~Anywhere(arrived + 1) /\ 1..arrived \subseteq 1..arrived' /\ arrived + 1 \in 1..arrived'
  BY <1>1 DEF Inv, Typed, Placed
<1>3. /\ UNCHANGED <<receivers, gen, started, captured, meeting, pc, work, hand, making, reader,
                     pending, held, async, batch, stored, late>>
      /\ started # 0
  BY DEF Arrive, hands, store, Inv, Latest
<1> HIDE DEF r
<1>4. CASE queue' = Append(queue, r) /\ UNCHANGED <<overflow, wake, closed, excused>>
  <2>1. /\ queue' \in Seq(Rs) /\ \A x : Has(queue', x) <=> Has(queue, x) \/ x = arrived + 1
        /\ \A x : HasFinal(queue', x) <=> HasFinal(queue, x) \/ (x = arrived + 1 /\ final)
    BY <1>1, <1>4, AppendHas DEF Inv, Typed
  <2>2. Solo(queue')
    BY <1>1, <1>2, <1>4, AppendHas DEF Inv, Typed, Alone, Anywhere
  <2>3. Typed' /\ Control'
    BY <1>1, <1>3, <1>4, <2>1 DEF Inv, Typed, InHand, Control
  <2>4. Latest'
    BY <1>1, <1>3, <1>4, FreshHas DEF Inv, Typed, Latest
  <2>5. Alone'
    BY <1>3, <1>4, <2>2 DEF Inv, Alone
  <2>6. Placed'
    BY <1>2, <1>3, <1>4, <2>1 DEF Inv, Placed, Single, Anywhere, Known, Later, Flushed
  <2>7. Simulates
    <3>1. \A x : Way(x)' <=> Way(x) \/ (x = arrived + 1 /\ final)
      BY <1>3, <1>4, <2>1 DEF Way, Flushed
    <3>2. ~Way(arrived + 1) /\ ~Has(stored, arrived + 1)
      BY <1>2, FinalHas DEF Way, Anywhere, Known, Later
    <3> QED
      BY <1>1, <1>3, <1>4, <3>1, <3>2 DEF Simulates, Stays, Comes
  <2> QED
    BY <2>3, <2>4, <2>5, <2>6, <2>7 DEF Inv
<1>5. CASE final /\ overflow' = Append(overflow, r) /\ UNCHANGED <<queue, closed, excused>>
  <2>1. /\ overflow' \in Seq(Rs) /\ \A x : Has(overflow', x) <=> Has(overflow, x) \/ x = arrived + 1
        /\ \A x : HasFinal(overflow', x) <=> HasFinal(overflow, x) \/ (x = arrived + 1 /\ final)
    BY <1>1, <1>5, AppendHas DEF Inv, Typed
  <2>2. Solo(overflow')
    BY <1>1, <1>2, <1>5, AppendHas DEF Inv, Typed, Alone, Anywhere
  <2>3. Typed' /\ Control'
    BY <1>1, <1>3, <1>5, <2>1 DEF Inv, Typed, InHand, Control
  <2>4. Latest'
    BY <1>1, <1>3, <1>5, FreshHas DEF Inv, Typed, Latest
  <2>5. Alone'
    BY <1>3, <1>5, <2>2 DEF Inv, Alone
  <2>6. Placed'
    BY <1>2, <1>3, <1>5, <2>1 DEF Inv, Placed, Single, Anywhere, Known, Later, Flushed
  <2>7. Simulates
    <3>1. \A x : Way(x)' <=> Way(x) \/ x = arrived + 1
      BY <1>3, <1>5, <2>1 DEF Way, Flushed
    <3>2. ~Way(arrived + 1) /\ ~Has(stored, arrived + 1)
      BY <1>2, FinalHas DEF Way, Anywhere, Known, Later
    <3> QED
      BY <1>1, <1>3, <1>5, <3>1, <3>2 DEF Simulates, Comes
  <2> QED
    BY <2>3, <2>4, <2>5, <2>6, <2>7 DEF Inv
<1>6. CASE closed' = (closed \/ final) /\ excused' = (excused \/ final) /\ UNCHANGED <<queue, overflow>>
  <2>1. Typed' /\ Control' /\ Latest' /\ Alone'
    BY <1>1, <1>3, <1>6 DEF Inv, Typed, InHand, Control, Latest, Alone
  <2>2. Placed'
    BY <1>2, <1>3, <1>6 DEF Inv, Placed, Single, Anywhere, Known, Later, Flushed
  <2>3. Simulates
    <3>1. \A x : (Way(x)' <=> Way(x)) /\ (Has(stored, x)' <=> Has(stored, x))
      BY <1>3, <1>6 DEF Way, Flushed
    <3> QED
      BY <1>6, <3>1 DEF Simulates, Stays, Loses, Inv, Typed
  <2> QED
    BY <2>1, <2>2, <2>3 DEF Inv
<1> QED
  BY <1>4, <1>5, <1>6 DEF Arrive, Signal, r

(* Before the first start nothing is anywhere.                               *)
LEMMA NothingYet ==
    ASSUME Inv, started = 0, NEW g
    PROVE  /\ \A x : ~Anywhere(x) /\ ~Way(x)
           /\ Fresh(queue, g) /\ Fresh(overflow, g) /\ Fresh(work, g) /\ Fresh(hand, g)
           /\ receivers = {}
<1>1. arrived = 0 /\ receivers = {}
  BY DEF Inv, Latest
<1>2. \A x : ~Anywhere(x)
  BY <1>1 DEF Inv, Placed
<1>3. \A x : ~Way(x)
  BY <1>2, FinalHas DEF Way, Anywhere, Known, Later
<1>4. Fresh(queue, g) /\ Fresh(overflow, g) /\ Fresh(work, g) /\ Fresh(hand, g)
  BY <1>2 DEF Fresh, Anywhere, Has
<1> QED
  BY <1>1, <1>2, <1>3, <1>4

(* The queues are emptied with the generation that is superseded: after the  *)
(* first start that is excused, and at the first start they are empty.       *)
LEMMA AdvanceInv ==
    ASSUME Inv, Reconnect \/ Resume \/ StartAdvance
    PROVE  Inv' /\ Simulates
<1>1. /\ queue' = << >> /\ overflow' = << >> /\ gen' = gen + 1 /\ gen' \in Nat
      /\ UNCHANGED <<arrived, work, hand, pending, held, async, batch, stored, pc, meeting,
                     making, closed>>
  BY DEF Reconnect, Resume, StartAdvance, Advance, hands, store, Inv, Typed
<1>2. /\ started' \in {started, gen'} /\ captured' \in {captured, gen'}
      /\ \/ receivers' = receivers
         \/ receivers' = receivers \cup {[gen |-> gen', of |-> started]}
  BY DEF Reconnect, Resume, StartAdvance, Advance
<1>3. excused' = excused \/ excused' = TRUE
  BY DEF Reconnect, Resume, StartAdvance
<1>4. Typed'
  <2>1. started' \in Nat /\ captured' \in Nat /\ receivers' \subseteq [gen : Nat, of : Nat]
    BY <1>1, <1>2 DEF Inv, Typed
  <2>2. excused' \in BOOLEAN
    BY <1>3, Zenon DEF Inv, Typed
  <2>3. queue' \in Seq(Rs) /\ overflow' \in Seq(Rs)
    BY <1>1, EmptyHas
  <2>4. /\ arrived' \in 0..MaxResults /\ InHand' /\ closed' \in BOOLEAN
        /\ meeting' \in Nat /\ making' \in Nat /\ work' \in Seq(Rs)
        /\ pending' \in Seq(Kept1) /\ held' \in [Flushers -> [recs : Seq(Kept1), meeting : Nat]]
        /\ async' \in Seq(Seq(Rows)) /\ batch' \in [Inserters -> Seq(Rows)] /\ stored' \in Seq(Rows)
    BY <1>1 DEF Inv, Typed, InHand
  <2> QED
    BY <1>1, <2>1, <2>2, <2>3, <2>4 DEF Typed
<1>5. Control'
  <2>1. reader' = reader \/ (reader # "flush" /\ reader' # "flush")
    BY DEF Reconnect, Resume, StartAdvance
  <2> QED
    BY <1>1, <2>1 DEF Inv, Control
<1>6. Alone' /\ Placed'
  <2>1. Alone'
    BY <1>1, EmptyHas DEF Inv, Alone
  <2>2. Placed'
    BY <1>1, EmptyHas DEF Inv, Placed, Single, Anywhere, Known, Later, Flushed
  <2> QED
    BY <2>1, <2>2
<1>7. CASE excused' = TRUE
  <2>1. Latest'
    <3>1. CASE Reconnect \/ Resume
      BY <1>1, <1>7, <3>1 DEF Reconnect, Resume, Inv, Latest
    <3>2. CASE StartAdvance
      BY <1>1, <1>7, <3>2 DEF StartAdvance, Inv, Latest, Typed
    <3> QED
      BY <3>1, <3>2
  <2>2. \A x : (Way(x)' => Way(x)) /\ (Has(stored, x)' <=> Has(stored, x))
    BY <1>1, EmptyHas DEF Way, Flushed
  <2> QED
    BY <1>4, <1>5, <1>6, <1>7, <2>1, <2>2 DEF Inv, Simulates, Loses
<1>8. CASE ~excused'
  <2>1. /\ started = 0 /\ ~excused /\ excused' = excused /\ reader' = "ensure"
        /\ started' = gen' /\ captured' = gen' /\ receivers' = receivers
    BY <1>3, <1>8 DEF Reconnect, Resume, StartAdvance, Inv, Latest
  <2>2. Latest'
    <3>1. Fresh(queue, gen') /\ Fresh(work, gen') /\ Fresh(hand, gen') /\ receivers = {}
      BY <2>1, NothingYet
    <3>2. Fresh(queue', gen') /\ Fresh(overflow', gen') /\ Fresh(work', gen') /\ Fresh(hand', gen')
      BY <1>1, <3>1 DEF Fresh
    <3>3. started' # 0
      BY <1>1, <2>1 DEF Inv, Typed
    <3> QED
      BY <2>1, <3>1, <3>2, <3>3 DEF Latest
  <2>3. \A x : (Way(x)' <=> Way(x)) /\ (Has(stored, x)' <=> Has(stored, x))
    BY <1>1, <2>1, NothingYet, EmptyHas DEF Way, Flushed
  <2> QED
    BY <1>4, <1>5, <1>6, <2>1, <2>2, <2>3 DEF Inv, Simulates, Stays
<1> QED
  BY <1>4, <1>7, <1>8 DEF Typed

LEMMA StartResetInv ==
    ASSUME Inv, StartReset
    PROVE  Inv' /\ Simulates
<1>1. /\ pending' = << >> /\ meeting' = 0 /\ reader = "idle" /\ reader' = "reset"
      /\ excused' = (excused \/ started > 0)
      /\ UNCHANGED <<arrived, receivers, gen, started, captured, queue, overflow, work, hand,
                     held, async, batch, stored, pc, making, closed>>
  BY DEF StartReset, input, results, hands, store
<1>2. started # 0 <=> started > 0
  BY DEF Inv, Typed
<1>3. Typed'
  <2>1. pending' \in Seq(Kept1) /\ excused' \in BOOLEAN /\ meeting' \in Nat
    BY <1>1, EmptyHas DEF Inv, Typed
  <2> QED
    BY <1>1, <2>1 DEF Inv, Typed, InHand
<1>4. Control'
  BY <1>1 DEF Inv, Control
<1>5. Latest'
  BY <1>1, <1>2 DEF Inv, Latest
<1>6. Alone'
  BY <1>1, EmptyHas DEF Inv, Alone
<1>7. Placed'
  BY <1>1, EmptyHas DEF Inv, Placed, Single, Anywhere, Known, Later, Flushed
<1>8. Simulates
  <2>1. \A x : (Way(x)' => Way(x)) /\ (Has(stored, x)' <=> Has(stored, x))
    BY <1>1, EmptyHas DEF Way, Flushed
  <2>2. CASE excused' = TRUE
    BY <2>1, <2>2 DEF Simulates, Loses
  <2>3. CASE excused' # TRUE
    <3>1. started = 0 /\ excused' = excused
      BY <1>1, <1>2, <2>3 DEF Inv, Typed
    <3>2. \A x : Way(x)' <=> Way(x)
      BY <2>1, <3>1, NothingYet
    <3> QED
      BY <2>1, <3>1, <3>2 DEF Simulates, Stays
  <2> QED
    BY <2>2, <2>3
<1> QED
  BY <1>3, <1>4, <1>5, <1>6, <1>7, <1>8 DEF Inv
-----------------------------------------------------------------------------
(* The processor *)

LEMMA HandHas ==
    ASSUME Inv, hand # << >>
    PROVE  /\ hand[1] \in Rs /\ Rec(hand[1]) \in Kept1 /\ Rec(hand[1]).id = hand[1].id
           /\ \A x : Has(hand, x) <=> x = hand[1].id
           /\ \A x : HasFinal(hand, x) <=> x = hand[1].id /\ hand[1].final
           /\ Fresh(hand, gen) => hand[1].gen = gen
<1>1. PICK r \in Rs : hand = <<r>>
  BY DEF Inv, Typed, InHand
<1>2. hand[1] = r
  BY <1>1
<1> QED
  BY <1>1, <1>2, OneHas, FreshHas DEF Rec, Kept1, Rs, Inv, Typed

LEMMA DrainedInv ==
    ASSUME Inv, Drained
    PROVE  Inv' /\ Simulates
<1>1. /\ pc = "top" /\ pc' = "select" /\ work = << >> /\ work' = overflow /\ overflow' = << >>
      /\ UNCHANGED <<arrived, receivers, gen, started, captured, meeting, closed, queue, hand,
                     making, reader, pending, held, async, batch, stored, excused>>
  BY DEF Drained, input, hands, store, Inv, Control
<1>2. Typed'
  BY <1>1, EmptyHas DEF Inv, Typed, InHand
<1>3. Control' /\ Latest'
  BY <1>1, FreshHas, EmptyHas DEF Inv, Control, Latest, Busy, Fresh
<1>4. Alone'
  BY <1>1, EmptyHas DEF Inv, Alone
<1>5. Placed'
  BY <1>1, EmptyHas DEF Inv, Placed, Single, Anywhere, Known, Later, Flushed
<1>6. \A x : (Way(x)' <=> Way(x)) /\ (Has(stored, x)' <=> Has(stored, x))
  BY <1>1, EmptyHas DEF Way, Flushed
<1> QED
  BY <1>1, <1>2, <1>3, <1>4, <1>5, <1>6 DEF Inv, Simulates, Stays

LEMMA SelectInv ==
    ASSUME Inv, Select
    PROVE  Inv' /\ Simulates
<1>1. /\ pc = "select" /\ hand = << >>
      /\ UNCHANGED <<arrived, receivers, gen, started, captured, meeting, closed, overflow,
                     making, reader, pending, held, async, batch, stored, excused>>
  BY DEF Select, input, store, Inv, Control, Busy
<1>2. CASE work # << >> /\ Handle(Head(work)) /\ work' = Tail(work) /\ UNCHANGED queue
  <2>1. hand' = <<Head(work)>> /\ pc' = "check" /\ Head(work) \in Rs
    BY <1>2, TailHas DEF Handle, Inv, Typed
  <2>2. /\ work' \in Seq(Rs) /\ \A x : Has(work', x) => Has(work, x)
        /\ ~Has(work', Head(work).id) /\ Has(work, Head(work).id) /\ Solo(work')
        /\ \A x : HasFinal(work, x) <=> HasFinal(work', x) \/ (x = Head(work).id /\ Head(work).final)
    BY <1>2, TailHas DEF Inv, Typed, Alone
  <2>3. /\ hand' # << >> /\ \A x : Has(hand', x) <=> x = Head(work).id
        /\ \A x : HasFinal(hand', x) <=> x = Head(work).id /\ Head(work).final
    BY <2>1, OneHas
  <2>4. Typed'
    BY <1>1, <1>2, <2>1, <2>2 DEF Inv, Typed, InHand
  <2>5. Control'
    BY <1>1, <2>1, <2>3 DEF Inv, Control, Busy
  <2>6. Latest'
    <3>1. ~excused => Fresh(work', gen) /\ Head(work).gen = gen
      BY <1>2, <2>1, FreshHas DEF Inv, Typed, Latest
    <3>2. ~excused => Fresh(work', gen) /\ Fresh(hand', gen)
      BY <2>1, <3>1, FreshHas DEF Inv, Typed
    <3> QED
      BY <1>1, <1>2, <3>2 DEF Inv, Latest
  <2>7. Alone'
    BY <1>1, <1>2, <2>2 DEF Inv, Alone
  <2>8. Placed'
    BY <1>1, <1>2, <2>2, <2>3, EmptyHas DEF Inv, Placed, Single, Anywhere, Known, Later, Flushed
  <2>9. \A x : (Way(x)' <=> Way(x)) /\ (Has(stored, x)' <=> Has(stored, x))
    BY <1>1, <1>2, <2>2, <2>3, EmptyHas DEF Way, Flushed
  <2> QED
    BY <1>1, <2>4, <2>5, <2>6, <2>7, <2>8, <2>9 DEF Inv, Simulates, Stays
<1>3. CASE queue # << >> /\ Handle(Head(queue)) /\ queue' = Tail(queue) /\ UNCHANGED work
  <2>1. hand' = <<Head(queue)>> /\ pc' = "check" /\ Head(queue) \in Rs
    BY <1>3, TailHas DEF Handle, Inv, Typed
  <2>2. /\ queue' \in Seq(Rs) /\ \A x : Has(queue', x) => Has(queue, x)
        /\ ~Has(queue', Head(queue).id) /\ Has(queue, Head(queue).id) /\ Solo(queue')
        /\ \A x : HasFinal(queue, x) <=> HasFinal(queue', x) \/ (x = Head(queue).id /\ Head(queue).final)
    BY <1>3, TailHas DEF Inv, Typed, Alone
  <2>3. /\ hand' # << >> /\ \A x : Has(hand', x) <=> x = Head(queue).id
        /\ \A x : HasFinal(hand', x) <=> x = Head(queue).id /\ Head(queue).final
    BY <2>1, OneHas
  <2>4. Typed'
    BY <1>1, <1>3, <2>1, <2>2 DEF Inv, Typed, InHand
  <2>5. Control'
    BY <1>1, <2>1, <2>3 DEF Inv, Control, Busy
  <2>6. Latest'
    <3>1. ~excused => Fresh(queue', gen) /\ Head(queue).gen = gen
      BY <1>3, <2>1, FreshHas DEF Inv, Typed, Latest
    <3>2. ~excused => Fresh(queue', gen) /\ Fresh(hand', gen)
      BY <2>1, <3>1, FreshHas DEF Inv, Typed
    <3> QED
      BY <1>1, <1>3, <3>2 DEF Inv, Latest
  <2>7. Alone'
    BY <1>1, <1>3, <2>2 DEF Inv, Alone
  <2>8. Placed'
    BY <1>1, <1>3, <2>2, <2>3, EmptyHas DEF Inv, Placed, Single, Anywhere, Known, Later, Flushed
  <2>9. \A x : (Way(x)' <=> Way(x)) /\ (Has(stored, x)' <=> Has(stored, x))
    BY <1>1, <1>3, <2>2, <2>3, EmptyHas DEF Way, Flushed
  <2> QED
    BY <1>1, <2>4, <2>5, <2>6, <2>7, <2>8, <2>9 DEF Inv, Simulates, Stays
<1>4. CASE work = << >> /\ pc' \in {"top", "dead"} /\ UNCHANGED <<hand, work, queue>>
  <2>1. Typed' /\ Latest'
    BY <1>1, <1>4 DEF Inv, Typed, InHand, Latest
  <2>2. Control'
    BY <1>1, <1>4 DEF Inv, Control, Busy
  <2> QED
    BY <1>1, <1>4, <2>1, <2>2, Unmoved DEF Inv
<1> QED
  BY <1>2, <1>3, <1>4 DEF Select

(* Where the processor goes when it is done with a result.                   *)
LEMMA DoneControl ==
    ASSUME Inv, reader' = reader, work' = work, held'["reader"].recs = held["reader"].recs,
           held'["processor"].recs = << >>, hand' = << >>, Done \/ pc' = "dead"
    PROVE  Control'
<1>1. pc' \in {"top", "select", "dead"} /\ (pc' = "top" => work' = << >>)
  BY DEF Done
<1> QED
  BY <1>1 DEF Inv, Control, Busy

LEMMA CheckInv ==
    ASSUME Inv, Check
    PROVE  Inv' /\ Simulates
<1>1. /\ pc = "check" /\ hand # << >>
      /\ UNCHANGED <<arrived, receivers, gen, started, captured, meeting, closed, queue, overflow,
                     work, making, reader, pending, held, async, batch, stored, excused>>
  BY DEF Check, input, results, store, Inv, Control, Busy
<1>2. CASE hand[1].final /\ pc' = "ensure" /\ UNCHANGED hand
  <2>1. Typed' /\ Latest'
    BY <1>1, <1>2 DEF Inv, Typed, InHand, Latest
  <2>2. Control'
    BY <1>1, <1>2 DEF Inv, Control, Busy
  <2> QED
    BY <1>1, <1>2, <2>1, <2>2, Unmoved DEF Inv
<1>3. CASE ~(Current /\ hand[1].final) /\ Done
  <2>1. hand' = << >>
    BY <1>3 DEF Done
  <2>2. Typed' /\ Latest'
    BY <1>1, <2>1 DEF Inv, Typed, InHand, Latest, Fresh
  <2>3. Control'
    <3>1. held["processor"].recs = << >>
      BY <1>1 DEF Inv, Control
    <3> QED
      BY <1>1, <1>3, <2>1, <3>1, DoneControl
  <2>4. Alone' /\ Placed'
    BY <1>1, <2>1, EmptyHas DEF Inv, Alone, Placed, Single, Anywhere, Known, Later, Flushed
  <2>5. CASE excused
    <3>1. \A x : (Way(x)' => Way(x)) /\ (Has(stored, x)' <=> Has(stored, x))
      BY <1>1, <2>1, EmptyHas DEF Way, Flushed
    <3> QED
      BY <1>1, <2>2, <2>3, <2>4, <2>5, <3>1 DEF Inv, Typed, Simulates, Loses
  <2>6. CASE ~excused
    <3>1. ~hand[1].final
      BY <1>1, <1>3, <2>6, HandHas DEF Inv, Latest, Current
    <3>2. \A x : ~HasFinal(hand, x)
      BY <1>1, <3>1, HandHas
    <3>3. \A x : (Way(x)' <=> Way(x)) /\ (Has(stored, x)' <=> Has(stored, x))
      BY <1>1, <2>1, <3>2, EmptyHas DEF Way, Flushed
    <3> QED
      BY <1>1, <2>2, <2>3, <2>4, <3>3 DEF Inv, Simulates, Stays
  <2> QED
    BY <2>5, <2>6
<1> QED
  BY <1>2, <1>3 DEF Check

(* The processor ends loudly and lets go of the result in hand.              *)
LEMMA FailInv ==
    ASSUME Inv, pc # "flush", Fail,
           UNCHANGED <<arrived, receivers, gen, started, captured, meeting, queue, overflow, work,
                       making, reader, pending, async, batch, stored>>,
           held' \in [Flushers -> [recs : Seq(Kept1), meeting : Nat]],
           \A f \in Flushers : held'[f].recs = held[f].recs
    PROVE  Inv' /\ Simulates
<1>1. excused' = TRUE /\ closed' = TRUE /\ pc' = "dead" /\ hand' = << >>
  BY DEF Fail
<1>2. held'["processor"].recs = held["processor"].recs /\ held'["reader"].recs = held["reader"].recs
  BY DEF Flushers
<1>3. held["processor"].recs = << >>
  BY DEF Inv, Control
<1>4. Typed' /\ Latest'
  BY <1>1 DEF Inv, Typed, InHand, Latest
<1>5. Control'
  BY <1>1, <1>2, <1>3, DoneControl
<1>6. Alone' /\ Placed'
  BY <1>1, <1>2, EmptyHas DEF Inv, Alone, Placed, Single, Anywhere, Known, Later, Flushed
<1>7. \A x : (Way(x)' => Way(x)) /\ (Has(stored, x)' <=> Has(stored, x))
  BY <1>1, <1>2, EmptyHas DEF Way, Flushed
<1> QED
  BY <1>1, <1>4, <1>5, <1>6, <1>7 DEF Inv, Simulates, Loses

LEMMA EnsureInv ==
    ASSUME Inv, Ensure
    PROVE  Inv' /\ Simulates
<1>1. /\ pc = "ensure" /\ hand # << >>
      /\ UNCHANGED <<arrived, receivers, gen, started, captured, meeting, queue, overflow,
                     work, reader, pending, held, async, batch, stored>>
  BY DEF Ensure, input, results, store, Inv, Control, Busy
<1>2. CASE /\ pc' \in {"persist", "attach"} /\ making' \in {making, ThisMeeting}
           /\ UNCHANGED <<hand, closed, excused>>
  <2>1. making' \in Nat
    BY <1>2, PathAssumption DEF ThisMeeting, Nameless, Inv, Typed
  <2>2. Typed' /\ Latest'
    BY <1>1, <1>2, <2>1 DEF Inv, Typed, InHand, Latest
  <2>3. Control'
    BY <1>1, <1>2 DEF Inv, Control, Busy
  <2> QED
    BY <1>1, <1>2, <2>2, <2>3, Unmoved DEF Inv
<1>3. CASE Fail /\ UNCHANGED making
  BY <1>1, <1>3, FailInv DEF Inv, Typed
<1> QED
  BY <1>2, <1>3 DEF Ensure, hands

LEMMA EnqueuedHas ==
    ASSUME Inv, NEW f \in Flushers, NEW recs \in Seq(Kept1), Solo(recs),
           \A x : Has(recs, x) => ~Within(async, x), Enqueued(f, recs)
    PROVE  /\ async' \in Seq(Seq(Rows)) /\ Parted(async') /\ batch' = batch /\ stored' = stored
           /\ \A x : Within(async', x) <=> Within(async, x) \/ Has(recs, x)
<1> DEFINE m == held[f].meeting
           t == [i \in DOMAIN recs |-> [id |-> recs[i].id, of |-> recs[i].of, meeting |-> m]]
<1>1. m \in Nat /\ \A e \in Kept1 : e.id \in Nat /\ e.of \in Nat
  BY DEF Inv, Typed, Kept1
<1>2. async' = Append(async, t) /\ batch' = batch /\ stored' = stored
  BY DEF Enqueued
<1> HIDE DEF m
<1>3. t \in Seq(Rows) /\ (\A x : Has(t, x) <=> Has(recs, x)) /\ Solo(t)
  BY <1>1, StampedHas DEF Rows
<1> HIDE DEF t
<1>4. async \in Seq(Seq(Rows)) /\ Parted(async)
  BY DEF Inv, Typed, Alone
<1> QED
  BY <1>2, <1>3, <1>4, AppendWithin

LEMMA HeldIs ==
    ASSUME Inv
    PROVE  /\ pending \in Seq(Kept1)
           /\ \A f \in Flushers : held[f].recs \in Seq(Kept1) /\ held[f].meeting \in Nat
           /\ "processor" \in Flushers /\ "reader" \in Flushers
BY DEF Inv, Typed, Flushers

LEMMA TakenHas ==
    ASSUME Inv, NEW f \in Flushers, TakeBy(f)
    PROVE  /\ held' \in [Flushers -> [recs : Seq(Kept1), meeting : Nat]]
           /\ held'[f].recs = pending /\ \A g \in Flushers : g # f => held'[g] = held[g]
           /\ pending' = << >>
<1> DEFINE e == [recs |-> pending, meeting |-> meeting]
<1>1. e \in [recs : Seq(Kept1), meeting : Nat] /\ e.recs = pending
  BY DEF Inv, Typed
<1>2. held' = [held EXCEPT ![f] = e] /\ pending' = << >>
  BY DEF TakeBy
<1> HIDE DEF e
<1> QED
  BY <1>1, <1>2 DEF Inv, Typed

LEMMA ReleasedHas ==
    ASSUME Inv, NEW f \in Flushers,
           \/ Release(f)
           \/ held' = [held EXCEPT ![f].recs = << >>]
    PROVE  /\ held' \in [Flushers -> [recs : Seq(Kept1), meeting : Nat]]
           /\ held'[f].recs = << >> /\ \A g \in Flushers : g # f => held'[g] = held[g]
<1> DEFINE R == [recs : Seq(Kept1), meeting : Nat]
<1>1. held \in [Flushers -> R]
  BY DEF Inv, Typed
<1>2. PICK e \in R : e.recs = << >> /\ held' = [held EXCEPT ![f] = e]
  <2>1. CASE Release(f)
    BY <2>1, EmptyHas DEF Release, Nothing
  <2>2. CASE held' = [held EXCEPT ![f].recs = << >>]
    <3> DEFINE e == [held[f] EXCEPT !.recs = << >>]
    <3>1. e \in R /\ e.recs = << >>
      BY <1>1, EmptyHas
    <3>2. held' = [held EXCEPT ![f] = e]
      BY <2>2
    <3> QED
      BY <3>1, <3>2
  <2> QED
    BY <2>1, <2>2
<1> HIDE DEF R
<1> QED
  BY <1>1, <1>2 DEF R

LEMMA KeptHas ==
    ASSUME Inv, NEW f \in Flushers
    PROVE  /\ Kept(f) \in Seq(Kept1) /\ Solo(Kept(f))
           /\ \A x : Has(Kept(f), x) => Has(pending, x) \/ Flushed(f, x)
           /\ \/ \A x : Has(Kept(f), x) <=> Has(pending, x) \/ Flushed(f, x)
              \/ Len(BackTo(f)) > PendingSize
<1>1. held[f].recs \in Seq(Kept1) /\ pending \in Seq(Kept1)
  BY HeldIs
<1>2. Solo(held[f].recs) /\ Solo(pending) /\ \A x : ~(Has(held[f].recs, x) /\ Has(pending, x))
  BY DEF Inv, Alone, Placed, Single, Flushed, Flushers
<1>3. /\ BackTo(f) \in Seq(Kept1) /\ Solo(BackTo(f))
      /\ \A x : Has(BackTo(f), x) <=> Has(pending, x) \/ Flushed(f, x)
  BY <1>1, <1>2, ConcatHas DEF BackTo, Flushed
<1>4. CASE Len(BackTo(f)) <= PendingSize
  BY <1>3, <1>4 DEF Kept
<1>5. CASE ~(Len(BackTo(f)) <= PendingSize)
  <2>1. Len(BackTo(f)) \in Nat
    BY <1>3
  <2>2. Len(BackTo(f)) > PendingSize
    BY <1>5, <2>1, Numbers
  <2> QED
    BY <1>1, <1>2, <1>5, <2>2 DEF Kept
<1> QED
  BY <1>4, <1>5

(* The record of the result in hand joins those that wait.                   *)
LEMMA BufferInv ==
    ASSUME Inv, hand # << >>, hand[1].final, held["processor"].recs = << >>, Done,
           pending' = Append(pending, Rec(hand[1])),
           UNCHANGED <<arrived, receivers, gen, started, captured, meeting, closed, queue, overflow,
                       work, making, reader, async, batch, stored, excused>>,
           held' \in [Flushers -> [recs : Seq(Kept1), meeting : Nat]],
           \A f \in Flushers : held'[f].recs = held[f].recs
    PROVE  Inv' /\ Simulates
<1> DEFINE y == hand[1].id
<1>1. hand' = << >>
  BY DEF Done
<1>2. held'["processor"].recs = held["processor"].recs /\ held'["reader"].recs = held["reader"].recs
  BY DEF Flushers
<1>3. /\ Rec(hand[1]) \in Kept1 /\ Rec(hand[1]).id = y
      /\ (\A x : Has(hand, x) <=> x = y) /\ (\A x : HasFinal(hand, x) <=> x = y)
  BY HandHas
<1> HIDE DEF y
<1>4. ~Has(pending, y)
  BY <1>3 DEF Inv, Placed, Single, Known
<1>5. /\ pending' \in Seq(Kept1) /\ Solo(pending')
      /\ \A x : Has(pending', x) <=> Has(pending, x) \/ x = y
  BY <1>3, <1>4, AppendHas DEF Inv, Typed, Alone
<1>6. Typed' /\ Latest'
  <2>1. Typed'
    BY <1>1, <1>5 DEF Inv, Typed, InHand
  <2>2. Fresh(hand', gen')
    BY <1>1 DEF Fresh
  <2>3. Latest'
    BY <2>2 DEF Inv, Latest
  <2> QED
    BY <2>1, <2>3
<1>7. Control'
  BY <1>1, <1>2, DoneControl
<1>8. Alone'
  BY <1>2, <1>5 DEF Inv, Alone
<1>9. Placed'
  BY <1>1, <1>2, <1>3, <1>5, EmptyHas DEF Inv, Placed, Single, Anywhere, Known, Later, Flushed
<1>10. \A x : (Way(x)' <=> Way(x)) /\ (Has(stored, x)' <=> Has(stored, x))
  BY <1>1, <1>2, <1>3, <1>5, EmptyHas DEF Way, Flushed
<1> QED
  BY <1>6, <1>7, <1>8, <1>9, <1>10 DEF Inv, Simulates, Stays

LEMMA PersistInv ==
    ASSUME Inv, Persist
    PROVE  Inv' /\ Simulates
<1>1. /\ pc = "persist" /\ hand # << >> /\ hand[1].final
      /\ UNCHANGED <<arrived, receivers, gen, started, captured, meeting, queue, overflow,
                     work, making, reader, async, batch, stored>>
  BY DEF Persist, input, results, store, Inv, Control, Busy
<1>2. held["processor"].recs = << >>
  BY <1>1 DEF Inv, Control
<1>3. CASE /\ pending' = Append(pending, Rec(hand[1])) /\ Done
           /\ UNCHANGED <<closed, excused, held>>
  BY <1>1, <1>2, <1>3, BufferInv DEF Inv, Typed
<1>4. CASE Fail /\ UNCHANGED <<pending, held>>
  BY <1>1, <1>4, FailInv DEF Inv, Typed
<1>5. CASE /\ TakeBy("processor") /\ pc' = (IF pending = << >> THEN "put" ELSE "flush")
           /\ UNCHANGED <<hand, closed, excused>>
  <2>1. /\ held' \in [Flushers -> [recs : Seq(Kept1), meeting : Nat]]
        /\ held'["processor"].recs = pending /\ held'["reader"].recs = held["reader"].recs
        /\ pending' = << >>
    BY <1>5, TakenHas, HeldIs
  <2>2. Typed' /\ Latest'
    BY <1>1, <1>5, <2>1, EmptyHas DEF Inv, Typed, InHand, Latest
  <2>3. Control'
    BY <1>1, <1>5, <2>1 DEF Inv, Control, Busy
  <2>4. Alone'
    BY <1>1, <1>5, <2>1, EmptyHas DEF Inv, Alone
  <2>5. Placed'
    BY <1>1, <1>2, <1>5, <2>1, EmptyHas DEF Inv, Placed, Single, Anywhere, Known, Later, Flushed
  <2>6. \A x : (Way(x)' <=> Way(x)) /\ (Has(stored, x)' <=> Has(stored, x))
    BY <1>1, <1>2, <1>5, <2>1, EmptyHas DEF Way, Flushed
  <2> QED
    BY <1>5, <2>2, <2>3, <2>4, <2>5, <2>6 DEF Inv, Simulates, Stays
<1> QED
  BY <1>3, <1>4, <1>5 DEF Persist, Buffer

(* What a flush holds goes to the inserters.                                 *)
LEMMA ForwardHas ==
    ASSUME Inv, NEW f \in Flushers, Enqueued(f, held[f].recs),
           Release(f) \/ held' = [held EXCEPT ![f].recs = << >>],
           UNCHANGED <<arrived, receivers, gen, started, captured, meeting, closed, queue, overflow,
                       work, hand, making, pending, excused>>
    PROVE  Typed' /\ Alone' /\ Placed' /\ Stays
<1>1. /\ held[f].recs \in Seq(Kept1) /\ Solo(held[f].recs)
      /\ \A x : Has(held[f].recs, x) => ~Within(async, x)
  BY HeldIs DEF Inv, Alone, Placed, Single, Later, Flushed, Flushers
<1>2. /\ async' \in Seq(Seq(Rows)) /\ Parted(async') /\ batch' = batch /\ stored' = stored
      /\ \A x : Within(async', x) <=> Within(async, x) \/ Flushed(f, x)
  BY <1>1, EnqueuedHas DEF Flushed
<1>3. /\ held' \in [Flushers -> [recs : Seq(Kept1), meeting : Nat]]
      /\ held'[f].recs = << >> /\ \A g \in Flushers : g # f => held'[g] = held[g]
  BY ReleasedHas
<1>4. /\ Solo(held'["processor"].recs) /\ Solo(held'["reader"].recs)
      /\ \A x : Flushed("processor", x)' <=> Flushed("processor", x) /\ f # "processor"
      /\ \A x : Flushed("reader", x)' <=> Flushed("reader", x) /\ f # "reader"
  BY <1>3, EmptyHas DEF Flushed, Flushers, Inv, Alone
<1>5. f = "processor" \/ f = "reader"
  BY DEF Flushers
<1>6. Typed'
  BY <1>2, <1>3 DEF Inv, Typed, InHand
<1>7. Alone'
  BY <1>2, <1>4 DEF Inv, Alone
<1>8. Placed'
  BY <1>2, <1>4, <1>5 DEF Inv, Placed, Single, Anywhere, Known, Later
<1>9. Stays
  BY <1>2, <1>4, <1>5 DEF Way, Stays
<1> QED
  BY <1>6, <1>7, <1>8, <1>9

(* What a flush holds goes back before what waits, if it fits.               *)
LEMMA BackHas ==
    ASSUME Inv, NEW f \in Flushers, pending' = Kept(f), Release(f), hand' = hand,
           excused' = (excused \/ Len(BackTo(f)) > PendingSize),
           UNCHANGED <<arrived, receivers, gen, started, captured, meeting, closed, queue, overflow,
                       work, making, async, batch, stored>>
    PROVE  Typed' /\ Alone' /\ Placed' /\ (Stays \/ Loses)
<1>1. /\ pending' \in Seq(Kept1) /\ Solo(pending')
      /\ \A x : Has(pending', x) => Has(pending, x) \/ Flushed(f, x)
      /\ (\A x : Has(pending', x) <=> Has(pending, x) \/ Flushed(f, x)) \/ Len(BackTo(f)) > PendingSize
  BY KeptHas
<1>2. /\ held' \in [Flushers -> [recs : Seq(Kept1), meeting : Nat]]
      /\ held'[f].recs = << >> /\ \A g \in Flushers : g # f => held'[g] = held[g]
  BY ReleasedHas
<1>3. /\ Solo(held'["processor"].recs) /\ Solo(held'["reader"].recs)
      /\ \A x : Flushed("processor", x)' <=> Flushed("processor", x) /\ f # "processor"
      /\ \A x : Flushed("reader", x)' <=> Flushed("reader", x) /\ f # "reader"
  BY <1>2, EmptyHas DEF Flushed, Flushers, Inv, Alone
<1>4. f = "processor" \/ f = "reader"
  BY DEF Flushers
<1>5. Typed'
  BY <1>1, <1>2 DEF Inv, Typed, InHand
<1>6. Alone'
  BY <1>1, <1>3 DEF Inv, Alone
<1>7. Placed'
  BY <1>1, <1>3, <1>4 DEF Inv, Placed, Single, Anywhere, Known, Later
<1>8. \A x : (Way(x)' => Way(x)) /\ (Has(stored, x)' <=> Has(stored, x))
  BY <1>1, <1>3, <1>4 DEF Way
<1>9. CASE Len(BackTo(f)) > PendingSize
  <2>1. excused' = TRUE
    BY <1>9
  <2> QED
    BY <1>5, <1>6, <1>7, <1>8, <2>1 DEF Loses
<1>10. CASE ~(Len(BackTo(f)) > PendingSize)
  <2>1. \A x : Has(pending', x) <=> Has(pending, x) \/ Flushed(f, x)
    BY <1>1, <1>10
  <2>2. \A x : (Way(x)' <=> Way(x)) /\ (Has(stored, x)' <=> Has(stored, x))
    BY <2>1, <1>3, <1>4 DEF Way
  <2>3. excused' = excused
    BY <1>10 DEF Inv, Typed
  <2> QED
    BY <1>5, <1>6, <1>7, <2>2, <2>3 DEF Stays
<1> QED
  BY <1>9, <1>10

LEMMA PutInv ==
    ASSUME Inv, Put
    PROVE  Inv' /\ Simulates
<1>1. /\ pc = "put" /\ hand # << >> /\ hand[1].final /\ held["processor"].recs = << >>
      /\ Release("processor")
      /\ UNCHANGED <<arrived, receivers, gen, started, captured, meeting, queue, overflow,
                     work, making, reader>>
  BY DEF Put, input, results, store, Inv, Control, Busy
<1>2. /\ held' \in [Flushers -> [recs : Seq(Kept1), meeting : Nat]]
      /\ \A f \in Flushers : held'[f].recs = held[f].recs
      /\ held'["reader"] = held["reader"] /\ held'["processor"].recs = << >>
  BY <1>1, ReleasedHas, HeldIs DEF Flushers
<1>3. CASE /\ pending' = Append(pending, Rec(hand[1])) /\ Done
           /\ UNCHANGED <<closed, excused, async, batch, stored>>
  BY <1>1, <1>2, <1>3, BufferInv
<1>4. CASE Fail /\ UNCHANGED <<pending, async, batch, stored>>
  BY <1>1, <1>2, <1>4, FailInv
<1>5. CASE Enqueued("processor", <<Rec(hand[1])>>) /\ Done /\ UNCHANGED <<pending, closed, excused>>
  <2> DEFINE y == hand[1].id
  <2>1. hand' = << >>
    BY <1>5 DEF Done
  <2>2. /\ Rec(hand[1]) \in Kept1 /\ Rec(hand[1]).id = y
        /\ (\A x : Has(hand, x) <=> x = y) /\ (\A x : HasFinal(hand, x) <=> x = y)
    BY <1>1, HandHas
  <2> HIDE DEF y
  <2>3. /\ <<Rec(hand[1])>> \in Seq(Kept1) /\ Solo(<<Rec(hand[1])>>)
        /\ \A x : Has(<<Rec(hand[1])>>, x) <=> x = y
    BY <2>2, OneHas
  <2>4. ~Within(async, y)
    BY <2>2 DEF Inv, Placed, Single, Known, Later
  <2>5. /\ async' \in Seq(Seq(Rows)) /\ Parted(async') /\ batch' = batch /\ stored' = stored
        /\ \A x : Within(async', x) <=> Within(async, x) \/ x = y
    <3>1. "processor" \in Flushers /\ \A x : Has(<<Rec(hand[1])>>, x) => ~Within(async, x)
      BY <2>3, <2>4, HeldIs
    <3> QED
      BY <1>5, <2>3, <3>1, EnqueuedHas
  <2>6. Typed'
    BY <1>1, <1>2, <1>5, <2>1, <2>5 DEF Inv, Typed, InHand
  <2>7. Latest'
    <3>1. Fresh(hand', gen')
      BY <2>1 DEF Fresh
    <3> QED
      BY <1>1, <1>5, <3>1 DEF Inv, Latest
  <2>8. Control'
    BY <1>1, <1>2, <1>5, <2>1, DoneControl
  <2>9. Alone'
    BY <1>1, <1>2, <1>5, <2>5, EmptyHas DEF Inv, Alone
  <2>10. Placed'
    BY <1>1, <1>2, <1>5, <2>1, <2>2, <2>5, EmptyHas
       DEF Inv, Placed, Single, Anywhere, Known, Later, Flushed
  <2>11. \A x : (Way(x)' <=> Way(x)) /\ (Has(stored, x)' <=> Has(stored, x))
    BY <1>1, <1>2, <1>5, <2>1, <2>2, <2>5, EmptyHas DEF Way, Flushed
  <2> QED
    BY <1>5, <2>6, <2>7, <2>8, <2>9, <2>10, <2>11 DEF Inv, Simulates, Stays
<1> QED
  BY <1>3, <1>4, <1>5 DEF Put, Buffer, store

LEMMA FlushInv ==
    ASSUME Inv, Flush
    PROVE  Inv' /\ Simulates
<1>1. /\ pc = "flush" /\ hand # << >> /\ hand[1].final
      /\ UNCHANGED <<arrived, receivers, gen, started, captured, meeting, queue, overflow,
                     work, making, reader>>
  BY DEF Flush, input, results, Inv, Control, Busy
<1>2. ASSUME Release("processor") \/ held' = [held EXCEPT !["processor"].recs = << >>]
      PROVE  /\ held' \in [Flushers -> [recs : Seq(Kept1), meeting : Nat]]
             /\ held'["reader"] = held["reader"] /\ held'["processor"].recs = << >>
  BY <1>2, ReleasedHas, HeldIs
<1>3. CASE /\ Enqueued("processor", held["processor"].recs)
           /\ held' = [held EXCEPT !["processor"].recs = << >>]
           /\ pc' = "put" /\ UNCHANGED <<hand, pending, closed, excused>>
  <2>1. Typed' /\ Alone' /\ Placed' /\ Stays
    BY <1>1, <1>3, HeldIs, ForwardHas
  <2>2. Latest'
    BY <1>1, <1>3 DEF Inv, Latest
  <2>3. Control'
    BY <1>1, <1>2, <1>3 DEF Inv, Control, Busy
  <2> QED
    BY <2>1, <2>2, <2>3 DEF Inv, Simulates
<1>4. ASSUME UNCHANGED <<async, batch, stored>>, Release("processor"), hand' = << >>,
             Done \/ pc' = "dead"
      PROVE  Control'
  BY <1>1, <1>2, <1>4, DoneControl
<1> DEFINE y == hand[1].id
           P == "processor"
<1>5. /\ Rec(hand[1]) \in Kept1 /\ Rec(hand[1]).id = y
      /\ (\A x : Has(hand, x) <=> x = y) /\ (\A x : HasFinal(hand, x) <=> x = y)
  BY <1>1, HandHas
<1>6. /\ Kept(P) \in Seq(Kept1) /\ Solo(Kept(P))
      /\ \A x : Has(Kept(P), x) => Has(pending, x) \/ Flushed(P, x)
      /\ (\A x : Has(Kept(P), x) <=> Has(pending, x) \/ Flushed(P, x)) \/ Len(BackTo(P)) > PendingSize
  BY KeptHas, HeldIs
<1> HIDE DEF y, P
<1>7. CASE /\ pending' = Append(Kept(P), Rec(hand[1]))
           /\ IF Len(BackTo(P)) > PendingSize THEN Fail ELSE Done /\ UNCHANGED <<closed, excused>>
           /\ Release(P) /\ UNCHANGED <<async, batch, stored>>
  <2>1. /\ hand' = << >> /\ (Done \/ pc' = "dead") /\ closed' \in BOOLEAN
        /\ IF Len(BackTo(P)) > PendingSize THEN excused' = TRUE ELSE UNCHANGED excused
    BY <1>7 DEF Done, Fail, Inv, Typed
  <2>2. ~Has(pending, y) /\ ~Flushed(P, y)
    BY <1>5 DEF Inv, Placed, Single, Known, P
  <2>3. /\ pending' \in Seq(Kept1) /\ Solo(pending')
        /\ \A x : Has(pending', x) <=> Has(Kept(P), x) \/ x = y
    BY <1>5, <1>6, <1>7, <2>2, AppendHas
  <2>4. /\ held' \in [Flushers -> [recs : Seq(Kept1), meeting : Nat]]
        /\ held'["reader"] = held["reader"] /\ held'["processor"].recs = << >>
    BY <1>2, <1>7 DEF P
  <2>5. excused' \in BOOLEAN /\ (excused' = excused \/ excused' = TRUE)
    BY <2>1 DEF Inv, Typed
  <2>6. Typed'
    BY <1>1, <1>7, <2>1, <2>3, <2>4, <2>5 DEF Inv, Typed, InHand
  <2>7. Latest'
    <3>1. Fresh(hand', gen')
      BY <2>1 DEF Fresh
    <3> QED
      BY <1>1, <1>7, <2>5, <3>1 DEF Inv, Latest
  <2>8. Control'
    BY <1>4, <1>7, <2>1 DEF P
  <2>9. Alone'
    BY <1>1, <1>7, <2>3, <2>4, EmptyHas DEF Inv, Alone
  <2>10. Placed'
    BY <1>1, <1>5, <1>6, <1>7, <2>1, <2>3, <2>4, EmptyHas
       DEF Inv, Placed, Single, Anywhere, Known, Later, Flushed, P
  <2>11. Simulates
    <3>1. \A x : (Way(x)' => Way(x)) /\ (Has(stored, x)' <=> Has(stored, x))
      BY <1>1, <1>5, <1>6, <1>7, <2>1, <2>3, <2>4, EmptyHas DEF Way, Flushed, P
    <3>2. CASE Len(BackTo(P)) > PendingSize
      <4>1. excused' = TRUE
        BY <2>1, <3>2
      <4> QED
        BY <3>1, <4>1 DEF Simulates, Loses
    <3>3. CASE ~(Len(BackTo(P)) > PendingSize)
      <4>1. excused' = excused
        BY <2>1, <3>3
      <4>2. \A x : Has(Kept(P), x) <=> Has(pending, x) \/ Flushed(P, x)
        BY <1>6, <3>3
      <4>3. \A x : (Way(x)' <=> Way(x)) /\ (Has(stored, x)' <=> Has(stored, x))
        BY <1>1, <1>5, <1>7, <2>1, <2>3, <2>4, <4>2, EmptyHas DEF Way, Flushed, P
      <4> QED
        BY <4>1, <4>3 DEF Simulates, Stays
    <3> QED
      BY <3>2, <3>3
  <2> QED
    BY <2>6, <2>7, <2>8, <2>9, <2>10, <2>11 DEF Inv
<1>8. CASE /\ pending' = Kept(P) /\ Fail /\ Release(P) /\ UNCHANGED <<async, batch, stored>>
  <2>1. hand' = << >> /\ excused' = TRUE /\ closed' = TRUE /\ pc' = "dead"
    BY <1>8 DEF Fail
  <2>2. /\ held' \in [Flushers -> [recs : Seq(Kept1), meeting : Nat]]
        /\ held'["reader"] = held["reader"] /\ held'["processor"].recs = << >>
    BY <1>2, <1>8 DEF P
  <2>3. Typed'
    BY <1>1, <1>6, <1>8, <2>1, <2>2 DEF Inv, Typed, InHand
  <2>4. Latest'
    BY <1>1, <2>1 DEF Inv, Latest
  <2>5. Control'
    BY <1>4, <1>8, <2>1 DEF P
  <2>6. Alone'
    BY <1>1, <1>6, <1>8, <2>2, EmptyHas DEF Inv, Alone
  <2>7. Placed'
    BY <1>1, <1>6, <1>8, <2>1, <2>2, EmptyHas
       DEF Inv, Placed, Single, Anywhere, Known, Later, Flushed, P
  <2>8. \A x : (Way(x)' => Way(x)) /\ (Has(stored, x)' <=> Has(stored, x))
    BY <1>1, <1>6, <1>8, <2>1, <2>2, EmptyHas DEF Way, Flushed, P
  <2> QED
    BY <2>1, <2>3, <2>4, <2>5, <2>6, <2>7, <2>8 DEF Inv, Simulates, Loses
<1> QED
  BY <1>3, <1>7, <1>8 DEF Flush, store, P
-----------------------------------------------------------------------------
(* The flush of the reader, and the inserters *)

LEMMA StopInv ==
    ASSUME Inv, StopTake \/ StopPut
    PROVE  Inv' /\ Simulates
<1>1. UNCHANGED <<arrived, receivers, gen, started, captured, meeting, closed, queue, overflow,
                  work, pc, hand, making>>
  BY DEF StopTake, StopPut, input, results, hands
<1>2. "reader" \in Flushers /\ "processor" \in Flushers
  BY HeldIs
<1>3. CASE StopTake
  <2>1. /\ held["reader"].recs = << >> /\ reader' = "flush"
        /\ UNCHANGED <<async, batch, stored, excused>>
    BY <1>3 DEF StopTake, store, Inv, Control
  <2>2. /\ held' \in [Flushers -> [recs : Seq(Kept1), meeting : Nat]]
        /\ held'["reader"].recs = pending /\ held'["processor"].recs = held["processor"].recs
        /\ pending' = << >>
    BY <1>2, <1>3, TakenHas DEF StopTake
  <2>3. Typed' /\ Latest'
    BY <1>1, <2>1, <2>2, EmptyHas DEF Inv, Typed, InHand, Latest
  <2>4. Control'
    BY <1>1, <2>1, <2>2 DEF Inv, Control
  <2>5. Alone'
    BY <1>1, <2>1, <2>2, EmptyHas DEF Inv, Alone
  <2>6. Placed'
    BY <1>1, <2>1, <2>2, EmptyHas DEF Inv, Placed, Single, Anywhere, Known, Later, Flushed
  <2>7. \A x : (Way(x)' <=> Way(x)) /\ (Has(stored, x)' <=> Has(stored, x))
    BY <1>1, <2>1, <2>2, EmptyHas DEF Way, Flushed
  <2> QED
    BY <2>1, <2>3, <2>4, <2>5, <2>6, <2>7 DEF Inv, Simulates, Stays
<1>4. CASE StopPut
  <2>1. Release("reader") /\ reader' = "idle" /\ (excused' = excused \/ excused' = TRUE)
    BY <1>4 DEF StopPut, Inv, Typed
  <2>2. held'["reader"].recs = << >> /\ held'["processor"] = held["processor"]
    BY <1>2, <2>1, ReleasedHas
  <2>3. Control' /\ Latest'
    BY <1>1, <2>1, <2>2 DEF Inv, Control, Latest
  <2>4. CASE Enqueued("reader", held["reader"].recs) /\ UNCHANGED <<pending, excused>>
    <3>1. Typed' /\ Alone' /\ Placed' /\ Stays
      BY <1>1, <1>2, <2>1, <2>4, ForwardHas
    <3> QED
      BY <2>3, <3>1 DEF Inv, Simulates
  <2>5. CASE /\ pending' = Kept("reader")
             /\ excused' = (excused \/ Len(BackTo("reader")) > PendingSize)
             /\ UNCHANGED store
    <3>1. Typed' /\ Alone' /\ Placed' /\ (Stays \/ Loses)
      BY <1>1, <1>2, <2>1, <2>5, BackHas DEF store
    <3> QED
      BY <2>3, <3>1 DEF Inv, Simulates
  <2> QED
    BY <1>4, <2>4, <2>5 DEF StopPut
<1> QED
  BY <1>3, <1>4

(* What an inserter does: s leaves the batch or what was just taken, and is  *)
(* stored or dropped; the rest stays in the batch.                           *)
LEMMA InsertHas ==
    ASSUME Inv, NEW w \in Inserters, NEW s \in Seq(Rows), NEW t \in Seq(Rows), NEW a, Solo(s), Solo(t),
           a \in Seq(Seq(Rows)), Parted(a), async' = a,
           \A x : Within(async, x) \/ Has(batch[w], x) <=> Within(a, x) \/ Has(s, x) \/ Has(t, x),
           \A x : Within(a, x) => Within(async, x) /\ ~Has(s, x) /\ ~Has(t, x),
           \A x : ~(Has(s, x) /\ Has(t, x)),
           batch' = [batch EXCEPT ![w] = t],
           \/ stored' = stored \o s /\ excused' = excused
           \/ excused' = TRUE /\ stored' = stored
           \/ s = << >> /\ excused' = excused /\ stored' = stored,
           UNCHANGED <<input, meeting, closed, results, pc, hands, reader, pending, held, late>>
    PROVE  Inv' /\ Simulates
<1>1. UNCHANGED <<arrived, receivers, gen, started, captured, meeting, closed, queue, overflow,
                  work, pc, hand, making, reader, pending, held>>
  BY DEF input, results, hands
<1>2. /\ batch \in [Inserters -> Seq(Rows)] /\ Parted(batch) /\ stored \in Seq(Rows) /\ Solo(stored)
      /\ \A x : Within(async, x) => ~Within(batch, x) /\ ~Has(stored, x)
      /\ \A x : Within(batch, x) => ~Has(stored, x)
  BY DEF Inv, Typed, Alone, Placed, Single
<1>3. \A x : Has(batch[w], x) => Within(batch, x)
  BY <1>2 DEF Within
<1>4. \A x : Has(t, x) => Has(batch[w], x) \/ ~Within(batch, x)
  BY <1>2
<1>5. /\ batch' \in [Inserters -> Seq(Rows)] /\ Parted(batch')
      /\ \A x : Within(batch', x) <=> Has(t, x) \/ (Within(batch, x) /\ ~Has(batch[w], x))
  BY <1>2, <1>4, ExceptWithin
<1>6. \A x : Within(async', x) \/ Within(batch', x) \/ Has(s, x) <=> Within(async, x) \/ Within(batch, x)
  BY <1>3, <1>5
<1>7. /\ \A x : Within(async', x) => ~Within(batch', x) /\ ~Has(s, x)
      /\ \A x : Within(batch', x) => ~Has(s, x)
      /\ \A x : Has(s, x) => ~Has(stored, x)
  BY <1>2, <1>3, <1>5
<1>8. /\ stored' \in Seq(Rows) /\ Solo(stored')
      /\ \/ \A x : Has(stored', x) <=> Has(stored, x) \/ Has(s, x)
         \/ excused' = TRUE /\ stored' = stored
  <2>1. CASE stored' = stored \o s /\ excused' = excused
    <3>1. \A x : ~(Has(stored, x) /\ Has(s, x))
      BY <1>7
    <3> QED
      BY <1>2, <2>1, <3>1, ConcatHas
  <2>2. CASE excused' = TRUE /\ stored' = stored
    BY <1>2, <2>2
  <2>3. CASE s = << >> /\ excused' = excused /\ stored' = stored
    BY <1>2, <2>3, EmptyHas
  <2> QED
    BY <2>1, <2>2, <2>3
<1>9. excused' = excused \/ excused' = TRUE
  OBVIOUS
<1>10. Typed'
  BY <1>1, <1>5, <1>8, <1>9 DEF Inv, Typed, InHand
<1>11. Control' /\ Latest'
  BY <1>1, <1>9 DEF Inv, Control, Latest
<1>12. Alone'
  BY <1>1, <1>5, <1>8 DEF Inv, Alone
<1>13. Placed'
  <2>1. \A x : Later(x)' => Later(x)
    BY <1>6, <1>8 DEF Later
  <2>2. \A x : /\ Within(async', x) => ~Within(batch', x) /\ ~Has(stored', x)
               /\ Within(batch', x) => ~Has(stored', x)
    BY <1>2, <1>6, <1>7, <1>8
  <2> QED
    BY <1>1, <2>1, <2>2 DEF Inv, Placed, Single, Anywhere, Known, Flushed
<1>14. Simulates
  <2>1. CASE excused' = TRUE /\ stored' = stored
    <3>1. \A x : (Way(x)' => Way(x)) /\ (Has(stored, x)' <=> Has(stored, x))
      BY <1>1, <1>6, <2>1 DEF Way, Flushed
    <3> QED
      BY <2>1, <3>1 DEF Simulates, Loses
  <2>2. CASE excused' = excused /\ \A x : Has(stored', x) <=> Has(stored, x) \/ Has(s, x)
    <3>1. \A x : Has(s, x) => Way(x)
      BY <1>6 DEF Way
    <3>2. \A x : Has(s, x) => Later(x)
      BY <1>6 DEF Later
    <3>3. \A x : Has(s, x) => /\ ~Has(queue, x) /\ ~Has(overflow, x) /\ ~Has(work, x) /\ ~Has(hand, x)
                              /\ ~Has(pending, x) /\ ~Flushed("processor", x) /\ ~Flushed("reader", x)
      BY <3>2 DEF Inv, Placed, Single, Known
    <3>4. \A x : (Way(x)' <=> Way(x) /\ ~Has(s, x))
                 /\ (Has(stored, x)' <=> Has(stored, x) \/ Has(s, x))
      BY <1>1, <1>6, <1>7, <2>2, <3>3, FinalHas DEF Way, Flushed
    <3>5. Rests(s)
      BY <2>2, <3>1, <3>4 DEF Rests
    <3> QED
      BY <3>5 DEF Simulates
  <2>3. excused' = excused \/ (excused' = TRUE /\ stored' = stored)
    OBVIOUS
  <2> QED
    BY <1>8, <2>1, <2>2, <2>3
<1> QED
  BY <1>10, <1>11, <1>12, <1>13, <1>14 DEF Inv

LEMMA TakeInv ==
    ASSUME Inv, NEW w \in Inserters, Take(w)
    PROVE  Inv' /\ Simulates
<1> DEFINE h == Head(async)
           a == Tail(async)
           b == batch[w]
<1>1. /\ async # << >> /\ async' = a
      /\ UNCHANGED <<input, meeting, closed, results, pc, hands, reader, pending, held, late>>
  BY DEF Take
<1>2. /\ async \in Seq(Seq(Rows)) /\ Parted(async) /\ batch \in [Inserters -> Seq(Rows)]
      /\ Parted(batch) /\ \A x : Within(async, x) => ~Within(batch, x)
  BY DEF Inv, Typed, Alone, Placed, Single
<1>3. /\ h \in Seq(Rows) /\ a \in Seq(Seq(Rows)) /\ Solo(h) /\ Parted(a)
      /\ \A x : Within(async, x) <=> Within(a, x) \/ Has(h, x)
      /\ \A x : ~(Within(a, x) /\ Has(h, x))
  BY <1>1, <1>2, TailWithin
<1>4. b \in Seq(Rows) /\ Solo(b) /\ \A x : Has(b, x) => Within(batch, x)
  BY <1>2 DEF Parted, Within
<1> DEFINE c == b \o h
<1>5. /\ c \in Seq(Rows) /\ Solo(c)
      /\ \A x : Has(c, x) <=> Has(b, x) \/ Has(h, x)
  BY <1>2, <1>3, <1>4, ConcatHas
<1>6. \/ Insert(w, b, h) \/ Insert(w, c, << >>)
      \/ batch' = [batch EXCEPT ![w] = c] /\ UNCHANGED <<stored, excused>>
  BY DEF Take
<1>7. << >> \in Seq(Rows) /\ Solo(<< >>) /\ \A x : ~Has(<< >>, x)
  BY EmptyHas
<1>8. \A x : Has(b, x) => ~Within(async, x)
  BY <1>2, <1>4
<1> HIDE DEF a, c, h
<1>9. CASE Insert(w, b, h)
  <2>1. \A x : Within(async, x) \/ Has(batch[w], x) <=> Within(a, x) \/ Has(b, x) \/ Has(h, x)
    BY <1>3
  <2>2. /\ \A x : Within(a, x) => Within(async, x) /\ ~Has(b, x) /\ ~Has(h, x)
        /\ \A x : ~(Has(b, x) /\ Has(h, x))
    BY <1>3, <1>8
  <2>3. /\ batch' = [batch EXCEPT ![w] = h]
        /\ \/ stored' = stored \o b /\ excused' = excused
           \/ excused' = TRUE /\ stored' = stored
    BY <1>9 DEF Insert
  <2> HIDE DEF b
  <2> QED
    BY <1>1, <1>3, <1>4, <2>1, <2>2, <2>3, InsertHas
<1>10. CASE Insert(w, c, << >>)
  <2>1. \A x : Within(async, x) \/ Has(batch[w], x)
               <=> Within(a, x) \/ Has(c, x) \/ Has(<< >>, x)
    BY <1>3, <1>5, <1>7
  <2>2. /\ \A x : Within(a, x) => Within(async, x) /\ ~Has(c, x) /\ ~Has(<< >>, x)
        /\ \A x : ~(Has(c, x) /\ Has(<< >>, x))
    BY <1>3, <1>5, <1>7, <1>8
  <2>3. /\ batch' = [batch EXCEPT ![w] = << >>]
        /\ \/ stored' = stored \o c /\ excused' = excused
           \/ excused' = TRUE /\ stored' = stored
    BY <1>10 DEF Insert
  <2> HIDE DEF b
  <2> QED
    BY <1>1, <1>3, <1>5, <1>7, <2>1, <2>2, <2>3, InsertHas
<1>11. CASE batch' = [batch EXCEPT ![w] = c] /\ UNCHANGED <<stored, excused>>
  <2>1. \A x : Within(async, x) \/ Has(batch[w], x)
               <=> Within(a, x) \/ Has(<< >>, x) \/ Has(c, x)
    BY <1>3, <1>5, <1>7
  <2>2. /\ \A x : Within(a, x) => Within(async, x) /\ ~Has(<< >>, x) /\ ~Has(c, x)
        /\ \A x : ~(Has(<< >>, x) /\ Has(c, x))
    BY <1>3, <1>5, <1>7, <1>8
  <2> DEFINE s == << >>
  <2>3. s = << >> /\ excused' = excused /\ stored' = stored
    BY <1>11
  <2> HIDE DEF b
  <2> QED
    BY <1>1, <1>3, <1>5, <1>7, <1>11, <2>1, <2>2, <2>3, InsertHas
<1> QED
  BY <1>6, <1>9, <1>10, <1>11

LEMMA TickInv ==
    ASSUME Inv, NEW w \in Inserters, Tick(w)
    PROVE  Inv' /\ Simulates
<1> DEFINE b == batch[w]
<1>1. /\ async' = async /\ batch' = [batch EXCEPT ![w] = << >>]
      /\ \/ stored' = stored \o b /\ excused' = excused
         \/ excused' = TRUE /\ stored' = stored
      /\ UNCHANGED <<input, meeting, closed, results, pc, hands, reader, pending, held, late>>
  BY DEF Tick, Insert
<1>2. /\ async \in Seq(Seq(Rows)) /\ Parted(async) /\ b \in Seq(Rows) /\ Solo(b)
      /\ \A x : Has(b, x) => ~Within(async, x)
  BY DEF Inv, Typed, Alone, Placed, Single, Parted, Within
<1>3. << >> \in Seq(Rows) /\ Solo(<< >>) /\ \A x : ~Has(<< >>, x)
  BY EmptyHas
<1>4. /\ \A x : Within(async, x) \/ Has(batch[w], x)
                <=> Within(async, x) \/ Has(b, x) \/ Has(<< >>, x)
      /\ \A x : Within(async, x) => Within(async, x) /\ ~Has(b, x) /\ ~Has(<< >>, x)
      /\ \A x : ~(Has(b, x) /\ Has(<< >>, x))
  BY <1>2, <1>3
<1> HIDE DEF b
<1> QED
  BY <1>1, <1>2, <1>3, <1>4, InsertHas
-----------------------------------------------------------------------------
LEMMA InitInv ==
    ASSUME Init
    PROVE  Inv /\ Path!FInit
<1>1. /\ << >> \in Seq(Rs) /\ << >> \in Seq(Kept1) /\ << >> \in Seq(Rows) /\ << >> \in Seq(Seq(Rows))
      /\ Solo(<< >>) /\ \A x : ~Has(<< >>, x) /\ ~HasFinal(<< >>, x)
  BY EmptyHas
<1>2. /\ \A f \in Flushers : held[f] = Nothing /\ held[f].recs = << >>
      /\ held["processor"].recs = << >> /\ held["reader"].recs = << >>
      /\ held \in [Flushers -> [recs : Seq(Kept1), meeting : Nat]]
  BY <1>1 DEF Init, Nothing, Flushers
<1>3. /\ \A w \in Inserters : batch[w] = << >>
      /\ batch \in [Inserters -> Seq(Rows)]
  BY <1>1 DEF Init
<1>4. /\ arrived = 0 /\ gen = 0 /\ started = 0 /\ captured = 0 /\ meeting = 0 /\ making = 0
      /\ receivers = {} /\ closed = FALSE /\ excused = FALSE /\ pc = "top" /\ reader = "idle"
      /\ queue = << >> /\ overflow = << >> /\ work = << >> /\ hand = << >> /\ pending = << >>
      /\ async = << >> /\ stored = << >>
  BY DEF Init
<1>5. Typed
  <2>1. excused \in BOOLEAN /\ closed \in BOOLEAN
    BY <1>4
  <2>2. /\ arrived \in 0..MaxResults
        /\ gen \in Nat /\ started \in Nat /\ captured \in Nat /\ meeting \in Nat /\ making \in Nat
        /\ receivers \subseteq [gen : Nat, of : Nat] /\ InHand
    BY <1>4, Numbers DEF InHand
  <2>3. /\ queue \in Seq(Rs) /\ overflow \in Seq(Rs) /\ work \in Seq(Rs) /\ pending \in Seq(Kept1)
        /\ async \in Seq(Seq(Rows)) /\ stored \in Seq(Rows)
    BY <1>1, <1>4
  <2> QED
    BY <1>2, <1>3, <2>1, <2>2, <2>3 DEF Typed
<1>6. Control /\ Latest
  BY <1>2, <1>4 DEF Control, Latest, Busy, Fresh
<1>7. DOMAIN async = {} /\ \A x : ~Within(async, x) /\ ~Within(batch, x)
  BY <1>1, <1>3, <1>4 DEF Within
<1>8. Alone
  BY <1>1, <1>2, <1>3, <1>4, <1>7 DEF Alone, Parted
<1>9. \A x : ~Anywhere(x) /\ ~Way(x) /\ ~Has(stored, x)
  BY <1>1, <1>2, <1>4, <1>7 DEF Anywhere, Known, Later, Flushed, Way
<1>10. Placed
  BY <1>9 DEF Placed, Single, Anywhere, Known, Later
<1>11. Flight = {} /\ IdsOf(stored) = {}
  <2>1. \A x : x \notin Flight /\ x \notin IdsOf(stored)
    BY <1>3, <1>5, <1>9, FlightWay DEF Typed
  <2> QED
    BY <2>1
<1> QED
  BY <1>4, <1>5, <1>6, <1>8, <1>10, <1>11 DEF Inv, Path!FInit

LEMMA StepInv ==
    ASSUME Inv, [Next]_vars
    PROVE  Inv' /\ [Path!FNext]_(Path!fvars)
<1>1. CASE UNCHANGED vars
  <2>1. UNCHANGED <<arrived, queue, overflow, work, hand, pending, held, async, batch, stored>>
    BY <1>1 DEF vars
  <2>2. UNCHANGED <<receivers, gen, started, captured, meeting, making, closed, pc, reader, excused>>
    BY <1>1 DEF vars
  <2>3. Typed' /\ Control' /\ Latest'
    BY <2>1, <2>2 DEF Inv, Typed, InHand, Control, Latest
  <2>4. Alone' /\ Placed' /\ Simulates
    BY <2>1, <2>2, Unmoved
  <2> QED
    BY <2>3, <2>4, Simulation DEF Inv
<1>2. ASSUME Next PROVE Inv' /\ Simulates
  <2>1. ASSUME NEW c \in receivers, NEW final \in BOOLEAN, Arrive(c, final) PROVE Inv' /\ Simulates
    BY <2>1, ArriveInv
  <2>2. CASE Reconnect \/ Resume \/ StartAdvance
    BY <2>2, AdvanceInv
  <2>3. CASE StartEnsure \/ StartAttach \/ StartReceiver \/ ResumeReceiver \/ CloseSession \/ Attach
    BY <2>3, QuietInv
  <2>4. CASE StartReset
    BY <2>4, StartResetInv
  <2>5. CASE Drained \/ Select \/ Check \/ Ensure
    BY <2>5, DrainedInv, SelectInv, CheckInv, EnsureInv
  <2>6. CASE Persist \/ Flush \/ Put
    BY <2>6, PersistInv, FlushInv, PutInv
  <2>7. CASE StopTake \/ StopPut
    BY <2>7, StopInv
  <2>8. ASSUME NEW w \in Inserters, Take(w) \/ Tick(w) PROVE Inv' /\ Simulates
    BY <2>8, TakeInv, TickInv
  <2> QED
    BY <1>2, <2>1, <2>2, <2>3, <2>4, <2>5, <2>6, <2>7, <2>8
       DEF Next, Processor, Reader, Starting
<1>3. CASE Next
  BY <1>2, <1>3, Simulation DEF Inv
<1> QED
  BY <1>1, <1>3

(* The whole path implements FinalResults (NothingLostSilently): whatever    *)
(* the sizes of the queue, the overflow and the pending records, and however *)
(* many inserters there are, a final result that was accepted is stored at   *)
(* most once, and it leaves its way for nothing but the database as long as  *)
(* no session has failed, no generation was superseded and no insert failed. *)
THEOREM ImplementsFinalResults == Spec => NothingLostSilently
<1>1. Init => Inv /\ Path!FInit
  BY InitInv
<1>2. Inv /\ [Next]_vars => Inv' /\ [Path!FNext]_(Path!fvars)
  BY StepInv
<1> QED
  BY <1>1, <1>2, PTL DEF Spec, NothingLostSilently, Path!FSpec
-----------------------------------------------------------------------------
(* Right meetings.  A result of the generation that is current belongs to    *)
(* the last start; as long as no start came upon a result in the hands of    *)
(* the processor, so does everything that waits or is being handled, and the *)
(* meeting it is stored with is the one of that start.                       *)
Own(g, n) == {r \in Rs : r.gen <= g /\ (r.gen = g => r.of = n)}
Lines(g, n) == {c \in [gen : Nat, of : Nat] : c.gen <= g /\ (c.gen = g => c.of = n)}
Kin(n) == {k \in Kept1 : k.of = n}
RightRows == {r \in Rows : r.meeting = r.of}

Source ==
    /\ captured <= gen /\ receivers \subseteq Lines(gen, started)
    /\ queue \in Seq(Own(gen, started)) /\ overflow \in Seq(Own(gen, started))
    /\ work \in Seq(Own(gen, started)) /\ hand \in Seq(Own(gen, started))
Holding(f) == held[f].meeting = started /\ held[f].recs \in Seq(Kin(started))
Meant ==
    ~late =>
      /\ meeting \in {0, started} /\ pending \in Seq(Kin(started))
      /\ reader = "reset" => meeting = 0 /\ pending = << >>
      /\ Committed => reader # "reset" /\ hand[1].of = started
      /\ pc = "attach" => making = started
      /\ pc \in {"flush", "put"} => Holding("processor")
      /\ reader = "flush" => Holding("reader")
      /\ async \in Seq(Seq(RightRows)) /\ batch \in [Inserters -> Seq(RightRows)]
      /\ stored \in Seq(RightRows)
MeetingInv == Inv /\ Source /\ Meant /\ late \in BOOLEAN

LEMMA SeqWider ==
    ASSUME NEW S, NEW T, S \subseteq T, NEW s \in Seq(S)
    PROVE  s \in Seq(T)
OBVIOUS

LEMMA SourceStep ==
    ASSUME MeetingInv, Next
    PROVE  Source'
<1> DEFINE O == Own(gen, started)
           L == Lines(gen, started)
<1>1. /\ captured <= gen /\ receivers \subseteq L /\ queue \in Seq(O) /\ overflow \in Seq(O)
      /\ work \in Seq(O) /\ hand \in Seq(O) /\ << >> \in Seq(O)
      /\ gen \in Nat /\ captured \in Nat /\ started \in Nat
  BY EmptyHas DEF MeetingInv, Inv, Typed, Source
<1>2. ASSUME NEW c \in receivers, NEW final \in BOOLEAN, Arrive(c, final) PROVE Source'
  <2> DEFINE r == [id |-> arrived + 1, final |-> final, gen |-> c.gen, of |-> c.of]
  <2>1. r \in O
    <3>1. c \in L /\ arrived \in Nat
      BY <1>1 DEF MeetingInv, Inv, Typed
    <3>2. c.gen \in Nat /\ c.of \in Nat /\ c.gen <= gen /\ (c.gen = gen => c.of = started)
      BY <3>1 DEF Lines
    <3> QED
      BY <3>1, <3>2 DEF Own, Rs
  <2>2. /\ queue' \in {queue, Append(queue, r)} /\ overflow' \in {overflow, Append(overflow, r)}
        /\ UNCHANGED <<receivers, gen, started, captured, work, hand>>
    BY <1>2 DEF Arrive, hands
  <2> HIDE DEF r, O
  <2>3. Append(queue, r) \in Seq(O) /\ Append(overflow, r) \in Seq(O)
    BY <1>1, <2>1
  <2>4. queue' \in Seq(O) /\ overflow' \in Seq(O)
    BY <1>1, <2>2, <2>3, Zenon
  <2> QED
    BY <1>1, <2>2, <2>4 DEF Source, O
<1>3. CASE Reconnect \/ Resume \/ StartAdvance
  <2>1. /\ queue' = << >> /\ overflow' = << >> /\ gen' = gen + 1
        /\ captured' \in {captured, gen'} /\ started' \in Nat
        /\ UNCHANGED <<work, hand>>
        /\ \/ receivers' = receivers
           \/ receivers' = receivers \cup {[gen |-> gen', of |-> started]} /\ started' = started
    BY <1>1, <1>3 DEF Reconnect, Resume, StartAdvance, Advance, hands
  <2>2. O \subseteq Own(gen', started') /\ L \subseteq Lines(gen', started')
    BY <1>1, <2>1 DEF Own, Lines, Rs
  <2>3. /\ work' \in Seq(Own(gen', started')) /\ hand' \in Seq(Own(gen', started'))
        /\ << >> \in Seq(Own(gen', started'))
    BY <1>1, <2>1, <2>2, SeqWider, EmptyHas
  <2>4. receivers' \subseteq Lines(gen', started')
    BY <1>1, <2>1, <2>2 DEF Lines
  <2>5. captured' <= gen'
    BY <1>1, <2>1
  <2> QED
    BY <2>1, <2>3, <2>4, <2>5 DEF Source
<1>4. CASE StartReceiver
  <2>1. /\ receivers' = receivers \cup {[gen |-> captured, of |-> started]}
        /\ UNCHANGED <<gen, started, captured, queue, overflow, work, hand>>
    BY <1>4 DEF StartReceiver, results, hands
  <2>2. [gen |-> captured, of |-> started] \in L
    BY <1>1 DEF Lines
  <2> QED
    BY <1>1, <2>1, <2>2 DEF Source
<1>5. CASE Drained
  BY <1>1, <1>5 DEF Drained, input, hands, Source
<1>6. CASE Select
  <2>1. UNCHANGED <<receivers, gen, started, captured, overflow>>
    BY <1>6 DEF Select, input
  <2> HIDE DEF O
  <2>2. CASE work # << >> /\ hand' = <<Head(work)>> /\ work' = Tail(work) /\ UNCHANGED queue
    <3>1. hand' \in Seq(O) /\ work' \in Seq(O)
      BY <1>1, <2>2
    <3> QED
      BY <1>1, <2>1, <2>2, <3>1 DEF Source, O
  <2>3. CASE queue # << >> /\ hand' = <<Head(queue)>> /\ queue' = Tail(queue) /\ UNCHANGED work
    <3>1. hand' \in Seq(O) /\ queue' \in Seq(O)
      BY <1>1, <2>3
    <3> QED
      BY <1>1, <2>1, <2>3, <3>1 DEF Source, O
  <2>4. CASE UNCHANGED <<hand, work, queue>>
    BY <1>1, <2>1, <2>4 DEF Source, O
  <2> QED
    BY <1>6, <2>2, <2>3, <2>4 DEF Select, Handle
<1>7. CASE /\ UNCHANGED <<receivers, gen, started, captured, queue, overflow, work>>
           /\ hand' \in {hand, << >>}
  BY <1>1, <1>7 DEF Source
<1>8. CASE Check \/ Ensure \/ Attach \/ Persist \/ Flush \/ Put
  BY <1>7, <1>8 DEF Check, Ensure, Attach, Persist, Flush, Put, Done, Fail, Buffer,
                    input, results, hands
<1>9. CASE StartReset \/ StartEnsure \/ StartAttach \/ ResumeReceiver \/ StopTake \/ StopPut \/ CloseSession
  BY <1>7, <1>9 DEF StartReset, StartEnsure, StartAttach, ResumeReceiver, StopTake, StopPut,
                    CloseSession, input, results, hands
<1>10. ASSUME NEW w \in Inserters, Take(w) \/ Tick(w) PROVE Source'
  BY <1>7, <1>10 DEF Take, Tick, input, results, hands
<1> QED
  BY <1>2, <1>3, <1>4, <1>5, <1>6, <1>8, <1>9, <1>10 DEF Next, Processor, Reader, Starting

LEMMA StampedRight ==
    ASSUME NEW n \in Nat, NEW s \in Seq(Kin(n))
    PROVE  [i \in DOMAIN s |-> [id |-> s[i].id, of |-> s[i].of, meeting |-> n]] \in Seq(RightRows)
<1> DEFINE t == [i \in DOMAIN s |-> [id |-> s[i].id, of |-> s[i].of, meeting |-> n]]
           K == Kin(n)
           R == RightRows
<1>1. DOMAIN s = 1..Len(s) /\ Len(s) \in Nat /\ \A i \in DOMAIN s : s[i] \in K
  OBVIOUS
<1>2. \A i \in 1..Len(s) : t[i] \in R
  BY <1>1 DEF Kin, Kept1, RightRows, Rows
<1>3. t \in [1..Len(s) -> R]
  BY <1>1, <1>2
<1> HIDE DEF t, R
<1>4. t \in Seq(R)
  BY <1>1, <1>3, SeqDef
<1> QED
  BY <1>4 DEF t, R

(* The records of a flush that holds what it should are enqueued as such.    *)
LEMMA EnqueuedRight ==
    ASSUME Inv, NEW f \in Flushers, NEW recs \in Seq(Kin(started)), held[f].meeting = started,
           Enqueued(f, recs), async \in Seq(Seq(RightRows))
    PROVE  async' \in Seq(Seq(RightRows)) /\ batch' = batch /\ stored' = stored
<1> DEFINE t == [i \in DOMAIN recs |-> [id |-> recs[i].id, of |-> recs[i].of, meeting |-> started]]
<1>1. t \in Seq(RightRows)
  BY StampedRight DEF Inv, Typed
<1>2. async' = Append(async, t) /\ batch' = batch /\ stored' = stored
  BY DEF Enqueued
<1> HIDE DEF t
<1> QED
  BY <1>1, <1>2

LEMMA KeptRight ==
    ASSUME Inv, NEW f \in Flushers, pending \in Seq(Kin(started)), Holding(f)
    PROVE  Kept(f) \in Seq(Kin(started))
BY DEF Kept, BackTo, Holding

(* What one step of each goroutine does to the meetings, when no start came  *)
(* upon a result in hand before it or with it.                               *)
LEMMA MeantProcessor ==
    ASSUME MeetingInv, ~late, ~late', Processor
    PROVE  Meant'
<1> DEFINE K == Kin(started)
<1>1. /\ meeting \in {0, started} /\ pending \in Seq(K)
      /\ reader = "reset" => meeting = 0 /\ pending = << >>
      /\ Committed => reader # "reset" /\ hand[1].of = started
      /\ pc = "attach" => making = started
      /\ pc \in {"flush", "put"} => Holding("processor")
      /\ reader = "flush" => Holding("reader")
      /\ async \in Seq(Seq(RightRows)) /\ batch \in [Inserters -> Seq(RightRows)]
      /\ stored \in Seq(RightRows)
  BY DEF MeetingInv, Meant
<1>2. UNCHANGED <<started, reader, batch, stored>>
  BY DEF Processor, Drained, Select, Check, Ensure, Attach, Persist, Flush, Put,
     input, results, hands, store, Enqueued
<1>3. "processor" \in Flushers /\ "reader" \in Flushers /\ "processor" # "reader"
  BY DEF Flushers
<1>4. CASE /\ pc' \notin {"attach", "flush", "put"}
           /\ Committed' => Committed /\ hand' = hand
           /\ meeting' \in {0, started}
           /\ reader = "reset" => meeting' = meeting
           /\ UNCHANGED <<pending, held, async>>
  BY <1>1, <1>2, <1>4 DEF Meant, Holding
<1>5. CASE Drained \/ Select
  <2>1. UNCHANGED <<meeting, pending, held, async>> /\ pc' \in {"select", "check", "top", "dead"}
    BY <1>5 DEF Drained, Select, Handle, store
  <2> QED
    BY <1>1, <1>4, <2>1 DEF Committed
<1>6. CASE Check
  <2>1. UNCHANGED <<meeting, pending, held, async>>
    BY <1>6 DEF Check, store
  <2>2. CASE Done
    BY <1>1, <1>4, <2>1, <2>2 DEF Done, Committed
  <2>3. CASE Current /\ pc' = "ensure" /\ hand' = hand /\ reader # "reset"
    <3>1. hand # << >>
      BY <1>6 DEF Check, MeetingInv, Inv, Control, Busy
    <3>2. hand[1] \in Own(gen, started)
      BY <3>1, HandHas DEF MeetingInv, Source
    <3>3. hand[1].of = started
      BY <2>3, <3>2 DEF Own, Current
    <3> QED
      BY <1>1, <1>2, <2>1, <2>3, <3>3 DEF Meant, Holding
  <2> QED
    BY <1>6, <2>2, <2>3 DEF Check
<1>7. CASE Ensure
  <2>1. Committed /\ UNCHANGED <<meeting, pending, held, async>>
    BY <1>7 DEF Ensure, Committed, store
  <2>2. CASE pc' = "persist" /\ hand' = hand
    BY <1>1, <1>4, <2>1, <2>2
  <2>3. CASE Fail
    BY <1>1, <1>4, <2>1, <2>3 DEF Fail, Committed
  <2>4. CASE making' = ThisMeeting /\ pc' = "attach" /\ hand' = hand
    BY <1>1, <1>2, <2>1, <2>4 DEF Meant, Holding, ThisMeeting
  <2> QED
    BY <1>7, <2>2, <2>3, <2>4 DEF Ensure, hands
<1>8. CASE Attach
  <2>1. /\ Committed /\ meeting' = started /\ pc' = "persist"
        /\ UNCHANGED <<hand, pending, held, async>>
    BY <1>1, <1>8 DEF Attach, Committed, store
  <2> QED
    BY <1>1, <1>4, <2>1
(* The record in hand is one of the last start.                              *)
<1>9. ASSUME pc \in {"persist", "flush", "put"}
      PROVE  /\ Committed /\ hand # << >> /\ Rec(hand[1]) \in K /\ reader # "reset"
             /\ Append(pending, Rec(hand[1])) \in Seq(K)
  <2>1. Committed /\ hand # << >>
    BY <1>9 DEF Committed, MeetingInv, Inv, Control, Busy
  <2>2. Rec(hand[1]) \in Kept1 /\ Rec(hand[1]).of = hand[1].of
    BY <2>1, HandHas DEF MeetingInv, Rec
  <2> DEFINE e == Rec(hand[1])
  <2>3. e \in K
    BY <1>1, <2>1, <2>2 DEF Kin
  <2> HIDE DEF e, K
  <2>4. Append(pending, e) \in Seq(K)
    BY <1>1, <2>3
  <2> QED
    BY <1>1, <2>1, <2>3, <2>4 DEF e
<1>10. ASSUME pc \in {"persist", "flush", "put"}, pending' \in Seq(K), pc' \notin {"flush", "put"},
              UNCHANGED meeting, Done \/ Fail, held'["reader"] = held["reader"],
              async' \in Seq(Seq(RightRows))
       PROVE  Meant'
  <2>1. pc' \in {"select", "top", "dead"} /\ ~Committed'
    BY <1>10 DEF Done, Fail, Committed
  <2>2. reader' # "reset" /\ pending' \in Seq(Kin(started')) /\ meeting' \in {0, started'}
    BY <1>1, <1>2, <1>9, <1>10
  <2>3. reader' = "flush" => Holding("reader")'
    BY <1>1, <1>2, <1>10 DEF Holding
  <2>4. batch' \in [Inserters -> Seq(RightRows)] /\ stored' \in Seq(RightRows)
    BY <1>1, <1>2
  <2> QED
    BY <1>10, <2>1, <2>2, <2>3, <2>4 DEF Meant
<1>11. CASE Persist
  <2>1. UNCHANGED <<meeting, async>> /\ pc = "persist"
    BY <1>11 DEF Persist, store
  <2>2. CASE Buffer /\ UNCHANGED held
    <3>1. pending' = pending \/ pending' = Append(pending, Rec(hand[1]))
      BY <2>2 DEF Buffer
    <3>2. pending' \in Seq(K)
      BY <1>1, <1>9, <2>1, <3>1, Zenon
    <3> QED
      BY <1>1, <1>10, <2>1, <2>2, <3>2 DEF Buffer, Done, Fail
  <2>3. CASE meeting # 0 /\ TakeBy("processor") /\ pc' \in {"put", "flush"} /\ UNCHANGED hand
    <3>1. held'["reader"] = held["reader"] /\ held'["processor"].recs = pending /\ pending' = << >>
      BY <1>3, <2>3, TakenHas DEF MeetingInv
    <3>2. held'["processor"].meeting = meeting
      BY <1>3, <2>3 DEF TakeBy, MeetingInv, Inv, Typed
    <3> QED
      BY <1>1, <1>2, <1>9, <2>1, <2>3, <3>1, <3>2, EmptyHas DEF Meant, Holding, Committed
  <2> QED
    BY <1>11, <2>2, <2>3 DEF Persist
<1>12. CASE Flush
  <2>1. UNCHANGED meeting /\ pc = "flush" /\ Holding("processor")
    BY <1>1, <1>12 DEF Flush
  <2>2. CASE /\ Enqueued("processor", held["processor"].recs)
             /\ held' = [held EXCEPT !["processor"].recs = << >>]
             /\ pc' = "put" /\ UNCHANGED <<hand, pending>>
    <3>1. async' \in Seq(Seq(RightRows))
      BY <1>1, <1>3, <2>1, <2>2, EnqueuedRight DEF Holding, MeetingInv
    <3>2. held'["reader"] = held["reader"] /\ held'["processor"].recs = << >>
      BY <1>3, <2>2, ReleasedHas DEF MeetingInv
    <3>3. held'["processor"].meeting = started
      BY <1>3, <2>1, <2>2 DEF Holding, MeetingInv, Inv, Typed
    <3> QED
      BY <1>1, <1>2, <1>9, <2>1, <2>2, <3>1, <3>2, <3>3, EmptyHas DEF Meant, Holding, Committed
  <2>3. CASE Release("processor") /\ UNCHANGED store
             /\ \/ pending' = Append(Kept("processor"), Rec(hand[1])) /\ (Done \/ Fail)
                \/ pending' = Kept("processor") /\ Fail
    <3>1. Kept("processor") \in Seq(K)
      BY <1>1, <1>3, <2>1, KeptRight DEF MeetingInv
    <3>2. pending' \in Seq(K)
      BY <1>9, <2>1, <2>3, <3>1
    <3>3. held'["reader"] = held["reader"]
      BY <1>3, <2>3, ReleasedHas DEF MeetingInv
    <3> QED
      BY <1>1, <1>10, <2>1, <2>3, <3>2, <3>3 DEF store, Done, Fail
  <2> QED
    BY <1>12, <2>2, <2>3 DEF Flush
<1>13. CASE Put
  <2>1. UNCHANGED meeting /\ pc = "put" /\ Holding("processor")
    BY <1>1, <1>13 DEF Put
  <2>2. held'["reader"] = held["reader"]
    BY <1>3, <1>13, ReleasedHas DEF Put, MeetingInv
  <2>3. CASE Enqueued("processor", <<Rec(hand[1])>>) /\ Done /\ UNCHANGED pending
    <3>1. <<Rec(hand[1])>> \in Seq(K)
      BY <1>9, <2>1
    <3>2. async' \in Seq(Seq(RightRows))
      BY <1>1, <1>3, <2>1, <2>3, <3>1, EnqueuedRight DEF Holding, MeetingInv
    <3> QED
      BY <1>1, <1>10, <2>1, <2>2, <2>3, <3>2 DEF Done
  <2>4. CASE Buffer /\ UNCHANGED store
    <3>1. pending' = pending \/ pending' = Append(pending, Rec(hand[1]))
      BY <2>4 DEF Buffer
    <3>2. pending' \in Seq(K)
      BY <1>1, <1>9, <2>1, <3>1, Zenon
    <3> QED
      BY <1>1, <1>10, <2>1, <2>2, <2>4, <3>2 DEF Buffer, Done, Fail, store
  <2> QED
    BY <1>13, <2>3, <2>4 DEF Put
<1> QED
  BY <1>5, <1>6, <1>7, <1>8, <1>11, <1>12, <1>13 DEF Processor

LEMMA MeantReader ==
    ASSUME MeetingInv, ~late, ~late', Reader \/ CloseSession \/ Reconnect
    PROVE  Meant'
<1> DEFINE K == Kin(started)
<1>1. /\ meeting \in {0, started} /\ pending \in Seq(K)
      /\ reader = "reset" => meeting = 0 /\ pending = << >>
      /\ Committed => reader # "reset" /\ hand[1].of = started
      /\ pc = "attach" => making = started
      /\ pc \in {"flush", "put"} => Holding("processor")
      /\ reader = "flush" => Holding("reader")
      /\ async \in Seq(Seq(RightRows)) /\ batch \in [Inserters -> Seq(RightRows)]
      /\ stored \in Seq(RightRows)
  BY DEF MeetingInv, Meant
<1>2. UNCHANGED <<pc, hand, making, batch, stored>>
  BY DEF Reader, Starting, StartReset, StartAdvance, StartEnsure, StartAttach, StartReceiver,
     ResumeReceiver, Resume, StopTake, StopPut, CloseSession, Reconnect, hands, store, Enqueued
<1>3. "processor" \in Flushers /\ "reader" \in Flushers /\ "processor" # "reader"
  BY DEF Flushers
<1>4. CASE /\ reader' \notin {"reset", "flush"} \/ reader' = reader
           /\ meeting' \in {meeting, started}
           /\ reader' = reader => meeting' = meeting
           /\ UNCHANGED <<started, pending, held, async>>
  BY <1>1, <1>2, <1>4 DEF Meant, Holding, Committed
<1>5. CASE Reconnect \/ CloseSession \/ Resume \/ ResumeReceiver \/ StartEnsure \/ StartAttach
           \/ StartReceiver
  BY <1>4, <1>5 DEF Reconnect, CloseSession, Resume, ResumeReceiver, StartEnsure, StartAttach,
                    StartReceiver, input, hands, store
<1>6. CASE StartReset
  <2>1. /\ ~Committed /\ meeting' = 0 /\ pending' = << >> /\ reader' = "reset"
        /\ UNCHANGED <<started, async, held>>
    BY <1>6 DEF StartReset, input, store
  <2>2. ~Committed' /\ pending' \in Seq(Kin(started'))
    BY <1>2, <2>1, EmptyHas DEF Committed
  <2> QED
    BY <1>1, <1>2, <2>1, <2>2 DEF Meant, Committed
<1>7. CASE StartAdvance
  <2>1. /\ reader = "reset" /\ meeting = 0 /\ pending = << >> /\ ~Committed
        /\ reader' = "ensure" /\ UNCHANGED <<meeting, pending, async, held>>
    BY <1>1, <1>7 DEF StartAdvance, store
  <2>2. ~Committed' /\ pending' \in Seq(Kin(started'))
    BY <1>2, <2>1, EmptyHas DEF Committed
  <2> QED
    BY <1>1, <1>2, <2>1, <2>2 DEF Meant, Committed
<1>8. CASE StopTake
  <2>1. /\ TakeBy("reader") /\ meeting # 0 /\ reader' = "flush"
        /\ UNCHANGED <<started, meeting, async>>
    BY <1>8 DEF StopTake, input, store
  <2>2. /\ held'["processor"] = held["processor"] /\ held'["reader"].recs = pending
        /\ pending' = << >> /\ pending' \in Seq(K)
    BY <1>3, <2>1, TakenHas, EmptyHas DEF MeetingInv
  <2>3. held'["reader"].meeting = meeting
    BY <1>3, <2>1 DEF TakeBy, MeetingInv, Inv, Typed
  <2> QED
    BY <1>1, <1>2, <2>1, <2>2, <2>3 DEF Meant, Holding, Committed
<1>9. CASE StopPut
  <2>1. /\ reader' = "idle" /\ Release("reader") /\ Holding("reader") /\ reader = "flush"
        /\ UNCHANGED <<started, meeting>>
    BY <1>1, <1>9 DEF StopPut, input
  <2>2. held'["processor"] = held["processor"]
    BY <1>3, <2>1, ReleasedHas DEF MeetingInv
  <2>3. pending' \in Seq(K) /\ async' \in Seq(Seq(RightRows))
    <3>1. CASE Enqueued("reader", held["reader"].recs) /\ UNCHANGED pending
      BY <1>1, <1>3, <2>1, <3>1, EnqueuedRight DEF Holding, MeetingInv
    <3>2. CASE pending' = Kept("reader") /\ UNCHANGED store
      BY <1>1, <1>3, <2>1, <3>2, KeptRight DEF MeetingInv, store
    <3> QED
      BY <1>9, <3>1, <3>2 DEF StopPut
  <2> QED
    BY <1>1, <1>2, <2>1, <2>2, <2>3 DEF Meant, Holding, Committed
<1> QED
  BY <1>5, <1>6, <1>7, <1>8, <1>9 DEF Reader, Starting

LEMMA MeantInserter ==
    ASSUME MeetingInv, ~late, NEW w \in Inserters, Take(w) \/ Tick(w)
    PROVE  Meant'
<1> DEFINE R == RightRows
<1>1. /\ async \in Seq(Seq(R)) /\ batch \in [Inserters -> Seq(R)] /\ stored \in Seq(R)
      /\ << >> \in Seq(R)
  BY EmptyHas DEF MeetingInv, Meant
<1>2. UNCHANGED <<started, meeting, pc, hand, making, reader, pending, held>>
  BY DEF Take, Tick, input, hands
<1> HIDE DEF R
<1>3. ASSUME NEW recs \in Seq(R), NEW rest \in Seq(R), Insert(w, recs, rest)
      PROVE  batch' \in [Inserters -> Seq(R)] /\ stored' \in Seq(R)
  <2>1. batch' \in [Inserters -> Seq(R)]
    BY <1>1, <1>3 DEF Insert
  <2>2. stored \o recs \in Seq(R)
    BY <1>1
  <2>3. stored' = stored \o recs \/ stored' = stored
    BY <1>3 DEF Insert
  <2> QED
    BY <1>1, <2>1, <2>2, <2>3
<1>4. CASE Take(w)
  <2> DEFINE h == Head(async)
             c == batch[w] \o h
  <2>1. async # << >> /\ async' = Tail(async)
    BY <1>4 DEF Take
  <2>2. h \in Seq(R) /\ async' \in Seq(Seq(R))
    BY <1>1, <2>1
  <2>3. batch[w] \in Seq(R)
    BY <1>1
  <2> HIDE DEF h
  <2>4. c \in Seq(R)
    BY <2>2, <2>3
  <2> HIDE DEF c
  <2>5. \/ Insert(w, batch[w], h) \/ Insert(w, c, << >>)
        \/ batch' = [batch EXCEPT ![w] = c] /\ UNCHANGED <<stored, excused>>
    BY <1>4 DEF Take, c, h
  <2>6. batch' \in [Inserters -> Seq(R)] /\ stored' \in Seq(R)
    BY <1>1, <1>3, <2>2, <2>3, <2>4, <2>5
  <2> QED
    BY <1>2, <2>2, <2>6 DEF MeetingInv, Meant, Holding, Committed, R
<1>5. CASE Tick(w)
  <2>1. Insert(w, batch[w], << >>) /\ async' = async /\ batch[w] \in Seq(R)
    BY <1>1, <1>5 DEF Tick
  <2>2. batch' \in [Inserters -> Seq(R)] /\ stored' \in Seq(R)
    BY <1>1, <1>3, <2>1
  <2> QED
    BY <1>1, <1>2, <2>1, <2>2 DEF MeetingInv, Meant, Holding, Committed, R
<1> QED
  BY <1>4, <1>5

LEMMA MeetingStep ==
    ASSUME MeetingInv, [Next]_vars
    PROVE  MeetingInv'
<1>1. Inv' /\ late \in BOOLEAN
  BY StepInv DEF MeetingInv
<1>2. CASE UNCHANGED vars
  <2>1. UNCHANGED <<captured, gen, started, receivers, queue, overflow, work, hand, late, meeting,
                    pending, reader, pc, making, held, async, batch, stored>>
    BY <1>2 DEF vars
  <2> QED
    BY <1>1, <2>1 DEF MeetingInv, Source, Meant, Holding, Committed
<1>3. CASE Next
  <2>1. late' \in {late, TRUE} \/ late' = (late \/ reader = "reset") \/ late' = (late \/ Committed)
    BY <1>3 DEF Next, Arrive, Reconnect, Processor, Drained, Select, Check, Ensure, Attach, Persist,
       Flush, Put, Reader, Starting, StartReset, StartAdvance, StartEnsure, StartAttach,
       StartReceiver, ResumeReceiver, Resume, StopTake, StopPut, CloseSession, Take, Tick
  <2>2. late' \in BOOLEAN /\ (late => late')
    BY <1>1, <2>1, Zenon
  <2>3. ASSUME ~late, ~late' PROVE Meant'
    <3>1. ASSUME NEW c \in receivers, NEW final \in BOOLEAN, Arrive(c, final) PROVE Meant'
      <4>1. UNCHANGED <<started, meeting, pc, hand, making, reader, pending, held, async, batch,
                        stored>>
        BY <3>1 DEF Arrive, hands, store
      <4> QED
        BY <2>3, <4>1 DEF MeetingInv, Meant, Holding, Committed
    <3>2. CASE Processor
      BY <2>3, <3>2, MeantProcessor
    <3>3. CASE Reader \/ CloseSession \/ Reconnect
      BY <2>3, <3>3, MeantReader
    <3>4. ASSUME NEW w \in Inserters, Take(w) \/ Tick(w) PROVE Meant'
      BY <2>3, <3>4, MeantInserter
    <3> QED
      BY <1>3, <3>1, <3>2, <3>3, <3>4 DEF Next
  <2>4. Meant'
    BY <2>2, <2>3 DEF Meant
  <2> QED
    BY <1>1, <1>3, <2>2, <2>4, SourceStep DEF MeetingInv
<1> QED
  BY <1>2, <1>3

LEMMA InitMeeting ==
    ASSUME Init
    PROVE  MeetingInv
<1>1. /\ captured = 0 /\ gen = 0 /\ started = 0 /\ meeting = 0 /\ receivers = {} /\ late = FALSE
      /\ queue = << >> /\ overflow = << >> /\ work = << >> /\ hand = << >> /\ pending = << >>
      /\ async = << >> /\ stored = << >> /\ pc = "top" /\ reader = "idle"
      /\ batch = [v \in Inserters |-> << >>]
  BY DEF Init
<1>2. /\ << >> \in Seq(Own(gen, started)) /\ << >> \in Seq(Kin(started)) /\ << >> \in Seq(RightRows)
      /\ << >> \in Seq(Seq(RightRows))
  BY EmptyHas
<1>3. Source
  BY <1>1, <1>2 DEF Source
<1>4. Meant
  BY <1>1, <1>2 DEF Meant, Committed
<1>5. late \in BOOLEAN
  BY <1>1
<1> QED
  BY <1>3, <1>4, <1>5, InitInv DEF MeetingInv

(* What is stored was said after the start whose meeting it is stored in     *)
(* (RightMeeting), for any sizes and any number of inserters, as long as no  *)
(* start came upon a result that had passed the check of its generation.     *)
THEOREM StoredInItsMeeting == Spec => []RightMeeting
<1>1. Init => MeetingInv
  BY InitMeeting
<1>2. MeetingInv /\ [Next]_vars => MeetingInv'
  BY MeetingStep
<1>3. MeetingInv => RightMeeting
  <2> SUFFICES ASSUME MeetingInv, ~late PROVE \A r \in Elements(stored) : r.meeting = r.of
    BY DEF RightMeeting
  <2>1. stored \in Seq(RightRows)
    BY DEF MeetingInv, Meant
  <2>2. \A i \in DOMAIN stored : stored[i] \in RightRows
    BY <2>1
  <2> QED
    BY <2>2 DEF Elements, RightRows
<1> QED
  BY <1>1, <1>2, <1>3, PTL DEF Spec
-----------------------------------------------------------------------------
(* Sizes and names.  The types of TypeOK, with the bounds of the queues;     *)
(* what is handed to the inserters has a meeting and a generation.           *)
Kept2 == [id : Ids, of : 1..MaxGenerations]
Counters ==
    /\ gen \in 0..MaxGenerations /\ started \in 0..gen /\ captured \in 0..gen
    /\ receivers \subseteq [gen : 1..gen, of : 1..started]
    /\ meeting \in 0..Nameless /\ making \in 0..Nameless /\ wake \in BOOLEAN
    /\ reader \in {"idle", "reset", "ensure", "attach", "run", "wake", "flush"}
    /\ reader \in {"ensure", "attach", "run", "wake"} => captured # 0
Queues ==
    /\ queue \in Seq(Results) /\ Len(queue) <= QueueSize
    /\ overflow \in Seq(Results) /\ Len(overflow) <= OverflowSize
    /\ work \in Seq(Results) /\ hand \in Seq(Results)
Waits ==
    /\ pending \in Seq(Kept2) /\ Len(pending) <= PendingSize
    /\ held \in [Flushers -> [recs : Seq(Kept2), meeting : 0..Nameless]]
    /\ pc \in {"flush", "put"} => held["processor"].meeting # 0
    /\ reader = "flush" => held["reader"].meeting # 0
Batches ==
    async \in Seq(Seq(Records)) /\ batch \in [Inserters -> Seq(Records)] /\ stored \in Seq(Records)
SizeInv == MeetingInv /\ Counters /\ Queues /\ Waits /\ Batches

LEMMA Limits ==
    /\ MaxGenerations \in Nat /\ MaxGenerations > 0 /\ QueueSize \in Nat /\ OverflowSize \in Nat
    /\ PendingSize \in Nat /\ Nameless = MaxGenerations + 1
    /\ 1..MaxGenerations \subseteq Nat /\ Ids \subseteq Nat
BY PathAssumption DEF Nameless, Ids

LEMMA CountersStep ==
    ASSUME SizeInv, Next
    PROVE  Counters'
<1>1. /\ gen \in 0..MaxGenerations /\ started \in 0..gen /\ captured \in 0..gen
      /\ receivers \subseteq [gen : 1..gen, of : 1..started]
      /\ meeting \in 0..Nameless /\ making \in 0..Nameless /\ wake \in BOOLEAN
      /\ reader \in {"ensure", "attach", "run", "wake"} => captured # 0 /\ started # 0
  BY DEF SizeInv, Counters, MeetingInv, Inv, Latest
<1>2. CASE Reconnect \/ Resume \/ StartAdvance
  <2>1. /\ gen < MaxGenerations /\ gen' = gen + 1 /\ UNCHANGED <<meeting, making>>
        /\ wake' \in {wake, FALSE}
        /\ \/ /\ receivers' = receivers /\ started' \in {started, gen'} /\ captured' = gen'
              /\ reader' \in {"wake", "ensure"}
           \/ /\ receivers' = receivers \cup {[gen |-> gen', of |-> started]} /\ started > 0
              /\ UNCHANGED <<started, captured, reader>>
    BY <1>2 DEF Reconnect, Resume, StartAdvance, Advance, hands
  <2>2. /\ gen' \in 0..MaxGenerations /\ started' \in 0..gen' /\ captured' \in 0..gen'
        /\ gen' # 0 /\ started' >= started
    BY <1>1, <2>1, Limits
  <2>3. receivers \subseteq [gen : 1..gen', of : 1..started']
    BY <1>1, <2>1, <2>2, Limits
  <2>4. receivers' \subseteq [gen : 1..gen', of : 1..started']
    BY <1>1, <2>1, <2>2, <2>3, Limits
  <2>5. wake' \in BOOLEAN
    BY <1>1, <2>1
  <2> QED
    BY <1>1, <2>1, <2>2, <2>4, <2>5 DEF Counters, SizeInv
<1>3. CASE StartReceiver
  <2>1. /\ receivers' = receivers \cup {[gen |-> captured, of |-> started]}
        /\ captured \in 1..gen /\ started \in 1..started /\ reader' = "idle"
        /\ UNCHANGED <<gen, started, captured, meeting, making, wake>>
    BY <1>1, <1>3, Limits DEF StartReceiver, results, hands
  <2>2. receivers' \subseteq [gen : 1..gen, of : 1..started]
    BY <1>1, <2>1
  <2> QED
    BY <1>1, <2>1, <2>2 DEF Counters
<1>4. CASE /\ UNCHANGED <<receivers, gen, started, captured>> /\ wake' \in {wake, TRUE, FALSE}
           /\ meeting' \in {meeting, making, started, 0} /\ making' \in {making, ThisMeeting, 0}
           /\ \/ reader' = reader
              \/ reader' \in {"idle", "reset", "flush"}
              \/ reader \in {"ensure", "attach", "wake"} /\ reader' \in {"attach", "run"}
  <2>1. started \in 0..Nameless /\ ThisMeeting \in 0..Nameless
    BY <1>1, Limits DEF ThisMeeting
  <2>2. 0 \in 0..Nameless
    BY Limits
  <2>3. meeting' \in 0..Nameless /\ making' \in 0..Nameless
    BY <1>1, <1>4, <2>1, <2>2
  <2>4. wake' \in BOOLEAN
    BY <1>1, <1>4
  <2> QED
    BY <1>1, <1>4, <2>3, <2>4 DEF Counters, SizeInv
<1>5. ASSUME NEW c \in receivers, NEW final \in BOOLEAN, Arrive(c, final) PROVE Counters'
  <2>1. UNCHANGED <<receivers, gen, started, captured, meeting, making, reader>>
    BY <1>5 DEF Arrive, hands
  <2>2. wake' \in {wake, TRUE, FALSE}
    BY <1>5 DEF Arrive, Signal
  <2> QED
    BY <1>4, <2>1, <2>2
<1>6. CASE Processor
  <2>1. UNCHANGED <<receivers, gen, started, captured, reader>>
    BY <1>6 DEF Processor, Drained, Select, Check, Ensure, Attach, Persist, Flush, Put, input
  <2>2. meeting' \in {meeting, making} /\ making' \in {making, ThisMeeting, 0}
    BY <1>6 DEF Processor, Drained, Select, Check, Ensure, Attach, Persist, Flush, Put, hands
  <2>3. wake' \in {wake, FALSE}
    BY <1>6 DEF Processor, Drained, Select, Check, Ensure, Attach, Persist, Flush, Put, results
  <2> QED
    BY <1>4, <2>1, <2>2, <2>3
<1>7. CASE StartReset \/ StartEnsure \/ StartAttach \/ ResumeReceiver \/ StopTake \/ StopPut \/ CloseSession
  <2>1. UNCHANGED <<receivers, gen, started, captured, making>>
    BY <1>7 DEF StartReset, StartEnsure, StartAttach, ResumeReceiver, StopTake, StopPut, CloseSession,
                input, hands
  <2>2. meeting' \in {meeting, started, 0} /\ wake' \in {wake, FALSE}
    BY <1>7 DEF StartReset, StartEnsure, StartAttach, ResumeReceiver, StopTake, StopPut, CloseSession,
                results
  <2>3. \/ reader' = reader
        \/ reader' \in {"idle", "reset", "flush"}
        \/ reader \in {"ensure", "attach", "wake"} /\ reader' \in {"attach", "run"}
    BY <1>7 DEF StartReset, StartEnsure, StartAttach, ResumeReceiver, StopTake, StopPut, CloseSession
  <2> QED
    BY <1>4, <2>1, <2>2, <2>3
<1>8. ASSUME NEW w \in Inserters, Take(w) \/ Tick(w) PROVE Counters'
  <2>1. UNCHANGED <<receivers, gen, started, captured, meeting, making, reader, wake>>
    BY <1>8 DEF Take, Tick, input, hands, results
  <2> QED
    BY <1>4, <2>1
<1> QED
  BY <1>2, <1>3, <1>5, <1>6, <1>7, <1>8 DEF Next, Reader, Starting

LEMMA AppendBound ==
    ASSUME NEW T, NEW s \in Seq(T), NEW e \in T, NEW n \in Nat, Len(s) < n
    PROVE  Append(s, e) \in Seq(T) /\ Len(Append(s, e)) <= n
OBVIOUS

LEMMA QueuesStep ==
    ASSUME SizeInv, Next
    PROVE  Queues'
<1>1. /\ queue \in Seq(Results) /\ Len(queue) <= QueueSize
      /\ overflow \in Seq(Results) /\ Len(overflow) <= OverflowSize
      /\ work \in Seq(Results) /\ hand \in Seq(Results)
      /\ << >> \in Seq(Results) /\ Len(<< >>) <= QueueSize /\ Len(<< >>) <= OverflowSize
  BY EmptyHas, Limits DEF SizeInv, Queues
<1>2. ASSUME NEW c \in receivers, NEW final \in BOOLEAN, Arrive(c, final) PROVE Queues'
  <2> DEFINE r == [id |-> arrived + 1, final |-> final, gen |-> c.gen, of |-> c.of]
  <2>1. r \in Results
    <3>1. c.gen \in 1..MaxGenerations /\ c.of \in 1..MaxGenerations
      <4>1. c \in [gen : 1..gen, of : 1..started] /\ gen \in 0..MaxGenerations /\ started \in 0..gen
        BY DEF SizeInv, Counters
      <4> QED
        BY <4>1, Limits
    <3>2. arrived + 1 \in Ids
      BY <1>2, Numbers DEF Arrive, SizeInv, MeetingInv, Inv, Typed, Ids
    <3> QED
      BY <3>1, <3>2 DEF Results
  <2>2. /\ \/ queue' = queue
           \/ queue' = Append(queue, r) /\ Len(queue) < QueueSize
        /\ \/ overflow' = overflow
           \/ overflow' = Append(overflow, r) /\ Len(overflow) < OverflowSize
        /\ UNCHANGED <<work, hand>>
    BY <1>2 DEF Arrive, hands
  <2> HIDE DEF r
  <2>3. queue' \in Seq(Results) /\ Len(queue') <= QueueSize
    <3>1. CASE queue' = Append(queue, r) /\ Len(queue) < QueueSize
      BY <1>1, <2>1, <3>1, Limits, AppendBound
    <3> QED
      BY <1>1, <2>2, <3>1
  <2>4. overflow' \in Seq(Results) /\ Len(overflow') <= OverflowSize
    <3>1. CASE overflow' = Append(overflow, r) /\ Len(overflow) < OverflowSize
      BY <1>1, <2>1, <3>1, Limits, AppendBound
    <3> QED
      BY <1>1, <2>2, <3>1
  <2> QED
    BY <1>1, <2>2, <2>3, <2>4 DEF Queues
<1>3. CASE /\ queue' \in {queue, << >>} /\ overflow' \in {overflow, << >>}
           /\ work' \in {work, overflow} /\ hand' \in {hand, << >>}
  <2>1. queue' \in Seq(Results) /\ Len(queue') <= QueueSize
    BY <1>1, <1>3
  <2>2. overflow' \in Seq(Results) /\ Len(overflow') <= OverflowSize
    BY <1>1, <1>3
  <2> QED
    BY <1>1, <1>3, <2>1, <2>2 DEF Queues
<1>4. CASE Select
  <2>1. UNCHANGED overflow
    BY <1>4 DEF Select
  <2>2. CASE work # << >> /\ hand' = <<Head(work)>> /\ work' = Tail(work) /\ UNCHANGED queue
    <3>1. hand' \in Seq(Results) /\ work' \in Seq(Results)
      BY <1>1, <2>2
    <3> QED
      BY <1>1, <2>1, <2>2, <3>1 DEF Queues
  <2>3. CASE queue # << >> /\ hand' = <<Head(queue)>> /\ queue' = Tail(queue) /\ UNCHANGED work
    <3>1. hand' \in Seq(Results) /\ queue' \in Seq(Results) /\ Len(queue') <= QueueSize
      BY <1>1, <2>3, Limits
    <3> QED
      BY <1>1, <2>1, <2>3, <3>1 DEF Queues
  <2>4. CASE UNCHANGED <<hand, work, queue>>
    BY <1>1, <2>1, <2>4 DEF Queues
  <2> QED
    BY <1>4, <2>2, <2>3, <2>4 DEF Select, Handle
<1>5. CASE Reconnect \/ Resume \/ StartAdvance \/ Drained
  BY <1>3, <1>5 DEF Reconnect, Resume, StartAdvance, Advance, Drained, hands
<1>6. CASE Check \/ Ensure \/ Attach \/ Persist \/ Flush \/ Put
  BY <1>3, <1>6 DEF Check, Ensure, Attach, Persist, Flush, Put, Done, Fail, Buffer, results, hands
<1>7. CASE StartReset \/ StartEnsure \/ StartAttach \/ StartReceiver \/ ResumeReceiver \/ StopTake
           \/ StopPut \/ CloseSession
  BY <1>3, <1>7 DEF StartReset, StartEnsure, StartAttach, StartReceiver, ResumeReceiver, StopTake,
                    StopPut, CloseSession, results, hands
<1>8. ASSUME NEW w \in Inserters, Take(w) \/ Tick(w) PROVE Queues'
  BY <1>3, <1>8 DEF Take, Tick, results, hands
<1> QED
  BY <1>2, <1>4, <1>5, <1>6, <1>7, <1>8 DEF Next, Processor, Reader, Starting

LEMMA HandNamed ==
    ASSUME SizeInv, hand # << >>
    PROVE  Rec(hand[1]) \in Kept2
<1>1. hand[1] \in Results
  BY DEF SizeInv, Queues
<1> QED
  BY <1>1 DEF Results, Rec, Kept2

LEMMA KeptFits ==
    ASSUME SizeInv, NEW f \in Flushers
    PROVE  Kept(f) \in Seq(Kept2) /\ Len(Kept(f)) <= PendingSize
<1>1. held[f].recs \in Seq(Kept2) /\ pending \in Seq(Kept2) /\ Len(pending) <= PendingSize
  BY DEF SizeInv, Waits
<1>2. BackTo(f) \in Seq(Kept2)
  BY <1>1 DEF BackTo
<1> QED
  BY <1>1, <1>2 DEF Kept

(* Where held changes, by its parts.                                         *)
LEMMA HeldNamed ==
    ASSUME SizeInv, NEW f \in Flushers,
           \/ TakeBy(f) \/ Release(f)
           \/ held' = [held EXCEPT ![f].recs = << >>]
    PROVE  /\ held' \in [Flushers -> [recs : Seq(Kept2), meeting : 0..Nameless]]
           /\ \A g \in Flushers : g # f => held'[g] = held[g]
           /\ TakeBy(f) => held'[f].meeting = meeting
           /\ held' = [held EXCEPT ![f].recs = << >>] => held'[f].meeting = held[f].meeting
<1> DEFINE R == [recs : Seq(Kept2), meeting : 0..Nameless]
           e == [recs |-> pending, meeting |-> meeting]
           d == [held[f] EXCEPT !.recs = << >>]
<1>1. held \in [Flushers -> R] /\ pending \in Seq(Kept2) /\ meeting \in 0..Nameless
      /\ << >> \in Seq(Kept2) /\ 0 \in 0..Nameless
  BY EmptyHas, Limits DEF SizeInv, Waits, Counters
<1>2. e \in R /\ d \in R /\ Nothing \in R /\ e.meeting = meeting /\ d.meeting = held[f].meeting
  BY <1>1 DEF Nothing
<1>3. TakeBy(f) => held' = [held EXCEPT ![f] = e]
  BY DEF TakeBy
<1>4. Release(f) => held' = [held EXCEPT ![f] = Nothing]
  BY DEF Release
<1>5. held' = [held EXCEPT ![f].recs = << >>] => held' = [held EXCEPT ![f] = d]
  OBVIOUS
<1> HIDE DEF R, e, d
<1>6. ASSUME NEW b \in R, held' = [held EXCEPT ![f] = b]
      PROVE  /\ held' \in [Flushers -> R] /\ held'[f] = b
             /\ \A g \in Flushers : g # f => held'[g] = held[g]
  BY <1>1, <1>6
<1> QED
  BY <1>2, <1>3, <1>4, <1>5, <1>6 DEF R

LEMMA WaitsStep ==
    ASSUME SizeInv, Next
    PROVE  Waits'
<1> DEFINE H == [Flushers -> [recs : Seq(Kept2), meeting : 0..Nameless]]
<1>1. /\ pending \in Seq(Kept2) /\ Len(pending) <= PendingSize /\ held \in H
      /\ pc \in {"flush", "put"} => held["processor"].meeting # 0
      /\ reader = "flush" => held["reader"].meeting # 0
      /\ << >> \in Seq(Kept2) /\ Len(<< >>) <= PendingSize
  BY EmptyHas, Limits DEF SizeInv, Waits
<1>2. "processor" \in Flushers /\ "reader" \in Flushers /\ "processor" # "reader"
  BY DEF Flushers
<1>3. CASE /\ pending' \in {pending, << >>} /\ held' = held
           /\ pc' = pc \/ pc' \notin {"flush", "put"}
           /\ reader' = reader \/ reader' # "flush"
  <2>1. pending' \in Seq(Kept2) /\ Len(pending') <= PendingSize
    BY <1>1, <1>3
  <2> QED
    BY <1>1, <1>3, <2>1 DEF Waits
<1>4. ASSUME pc \in {"persist", "flush", "put"}
      PROVE  Rec(hand[1]) \in Kept2
  <2>1. hand # << >>
    BY <1>4 DEF SizeInv, MeetingInv, Inv, Control, Busy
  <2> QED
    BY <2>1, HandNamed
(* The processor is done with a record, which may have joined those that     *)
(* wait.                                                                     *)
<1>5. ASSUME NEW s \in Seq(Kept2), Len(s) <= PendingSize, pc \in {"persist", "flush", "put"},
             \/ pending' = s
             \/ pending' = Append(s, Rec(hand[1])) /\ Len(s) < PendingSize,
             Done \/ Fail, reader' = reader, held' \in H, held'["reader"] = held["reader"]
      PROVE  Waits'
  <2>1. CASE pending' = Append(s, Rec(hand[1])) /\ Len(s) < PendingSize
    <3>1. pending' \in Seq(Kept2) /\ Len(pending') <= PendingSize
      BY <1>4, <1>5, <2>1, AppendBound, Limits
    <3> QED
      BY <1>1, <1>5, <3>1 DEF Waits, Done, Fail
  <2>2. CASE pending' = s
    BY <1>1, <1>5, <2>2 DEF Waits, Done, Fail
  <2> QED
    BY <1>5, <2>1, <2>2
<1>6. CASE Persist
  <2>1. pc = "persist" /\ reader' = reader
    BY <1>6 DEF Persist
  <2>2. CASE Buffer /\ UNCHANGED held
    <3>1. /\ \/ pending' = pending
             \/ pending' = Append(pending, Rec(hand[1])) /\ Len(pending) < PendingSize
          /\ Done \/ Fail
      BY <2>2 DEF Buffer
    <3> QED
      BY <1>1, <1>5, <2>1, <2>2, <3>1
  <2>3. CASE meeting # 0 /\ TakeBy("processor") /\ pc' \in {"put", "flush"}
    <3>1. pending' = << >>
      BY <2>3 DEF TakeBy
    <3>2. held' \in H /\ held'["reader"] = held["reader"] /\ held'["processor"].meeting # 0
      BY <1>2, <2>3, HeldNamed
    <3> QED
      BY <1>1, <2>1, <3>1, <3>2 DEF Waits
  <2> QED
    BY <1>6, <2>2, <2>3 DEF Persist
<1>7. CASE Flush
  <2>1. pc = "flush" /\ reader' = reader
    BY <1>7 DEF Flush
  <2>2. CASE held' = [held EXCEPT !["processor"].recs = << >>] /\ UNCHANGED pending
    <3>1. held' \in H /\ held'["reader"] = held["reader"] /\ held'["processor"].meeting # 0
      BY <1>1, <1>2, <2>1, <2>2, HeldNamed
    <3> QED
      BY <1>1, <2>1, <2>2, <3>1 DEF Waits
  <2>3. CASE /\ Release("processor")
             /\ \/ /\ Len(Kept("processor")) < PendingSize /\ (Done \/ Fail)
                   /\ pending' = Append(Kept("processor"), Rec(hand[1]))
                \/ pending' = Kept("processor") /\ Fail
    <3>1. held' \in H /\ held'["reader"] = held["reader"]
      BY <1>2, <2>3, HeldNamed
    <3>2. Kept("processor") \in Seq(Kept2) /\ Len(Kept("processor")) <= PendingSize
      BY <1>2, KeptFits
    <3> QED
      BY <1>5, <2>1, <2>3, <3>1, <3>2
  <2> QED
    BY <1>7, <2>2, <2>3 DEF Flush
<1>8. CASE Put
  <2>1. pc = "put" /\ reader' = reader /\ Release("processor")
    BY <1>8 DEF Put
  <2>2. held' \in H /\ held'["reader"] = held["reader"]
    BY <1>2, <2>1, HeldNamed
  <2>3. /\ \/ pending' = pending
           \/ pending' = Append(pending, Rec(hand[1])) /\ Len(pending) < PendingSize
        /\ Done \/ Fail
    BY <1>8 DEF Put, Buffer
  <2> QED
    BY <1>1, <1>5, <2>1, <2>2, <2>3
<1>9. CASE StopTake
  <2>1. TakeBy("reader") /\ meeting # 0 /\ pc' = pc
    BY <1>9 DEF StopTake
  <2>2. held' \in H /\ held'["processor"] = held["processor"] /\ held'["reader"].meeting # 0
    BY <1>2, <2>1, HeldNamed
  <2>3. pending' = << >>
    BY <2>1 DEF TakeBy
  <2> QED
    BY <1>1, <2>1, <2>2, <2>3 DEF Waits
<1>10. CASE StopPut
  <2>1. Release("reader") /\ pc' = pc /\ reader' = "idle" /\ pending' \in {pending, Kept("reader")}
    BY <1>10 DEF StopPut
  <2>2. held' \in H /\ held'["processor"] = held["processor"]
    BY <1>2, <2>1, HeldNamed
  <2>3. pending' \in Seq(Kept2) /\ Len(pending') <= PendingSize
    BY <1>1, <1>2, <2>1, KeptFits
  <2> QED
    BY <1>1, <2>1, <2>2, <2>3 DEF Waits
<1>11. CASE Drained \/ Select \/ Check \/ Ensure \/ Attach
  <2>1. UNCHANGED <<pending, held, reader>> /\ pc' \notin {"flush", "put"}
    BY <1>11 DEF Drained, Select, Handle, Check, Ensure, Attach, Done, Fail
  <2> QED
    BY <1>3, <2>1
<1>12. CASE StartReset \/ Starting \/ Resume \/ Reconnect \/ CloseSession
  <2>1. /\ pending' \in {pending, << >>} /\ held' = held /\ pc' = pc
        /\ reader' = reader \/ reader' # "flush"
    BY <1>12 DEF StartReset, Starting, StartAdvance, StartEnsure, StartAttach, StartReceiver,
                 ResumeReceiver, Resume, Reconnect, CloseSession
  <2> QED
    BY <1>3, <2>1
<1>13. ASSUME NEW c \in receivers, NEW final \in BOOLEAN, Arrive(c, final) PROVE Waits'
  BY <1>3, <1>13 DEF Arrive
<1>14. ASSUME NEW w \in Inserters, Take(w) \/ Tick(w) PROVE Waits'
  BY <1>3, <1>14 DEF Take, Tick
<1> QED
  BY <1>6, <1>7, <1>8, <1>9, <1>10, <1>11, <1>12, <1>13, <1>14 DEF Next, Processor, Reader

LEMMA BatchesStep ==
    ASSUME SizeInv, Next
    PROVE  Batches'
<1> DEFINE R == Records
<1>1. /\ async \in Seq(Seq(R)) /\ batch \in [Inserters -> Seq(R)] /\ stored \in Seq(R)
      /\ << >> \in Seq(R)
  BY EmptyHas DEF SizeInv, Batches
<1>2. ASSUME NEW f \in Flushers, held[f].meeting # 0, NEW recs \in Seq(Kept2), Enqueued(f, recs)
      PROVE  Batches'
  <2> DEFINE m == held[f].meeting
             t == [i \in DOMAIN recs |-> [id |-> recs[i].id, of |-> recs[i].of, meeting |-> m]]
  <2>1. m \in Meetings
    <3>1. m \in 0..Nameless
      BY DEF SizeInv, Waits
    <3> QED
      BY <1>2, <3>1, Limits DEF Meetings
  <2>2. async' = Append(async, t) /\ batch' = batch /\ stored' = stored
    BY <1>2 DEF Enqueued
  <2> HIDE DEF m
  <2>3. DOMAIN recs = 1..Len(recs) /\ Len(recs) \in Nat /\ \A i \in DOMAIN recs : recs[i] \in Kept2
    OBVIOUS
  <2>4. \A i \in 1..Len(recs) : t[i] \in R
    BY <2>1, <2>3 DEF Kept2, Records
  <2>5. t \in [1..Len(recs) -> R]
    BY <2>3, <2>4
  <2> HIDE DEF t, R
  <2>6. t \in Seq(R)
    BY <2>3, <2>5, SeqDef
  <2>7. async' \in Seq(Seq(R))
    BY <1>1, <2>2, <2>6
  <2> QED
    BY <1>1, <2>2, <2>7 DEF Batches, R
<1>3. CASE UNCHANGED store
  BY <1>1, <1>3 DEF Batches, store
<1>4. ASSUME NEW w \in Inserters, NEW recs \in Seq(R), NEW rest \in Seq(R), Insert(w, recs, rest)
      PROVE  batch' \in [Inserters -> Seq(R)] /\ stored' \in Seq(R)
  <2> HIDE DEF R
  <2>1. batch' \in [Inserters -> Seq(R)]
    BY <1>1, <1>4 DEF Insert
  <2>2. stored \o recs \in Seq(R)
    BY <1>1
  <2>3. stored' = stored \o recs \/ stored' = stored
    BY <1>4 DEF Insert
  <2> QED
    BY <1>1, <2>1, <2>2, <2>3
<1>5. ASSUME NEW w \in Inserters, Take(w) PROVE Batches'
  <2> DEFINE h == Head(async)
             c == batch[w] \o h
  <2> HIDE DEF R
  <2>1. async # << >> /\ async' = Tail(async)
    BY <1>5 DEF Take
  <2>2. h \in Seq(R) /\ async' \in Seq(Seq(R))
    BY <1>1, <2>1
  <2>3. batch[w] \in Seq(R)
    BY <1>1
  <2> HIDE DEF h
  <2>4. c \in Seq(R)
    BY <2>2, <2>3
  <2> HIDE DEF c
  <2>5. \/ Insert(w, batch[w], h) \/ Insert(w, c, << >>)
        \/ batch' = [batch EXCEPT ![w] = c] /\ UNCHANGED stored
    BY <1>5 DEF Take, c, h
  <2>6. batch' \in [Inserters -> Seq(R)] /\ stored' \in Seq(R)
    BY <1>1, <1>4, <2>2, <2>3, <2>4, <2>5
  <2> QED
    BY <2>2, <2>6 DEF Batches, R
<1>6. ASSUME NEW w \in Inserters, Tick(w) PROVE Batches'
  <2>1. Insert(w, batch[w], << >>) /\ async' = async /\ batch[w] \in Seq(R)
    BY <1>1, <1>6 DEF Tick
  <2>2. batch' \in [Inserters -> Seq(R)] /\ stored' \in Seq(R)
    BY <1>1, <1>4, <2>1
  <2> QED
    BY <1>1, <2>1, <2>2 DEF Batches
<1>7. /\ "processor" \in Flushers /\ "reader" \in Flushers
      /\ \A f \in Flushers : held[f].recs \in Seq(Kept2)
      /\ pc \in {"flush", "put"} => held["processor"].meeting # 0
      /\ reader = "flush" => held["reader"].meeting # 0
  BY DEF SizeInv, Waits, Flushers
<1>8. CASE Flush
  <2>1. CASE Enqueued("processor", held["processor"].recs)
    BY <1>2, <1>7, <1>8, <2>1 DEF Flush
  <2> QED
    BY <1>3, <1>8, <2>1 DEF Flush
<1>9. CASE Put
  <2>1. CASE Enqueued("processor", <<Rec(hand[1])>>)
    <3>1. pc = "put" /\ hand # << >>
      BY <1>9 DEF Put, SizeInv, MeetingInv, Inv, Control, Busy
    <3>2. Rec(hand[1]) \in Kept2
      BY <3>1, HandNamed
    <3>3. <<Rec(hand[1])>> \in Seq(Kept2)
      BY <3>2
    <3> QED
      BY <1>2, <1>7, <2>1, <3>1, <3>3
  <2> QED
    BY <1>3, <1>9, <2>1 DEF Put
<1>10. CASE StopPut
  <2>1. CASE Enqueued("reader", held["reader"].recs)
    BY <1>2, <1>7, <1>10, <2>1 DEF StopPut
  <2> QED
    BY <1>3, <1>10, <2>1 DEF StopPut
<1>11. CASE Drained \/ Select \/ Check \/ Ensure \/ Attach \/ Persist
  BY <1>3, <1>11 DEF Drained, Select, Check, Ensure, Attach, Persist
<1>12. CASE StartReset \/ Starting \/ Resume \/ Reconnect \/ CloseSession \/ StopTake
  BY <1>3, <1>12 DEF StartReset, Starting, StartAdvance, StartEnsure, StartAttach, StartReceiver,
                     ResumeReceiver, Resume, Reconnect, CloseSession, StopTake
<1>13. ASSUME NEW c \in receivers, NEW final \in BOOLEAN, Arrive(c, final) PROVE Batches'
  BY <1>3, <1>13 DEF Arrive
<1> QED
  BY <1>5, <1>6, <1>8, <1>9, <1>10, <1>11, <1>12, <1>13 DEF Next, Processor, Reader

(* TypeOK of every state: the queue, the overflow and the records that wait  *)
(* stay within their sizes, and what is stored names a meeting.              *)
THEOREM WithinSizes == Spec => []TypeOK
<1>1. Init => SizeInv
  <2> SUFFICES ASSUME Init PROVE SizeInv
    OBVIOUS
  <2>1. MeetingInv
    BY InitMeeting
  <2>2. /\ gen = 0 /\ started = 0 /\ captured = 0 /\ receivers = {} /\ meeting = 0 /\ making = 0
        /\ wake = FALSE /\ reader = "idle" /\ pc = "top"
        /\ queue = << >> /\ overflow = << >> /\ work = << >> /\ hand = << >> /\ pending = << >>
        /\ held = [f \in Flushers |-> Nothing] /\ async = << >> /\ stored = << >>
        /\ batch = [w \in Inserters |-> << >>]
    BY DEF Init
  <2>3. /\ << >> \in Seq(Results) /\ << >> \in Seq(Kept2) /\ << >> \in Seq(Records)
        /\ << >> \in Seq(Seq(Records)) /\ Len(<< >>) = 0
    BY EmptyHas
  <2>4. Counters
    <3>1. /\ 0 \in 0..MaxGenerations /\ 0 \in 0..0 /\ 0 \in 0..Nameless
      BY Limits
    <3>2. wake \in BOOLEAN
      BY <2>2
    <3> QED
      BY <2>2, <3>1, <3>2 DEF Counters
  <2>5. Queues
    BY <2>2, <2>3, Limits DEF Queues
  <2>6. Waits
    BY <2>2, <2>3, Limits DEF Waits, Nothing
  <2>7. Batches
    BY <2>2, <2>3 DEF Batches
  <2> QED
    BY <2>1, <2>4, <2>5, <2>6, <2>7 DEF SizeInv
<1>2. SizeInv /\ [Next]_vars => SizeInv'
  <2> SUFFICES ASSUME SizeInv, [Next]_vars PROVE SizeInv'
    OBVIOUS
  <2>1. MeetingInv'
    BY MeetingStep DEF SizeInv
  <2>2. CASE Next
    BY <2>1, <2>2, CountersStep, QueuesStep, WaitsStep, BatchesStep DEF SizeInv
  <2>3. CASE UNCHANGED vars
    <3>1. Counters' /\ Queues'
      BY <2>3 DEF vars, SizeInv, Counters, Queues
    <3>2. Waits' /\ Batches'
      BY <2>3 DEF vars, SizeInv, Waits, Batches
    <3> QED
      BY <2>1, <3>1, <3>2 DEF SizeInv
  <2> QED
    BY <2>2, <2>3
<1>3. SizeInv => TypeOK
  <2> SUFFICES ASSUME SizeInv PROVE TypeOK
    OBVIOUS
  <2>1. /\ arrived \in 0..MaxResults /\ closed \in BOOLEAN /\ excused \in BOOLEAN /\ late \in BOOLEAN
        /\ pc \in {"top", "select", "check", "ensure", "attach", "persist", "flush", "put", "dead"}
    <3>1. Inv /\ late \in BOOLEAN
      BY Zenon DEF SizeInv, MeetingInv
    <3>2. Typed /\ Control
      BY <3>1 DEF Inv
    <3>3. arrived \in 0..MaxResults /\ closed \in BOOLEAN /\ excused \in BOOLEAN
      BY <3>2, Zenon DEF Typed
    <3>4. pc \in {"top", "select", "dead"} \cup Busy
      BY <3>2, Zenon DEF Control
    <3>5. pc \in {"top", "select", "check", "ensure", "attach", "persist", "flush", "put", "dead"}
      BY <3>4, SMT DEF Busy
    <3> QED
      BY <3>1, <3>3, <3>5, Zenon
  <2>2. Len(hand) <= 1
    <3>1. Inv
      BY Zenon DEF SizeInv, MeetingInv
    <3>2. Typed
      BY <3>1 DEF Inv
    <3>3. InHand
      BY <3>2, Zenon DEF Typed
    <3>4. CASE hand = << >>
      BY <3>4
    <3>5. ASSUME NEW r \in Rs, hand = <<r>> PROVE Len(hand) <= 1
      <4>1. Len(<<r>>) = 1
        OBVIOUS
      <4> QED
        BY <3>5, <4>1
    <3> QED
      BY <3>3, <3>4, <3>5, Zenon DEF InHand
  <2>3. {meeting, making} \subseteq 0..Nameless
    BY DEF SizeInv, Counters
  <2>4. /\ gen \in 0..MaxGenerations /\ receivers \subseteq [gen : 1..gen, of : 1..started]
        /\ started \in 0..gen /\ captured \in 0..gen /\ wake \in BOOLEAN
        /\ reader \in {"idle", "reset", "ensure", "attach", "run", "wake", "flush"}
    BY DEF SizeInv, Counters
  <2>5. /\ queue \in Seq(Results) /\ Len(queue) <= QueueSize
        /\ overflow \in Seq(Results) /\ Len(overflow) <= OverflowSize
        /\ work \in Seq(Results) /\ hand \in Seq(Results)
    BY DEF SizeInv, Queues
  <2>6. /\ pending \in Seq([id : Ids, of : 1..MaxGenerations]) /\ Len(pending) <= PendingSize
        /\ held \in [Flushers -> [recs : Seq([id : Ids, of : 1..MaxGenerations]),
                                  meeting : 0..Nameless]]
    BY DEF SizeInv, Waits, Kept2
  <2>7. /\ async \in Seq(Seq(Records))
        /\ batch \in [Inserters -> Seq(Records)] /\ stored \in Seq(Records)
    BY DEF SizeInv, Batches
  <2> QED
    BY <2>1, <2>2, <2>3, <2>4, <2>5, <2>6, <2>7, Zenon DEF TypeOK
<1> QED
  BY <1>1, <1>2, <1>3, PTL DEF Spec
=============================================================================
