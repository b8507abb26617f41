--------------------------- MODULE ProjectorProofs ---------------------------
(***************************************************************************)
(* That the table of PgLog keeps the promise of a DurableLog for any set   *)
(* of servers and records, however often connections are lost, servers are *)
(* killed and the write lock changes hands, and whatever the projector and *)
(* the tidying at a start do beside it; and that the projector's tables    *)
(* are what the records up to its place make, through the same.            *)
(***************************************************************************)
EXTENDS Projector, Induction

-----------------------------------------------------------------------------
(* What an INSERT ... ON CONFLICT DO NOTHING makes of the rows there are.  *)
RowStep == [p \in Seq(Record) \X Record |-> Inserted(p[1], p[2])]

(* Inserting a row adds it at the end if it is not there, and keeps the rest. *)
LEMMA InsertedRow ==
  ASSUME NEW rows \in Seq(Record), NEW r \in Record, IsInjective(rows)
  PROVE  /\ Inserted(rows, r) \in Seq(Record) /\ IsInjective(Inserted(rows, r))
         /\ Len(rows) <= Len(Inserted(rows, r))
         /\ \A i \in 1 .. Len(rows) : Inserted(rows, r)[i] = rows[i]
         /\ \E i \in 1 .. Len(Inserted(rows, r)) : Inserted(rows, r)[i] = r
<1>1. CASE r \in ToSet(rows)
  BY <1>1 DEF Inserted, ToSet
<1>2. CASE r \notin ToSet(rows)
  <2>1. PICK more : more = Append(rows, r)
    OBVIOUS
  <2>2. /\ more \in Seq(Record) /\ Len(more) = Len(rows) + 1 /\ Len(rows) \in Nat
        /\ \A i \in 1 .. Len(rows) : more[i] = rows[i]
        /\ more[Len(rows) + 1] = r
    BY <2>1
  <2>3. \A i \in 1 .. Len(rows) : rows[i] # r
    BY <1>2 DEF ToSet
  <2>4. \A i, j \in 1 .. Len(rows) : rows[i] = rows[j] => i = j
    BY DEF IsInjective
  <2>5. IsInjective(more)
    BY <2>2, <2>3, <2>4 DEF IsInjective
  <2>6. Inserted(rows, r) = more
    BY <1>2, <2>1 DEF Inserted
  <2>7. QED
    BY <2>2, <2>5, <2>6
<1>3. QED
  BY <1>1, <1>2

(* The insert takes the records of the batch one by one. *)
LEMMA InsertSteps ==
  ASSUME ever \in Seq(Record), NEW batch \in Seq(Record)
  PROVE  Insert(batch) = Folded(RowStep, ever, batch)
<1> DEFINE It(h) == h = [d \in SUBSET (DOMAIN batch) |->
                           IF d = {} THEN ever
                           ELSE Inserted(h[d \ {Max(d)}], batch[Max(d)])]
           it == CHOOSE h : h = [d \in SUBSET (DOMAIN batch) |->
                           IF d = {} THEN ever
                           ELSE Inserted(h[d \ {Max(d)}], batch[Max(d)])]
<1>1. RowStep \in [Seq(Record) \X Record -> Seq(Record)]
  <2>1. \A rows \in Seq(Record), r \in Record : Inserted(rows, r) \in Seq(Record)
    BY DEF Inserted
  <2>2. QED
    BY <2>1 DEF RowStep
<1>2. \A rows \in Seq(Record), r \in Record : RowStep[<<rows, r>>] = Inserted(rows, r)
  BY DEF RowStep
<1>3. PICK f : f \in [SUBSET (DOMAIN batch) -> Seq(Record)] /\ Steps(RowStep, ever, batch, f)
  BY <1>1, StepsExist
<1>4. Len(batch) \in Nat /\ DOMAIN batch = 1 .. Len(batch)
      /\ \A i \in 1 .. Len(batch) : batch[i] \in Record
  OBVIOUS
<1>5. It(f)
  <2>1. ASSUME NEW d \in SUBSET (DOMAIN batch), d # {}
        PROVE  RowStep[<<f[d \ {Max(d)}], batch[Max(d)]>>]
                  = Inserted(f[d \ {Max(d)}], batch[Max(d)])
    <3>1. Max(d) \in d
      <4>1. PICK m \in d : \A y \in d : m >= y
        BY <1>4, <2>1, Greatest
      <4>2. QED
        BY <4>1 DEF Max
    <3>2. batch[Max(d)] \in Record /\ f[d \ {Max(d)}] \in Seq(Record)
      BY <1>3, <1>4, <3>1
    <3>3. QED
      BY <1>2, <3>2
  <2>2. \A d \in SUBSET (DOMAIN batch) :
           (IF d = {} THEN ever ELSE RowStep[<<f[d \ {Max(d)}], batch[Max(d)]>>])
             = (IF d = {} THEN ever ELSE Inserted(f[d \ {Max(d)}], batch[Max(d)]))
    BY <2>1
  <2>3. QED
    BY <1>3, <2>2 DEF Steps
<1>6. It(it)
  BY <1>5
<1>7. Climbs(Seq(Record), RowStep, ever, batch, it)
  <2>1. it[{}] = ever
    BY <1>6
  <2>2. ASSUME NEW k \in 1 .. Len(batch), it[1 .. k - 1] \in Seq(Record)
        PROVE  it[1 .. k] = RowStep[<<it[1 .. k - 1], batch[k]>>]
    <3>1. k \in Nat \ {0} /\ k <= Len(batch) /\ batch[k] \in Record
      BY <1>4
    <3>2. /\ (1 .. k) \ {k} = 1 .. k - 1 /\ 1 .. k # {}
          /\ 1 .. k \in SUBSET (1 .. Len(batch)) /\ Max(1 .. k) = k
      BY <1>4, <3>1, UpTo
    <3>3. \A d \in SUBSET (1 .. Len(batch)) :
             d # {} => it[d] = Inserted(it[d \ {Max(d)}], batch[Max(d)])
      BY <1>4, <1>6
    <3>4. it[1 .. k] = Inserted(it[1 .. k - 1], batch[k])
      BY <3>2, <3>3
    <3>5. QED
      BY <1>2, <2>2, <3>1, <3>4
  <2> HIDE DEF it
  <2>3. QED
    BY <2>1, <2>2 DEF Climbs
<1>8. it[1 .. Len(batch)] = Folded(RowStep, ever, batch)
  <2>1. PICK h : h = it
    OBVIOUS
  <2> HIDE DEF it
  <2>2. Climbs(Seq(Record), RowStep, ever, batch, h)
    BY <1>7, <2>1
  <2>3. /\ h[1 .. Len(batch)] = Folded(RowStep, ever, batch)
        /\ Folded(RowStep, ever, batch) \in Seq(Record)
    BY <1>1, <2>2, FoldIs
  <2>4. QED
    BY <2>1, <2>3
<1>9. Insert(batch) = it[DOMAIN batch]
  BY DEF Insert, FoldLeft, MapThenFoldSet
<1>10. QED
  BY <1>4, <1>8, <1>9

(* After an insert the rows there were are still first, no record has two  *)
(* rows, and every record of the batch has one.                            *)
LEMMA InsertAdds ==
  ASSUME ever \in Seq(Record), IsInjective(ever), NEW batch \in Seq(Record)
  PROVE  /\ Insert(batch) \in Seq(Record) /\ IsInjective(Insert(batch))
         /\ Len(ever) <= Len(Insert(batch))
         /\ \A i \in 1 .. Len(ever) : Insert(batch)[i] = ever[i]
         /\ \A j \in 1 .. Len(batch) : \E i \in 1 .. Len(Insert(batch)) :
               Insert(batch)[i] = batch[j]
<1> DEFINE Good(b, t) == /\ t \in Seq(Record) /\ IsInjective(t)
                         /\ Len(ever) <= Len(t)
                         /\ \A i \in 1 .. Len(ever) : t[i] = ever[i]
                         /\ \A j \in 1 .. Len(b) : \E i \in 1 .. Len(t) : t[i] = b[j]
           S == {b \in Seq(Record) : Good(b, Folded(RowStep, ever, b))}
<1>1. RowStep \in [Seq(Record) \X Record -> Seq(Record)]
  <2>1. \A rows \in Seq(Record), r \in Record : Inserted(rows, r) \in Seq(Record)
    BY DEF Inserted
  <2>2. QED
    BY <2>1 DEF RowStep
<1>2. /\ Folded(RowStep, ever, <<>>) = ever
      /\ \A s \in Seq(Record) : Folded(RowStep, ever, s) \in Seq(Record)
      /\ \A s \in Seq(Record), x \in Record :
            Folded(RowStep, ever, Append(s, x)) = RowStep[<<Folded(RowStep, ever, s), x>>]
  <2>1. IsStep(RowStep, Seq(Record), Record)
    BY <1>1 DEF IsStep
  <2>2. Folded(RowStep, ever, <<>>) = ever
    BY FoldBase
  <2>3. /\ \A s \in Seq(Record) : Folded(RowStep, ever, s) \in Seq(Record)
        /\ \A s \in Seq(Record), x \in Record :
              Folded(RowStep, ever, Append(s, x)) = RowStep[<<Folded(RowStep, ever, s), x>>]
    <3>1. PICK T, e : T = Seq(Record) /\ e = ever
      OBVIOUS
    <3>2. IsStep(RowStep, T, Record) /\ e \in T
      BY <2>1, <3>1
    <3>3. /\ \A s \in Seq(Record) : Folded(RowStep, e, s) \in T
          /\ \A s \in Seq(Record), x \in Record :
                Folded(RowStep, e, Append(s, x)) = RowStep[<<Folded(RowStep, e, s), x>>]
      BY <3>2, FoldSteps
    <3>4. QED
      BY <3>1, <3>3
  <2>4. QED
    BY <2>2, <2>3
<1>3. <<>> \in S
  BY <1>2
<1>4. ASSUME NEW b \in Seq(Record), NEW r \in Record, b \in S PROVE Append(b, r) \in S
  <2>1. PICK t : t = Folded(RowStep, ever, b)
    OBVIOUS
  <2>2. Good(b, t) /\ t \in Seq(Record)
    BY <1>4, <2>1
  <2>3. PICK u : u = Inserted(t, r)
    OBVIOUS
  <2>4. Folded(RowStep, ever, Append(b, r)) = u
    BY <1>2, <2>1, <2>2, <2>3 DEF RowStep
  <2>5. /\ u \in Seq(Record) /\ IsInjective(u) /\ Len(t) <= Len(u)
        /\ \A i \in 1 .. Len(t) : u[i] = t[i]
        /\ \E i \in 1 .. Len(u) : u[i] = r
    BY <2>2, <2>3, InsertedRow
  <2>6. Len(t) \in Nat /\ Len(u) \in Nat /\ Len(ever) \in Nat /\ Len(b) \in Nat
    BY <2>2, <2>5
  <2>7. Len(ever) <= Len(u) /\ \A i \in 1 .. Len(ever) : u[i] = ever[i]
    BY <2>2, <2>5, <2>6
  <2>8. PICK c : c = Append(b, r)
    OBVIOUS
  <2>9. /\ c \in Seq(Record) /\ Len(c) = Len(b) + 1 /\ c[Len(b) + 1] = r
        /\ \A j \in 1 .. Len(b) : c[j] = b[j]
    BY <2>6, <2>8
  <2>10. ASSUME NEW j \in 1 .. Len(c) PROVE \E i \in 1 .. Len(u) : u[i] = c[j]
    <3>1. CASE j = Len(b) + 1
      BY <2>5, <2>9, <3>1
    <3>2. CASE j # Len(b) + 1
      <4>1. j \in 1 .. Len(b)
        BY <2>6, <2>9, <3>2
      <4>2. PICK i \in 1 .. Len(t) : t[i] = b[j]
        BY <2>2, <4>1
      <4>3. i \in 1 .. Len(u) /\ u[i] = c[j]
        BY <2>5, <2>6, <2>9, <4>1, <4>2
      <4>4. QED
        BY <4>3
    <3>3. QED
      BY <3>1, <3>2
  <2>11. Good(c, u)
    BY <2>5, <2>7, <2>10
  <2> HIDE DEF Good
  <2>12. QED
    BY <2>4, <2>8, <2>9, <2>11
<1> HIDE DEF S, Good
<1>5. batch \in S
  BY <1>3, <1>4, Elements
<1>6. Good(batch, Folded(RowStep, ever, batch))
  BY <1>5 DEF S
<1>7. Folded(RowStep, ever, batch) = Insert(batch)
  BY InsertSteps
<1>8. QED
  BY <1>6, <1>7 DEF Good

-----------------------------------------------------------------------------
(* The inductive invariant.                                                *)
Ats    == {"idle", "sent", "single", "cut", "done", "dead"}
Places == {"new", "enters", "waits", "acked", "failed", "lost"}

Sessions == [by : Server \cup {Nobody}, attached : BOOLEAN,
             stmt : Seq(Record), answer : {"none", "ok", "data"}]
Writers  == [up : BOOLEAN, broken : BOOLEAN, closed : BOOLEAN,
             at : Ats, batch : Seq(Record)]

Shape ==
    /\ ever \in Seq(Record) /\ IsInjective(ever)
    /\ session \in Sessions
    /\ writer \in [Server -> Writers]
    /\ queue \in [Server -> Seq(Record)]
    /\ pc \in [Record -> Places]

(* The records a server still has to answer for. *)
Has(s) == ToSet(writer[s].batch) \cup ToSet(queue[s])

(* Who waits is at one server, once: in its queue or in its batch. *)
OnePlace ==
    /\ \A s \in Server : /\ \A r \in Has(s) : pc[r] = "waits"
                         /\ IsInjective(writer[s].batch) /\ IsInjective(queue[s])
                         /\ ToSet(writer[s].batch) \cap ToSet(queue[s]) = {}
    /\ \A s, t \in Server : s # t => Has(s) \cap Has(t) = {}

(* A server that is down has nothing; a writer that is idle, or has left,  *)
(* has no batch.                                                           *)
Settled ==
    \A s \in Server :
        /\ ~writer[s].up => writer[s].at = "idle" /\ queue[s] = <<>>
        /\ writer[s].at \in {"idle", "done", "dead"} => writer[s].batch = <<>>
        /\ writer[s].at \in {"sent", "single"} => writer[s].batch # <<>>

(* What the connection of a server does and answers is about the batch the *)
(* writer has.                                                             *)
Answers ==
    /\ session.answer # "none" => session.stmt = <<>>
    /\ \A s \in Server : Connected(s) =>
         /\ writer[s].at = "sent" =>
              /\ session.answer = "none" => session.stmt = writer[s].batch
              /\ session.answer = "ok" => ToSet(writer[s].batch) \subseteq ToSet(ever)
         /\ writer[s].at = "single" =>
              /\ session.answer = "none" => session.stmt = <<Head(writer[s].batch)>>
              /\ session.answer = "ok" => Head(writer[s].batch) \in ToSet(ever)

IInv == Shape /\ OnePlace /\ Settled /\ Answers

(* Every server's batch and queue are sequences of records. *)
LEMMA Typed ==
  ASSUME Shape, NEW s \in Server
  PROVE  /\ writer[s] \in Writers /\ writer[s].batch \in Seq(Record)
         /\ queue[s] \in Seq(Record) /\ Has(s) \subseteq Record
<1>1. /\ writer[s] \in Writers /\ writer[s].batch \in Seq(Record)
      /\ queue[s] \in Seq(Record)
  BY DEF Shape, Writers
<1>2. \A q \in Seq(Record) : ToSet(q) \subseteq Record
  BY DEF ToSet
<1>3. QED
  BY <1>1, <1>2 DEF Has

(* Nothing has happened yet. *)
LEMMA InitIInv == Init => IInv
<1> SUFFICES ASSUME Init PROVE IInv
  OBVIOUS
<1>1. /\ ever = <<>> /\ session = Free /\ pc = [r \in Record |-> "new"]
      /\ writer = [s \in Server |-> Down] /\ queue = [s \in Server |-> <<>>]
  BY DEF Init, LogInit
<1>2. <<>> \in Seq(Record) /\ IsInjective(<<>>) /\ ToSet(<<>>) = {}
  BY DEF IsInjective, ToSet
<1>3. Down \in Writers
  BY <1>2 DEF Down, Ats, Writers
<1>4. Shape
  BY <1>1, <1>2, <1>3 DEF Shape, Free, Places, Sessions
<1>5. \A s \in Server : Has(s) = {} /\ writer[s].batch = <<>> /\ queue[s] = <<>>
  BY <1>1, <1>2 DEF Has, Down
<1>6. OnePlace
  BY <1>2, <1>5 DEF OnePlace
<1>7. Settled
  BY <1>1, <1>5 DEF Settled, Down
<1>8. Answers
  BY <1>1 DEF Answers, Connected, Free
<1>9. QED
  BY <1>4, <1>6, <1>7, <1>8 DEF IInv

-----------------------------------------------------------------------------
(* A queue is cut in two: nothing is lost, and nothing is in both parts.   *)
LEMMA CutInTwo ==
  ASSUME NEW R, NEW q \in Seq(R), NEW n \in 1 .. Len(q), IsInjective(q)
  PROVE  /\ SubSeq(q, 1, n) \in Seq(R) /\ SubSeq(q, n + 1, Len(q)) \in Seq(R)
         /\ SubSeq(q, 1, n) # <<>>
         /\ IsInjective(SubSeq(q, 1, n)) /\ IsInjective(SubSeq(q, n + 1, Len(q)))
         /\ ToSet(SubSeq(q, 1, n)) \cap ToSet(SubSeq(q, n + 1, Len(q))) = {}
         /\ ToSet(SubSeq(q, 1, n)) \subseteq ToSet(q)
         /\ ToSet(SubSeq(q, n + 1, Len(q))) \subseteq ToSet(q)
<1>1. Len(q) \in Nat /\ \A i \in 1 .. Len(q) : q[i] \in R
  OBVIOUS
<1>2. PICK f, g : f = SubSeq(q, 1, n) /\ g = SubSeq(q, n + 1, Len(q))
  OBVIOUS
<1>3. /\ f \in Seq(R) /\ Len(f) = n /\ \A i \in 1 .. n : f[i] = q[i]
  BY <1>1, <1>2
<1>4. /\ g \in Seq(R) /\ Len(g) = Len(q) - n
      /\ \A i \in 1 .. Len(q) - n : g[i] = q[n + i]
  BY <1>1, <1>2
<1>5. \A i, j \in 1 .. Len(q) : q[i] = q[j] => i = j
  BY DEF IsInjective
<1>6. IsInjective(f) /\ IsInjective(g)
  <2>1. \A i, j \in 1 .. n : f[i] = f[j] => i = j
    BY <1>1, <1>3, <1>5
  <2>2. \A i, j \in 1 .. Len(q) - n : g[i] = g[j] => i = j
    <3> SUFFICES ASSUME NEW i \in 1 .. Len(q) - n, NEW j \in 1 .. Len(q) - n, g[i] = g[j]
                 PROVE  i = j
      OBVIOUS
    <3>1. n + i \in 1 .. Len(q) /\ n + j \in 1 .. Len(q) /\ q[n + i] = q[n + j]
      BY <1>1, <1>4
    <3>2. n + i = n + j
      BY <1>5, <3>1
    <3>3. QED
      BY <3>2
  <2>3. DOMAIN f = 1 .. n /\ DOMAIN g = 1 .. Len(q) - n
    BY <1>3, <1>4
  <2>4. QED
    BY <2>1, <2>2, <2>3 DEF IsInjective
<1>7. \A i \in 1 .. n, j \in 1 .. Len(q) - n : f[i] # g[j]
  <2> SUFFICES ASSUME NEW i \in 1 .. n, NEW j \in 1 .. Len(q) - n PROVE f[i] # g[j]
    OBVIOUS
  <2>1. i \in 1 .. Len(q) /\ n + j \in 1 .. Len(q) /\ i # n + j
    BY <1>1
  <2>2. f[i] = q[i] /\ g[j] = q[n + j]
    BY <1>3, <1>4
  <2>3. QED
    BY <1>5, <2>1, <2>2
<1>8. ToSet(f) \cap ToSet(g) = {}
  BY <1>3, <1>4, <1>7 DEF ToSet
<1>9. ToSet(f) \subseteq ToSet(q) /\ ToSet(g) \subseteq ToSet(q)
  <2>1. \A i \in 1 .. n : i \in 1 .. Len(q)
    BY <1>1
  <2>2. \A i \in 1 .. Len(q) - n : n + i \in 1 .. Len(q)
    BY <1>1
  <2>3. DOMAIN f = 1 .. n /\ DOMAIN g = 1 .. Len(q) - n /\ DOMAIN q = 1 .. Len(q)
    BY <1>3, <1>4
  <2>4. ToSet(f) \subseteq ToSet(q)
    BY <1>3, <2>1, <2>3 DEF ToSet
  <2>5. ToSet(g) \subseteq ToSet(q)
    BY <1>4, <2>2, <2>3 DEF ToSet
  <2>6. QED
    BY <2>4, <2>5
<1>10. f # <<>>
  BY <1>3
<1>11. QED
  BY <1>2, <1>3, <1>4, <1>6, <1>8, <1>9, <1>10

(* The first of a batch is taken from it. *)
LEMMA FirstAndRest ==
  ASSUME NEW R, NEW q \in Seq(R), q # <<>>, IsInjective(q)
  PROVE  /\ Head(q) \in R /\ Tail(q) \in Seq(R) /\ IsInjective(Tail(q))
         /\ Head(q) \in ToSet(q) /\ Head(q) \notin ToSet(Tail(q))
         /\ ToSet(Tail(q)) \subseteq ToSet(q)
<1>1. PICK t : t = Tail(q)
  OBVIOUS
<1>2. /\ Head(q) \in R /\ Head(q) = q[1] /\ t \in Seq(R) /\ Len(t) = Len(q) - 1
      /\ Len(q) \in Nat \ {0} /\ \A i \in 1 .. Len(t) : t[i] = q[i + 1]
  BY <1>1
<1>3. \A i, j \in 1 .. Len(q) : q[i] = q[j] => i = j
  BY DEF IsInjective
<1>4. IsInjective(t)
  BY <1>2, <1>3 DEF IsInjective
<1>5. \A i \in 1 .. Len(t) : t[i] # q[1] /\ i + 1 \in 1 .. Len(q)
  BY <1>2, <1>3
<1>6. q[1] \in ToSet(q) /\ q[1] \notin ToSet(t) /\ ToSet(t) \subseteq ToSet(q)
  <2>1. DOMAIN t = 1 .. Len(t) /\ DOMAIN q = 1 .. Len(q) /\ 1 \in 1 .. Len(q)
    BY <1>2
  <2>2. q[1] \in ToSet(q) /\ q[1] \notin ToSet(t)
    BY <1>5, <2>1 DEF ToSet
  <2>3. ToSet(t) \subseteq ToSet(q)
    BY <1>2, <1>5, <2>1 DEF ToSet
  <2>4. QED
    BY <2>2, <2>3
<1>7. QED
  BY <1>1, <1>2, <1>4, <1>6

(* The records of a sequence: records all of them, and some unless it is empty. *)
LEMMA SetOf ==
  ASSUME NEW R, NEW q \in Seq(R)
  PROVE  /\ ToSet(q) \subseteq R /\ ToSet(<<>>) = {}
         /\ q # <<>> => ToSet(q) # {}
<1>1. \A i \in DOMAIN q : q[i] \in R
  OBVIOUS
<1>2. ToSet(q) \subseteq R /\ ToSet(<<>>) = {}
  BY <1>1 DEF ToSet
<1>3. ASSUME q # <<>> PROVE ToSet(q) # {}
  <2>1. 1 \in DOMAIN q
    BY <1>3
  <2>2. q[1] \in ToSet(q)
    BY <2>1 DEF ToSet
  <2>3. QED
    BY <2>2
<1>4. QED
  BY <1>2, <1>3

(* A new record is the last of the queue. *)
LEMMA OneMore ==
  ASSUME NEW R, NEW q \in Seq(R), NEW r \in R
  PROVE  /\ Append(q, r) \in Seq(R) /\ ToSet(Append(q, r)) = ToSet(q) \cup {r}
         /\ IsInjective(q) /\ r \notin ToSet(q) => IsInjective(Append(q, r))
<1>1. PICK c : c = Append(q, r)
  OBVIOUS
<1>2. /\ c \in Seq(R) /\ Len(q) \in Nat /\ Len(c) = Len(q) + 1 /\ c[Len(q) + 1] = r
      /\ \A i \in 1 .. Len(q) : c[i] = q[i]
  BY <1>1
<1>3. ToSet(c) = ToSet(q) \cup {r}
  <2>1. \A x \in ToSet(c) : x \in ToSet(q) \/ x = r
    <3> SUFFICES ASSUME NEW i \in 1 .. Len(q) + 1 PROVE c[i] \in ToSet(q) \/ c[i] = r
      BY <1>2 DEF ToSet
    <3>1. i = Len(q) + 1 \/ i \in 1 .. Len(q)
      BY <1>2
    <3>2. QED
      BY <1>2, <3>1 DEF ToSet
  <2>2. \A x \in ToSet(q) : x \in ToSet(c)
    BY <1>2 DEF ToSet
  <2>3. r \in ToSet(c)
    BY <1>2 DEF ToSet
  <2>4. QED
    BY <2>1, <2>2, <2>3
<1>4. ASSUME IsInjective(q), r \notin ToSet(q) PROVE IsInjective(c)
  <2>1. \A i \in 1 .. Len(q) : q[i] # r
    BY <1>4 DEF ToSet
  <2>2. \A i, j \in 1 .. Len(q) : q[i] = q[j] => i = j
    BY <1>4 DEF IsInjective
  <2>3. QED
    BY <1>2, <2>1, <2>2 DEF IsInjective
<1>5. QED
  BY <1>1, <1>2, <1>3, <1>4

-----------------------------------------------------------------------------
(* What a writer goes on with. *)
LEMMA GoesOn ==
  ASSUME IInv, NEW s \in Server, NEW at \in Ats, NEW b \in Seq(Record), Goes(s, at, b)
  PROVE  /\ writer' \in [Server -> Writers]
         /\ writer'[s].at = at /\ writer'[s].batch = b /\ writer'[s].up = writer[s].up
         /\ \A t \in Server : t # s => writer'[t] = writer[t]
<1>1. writer \in [Server -> Writers]
  BY DEF IInv, Shape
<1>2. writer' = [writer EXCEPT ![s].at = at, ![s].batch = b]
  BY DEF Goes
<1>3. PICK w : w = [writer[s] EXCEPT !.at = at, !.batch = b]
  OBVIOUS
<1>4. /\ w \in Writers
      /\ w.at = at /\ w.batch = b /\ w.up = writer[s].up
  BY <1>1, <1>3 DEF Writers
<1>5. writer' = [writer EXCEPT ![s] = w]
  BY <1>1, <1>2, <1>3 DEF Writers
<1>6. QED
  BY <1>1, <1>4, <1>5

(* Some of those who waited at a server no longer do. *)
LEMMA PlacesKept ==
  ASSUME IInv, NEW s \in Server,
         \A t \in Server : t # s => writer'[t].batch = writer[t].batch /\ queue'[t] = queue[t],
         Has(s)' \subseteq Has(s),
         IsInjective(writer'[s].batch), IsInjective(queue'[s]),
         ToSet(writer'[s].batch) \cap ToSet(queue'[s]) = {},
         \A r \in Record : pc'[r] = pc[r] \/ (r \notin Has(s)' /\ (r \in Has(s) \/ pc[r] # "waits"))
  PROVE  OnePlace'
<1>1. \A t \in Server : Has(t) \subseteq Record
  BY Typed DEF IInv
<1>2. \A t \in Server : t # s => Has(t)' = Has(t)
  BY DEF Has
<1>3. \A t \in Server : \A r \in Has(t)' : pc'[r] = "waits"
  <2> SUFFICES ASSUME NEW t \in Server, NEW r \in Has(t)' PROVE pc'[r] = "waits"
    OBVIOUS
  <2>1. r \in Has(t) /\ pc[r] = "waits" /\ r \in Record
    BY <1>1, <1>2 DEF IInv, OnePlace
  <2>2. CASE t = s
    BY <2>1, <2>2
  <2>3. CASE t # s
    <3>1. r \notin Has(s)
      BY <2>1, <2>3 DEF IInv, OnePlace
    <3>2. QED
      BY <2>1, <3>1
  <2>4. QED
    BY <2>2, <2>3
<1>4. \A t, u \in Server : t # u => Has(t)' \cap Has(u)' = {}
  BY <1>2 DEF IInv, OnePlace
<1>5. \A t \in Server : /\ IsInjective(writer'[t].batch) /\ IsInjective(queue'[t])
                        /\ ToSet(writer'[t].batch) \cap ToSet(queue'[t]) = {}
  BY DEF IInv, OnePlace
<1>6. QED
  BY <1>3, <1>4, <1>5 DEF OnePlace, Has, ToSet, IsInjective

-----------------------------------------------------------------------------
(* Nothing is inserted and nobody is told that a record is stored.         *)
Quiet == /\ ever' = ever
         /\ \A r \in Record : pc'[r] = "acked" <=> pc[r] = "acked"

(* Who is told that a record is not stored was waiting, or is new. *)
LEMMA ToldQuiet ==
  ASSUME IInv, NEW rs, NEW what \in Places \ {"acked"}, Told(rs, what), ever' = ever,
         \A r \in rs : r \in Record => pc[r] # "acked"
  PROVE  Quiet /\ pc' \in [Record -> Places]
         /\ \A r \in Record : pc'[r] = IF r \in rs THEN what ELSE pc[r]
<1>1. pc \in [Record -> Places]
  BY DEF IInv, Shape
<1>2. pc' = [r \in Record |-> IF r \in rs THEN what ELSE pc[r]]
  BY DEF Told
<1>3. QED
  BY <1>1, <1>2 DEF Quiet

(* Somebody is told, and nothing else changes. *)
LEMMA ToldIInv ==
  ASSUME IInv, NEW s \in Server, NEW r \in Record, NEW what \in Places \ {"acked", "waits"},
         pc[r] \notin {"waits", "acked"}, Told({r}, what),
         UNCHANGED <<ever, session, writer, queue>>
  PROVE  IInv' /\ Quiet
<1>1. Quiet /\ pc' \in [Record -> Places]
      /\ \A x \in Record : pc'[x] = IF x \in {r} THEN what ELSE pc[x]
  BY ToldQuiet
<1>2. Has(s)' = Has(s) /\ r \notin Has(s)
  BY DEF Has, IInv, OnePlace
<1>3. OnePlace'
  BY <1>1, <1>2, PlacesKept DEF IInv, OnePlace
<1>4. Shape'
  BY <1>1 DEF IInv, Shape
<1>5. Settled' /\ Answers'
  BY DEF IInv, Settled, Answers, Connected
<1>6. QED
  BY <1>1, <1>3, <1>4, <1>5 DEF IInv

(* A record is asked for: it passes the check, or is refused. *)
LEMMA AppendIInv ==
  ASSUME IInv, NEW s \in Server, NEW r \in Record, AppendRecord(s, r)
  PROVE  IInv' /\ Quiet
<1>1. /\ UNCHANGED <<ever, session, writer, queue>> /\ pc[r] = "new"
      /\ Told({r}, "failed") \/ Told({r}, "enters")
  BY DEF AppendRecord
<1>2. QED
  BY <1>1, ToldIInv DEF Places

(* It is queued, or the log is closed. *)
LEMMA EnqueueIInv ==
  ASSUME IInv, NEW s \in Server, NEW r \in Record, Enqueue(s, r)
  PROVE  IInv' /\ Quiet
<1>1. /\ UNCHANGED <<ever, session, writer>> /\ pc[r] = "enters" /\ writer[s].up
  BY DEF Enqueue, Entering
<1>2. queue \in [Server -> Seq(Record)] /\ pc \in [Record -> Places]
  BY DEF IInv, Shape
<1>3. CASE Told({r}, "failed") /\ UNCHANGED queue
  BY <1>1, <1>3, ToldIInv DEF Places
<1>4. CASE Told({r}, "waits") /\ queue' = [queue EXCEPT ![s] = Append(@, r)]
  <2>1. Quiet /\ pc' \in [Record -> Places]
        /\ \A x \in Record : pc'[x] = IF x \in {r} THEN "waits" ELSE pc[x]
    BY <1>1, <1>4, ToldQuiet DEF Places
  <2>2. \A t \in Server : r \notin Has(t)
    BY <1>1 DEF IInv, OnePlace
  <2>3. /\ queue'[s] \in Seq(Record) /\ ToSet(queue'[s]) = ToSet(queue[s]) \cup {r}
        /\ IsInjective(queue'[s])
    <3>1. queue'[s] = Append(queue[s], r) /\ queue[s] \in Seq(Record)
      BY <1>2, <1>4
    <3>2. IsInjective(queue[s]) /\ r \notin ToSet(queue[s])
      BY <2>2 DEF IInv, OnePlace, Has
    <3>3. QED
      BY <3>1, <3>2, OneMore
  <2>4. \A t \in Server : t # s => queue'[t] = queue[t]
    BY <1>2, <1>4
  <2>5. queue' \in [Server -> Seq(Record)]
    BY <1>2, <1>4, <2>3
  <2>6. /\ Has(s)' = Has(s) \cup {r}
        /\ \A t \in Server : t # s => Has(t)' = Has(t)
    BY <1>1, <2>3, <2>4 DEF Has
  <2>7. OnePlace'
    <3>1. \A t \in Server : \A x \in Has(t)' : pc'[x] = "waits"
      <4> SUFFICES ASSUME NEW t \in Server, NEW x \in Has(t)' PROVE pc'[x] = "waits"
        OBVIOUS
      <4>1. x \in Has(t) \/ x = r
        BY <2>6
      <4>2. Has(t) \subseteq Record
        BY Typed DEF IInv
      <4>3. x \in Record /\ (x # r => pc[x] = "waits")
        BY <4>1, <4>2 DEF IInv, OnePlace
      <4>4. QED
        BY <2>1, <4>3
    <3>2. \A t, u \in Server : t # u => Has(t)' \cap Has(u)' = {}
      BY <2>2, <2>6 DEF IInv, OnePlace
    <3>3. r \notin ToSet(writer[s].batch)
      BY <2>2 DEF Has
    <3>4. \A t \in Server : /\ IsInjective(writer[t].batch) /\ IsInjective(queue'[t])
                            /\ ToSet(writer[t].batch) \cap ToSet(queue'[t]) = {}
      <4> SUFFICES ASSUME NEW t \in Server
                   PROVE  /\ IsInjective(writer[t].batch) /\ IsInjective(queue'[t])
                          /\ ToSet(writer[t].batch) \cap ToSet(queue'[t]) = {}
        OBVIOUS
      <4>1. /\ IsInjective(writer[t].batch) /\ IsInjective(queue[t])
            /\ ToSet(writer[t].batch) \cap ToSet(queue[t]) = {}
        BY DEF IInv, OnePlace
      <4>2. CASE t = s
        BY <2>3, <3>3, <4>1, <4>2
      <4>3. CASE t # s
        BY <2>4, <4>1, <4>3
      <4>4. QED
        BY <4>2, <4>3
    <3>5. QED
      BY <1>1, <3>1, <3>2, <3>4 DEF OnePlace, ToSet, IsInjective
  <2>8. Shape'
    BY <1>1, <2>1, <2>5 DEF IInv, Shape
  <2>9. Settled' /\ Answers'
    BY <1>1, <2>4 DEF IInv, Settled, Answers, Connected
  <2>10. QED
    BY <2>1, <2>7, <2>8, <2>9 DEF IInv
<1>5. QED
  BY <1>3, <1>4 DEF Enqueue

(* The writer has left: those it never took are told. *)
LEMMA AbandonedIInv ==
  ASSUME IInv, NEW s \in Server, Abandoned(s)
  PROVE  IInv' /\ Quiet
<1>1. /\ UNCHANGED <<ever, session, writer>>
      /\ Told(ToSet(queue[s]), "failed") /\ queue' = [queue EXCEPT ![s] = <<>>]
  BY DEF Abandoned
<1>2. <<>> \in Seq(Record) /\ ToSet(<<>>) = {} /\ IsInjective(<<>>)
  BY DEF ToSet, IsInjective
<1>3. /\ queue' \in [Server -> Seq(Record)] /\ queue'[s] = <<>>
      /\ \A t \in Server : t # s => queue'[t] = queue[t]
  BY <1>1, <1>2 DEF IInv, Shape
<1>4. \A r \in ToSet(queue[s]) : pc[r] = "waits" /\ r \in Has(s)
                                 /\ r \notin ToSet(writer[s].batch)
  BY DEF IInv, OnePlace, Has
<1>5. Quiet /\ pc' \in [Record -> Places]
      /\ \A r \in Record : pc'[r] = IF r \in ToSet(queue[s]) THEN "failed" ELSE pc[r]
  BY <1>1, <1>4, ToldQuiet DEF Places
<1>6. OnePlace'
  <2>1. Has(s)' = ToSet(writer[s].batch) /\ Has(s)' \subseteq Has(s)
    BY <1>1, <1>2, <1>3 DEF Has
  <2>2. \A r \in Record : pc'[r] = pc[r]
                          \/ (r \notin Has(s)' /\ (r \in Has(s) \/ pc[r] # "waits"))
    BY <1>4, <1>5, <2>1
  <2>3. /\ IsInjective(writer'[s].batch) /\ IsInjective(queue'[s])
        /\ ToSet(writer'[s].batch) \cap ToSet(queue'[s]) = {}
    BY <1>1, <1>2, <1>3 DEF IInv, OnePlace
  <2>4. QED
    BY <1>1, <1>3, <2>1, <2>2, <2>3, PlacesKept
<1>7. Shape'
  BY <1>1, <1>3, <1>5 DEF IInv, Shape
<1>8. Settled' /\ Answers'
  BY <1>1, <1>3 DEF IInv, Settled, Answers, Connected
<1>9. QED
  BY <1>5, <1>6, <1>7, <1>8 DEF IInv

(* What is sent for a server is on its connection. *)
LEMMA SendsIt ==
  ASSUME NEW s \in Server, NEW b \in Seq(Record), Sends(s, b)
  PROVE  /\ session'.by = s /\ session'.attached = TRUE
         /\ session'.stmt = b /\ session'.answer = "none"
         /\ \A t \in Server : Connected(t)' <=> t = s
         /\ session' \in Sessions
BY DEF Sends, Held, Connected, Sessions

(* The queue, or its first, becomes the batch. *)
LEMMA BeginIInv ==
  ASSUME IInv, NEW s \in Server, Begin(s)
  PROVE  IInv' /\ Quiet
<1>1. PICK n \in {Len(queue[s])} \cup (IF writer[s].closed THEN {1} ELSE {}) :
         /\ queue' = [queue EXCEPT ![s] = SubSeq(queue[s], n + 1, Len(queue[s]))]
         /\ \/ Told(ToSet(SubSeq(queue[s], 1, n)), "failed") /\ UNCHANGED <<writer, session>>
            \/ /\ pc' = pc
               /\ \/ /\ Connected(s) /\ Sends(s, SubSeq(queue[s], 1, n))
                     /\ Goes(s, "sent", SubSeq(queue[s], 1, n))
                  \/ /\ ~Connected(s) /\ Goes(s, "cut", SubSeq(queue[s], 1, n))
                     /\ UNCHANGED session
  BY Zenon DEF Begin
<1>2. PICK batch, rest : batch = SubSeq(queue[s], 1, n)
                         /\ rest = SubSeq(queue[s], n + 1, Len(queue[s]))
  OBVIOUS
<1>3. /\ writer[s].up /\ writer[s].at = "idle" /\ queue[s] # <<>>
      /\ queue' = [queue EXCEPT ![s] = rest]
      /\ ever' = ever
      /\ \/ Told(ToSet(batch), "failed") /\ UNCHANGED <<writer, session>>
         \/ /\ pc' = pc
            /\ \/ Connected(s) /\ Sends(s, batch) /\ Goes(s, "sent", batch)
               \/ ~Connected(s) /\ Goes(s, "cut", batch) /\ UNCHANGED session
  <2>1. writer[s].up /\ writer[s].at = "idle" /\ queue[s] # <<>> /\ ever' = ever
    BY DEF Begin
  <2>2. QED
    BY <1>1, <1>2, <2>1, Zenon
<1>4. queue \in [Server -> Seq(Record)] /\ pc \in [Record -> Places]
      /\ queue[s] \in Seq(Record) /\ n \in 1 .. Len(queue[s])
  BY <1>1, <1>3 DEF IInv, Shape
<1>5. /\ batch \in Seq(Record) /\ rest \in Seq(Record) /\ batch # <<>>
      /\ IsInjective(batch) /\ IsInjective(rest) /\ ToSet(batch) \cap ToSet(rest) = {}
      /\ ToSet(batch) \subseteq ToSet(queue[s]) /\ ToSet(rest) \subseteq ToSet(queue[s])
  <2>1. IsInjective(queue[s])
    BY DEF IInv, OnePlace
  <2>2. QED
    BY <1>2, <1>4, <2>1, CutInTwo
<1>6. /\ queue' \in [Server -> Seq(Record)] /\ queue'[s] = rest
      /\ \A t \in Server : t # s => queue'[t] = queue[t]
  BY <1>3, <1>4, <1>5
<1>7. writer[s].batch = <<>>
  BY <1>3 DEF IInv, Settled
<1>8. \A r \in ToSet(batch) : pc[r] = "waits" /\ r \in Has(s)
  BY <1>5 DEF IInv, OnePlace, Has
<1>9. CASE Told(ToSet(batch), "failed") /\ UNCHANGED <<writer, session>>
  <2>1. Quiet /\ pc' \in [Record -> Places]
        /\ \A x \in Record : pc'[x] = IF x \in ToSet(batch) THEN "failed" ELSE pc[x]
    BY <1>3, <1>8, <1>9, ToldQuiet DEF Places
  <2>2. Has(s)' = ToSet(rest) /\ ToSet(rest) \subseteq Has(s)
    BY <1>5, <1>6, <1>7, <1>9, SetOf DEF Has
  <2>3. OnePlace'
    <3>1. \A r \in Record : pc'[r] = pc[r]
                            \/ (r \notin Has(s)' /\ (r \in Has(s) \/ pc[r] # "waits"))
      BY <1>5, <1>8, <2>1, <2>2
    <3>2. ToSet(writer'[s].batch) \cap ToSet(queue'[s]) = {}
      <4>1. writer'[s].batch = <<>> /\ ToSet(<<>>) = {}
        BY <1>7, <1>9 DEF ToSet
      <4>2. QED
        BY <4>1
    <3>3. IsInjective(writer'[s].batch) /\ IsInjective(queue'[s])
      BY <1>5, <1>6, <1>9 DEF IInv, OnePlace
    <3>4. QED
      BY <1>6, <1>9, <2>2, <3>1, <3>2, <3>3, PlacesKept
  <2>4. Shape'
    BY <1>3, <1>6, <1>9, <2>1 DEF IInv, Shape
  <2>5. Settled' /\ Answers'
    BY <1>3, <1>6, <1>9 DEF IInv, Settled, Answers, Connected
  <2>6. QED
    BY <2>1, <2>3, <2>4, <2>5 DEF IInv
<1>10. CASE /\ pc' = pc
            /\ \/ Connected(s) /\ Sends(s, batch) /\ Goes(s, "sent", batch)
               \/ ~Connected(s) /\ Goes(s, "cut", batch) /\ UNCHANGED session
  <2>1. PICK at \in {"sent", "cut"} :
           /\ Goes(s, at, batch)
           /\ at = "sent" => Sends(s, batch)
           /\ at = "cut" => ~Connected(s) /\ session' = session
    BY <1>10
  <2>2. /\ writer' \in [Server -> Writers]
        /\ writer'[s].at = at /\ writer'[s].batch = batch
        /\ writer'[s].up = writer[s].up
        /\ \A t \in Server : t # s => writer'[t] = writer[t]
    BY <1>5, <2>1, GoesOn DEF Ats
  <2>3. Has(s)' \subseteq Has(s)
    BY <1>5, <1>6, <2>2 DEF Has
  <2>4. OnePlace'
    BY <1>5, <1>6, <1>10, <2>2, <2>3, PlacesKept
  <2>5. Shape'
    <3>1. session' \in Sessions
      BY <1>5, <2>1, SendsIt DEF IInv, Shape
    <3>2. QED
      BY <1>3, <1>6, <1>10, <2>2, <3>1 DEF IInv, Shape
  <2>6. Settled'
    <3> SUFFICES ASSUME NEW t \in Server
                 PROVE  /\ ~writer'[t].up => writer'[t].at = "idle" /\ queue'[t] = <<>>
                        /\ writer'[t].at \in {"idle", "done", "dead"} => writer'[t].batch = <<>>
                        /\ writer'[t].at \in {"sent", "single"} => writer'[t].batch # <<>>
      BY DEF Settled
    <3>1. CASE t = s
      BY <1>3, <1>5, <2>1, <2>2, <3>1
    <3>2. CASE t # s
      BY <1>6, <2>2, <3>2 DEF IInv, Settled
    <3>3. QED
      BY <3>1, <3>2
  <2>7. Answers'
    <3>1. CASE at = "sent"
      BY <1>5, <2>1, <2>2, <3>1, SendsIt DEF Answers
    <3>2. CASE at = "cut"
      BY <1>3, <2>1, <2>2, <3>2 DEF IInv, Answers, Connected
    <3>3. QED
      BY <3>1, <3>2
  <2>8. QED
    BY <1>3, <1>10, <2>4, <2>5, <2>6, <2>7 DEF IInv, Quiet
<1>11. QED
  BY <1>3, <1>9, <1>10

(* Those a writer answered for: their records are in the table. *)
Promised ==
    /\ ever' = ever
    /\ \A r \in Record : pc[r] = "acked" => pc'[r] = "acked"
    /\ \A r \in Record : pc'[r] = "acked" => pc[r] = "acked" \/ r \in ToSet(ever)

(* The batch is stored. *)
LEMMA StoredIInv ==
  ASSUME IInv, NEW s \in Server, Stored(s)
  PROVE  IInv' /\ Promised
<1>1. /\ UNCHANGED <<ever, session, queue>>
      /\ Connected(s) /\ writer[s].at = "sent" /\ session.answer = "ok"
      /\ Told(ToSet(writer[s].batch), "acked") /\ Goes(s, "idle", <<>>)
  BY DEF Stored, Answered
<1>2. pc \in [Record -> Places]
  BY DEF IInv, Shape
<1>3. pc' = [r \in Record |-> IF r \in ToSet(writer[s].batch) THEN "acked" ELSE pc[r]]
  BY <1>1 DEF Told
<1>4. ToSet(writer[s].batch) \subseteq ToSet(ever)
  BY <1>1 DEF IInv, Answers
<1>5. Promised
  BY <1>1, <1>3, <1>4 DEF Promised
<1>6. <<>> \in Seq(Record) /\ "idle" \in Ats /\ ToSet(<<>>) = {} /\ IsInjective(<<>>)
  BY DEF Ats, ToSet, IsInjective
<1>7. /\ writer' \in [Server -> Writers]
      /\ writer'[s].at = "idle" /\ writer'[s].batch = <<>>
      /\ writer'[s].up = writer[s].up
      /\ \A t \in Server : t # s => writer'[t] = writer[t]
  BY <1>1, <1>6, GoesOn
<1>8. Has(s)' = ToSet(queue[s])
  BY <1>1, <1>6, <1>7 DEF Has
<1>9. OnePlace'
  <2>1. \A r \in Record : pc'[r] = pc[r]
                          \/ (r \notin Has(s)' /\ (r \in Has(s) \/ pc[r] # "waits"))
    BY <1>3, <1>8 DEF IInv, OnePlace, Has
  <2>2. Has(s)' \subseteq Has(s)
    BY <1>8 DEF Has
  <2>3. /\ IsInjective(writer'[s].batch) /\ IsInjective(queue'[s])
        /\ ToSet(writer'[s].batch) \cap ToSet(queue'[s]) = {}
    BY <1>1, <1>6, <1>7 DEF IInv, OnePlace
  <2>4. QED
    BY <1>1, <1>7, <2>1, <2>2, <2>3, PlacesKept
<1>10. Shape'
  BY <1>1, <1>2, <1>3, <1>7 DEF IInv, Shape, Places
<1>11. Settled'
  BY <1>1, <1>7 DEF IInv, Settled
<1>12. Answers'
  BY <1>1, <1>7 DEF IInv, Answers, Connected
<1>13. QED
  BY <1>5, <1>9, <1>10, <1>11, <1>12 DEF IInv

(* A bad record: the batch goes record by record. *)
LEMMA SplitIInv ==
  ASSUME IInv, NEW s \in Server, Split(s)
  PROVE  IInv' /\ Quiet
<1>1. /\ UNCHANGED <<ever, queue, pc>>
      /\ writer[s].at = "sent"
      /\ Sends(s, <<Head(writer[s].batch)>>) /\ Goes(s, "single", writer[s].batch)
  BY DEF Split, Answered
<1>2. /\ writer[s].batch \in Seq(Record) /\ writer[s].batch # <<>>
      /\ IsInjective(writer[s].batch)
  BY <1>1, Typed DEF IInv, Settled, OnePlace
<1>3. Head(writer[s].batch) \in Record
  BY <1>2, FirstAndRest
<1>4. <<Head(writer[s].batch)>> \in Seq(Record)
  BY <1>3
<1>5. /\ session'.by = s /\ session'.attached = TRUE
      /\ session'.stmt = <<Head(writer[s].batch)>> /\ session'.answer = "none"
      /\ \A t \in Server : Connected(t)' <=> t = s
      /\ session' \in Sessions
  BY <1>1, <1>4, SendsIt
<1>6. /\ writer' \in [Server -> Writers]
      /\ writer'[s].at = "single" /\ writer'[s].batch = writer[s].batch
      /\ writer'[s].up = writer[s].up
      /\ \A t \in Server : t # s => writer'[t] = writer[t]
  BY <1>1, <1>2, GoesOn DEF Ats
<1>7. \A t \in Server : writer'[t].batch = writer[t].batch
  BY <1>6
<1>8. OnePlace'
  <2>1. \A t \in Server : Has(t)' = Has(t)
    BY <1>1, <1>7 DEF Has
  <2>2. \A r \in Record : pc'[r] = pc[r]
    BY <1>1
  <2>3. /\ IsInjective(writer'[s].batch) /\ IsInjective(queue'[s])
        /\ ToSet(writer'[s].batch) \cap ToSet(queue'[s]) = {}
    BY <1>1, <1>7 DEF IInv, OnePlace
  <2>4. QED
    BY <1>1, <1>7, <2>1, <2>2, <2>3, PlacesKept
<1>9. Shape'
  BY <1>1, <1>4, <1>5, <1>6 DEF IInv, Shape
<1>10. Settled'
  BY <1>1, <1>2, <1>6 DEF IInv, Settled
<1>11. Answers'
  BY <1>5, <1>6 DEF Answers
<1>12. QED
  BY <1>1, <1>8, <1>9, <1>10, <1>11 DEF IInv, Quiet

(* One of them is answered for, and the next is sent. *)
LEMMA NextOneIInv ==
  ASSUME IInv, NEW s \in Server, NextOne(s)
  PROVE  IInv' /\ Promised
<1>1. PICK batch, rest : batch = writer[s].batch /\ rest = Tail(batch)
  OBVIOUS
<1>2. PICK what : what = IF session.answer = "ok" THEN "acked" ELSE "failed"
  OBVIOUS
<1>3. /\ UNCHANGED <<ever, queue>>
      /\ Connected(s) /\ writer[s].at = "single" /\ session.answer # "none"
      /\ Told({Head(batch)}, what)
      /\ \/ rest = <<>> /\ Goes(s, "idle", <<>>) /\ session' = session
         \/ rest # <<>> /\ Goes(s, "single", rest) /\ Sends(s, <<Head(rest)>>)
  BY <1>1, <1>2, Zenon DEF NextOne, Answered
<1>4. pc \in [Record -> Places]
  BY DEF IInv, Shape
<1>5. /\ Head(batch) \in Record /\ rest \in Seq(Record) /\ IsInjective(rest)
      /\ Head(batch) \in ToSet(batch) /\ Head(batch) \notin ToSet(rest)
      /\ ToSet(rest) \subseteq ToSet(batch)
  <2>1. batch \in Seq(Record) /\ batch # <<>> /\ IsInjective(batch)
    BY <1>1, <1>3, Typed DEF IInv, Settled, OnePlace
  <2>2. QED
    BY <1>1, <2>1, FirstAndRest
<1>6. \A r \in Record : pc'[r] = IF r = Head(batch) THEN what ELSE pc[r]
  BY <1>3 DEF Told
<1>7. Head(batch) \in Has(s) /\ pc[Head(batch)] = "waits"
      /\ Head(batch) \notin ToSet(queue[s])
  BY <1>1, <1>5 DEF IInv, OnePlace, Has
<1>8. Promised
  <2>1. what = "acked" => Head(batch) \in ToSet(ever)
    BY <1>1, <1>2, <1>3 DEF IInv, Answers
  <2>2. QED
    BY <1>3, <1>6, <1>7, <2>1 DEF Promised
<1>9. PICK at \in {"idle", "single"} :
         /\ Goes(s, at, rest)
         /\ at = "idle" => rest = <<>> /\ session' = session
         /\ at = "single" => rest # <<>> /\ Sends(s, <<Head(rest)>>)
  BY <1>3
<1>10. /\ writer' \in [Server -> Writers]
       /\ writer'[s].at = at /\ writer'[s].batch = rest
       /\ writer'[s].up = writer[s].up
       /\ \A t \in Server : t # s => writer'[t] = writer[t]
  BY <1>5, <1>9, GoesOn DEF Ats
<1>11. Has(s)' = ToSet(rest) \cup ToSet(queue[s]) /\ Has(s)' \subseteq Has(s)
  BY <1>1, <1>3, <1>5, <1>10 DEF Has
<1>12. OnePlace'
  <2>1. \A r \in Record : pc'[r] = pc[r]
                          \/ (r \notin Has(s)' /\ (r \in Has(s) \/ pc[r] # "waits"))
    BY <1>5, <1>6, <1>7, <1>11
  <2>2. /\ IsInjective(writer'[s].batch) /\ IsInjective(queue'[s])
        /\ ToSet(writer'[s].batch) \cap ToSet(queue'[s]) = {}
    BY <1>1, <1>3, <1>5, <1>10 DEF IInv, OnePlace
  <2>3. QED
    BY <1>3, <1>10, <1>11, <2>1, <2>2, PlacesKept
<1>13. rest # <<>> => Head(rest) \in Record /\ <<Head(rest)>> \in Seq(Record)
  BY <1>5
<1>14. Shape'
  <2>1. pc' \in [Record -> Places]
    <3>1. DOMAIN pc' = Record /\ what \in Places
      BY <1>2, <1>3 DEF Told, Places
    <3>2. \A r \in Record : pc'[r] \in Places
      BY <1>4, <1>6, <3>1
    <3>3. pc' = [r \in Record |-> pc'[r]]
      BY <1>3 DEF Told
    <3>4. QED
      BY <3>2, <3>3
  <2>2. session' \in Sessions
    <3>1. CASE at = "idle"
      BY <1>9, <3>1 DEF IInv, Shape
    <3>2. CASE at = "single"
      BY <1>9, <1>13, <3>2, SendsIt
    <3>3. QED
      BY <3>1, <3>2
  <2>3. QED
    BY <1>3, <1>10, <2>1, <2>2 DEF IInv, Shape
<1>15. Settled'
  BY <1>3, <1>9, <1>10 DEF IInv, Settled
<1>16. Answers'
  <2>1. CASE at = "idle"
    BY <1>3, <1>9, <1>10, <2>1 DEF IInv, Answers, Connected
  <2>2. CASE at = "single"
    <3>1. /\ session'.stmt = <<Head(rest)>> /\ session'.answer = "none"
          /\ \A t \in Server : Connected(t)' <=> t = s
      BY <1>9, <1>13, <2>2, SendsIt
    <3>2. QED
      BY <1>10, <2>2, <3>1 DEF Answers
  <2>3. QED
    BY <2>1, <2>2
<1>17. QED
  BY <1>8, <1>12, <1>14, <1>15, <1>16 DEF IInv

(* The connection is found dead: the batch is kept, or refused. *)
LEMMA NoticeIInv ==
  ASSUME IInv, NEW s \in Server, Notice(s)
  PROVE  IInv' /\ Quiet
<1>1. /\ UNCHANGED <<ever, session, queue>> /\ ~Connected(s)
      /\ writer[s].at \in {"sent", "single"} /\ writer[s].up
      /\ \/ Goes(s, "cut", writer[s].batch) /\ pc' = pc
         \/ Told(ToSet(writer[s].batch), "failed") /\ Goes(s, "idle", <<>>)
  BY DEF Notice, IInv, Settled
<1>2. writer[s].batch \in Seq(Record) /\ <<>> \in Seq(Record)
      /\ ToSet(<<>>) = {} /\ IsInjective(<<>>) /\ pc \in [Record -> Places]
  BY Typed DEF IInv, Shape, ToSet, IsInjective
<1>3. PICK at \in {"cut", "idle"}, b \in {writer[s].batch, <<>>} :
         /\ Goes(s, at, b) /\ (at = "idle" => b = <<>>)
         /\ \/ b = writer[s].batch /\ pc' = pc
            \/ b = <<>> /\ Told(ToSet(writer[s].batch), "failed")
  BY <1>1
<1>4. /\ writer' \in [Server -> Writers]
      /\ writer'[s].at = at /\ writer'[s].batch = b /\ writer'[s].up = writer[s].up
      /\ \A t \in Server : t # s => writer'[t] = writer[t]
  <2>1. at \in Ats /\ b \in Seq(Record) /\ Goes(s, at, b)
    BY <1>2, <1>3 DEF Ats
  <2>2. QED
    BY <2>1, GoesOn
<1>5. \A r \in ToSet(writer[s].batch) : pc[r] = "waits" /\ r \in Has(s)
                                        /\ r \notin ToSet(queue[s])
  BY DEF IInv, OnePlace, Has
<1>6. /\ Quiet /\ pc' \in [Record -> Places]
      /\ \A r \in Record : pc'[r] = pc[r] \/ (b = <<>> /\ r \in ToSet(writer[s].batch))
  <2>1. CASE b = writer[s].batch /\ pc' = pc
    BY <1>1, <1>2, <2>1 DEF Quiet
  <2>2. CASE b = <<>> /\ Told(ToSet(writer[s].batch), "failed")
    <3>1. /\ Quiet /\ pc' \in [Record -> Places]
          /\ \A r \in Record :
                pc'[r] = IF r \in ToSet(writer[s].batch) THEN "failed" ELSE pc[r]
      BY <1>1, <1>5, <2>2, ToldQuiet DEF Places
    <3>2. QED
      BY <2>2, <3>1
  <2>3. QED
    BY <1>3, <2>1, <2>2
<1>7. OnePlace'
  <2>1. ToSet(b) \subseteq ToSet(writer[s].batch) /\ IsInjective(b)
    BY <1>2 DEF IInv, OnePlace
  <2>2. Has(s)' = ToSet(b) \cup ToSet(queue[s]) /\ Has(s)' \subseteq Has(s)
    BY <1>1, <1>4, <2>1 DEF Has
  <2>3. \A r \in Record : pc'[r] = pc[r]
                          \/ (r \notin Has(s)' /\ (r \in Has(s) \/ pc[r] # "waits"))
    BY <1>2, <1>5, <1>6, <2>2
  <2>4. /\ IsInjective(writer'[s].batch) /\ IsInjective(queue'[s])
        /\ ToSet(writer'[s].batch) \cap ToSet(queue'[s]) = {}
    BY <1>1, <1>4, <2>1 DEF IInv, OnePlace
  <2>5. QED
    BY <1>1, <1>4, <2>2, <2>3, <2>4, PlacesKept
<1>8. Shape'
  BY <1>1, <1>4, <1>6 DEF IInv, Shape
<1>9. Settled'
  <2> SUFFICES ASSUME NEW t \in Server
               PROVE  /\ ~writer'[t].up => writer'[t].at = "idle" /\ queue'[t] = <<>>
                      /\ writer'[t].at \in {"idle", "done", "dead"} => writer'[t].batch = <<>>
                      /\ writer'[t].at \in {"sent", "single"} => writer'[t].batch # <<>>
    BY DEF Settled
  <2>1. CASE t = s
    BY <1>1, <1>3, <1>4, <2>1 DEF IInv, Settled
  <2>2. CASE t # s
    BY <1>1, <1>4, <2>2 DEF IInv, Settled
  <2>3. QED
    BY <2>1, <2>2
<1>10. Answers'
  BY <1>1, <1>4 DEF IInv, Answers, Connected
<1>11. QED
  BY <1>6, <1>7, <1>8, <1>9, <1>10 DEF IInv

(* A writer without a batch goes on without one, and the connection is the *)
(* same or given back.                                                     *)
LEMMA EmptyHanded ==
  ASSUME IInv, NEW s \in Server, NEW at \in Ats \ {"sent", "single"}, Goes(s, at, <<>>),
         writer[s].up, writer[s].batch = <<>>, UNCHANGED <<ever, queue, pc>>,
         session' = session \/ session' = Free
  PROVE  IInv' /\ Quiet
<1>1. <<>> \in Seq(Record) /\ ToSet(<<>>) = {} /\ IsInjective(<<>>)
  BY DEF ToSet, IsInjective
<1>2. /\ writer' \in [Server -> Writers]
      /\ writer'[s].at = at /\ writer'[s].batch = <<>> /\ writer'[s].up = writer[s].up
      /\ \A t \in Server : t # s => writer'[t] = writer[t]
  BY <1>1, GoesOn
<1>3. \A t \in Server : writer'[t].batch = writer[t].batch
  BY <1>2
<1>4. OnePlace'
  <2>1. \A t \in Server : Has(t)' = Has(t)
    BY <1>3 DEF Has
  <2>2. /\ IsInjective(writer'[s].batch) /\ IsInjective(queue'[s])
        /\ ToSet(writer'[s].batch) \cap ToSet(queue'[s]) = {}
    BY <1>3 DEF IInv, OnePlace
  <2>3. QED
    BY <1>3, <2>1, <2>2, PlacesKept
<1>5. Free \in Sessions /\ Free.answer = "none"
      /\ \A t \in Server : ~(Free.by = t /\ Free.attached)
  BY <1>1 DEF Free, Sessions
<1>6. Shape'
  BY <1>2, <1>5 DEF IInv, Shape
<1>7. Settled'
  BY <1>2 DEF IInv, Settled
<1>8. Answers'
  <2>1. CASE session' = session
    BY <1>2, <2>1 DEF IInv, Answers, Connected
  <2>2. CASE session' = Free
    BY <1>5, <2>2 DEF Answers, Connected
  <2>3. QED
    BY <2>1, <2>2
<1>9. QED
  BY <1>4, <1>6, <1>7, <1>8 DEF IInv, Quiet

(* An idle writer finds its connection dead, or leaves; then the lock is   *)
(* given back.                                                             *)
LEMMA LeavingIInv ==
  ASSUME IInv, NEW s \in Server, KeepAlive(s) \/ Drained(s) \/ Closed(s)
  PROVE  IInv' /\ Quiet
<1>1. PICK at \in Ats \ {"sent", "single"} :
         /\ Goes(s, at, <<>>) /\ UNCHANGED <<ever, queue, pc>>
         /\ session' = session \/ session' = Free
  BY DEF KeepAlive, Drained, Closed, Ats
<1>2. writer[s].up /\ writer[s].batch = <<>>
  BY DEF KeepAlive, Drained, Closed, IInv, Settled
<1>3. QED
  BY <1>1, <1>2, EmptyHanded

(* Connected anew, the batch is sent again. *)
LEMMA ReconnectIInv ==
  ASSUME IInv, NEW s \in Server, Reconnect(s)
  PROVE  IInv' /\ Quiet
<1>1. PICK batch : batch = writer[s].batch
  OBVIOUS
<1>2. PICK at : at = IF batch = <<>> THEN "idle" ELSE "sent"
  OBVIOUS
<1>3. /\ UNCHANGED <<ever, queue, pc>> /\ writer[s].up
      /\ Sends(s, batch) /\ Goes(s, at, batch)
  BY <1>1, <1>2, Zenon DEF Reconnect
<1>4. batch \in Seq(Record) /\ IsInjective(batch) /\ at \in Ats
  BY <1>1, <1>2, Typed DEF IInv, OnePlace, Ats
<1>5. /\ session'.by = s /\ session'.attached = TRUE
      /\ session'.stmt = batch /\ session'.answer = "none"
      /\ \A t \in Server : Connected(t)' <=> t = s
      /\ session' \in Sessions
  BY <1>3, <1>4, SendsIt
<1>6. /\ writer' \in [Server -> Writers]
      /\ writer'[s].at = at /\ writer'[s].batch = batch /\ writer'[s].up = writer[s].up
      /\ \A t \in Server : t # s => writer'[t] = writer[t]
  BY <1>3, <1>4, GoesOn
<1>7. \A t \in Server : writer'[t].batch = writer[t].batch
  BY <1>1, <1>6
<1>8. OnePlace'
  <2>1. \A t \in Server : Has(t)' = Has(t)
    BY <1>3, <1>7 DEF Has
  <2>2. /\ IsInjective(writer'[s].batch) /\ IsInjective(queue'[s])
        /\ ToSet(writer'[s].batch) \cap ToSet(queue'[s]) = {}
    BY <1>3, <1>7 DEF IInv, OnePlace
  <2>3. QED
    BY <1>3, <1>7, <2>1, <2>2, PlacesKept
<1>9. Shape'
  BY <1>3, <1>4, <1>5, <1>6 DEF IInv, Shape
<1>10. Settled'
  <2> SUFFICES ASSUME NEW t \in Server
               PROVE  /\ ~writer'[t].up => writer'[t].at = "idle" /\ queue'[t] = <<>>
                      /\ writer'[t].at \in {"idle", "done", "dead"} => writer'[t].batch = <<>>
                      /\ writer'[t].at \in {"sent", "single"} => writer'[t].batch # <<>>
    BY DEF Settled
  <2>1. CASE t = s
    BY <1>2, <1>3, <1>6, <2>1 DEF IInv, Settled
  <2>2. CASE t # s
    BY <1>3, <1>6, <2>2 DEF IInv, Settled
  <2>3. QED
    BY <2>1, <2>2
<1>11. Answers'
  BY <1>2, <1>5, <1>6 DEF Answers
<1>12. QED
  BY <1>3, <1>8, <1>9, <1>10, <1>11 DEF IInv, Quiet

(* The log breaks, and those of its batch are told. *)
LEMMA BreakIInv ==
  ASSUME IInv, NEW s \in Server, Break(s)
  PROVE  IInv' /\ Quiet
<1>1. PICK w : w = [writer[s] EXCEPT !.broken = TRUE, !.at = "idle", !.batch = <<>>]
  OBVIOUS
<1>2. /\ UNCHANGED <<ever, session, queue>> /\ writer[s].up
      /\ Told(ToSet(writer[s].batch), "failed")
      /\ writer' = [writer EXCEPT ![s].broken = TRUE, ![s].at = "idle", ![s].batch = <<>>]
  BY DEF Break
<1>3. /\ writer \in [Server -> Writers]
      /\ <<>> \in Seq(Record) /\ ToSet(<<>>) = {} /\ IsInjective(<<>>)
  BY DEF IInv, Shape, ToSet, IsInjective
<1>4. /\ w \in Writers
      /\ w.at = "idle" /\ w.batch = <<>> /\ w.up = writer[s].up
  BY <1>1, <1>3 DEF Ats, Writers
<1>5. writer' = [writer EXCEPT ![s] = w]
  BY <1>1, <1>2, <1>3 DEF Writers
<1>6. /\ writer' \in [Server -> Writers]
      /\ writer'[s] = w /\ \A t \in Server : t # s => writer'[t] = writer[t]
  BY <1>3, <1>4, <1>5
<1>7. \A r \in ToSet(writer[s].batch) : pc[r] = "waits" /\ r \in Has(s)
                                        /\ r \notin ToSet(queue[s])
  BY DEF IInv, OnePlace, Has
<1>8. /\ Quiet /\ pc' \in [Record -> Places]
      /\ \A r \in Record : pc'[r] = IF r \in ToSet(writer[s].batch) THEN "failed" ELSE pc[r]
  BY <1>2, <1>7, ToldQuiet DEF Places
<1>9. OnePlace'
  <2>1. Has(s)' = ToSet(queue[s]) /\ Has(s)' \subseteq Has(s)
    BY <1>2, <1>3, <1>4, <1>6 DEF Has
  <2>2. \A r \in Record : pc'[r] = pc[r]
                          \/ (r \notin Has(s)' /\ (r \in Has(s) \/ pc[r] # "waits"))
    BY <1>7, <1>8, <2>1
  <2>3. /\ IsInjective(writer'[s].batch) /\ IsInjective(queue'[s])
        /\ ToSet(writer'[s].batch) \cap ToSet(queue'[s]) = {}
    BY <1>2, <1>3, <1>4, <1>6 DEF IInv, OnePlace
  <2>4. QED
    BY <1>2, <1>6, <2>1, <2>2, <2>3, PlacesKept
<1>10. Shape'
  BY <1>2, <1>6, <1>8 DEF IInv, Shape
<1>11. Settled'
  BY <1>2, <1>4, <1>6 DEF IInv, Settled
<1>12. Answers'
  BY <1>2, <1>4, <1>6 DEF IInv, Answers, Connected
<1>13. QED
  BY <1>8, <1>9, <1>10, <1>11, <1>12 DEF IInv

-----------------------------------------------------------------------------
(* What the database does changes nobody's place. *)
LEMMA PlacesAlone ==
  ASSUME IInv, UNCHANGED <<writer, queue, pc>>
  PROVE  OnePlace' /\ Settled'
<1>1. \A s \in Server : Has(s)' = Has(s)
  BY DEF Has
<1>2. OnePlace'
  BY <1>1 DEF IInv, OnePlace, ToSet, IsInjective
<1>3. Settled'
  BY DEF IInv, Settled
<1>4. QED
  BY <1>2, <1>3

(* The statement commits. *)
LEMMA CommitIInv ==
  ASSUME IInv, Commit
  PROVE  /\ IInv' /\ pc' = pc
         /\ Len(ever) <= Len(ever')
         /\ \A i \in 1 .. Len(ever) : ever'[i] = ever[i]
<1>1. /\ UNCHANGED <<writer, queue, pc>>
      /\ session.stmt # <<>> /\ ever' = Insert(session.stmt)
      /\ session' = [session EXCEPT !.stmt = <<>>, !.answer = "ok"]
  BY DEF Commit
<1>2. PICK batch : batch = session.stmt
  OBVIOUS
<1>3. batch \in Seq(Record) /\ ever \in Seq(Record) /\ IsInjective(ever)
  BY <1>2 DEF IInv, Shape, Sessions
<1>4. /\ Insert(batch) \in Seq(Record) /\ IsInjective(Insert(batch))
      /\ Len(ever) <= Len(Insert(batch))
      /\ \A i \in 1 .. Len(ever) : Insert(batch)[i] = ever[i]
      /\ \A j \in 1 .. Len(batch) : \E i \in 1 .. Len(Insert(batch)) :
            Insert(batch)[i] = batch[j]
  BY <1>3, InsertAdds
<1>5. ever' = Insert(batch)
  BY <1>1, <1>2
<1>6. /\ ever' \in Seq(Record) /\ IsInjective(ever') /\ Len(ever) <= Len(ever')
      /\ \A i \in 1 .. Len(ever) : ever'[i] = ever[i]
      /\ \A j \in 1 .. Len(batch) : \E i \in 1 .. Len(ever') : ever'[i] = batch[j]
  <2>1. \A e : e = Insert(batch) =>
          /\ e \in Seq(Record) /\ IsInjective(e) /\ Len(ever) <= Len(e)
          /\ \A i \in 1 .. Len(ever) : e[i] = ever[i]
          /\ \A j \in 1 .. Len(batch) : \E i \in 1 .. Len(e) : e[i] = batch[j]
    BY <1>4
  <2>2. QED
    BY <1>5, <2>1
<1>7. ToSet(batch) \subseteq ToSet(ever')
  BY <1>3, <1>6 DEF ToSet
<1>8. OnePlace' /\ Settled'
  BY <1>1, PlacesAlone
<1>9. session' \in Sessions /\ session'.stmt = <<>> /\ session'.answer = "ok"
      /\ session'.by = session.by /\ session'.attached = session.attached
  <2>1. session \in Sessions
    BY DEF IInv, Shape
  <2>2. <<>> \in Seq(Record)
    OBVIOUS
  <2>3. PICK z : z = session
    OBVIOUS
  <2>4. z \in Sessions /\ session' = [z EXCEPT !.stmt = <<>>, !.answer = "ok"]
    BY <1>1, <2>1, <2>3
  <2>5. PICK y : y = [z EXCEPT !.stmt = <<>>, !.answer = "ok"]
    OBVIOUS
  <2>6. y \in Sessions /\ y.stmt = <<>> /\ y.answer = "ok"
        /\ y.by = z.by /\ y.attached = z.attached
    BY <2>2, <2>4, <2>5 DEF Sessions
  <2>7. QED
    BY <2>3, <2>4, <2>5, <2>6
<1>10. Shape'
  BY <1>1, <1>6, <1>9 DEF IInv, Shape
<1>11. Answers'
  <2> SUFFICES ASSUME NEW s \in Server, Connected(s)'
               PROVE  /\ writer[s].at = "sent" => ToSet(writer[s].batch) \subseteq ToSet(ever')
                      /\ writer[s].at = "single" => Head(writer[s].batch) \in ToSet(ever')
    BY <1>1, <1>9 DEF Answers, Connected
  <2>1. Connected(s) /\ session.answer = "none"
    BY <1>1, <1>9 DEF Connected, IInv, Answers, Shape, Sessions
  <2>2. writer[s].at = "sent" => batch = writer[s].batch
    BY <1>2, <2>1 DEF IInv, Answers
  <2>3. writer[s].at = "single" => batch = <<Head(writer[s].batch)>>
    BY <1>2, <2>1 DEF IInv, Answers
  <2>4. \A x : batch = <<x>> => x \in ToSet(batch)
    BY DEF ToSet
  <2>5. QED
    BY <1>7, <2>2, <2>3, <2>4
<1>12. QED
  BY <1>1, <1>6, <1>8, <1>10, <1>11 DEF IInv

(* The database refuses a statement, or the connection is lost or ends.    *)
LEMMA DatabaseIInv ==
  ASSUME IInv, Reject \/ Cut \/ SessionEnds
  PROVE  IInv' /\ Quiet
<1>1. UNCHANGED <<ever, writer, queue, pc>>
  BY DEF Reject, Cut, SessionEnds
<1>2. session \in Sessions /\ <<>> \in Seq(Record)
  BY DEF IInv, Shape
<1>3. PICK z : z = session
  OBVIOUS
<1>4. \/ session' = [z EXCEPT !.stmt = <<>>, !.answer = "data"]
      \/ session' = [z EXCEPT !.attached = FALSE]
      \/ session' = Free
  BY <1>3 DEF Reject, Cut, SessionEnds
<1>5. ASSUME NEW y \in {[z EXCEPT !.stmt = <<>>, !.answer = "data"],
                        [z EXCEPT !.attached = FALSE], Free}
      PROVE  /\ y \in Sessions
             /\ y.answer # "none" => y.stmt = <<>>
             /\ \A s \in Server : y.by = s /\ y.attached =>
                   z.by = s /\ z.attached /\ y.answer = "data"
  <2>1. CASE y = [z EXCEPT !.stmt = <<>>, !.answer = "data"]
    BY <1>2, <1>3, <2>1 DEF Sessions
  <2>2. CASE y = [z EXCEPT !.attached = FALSE]
    BY <1>2, <1>3, <2>2 DEF Sessions, IInv, Answers
  <2>3. CASE y = Free
    BY <1>2, <2>3 DEF Free, Sessions
  <2>4. QED
    BY <2>1, <2>2, <2>3
<1>6. /\ session' \in Sessions
      /\ session'.answer # "none" => session'.stmt = <<>>
      /\ \A s \in Server : Connected(s)' => session'.answer = "data"
  BY <1>4, <1>5 DEF Connected
<1>7. OnePlace' /\ Settled'
  BY <1>1, PlacesAlone
<1>8. Shape'
  BY <1>1, <1>6 DEF IInv, Shape
<1>9. Answers'
  BY <1>6 DEF Answers
<1>10. QED
  BY <1>1, <1>7, <1>8, <1>9 DEF IInv, Quiet

-----------------------------------------------------------------------------
(* A server is up, down, or closing: what it has, it has. *)
LEMMA ServerPlaces ==
  ASSUME IInv, NEW s \in Server, NEW w \in Writers, writer' = [writer EXCEPT ![s] = w],
         w.batch = writer[s].batch, w.at = writer[s].at, queue' = queue, pc' = pc,
         w.up \/ (queue[s] = <<>> /\ w.at = "idle")
  PROVE  OnePlace' /\ Settled' /\ writer' \in [Server -> Writers]
<1>1. writer \in [Server -> Writers]
  BY DEF IInv, Shape
<1>2. /\ writer' \in [Server -> Writers] /\ writer'[s] = w
      /\ \A t \in Server : t # s => writer'[t] = writer[t]
  BY <1>1
<1>3. \A t \in Server : writer'[t].batch = writer[t].batch /\ writer'[t].at = writer[t].at
  BY <1>2
<1>4. OnePlace'
  <2>1. \A t \in Server : Has(t)' = Has(t)
    BY <1>3 DEF Has
  <2>2. /\ IsInjective(writer'[s].batch) /\ IsInjective(queue'[s])
        /\ ToSet(writer'[s].batch) \cap ToSet(queue'[s]) = {}
    BY <1>3 DEF IInv, OnePlace
  <2>3. QED
    BY <1>3, <2>1, <2>2, PlacesKept
<1>5. Settled'
  <2> SUFFICES ASSUME NEW t \in Server
               PROVE  /\ ~writer'[t].up => writer'[t].at = "idle" /\ queue'[t] = <<>>
                      /\ writer'[t].at \in {"idle", "done", "dead"} => writer'[t].batch = <<>>
                      /\ writer'[t].at \in {"sent", "single"} => writer'[t].batch # <<>>
    BY DEF Settled
  <2>1. CASE t = s
    BY <1>2, <1>3, <2>1 DEF IInv, Settled
  <2>2. CASE t # s
    BY <1>2, <2>2 DEF IInv, Settled
  <2>3. QED
    BY <2>1, <2>2
<1>6. QED
  BY <1>2, <1>4, <1>5

(* A server closes its log. *)
LEMMA CloseIInv ==
  ASSUME IInv, NEW s \in Server, Close(s)
  PROVE  IInv' /\ Quiet
<1>1. writer \in [Server -> Writers] /\ writer[s] \in Writers
  BY DEF IInv, Shape
<1>2. UNCHANGED <<ever, session, queue, pc>> /\ writer[s].up
      /\ writer' = [writer EXCEPT ![s].closed = TRUE]
  BY DEF Close
<1>3. PICK w : w = [writer[s] EXCEPT !.closed = TRUE]
  OBVIOUS
<1>4. w \in Writers /\ w.batch = writer[s].batch /\ w.at = writer[s].at
      /\ w.up = writer[s].up
  BY <1>1, <1>3 DEF Writers
<1>5. writer' = [writer EXCEPT ![s] = w]
  BY <1>1, <1>2, <1>3
<1>6. OnePlace' /\ Settled' /\ writer' \in [Server -> Writers]
  BY <1>2, <1>4, <1>5, ServerPlaces
<1>7. Shape'
  BY <1>2, <1>6 DEF IInv, Shape
<1>8. \A t \in Server : writer'[t].batch = writer[t].batch /\ writer'[t].at = writer[t].at
  BY <1>1, <1>4, <1>5
<1>9. Answers'
  BY <1>2, <1>8 DEF IInv, Answers, Connected
<1>10. QED
  BY <1>2, <1>6, <1>7, <1>9 DEF IInv, Quiet

(* A server starts, with the lock and nothing to answer for. *)
LEMMA OpenIInv ==
  ASSUME IInv, NEW s \in Server, NEW upTo, Open(s, upTo)
  PROVE  IInv' /\ Quiet
<1>1. /\ UNCHANGED <<ever, queue, pc>> /\ ~writer[s].up
      /\ Sends(s, <<>>) /\ writer' = [writer EXCEPT ![s] = [Down EXCEPT !.up = TRUE]]
  BY DEF Open
<1>2. PICK w : w = [Down EXCEPT !.up = TRUE]
  OBVIOUS
<1>3. <<>> \in Seq(Record)
  OBVIOUS
<1>4. w \in Writers /\ w.batch = <<>> /\ w.at = "idle" /\ w.up
  BY <1>2, <1>3 DEF Down, Writers, Ats
<1>5. writer[s].batch = <<>> /\ writer[s].at = "idle"
  BY <1>1 DEF IInv, Settled
<1>6. OnePlace' /\ Settled' /\ writer' \in [Server -> Writers]
  BY <1>1, <1>2, <1>4, <1>5, ServerPlaces
<1>7. /\ session'.by = s /\ session'.stmt = <<>> /\ session'.answer = "none"
      /\ \A t \in Server : Connected(t)' <=> t = s
      /\ session' \in Sessions
  BY <1>1, <1>3, SendsIt
<1>8. writer'[s] = w
  BY <1>1, <1>2 DEF IInv, Shape
<1>9. Shape'
  BY <1>1, <1>6, <1>7 DEF IInv, Shape
<1>10. Answers'
  BY <1>4, <1>7, <1>8 DEF Answers
<1>11. QED
  BY <1>1, <1>6, <1>9, <1>10 DEF IInv, Quiet

(* A server is gone, and those who waited at it are not told. *)
LEMMA KillIInv ==
  ASSUME IInv, NEW s \in Server, Kill(s) \/ Exit(s)
  PROVE  IInv' /\ Quiet
<1>1. /\ ever' = ever /\ writer[s].up
      /\ writer' = [writer EXCEPT ![s] = Down]
      /\ queue' = [queue EXCEPT ![s] = <<>>]
      /\ Told(Entering(s) \cup ToSet(queue[s] \o writer[s].batch), "lost")
      /\ session' = IF session.by = s THEN [session EXCEPT !.attached = FALSE] ELSE session
  BY DEF Kill, Exit, Gone
<1>2. /\ writer \in [Server -> Writers] /\ queue \in [Server -> Seq(Record)]
      /\ pc \in [Record -> Places] /\ session \in Sessions
      /\ writer[s].batch \in Seq(Record) /\ queue[s] \in Seq(Record)
      /\ <<>> \in Seq(Record) /\ ToSet(<<>>) = {} /\ IsInjective(<<>>)
  BY Typed DEF IInv, Shape, ToSet, IsInjective
<1>3. Down \in Writers /\ Down.batch = <<>> /\ Down.at = "idle"
  BY <1>2 DEF Down, Writers, Ats
<1>4. /\ writer' \in [Server -> Writers] /\ writer'[s] = Down
      /\ queue' \in [Server -> Seq(Record)] /\ queue'[s] = <<>>
      /\ \A t \in Server : t # s => writer'[t] = writer[t] /\ queue'[t] = queue[t]
  BY <1>1, <1>2, <1>3
<1>5. ToSet(queue[s] \o writer[s].batch) \subseteq Has(s)
  <2>1. PICK a, b : a = queue[s] /\ b = writer[s].batch
    OBVIOUS
  <2>2. a \in Seq(Record) /\ b \in Seq(Record) /\ Len(a) \in Nat /\ Len(b) \in Nat
    BY <1>2, <2>1
  <2>3. DOMAIN (a \o b) = 1 .. Len(a) + Len(b)
        /\ \A i \in 1 .. Len(a) + Len(b) :
              (a \o b)[i] = IF i <= Len(a) THEN a[i] ELSE b[i - Len(a)]
    BY <2>2
  <2>4. ASSUME NEW i \in 1 .. Len(a) + Len(b) PROVE (a \o b)[i] \in ToSet(a) \cup ToSet(b)
    <3>1. CASE i <= Len(a)
      <4>1. i \in DOMAIN a
        BY <2>2, <3>1
      <4>2. QED
        BY <2>3, <3>1, <4>1 DEF ToSet
    <3>2. CASE ~(i <= Len(a))
      <4>1. i - Len(a) \in DOMAIN b
        BY <2>2, <3>2
      <4>2. b[i - Len(a)] \in ToSet(b)
        BY <4>1 DEF ToSet
      <4>3. QED
        BY <2>3, <3>2, <4>2
    <3>3. QED
      BY <3>1, <3>2
  <2>5. \A x \in ToSet(a \o b) : x \in ToSet(a) \cup ToSet(b)
    BY <2>3, <2>4 DEF ToSet
  <2>6. QED
    BY <2>1, <2>5 DEF Has
<1>6. PICK told : told = Entering(s) \cup ToSet(queue[s] \o writer[s].batch)
  OBVIOUS
<1>14. \A r \in told : pc[r] = "enters" \/ (pc[r] = "waits" /\ r \in Has(s))
  BY <1>5, <1>6 DEF IInv, OnePlace, Entering
<1>7. /\ Quiet /\ pc' \in [Record -> Places]
      /\ \A r \in Record : pc'[r] = IF r \in told THEN "lost" ELSE pc[r]
  BY <1>1, <1>6, <1>14, ToldQuiet DEF Places
<1>8. OnePlace'
  <2>1. Has(s)' = {}
    BY <1>2, <1>3, <1>4 DEF Has
  <2>2. \A r \in Record : pc'[r] = pc[r]
                          \/ (r \notin Has(s)' /\ (r \in Has(s) \/ pc[r] # "waits"))
    BY <1>7, <1>14, <2>1
  <2>3. /\ IsInjective(writer'[s].batch) /\ IsInjective(queue'[s])
        /\ ToSet(writer'[s].batch) \cap ToSet(queue'[s]) = {}
    BY <1>2, <1>3, <1>4
  <2>4. QED
    BY <1>4, <2>1, <2>2, <2>3, PlacesKept
<1>9. /\ session' \in Sessions
      /\ session'.stmt = session.stmt /\ session'.answer = session.answer
      /\ \A t \in Server : Connected(t)' => Connected(t) /\ t # s
  <2>1. PICK z : z = session
    OBVIOUS
  <2>2. PICK y : y = [z EXCEPT !.attached = FALSE]
    OBVIOUS
  <2>3. y \in Sessions /\ y.stmt = z.stmt /\ y.answer = z.answer /\ y.attached = FALSE
    BY <1>2, <2>1, <2>2 DEF Sessions
  <2>4. session' = IF z.by = s THEN y ELSE z
    BY <1>1, <2>1, <2>2
  <2>5. CASE z.by = s
    BY <2>1, <2>3, <2>4, <2>5 DEF Connected
  <2>6. CASE z.by # s
    BY <1>2, <2>1, <2>4, <2>6 DEF Connected
  <2>7. QED
    BY <2>5, <2>6
<1>10. Shape'
  BY <1>1, <1>4, <1>7, <1>9 DEF IInv, Shape
<1>11. Settled'
  <2> SUFFICES ASSUME NEW t \in Server
               PROVE  /\ ~writer'[t].up => writer'[t].at = "idle" /\ queue'[t] = <<>>
                      /\ writer'[t].at \in {"idle", "done", "dead"} => writer'[t].batch = <<>>
                      /\ writer'[t].at \in {"sent", "single"} => writer'[t].batch # <<>>
    BY DEF Settled
  <2>1. CASE t = s
    BY <1>3, <1>4, <2>1
  <2>2. CASE t # s
    BY <1>4, <2>2 DEF IInv, Settled
  <2>3. QED
    BY <2>1, <2>2
<1>12. Answers'
  BY <1>1, <1>4, <1>9 DEF IInv, Answers
<1>13. QED
  BY <1>7, <1>8, <1>10, <1>11, <1>12 DEF IInv

-----------------------------------------------------------------------------
(* Every step keeps the invariant; one that inserts tells nobody, and one  *)
(* that tells inserts nothing.                                             *)
LEMMA NextIInv ==
  ASSUME IInv, [Next]_vars
  PROVE  IInv' /\ (Quiet \/ Promised \/ Commit)
<1>1. ASSUME NEW s \in Server, NEW r \in Record, AppendRecord(s, r) \/ Enqueue(s, r)
      PROVE  IInv' /\ Quiet
  BY <1>1, AppendIInv, EnqueueIInv
<1>2. ASSUME NEW s \in Server, WriterStep(s) \/ Close(s) \/ Closed(s) \/ Abandoned(s)
      PROVE  IInv' /\ (Quiet \/ Promised)
  BY <1>2, BeginIInv, StoredIInv, SplitIInv, NextOneIInv, NoticeIInv, ReconnectIInv,
     BreakIInv, LeavingIInv, CloseIInv, AbandonedIInv DEF WriterStep
<1>3. CASE Commit
  BY <1>3, CommitIInv
<1>4. CASE Reject \/ Cut \/ SessionEnds
  BY <1>4, DatabaseIInv
<1>5. ASSUME NEW s \in Server, Starts(s) \/ Stops(s) PROVE IInv' /\ Quiet
  BY <1>5, OpenIInv, KillIInv DEF Starts, Stops
<1>6. ASSUME UNCHANGED logVars PROVE IInv' /\ Quiet
  <2>1. UNCHANGED <<ever, session, writer, queue, pc>>
    BY <1>6 DEF logVars
  <2>2. OnePlace' /\ Settled'
    BY <2>1, PlacesAlone
  <2>3. Shape' /\ Answers'
    BY <2>1 DEF IInv, Shape, Answers, Connected
  <2>4. QED
    BY <2>1, <2>2, <2>3 DEF IInv, Quiet
<1>7. ASSUME NEW s \in Server, ProjStep(s) PROVE UNCHANGED logVars
  BY <1>7, Zenon DEF ProjStep, TakeIn, Refused
<1>8. UNCHANGED vars => UNCHANGED logVars
  BY DEF vars
<1>9. CASE LogNext
  BY <1>1, <1>2, <1>3, <1>4, <1>9 DEF LogNext
<1>10. QED
  BY <1>5, <1>6, <1>7, <1>8, <1>9 DEF Next

(* The invariant holds in every state. *)
LEMMA Inductive == Spec => []IInv
BY InitIInv, NextIInv, PTL DEF Spec

-----------------------------------------------------------------------------
(* Each step of the table is a step of the abstract log, or none of it.    *)
Acked == {r \in Record : pc[r] = "acked"}

(* One step of Projector is one step of DurableLog, or leaves it as it is. *)
LEMMA Simulated ==
  ASSUME IInv, [Next]_vars
  PROVE  [Promise!Next]_(Promise!vars)
<1>1. IInv' /\ (Quiet \/ Promised \/ Commit)
  BY NextIInv
<1>2. ever \in Seq(Record) /\ ever' \in Seq(Record) /\ IsInjective(ever')
  BY <1>1 DEF IInv, Shape
<1>3. CASE Quiet
  <2>1. Acked' = Acked /\ ever' = ever
    BY <1>3 DEF Quiet, Acked
  <2>2. QED
    BY <2>1 DEF Promise!vars, Acked
<1>4. CASE Promised
  <2>1. /\ ever' = ever /\ Acked \subseteq Acked'
        /\ Acked' \subseteq Acked \cup ToSet(ever)
    BY <1>4 DEF Promised, Acked
  <2>2. /\ Len(<<>>) = 0 /\ SubSeq(<<>>, 1, 0) = <<>>
        /\ SubSeq(<<>>, 0 + 1, Len(<<>>)) = <<>>
    BY SubSeqEmpty
  <2>3. ever' = ever \o SubSeq(<<>>, 1, 0)
    <3>1. ever \o <<>> = ever
      BY <1>2, ConcatEmptySeq
    <3>2. QED
      BY <2>1, <2>2, <3>1
  <2>4. Promise!ToSet(ever') = ToSet(ever)
    BY <2>1 DEF ToSet, Promise!ToSet
  <2>5. /\ 0 \in 0 .. Len(<<>>)
        /\ ever' = ever \o SubSeq(<<>>, 1, 0)
        /\ <<>> = SubSeq(<<>>, 0 + 1, Len(<<>>))
        /\ Acked \subseteq Acked'
        /\ Acked' \subseteq Acked \cup Promise!ToSet(ever')
    BY <2>1, <2>2, <2>3, <2>4
  <2>6. Promise!Harden
    BY <2>5 DEF Promise!Harden, Acked
  <2>7. QED
    BY <2>6 DEF Promise!Next
<1>5. CASE Commit
  <2>1. /\ pc' = pc /\ Len(ever) <= Len(ever')
        /\ \A i \in 1 .. Len(ever) : ever'[i] = ever[i]
    BY <1>5, CommitIInv
  <2>2. Acked' = Acked
    BY <2>1 DEF Acked
  <2>3. CASE ever' = ever
    BY <2>2, <2>3 DEF Promise!vars, Acked
  <2>4. CASE ever' # ever
    <3>1. Promise!IsPrefix(ever, ever')
      <4>1. Len(ever) \in Nat /\ Len(ever') \in Nat
        BY <1>2
      <4>2. PICK e, f : e = ever /\ f = ever'
        OBVIOUS
      <4>3. /\ e \in Seq(Record) /\ f \in Seq(Record) /\ Len(e) <= Len(f)
            /\ \A i \in 1 .. Len(e) : f[i] = e[i]
        BY <1>2, <2>1, <4>2
      <4>4. SubSeq(e, 1, Len(e)) = e
        BY <4>3, SubSeqFull
      <4>5. PICK g : g = SubSeq(f, 1, Len(e))
        OBVIOUS
      <4>6. g \in Seq(Record) /\ Len(g) = Len(e) /\ \A i \in 1 .. Len(g) : g[i] = e[i]
        <5>1. Len(e) \in Nat /\ \A i \in 1 .. Len(e) : f[i] \in Record
          BY <4>3
        <5>2. PICK n : n = Len(e)
          OBVIOUS
        <5>3. /\ SubSeq(f, 1, n) \in Seq(Record)
              /\ Len(SubSeq(f, 1, n)) = IF 1 <= n THEN n - 1 + 1 ELSE 0
              /\ \A i \in 1 .. n - 1 + 1 : SubSeq(f, 1, n)[i] = f[1 + i - 1]
          BY <5>1, <5>2, SubSeqProperties
        <5>4. Len(g) = n /\ \A i \in 1 .. n : g[i] = f[i]
          BY <4>5, <5>1, <5>2, <5>3
        <5>5. QED
          BY <4>3, <4>5, <5>2, <5>3, <5>4
      <4>7. g = e
        BY <4>3, <4>6, SeqEqual
      <4>8. QED
        BY <4>2, <4>3, <4>4, <4>5, <4>7 DEF Promise!IsPrefix
    <3>2. Promise!IsInjective(ever') /\ Promise!ToSet(ever') \subseteq Record
      BY <1>2 DEF IsInjective, Promise!IsInjective, Promise!ToSet
    <3>3. Promise!Commit
      BY <2>2, <2>4, <3>1, <3>2 DEF Promise!Commit, Acked
    <3>4. QED
      BY <3>3 DEF Promise!Next
  <2>5. QED
    BY <2>3, <2>4
<1>6. QED
  BY <1>1, <1>3, <1>4, <1>5

(* The table keeps the promise of a Log: a committed statement adds its    *)
(* records once and in order, a writer answers only for records that are   *)
(* there, and no loss of a connection, repeated batch, kill or takeover    *)
(* takes a record or an answer back (Log.insert, Log.flush, reconnect).    *)
THEOREM TableKeepsPromise == Spec => ImplementsDurableLog
<1>1. Init => Promise!Init
  BY DEF Init, LogInit, Promise!Init
<1>2. IInv /\ [Next]_vars => [Promise!Next]_(Promise!vars)
  BY Simulated
<1>3. QED
  BY <1>1, <1>2, Inductive, PTL
  DEF Spec, ImplementsDurableLog, Promise!Spec

-----------------------------------------------------------------------------
(* The tables a projector should have made of the first n records.         *)
Seen(n, h) ==
    {m \in 1 .. n : /\ ever[m] \in DOMAIN Holder \ Unfit /\ Holder[ever[m]] = h
                    /\ EpochOf(m) = EpochOf(n)}

Rows(n) == {m \in 1 .. n : ever[m] \notin Reset \cup DOMAIN Holder \cup Unfit}

AccountRows(n) ==
    [h \in {x \in Range(Holder) : Seen(n, x) # {}} |-> ever[Max(Seen(n, h))]]

EntryRows(n) == [m \in Rows(n) |-> [rec |-> ever[m], epoch |-> EpochOf(m)]]

Tables(n) == [epoch |-> EpochOf(n), accounts |-> AccountRows(n), entries |-> EntryRows(n)]

(* A reset's record begins an epoch, and no other does. *)
LEMMA Epochs ==
  /\ EpochOf(0) = 1
  /\ \A n \in Nat : EpochOf(n) \in Nat
  /\ \A n \in Nat \ {0} : EpochOf(n) = Epoch(EpochOf(n - 1), ever[n])
  /\ \A n \in Nat : \A m \in 0 .. n : EpochOf(m) <= EpochOf(n)
<1> DEFINE R(n) == {m \in 1 .. n : ever[m] \in Reset}
<1>1. ASSUME NEW n \in Nat PROVE IsFiniteSet(R(n)) /\ Cardinality(R(n)) \in Nat
  <2>1. IsFiniteSet(1 .. n) /\ R(n) \subseteq 1 .. n
    BY FS_Interval
  <2>2. QED
    BY <2>1, FS_Subset, FS_CardinalityType
<1>2. \A n \in Nat : EpochOf(n) = 1 + Cardinality(R(n))
  BY DEF EpochOf
<1>3. EpochOf(0) = 1
  <2>1. R(0) = {}
    OBVIOUS
  <2>2. QED
    BY <1>2, <2>1, FS_EmptySet
<1>4. ASSUME NEW n \in Nat \ {0} PROVE EpochOf(n) = Epoch(EpochOf(n - 1), ever[n])
  <2>1. n - 1 \in Nat /\ EpochOf(n) = 1 + Cardinality(R(n))
        /\ EpochOf(n - 1) = 1 + Cardinality(R(n - 1))
    BY <1>2
  <2>2. CASE ever[n] \in Reset
    <3>1. R(n) = R(n - 1) \cup {n} /\ n \notin R(n - 1)
      BY <2>2
    <3>2. Cardinality(R(n)) = Cardinality(R(n - 1)) + 1
      BY <1>1, <2>1, <3>1, FS_AddElement
    <3>3. QED
      BY <1>1, <2>1, <2>2, <3>2 DEF Epoch
  <2>3. CASE ever[n] \notin Reset
    <3>1. R(n) = R(n - 1)
      BY <2>3
    <3>2. QED
      BY <2>1, <2>3, <3>1 DEF Epoch
  <2>4. QED
    BY <2>2, <2>3
<1>5. ASSUME NEW n \in Nat, NEW m \in 0 .. n PROVE EpochOf(m) <= EpochOf(n)
  <2>1. R(m) \subseteq R(n) /\ m \in Nat
    OBVIOUS
  <2>2. Cardinality(R(m)) <= Cardinality(R(n))
    BY <1>1, <2>1, FS_Subset
  <2>3. EpochOf(m) = 1 + Cardinality(R(m)) /\ EpochOf(n) = 1 + Cardinality(R(n))
        /\ Cardinality(R(m)) \in Nat /\ Cardinality(R(n)) \in Nat
    BY <1>1, <1>2, <2>1
  <2>4. PICK c, d : c = Cardinality(R(m)) /\ d = Cardinality(R(n))
    OBVIOUS
  <2>5. QED
    BY <2>2, <2>3, <2>4
<1>6. ASSUME NEW n \in Nat PROVE EpochOf(n) \in Nat
  <2>1. EpochOf(n) = 1 + Cardinality(R(n)) /\ Cardinality(R(n)) \in Nat
    BY <1>1, <1>2
  <2>2. QED
    BY <2>1
<1> HIDE DEF R
<1>7. QED
  BY <1>3, <1>4, <1>5, <1>6

(* One record more: the accounts. *)
LEMMA AccountsStep ==
  ASSUME NEW n \in Nat \ {0}
  PROVE  /\ ever[n] \in Reset => AccountRows(n) = <<>>
         /\ ever[n] \notin Reset /\ ever[n] \in DOMAIN Holder \ Unfit =>
               AccountRows(n) = Put(AccountRows(n - 1), Holder[ever[n]], ever[n])
         /\ ever[n] \notin Reset /\ ever[n] \notin DOMAIN Holder \ Unfit =>
               AccountRows(n) = AccountRows(n - 1)
<1>1. /\ \A m \in 1 .. n : EpochOf(m) \in Nat /\ m \in Nat
      /\ EpochOf(n - 1) \in Nat /\ n - 1 \in Nat
      /\ \A m \in 1 .. n - 1 : EpochOf(m) <= EpochOf(n - 1) /\ m \in 1 .. n
      /\ EpochOf(n) = Epoch(EpochOf(n - 1), ever[n])
      /\ \A m \in 1 .. n : m \in 1 .. n - 1 \/ m = n
  BY Epochs
<1>2. Reset \cap DOMAIN Holder = {}
  BY ProjectorAssumption
<1>3. CASE ever[n] \in Reset
  <2>1. EpochOf(n) = EpochOf(n - 1) + 1
    BY <1>1, <1>3 DEF Epoch
  <2>2. \A h : Seen(n, h) = {}
    <3>1. ASSUME NEW h, NEW m \in Seen(n, h) PROVE FALSE
      <4>1. m \in 1 .. n /\ ever[m] \in DOMAIN Holder /\ EpochOf(m) = EpochOf(n)
        BY <3>1 DEF Seen
      <4>2. m # n
        BY <1>2, <1>3, <4>1
      <4>3. EpochOf(m) <= EpochOf(n - 1)
        BY <1>1, <4>1, <4>2
      <4>4. QED
        BY <1>1, <2>1, <4>1, <4>3
    <3>2. QED
      BY <3>1
  <2>3. AccountRows(n) = <<>>
    BY <2>2 DEF AccountRows
  <2>4. QED
    BY <1>3, <2>3
<1>4. CASE ever[n] \notin Reset
  <2>1. EpochOf(n) = EpochOf(n - 1)
    BY <1>1, <1>4 DEF Epoch
  <2>2. ASSUME NEW h PROVE Seen(n, h) = Seen(n - 1, h) \cup
             (IF ever[n] \in DOMAIN Holder \ Unfit /\ Holder[ever[n]] = h THEN {n} ELSE {})
    BY <1>1, <2>1 DEF Seen
  <2>3. CASE ever[n] \in DOMAIN Holder \ Unfit
    <3>1. PICK k : k = Holder[ever[n]]
      OBVIOUS
    <3>2. k \in Range(Holder)
      BY <2>3, <3>1 DEF Range
    <3>3. Seen(n, k) # {} /\ Max(Seen(n, k)) = n
      <4>1. n \in Seen(n, k) /\ Seen(n, k) \subseteq 1 .. n
        BY <2>2, <2>3, <3>1 DEF Seen
      <4>2. \A y \in Seen(n, k) : y \in Nat /\ y <= n
        BY <1>1, <4>1
      <4>3. \A x \in Seen(n, k) : (\A y \in Seen(n, k) : x >= y) => x = n
        BY <4>1, <4>2
      <4>4. QED
        BY <4>1, <4>2, <4>3 DEF Max
    <3>4. \A h : h # k => Seen(n, h) = Seen(n - 1, h)
      BY <2>2, <3>1
    <3>5. {x \in Range(Holder) : Seen(n, x) # {}}
             = {x \in Range(Holder) : Seen(n - 1, x) # {}} \cup {k}
      BY <3>2, <3>3, <3>4
    <3>6. AccountRows(n) = Put(AccountRows(n - 1), k, ever[n])
      BY <3>3, <3>4, <3>5 DEF AccountRows, Put
    <3>7. QED
      BY <1>4, <2>3, <3>1, <3>6
  <2>4. CASE ever[n] \notin DOMAIN Holder \ Unfit
    <3>1. \A h : Seen(n, h) = Seen(n - 1, h)
      BY <2>2, <2>4
    <3>2. AccountRows(n) = AccountRows(n - 1)
      BY <3>1 DEF AccountRows
    <3>3. QED
      BY <1>4, <2>4, <3>2
  <2>5. QED
    BY <2>3, <2>4
<1>5. QED
  BY <1>3, <1>4

(* One record more: the rows. *)
LEMMA RowsStep ==
  ASSUME NEW n \in Nat \ {0}
  PROVE  /\ n \notin DOMAIN EntryRows(n - 1)
         /\ ever[n] \in Reset \cup DOMAIN Holder \cup Unfit => EntryRows(n) = EntryRows(n - 1)
         /\ ever[n] \notin Reset \cup DOMAIN Holder \cup Unfit =>
               EntryRows(n) = Put(EntryRows(n - 1), n, [rec |-> ever[n], epoch |-> EpochOf(n)])
<1>1. n \notin 1 .. n - 1 /\ 1 .. n = (1 .. n - 1) \cup {n}
  OBVIOUS
<1>2. Rows(n) = Rows(n - 1) \cup
         (IF ever[n] \in Reset \cup DOMAIN Holder \cup Unfit THEN {} ELSE {n})
  BY <1>1 DEF Rows
<1>3. n \notin Rows(n - 1)
  BY <1>1 DEF Rows
<1>4. DOMAIN EntryRows(n - 1) = Rows(n - 1)
      /\ \A m \in Rows(n - 1) : EntryRows(n - 1)[m] = [rec |-> ever[m], epoch |-> EpochOf(m)]
  BY DEF EntryRows
<1>5. CASE ever[n] \in Reset \cup DOMAIN Holder \cup Unfit
  <2>1. Rows(n) = Rows(n - 1)
    BY <1>2, <1>5
  <2>2. QED
    BY <1>3, <1>4, <1>5, <2>1 DEF EntryRows
<1>6. CASE ever[n] \notin Reset \cup DOMAIN Holder \cup Unfit
  <2>1. Rows(n) = Rows(n - 1) \cup {n}
    BY <1>2, <1>6
  <2>2. PICK f : f = EntryRows(n - 1)
    OBVIOUS
  <2>3. EntryRows(n) = [m \in Rows(n - 1) \cup {n} |->
             IF m = n THEN [rec |-> ever[n], epoch |-> EpochOf(n)] ELSE f[m]]
    <3>1. \A m \in Rows(n - 1) \cup {n} : [rec |-> ever[m], epoch |-> EpochOf(m)]
             = IF m = n THEN [rec |-> ever[n], epoch |-> EpochOf(n)] ELSE f[m]
      BY <1>3, <1>4, <2>2
    <3>2. QED
      BY <2>1, <3>1 DEF EntryRows
  <2>4. QED
    BY <1>3, <1>4, <1>6, <2>2, <2>3 DEF Put
<1>7. QED
  BY <1>5, <1>6

(* What applying a record makes of the tables it should. *)
LEMMA TablesStep ==
  ASSUME NEW n \in Nat \ {0}, events[n] = ever[n], NEW t, t = Tables(n - 1)
  PROVE  Tables(n) = IF ever[n] \in Unfit THEN t ELSE Apply(t, n)
<1>1. t.epoch = EpochOf(n - 1) /\ t.accounts = AccountRows(n - 1) /\ t.entries = EntryRows(n - 1)
  BY DEF Tables
<1>2. EpochOf(n) = Epoch(EpochOf(n - 1), ever[n])
  BY Epochs
<1>3. Reset \cap DOMAIN Holder = {} /\ Reset \cap Unfit = {}
  BY ProjectorAssumption
<1>4. CASE ever[n] \in Unfit
  <2>1. EpochOf(n) = EpochOf(n - 1)
    BY <1>2, <1>3, <1>4 DEF Epoch
  <2>2. AccountRows(n) = AccountRows(n - 1) /\ EntryRows(n) = EntryRows(n - 1)
    BY <1>3, <1>4, AccountsStep, RowsStep
  <2>3. QED
    BY <1>4, <2>1, <2>2 DEF Tables
<1>5. CASE ever[n] \notin Unfit
  <2>1. PICK u : u = Apply(t, n)
    OBVIOUS
  <2>2. u = [epoch |-> EpochOf(n),
             accounts |-> CASE ever[n] \in Reset         -> <<>>
                            [] ever[n] \in DOMAIN Holder -> Put(t.accounts, Holder[ever[n]], ever[n])
                            [] OTHER                     -> t.accounts,
             entries |-> IF ever[n] \in Reset \cup DOMAIN Holder THEN t.entries
                         ELSE Row(t.entries, n, [rec |-> ever[n], epoch |-> EpochOf(n)])]
    BY <1>1, <1>2, <2>1 DEF Apply
  <2>3. u.accounts = AccountRows(n)
    <3>1. CASE ever[n] \in Reset
      <4>1. ever[n] \notin DOMAIN Holder
        BY <1>3, <3>1
      <4>2. u.accounts = <<>>
        BY <2>2, <3>1, <4>1
      <4>3. AccountRows(n) = <<>>
        BY <3>1, AccountsStep
      <4>4. QED
        BY <4>2, <4>3
    <3>2. CASE ever[n] \notin Reset /\ ever[n] \in DOMAIN Holder
      BY <1>1, <1>5, <2>2, <3>2, AccountsStep
    <3>3. CASE ever[n] \notin Reset /\ ever[n] \notin DOMAIN Holder
      BY <1>1, <2>2, <3>3, AccountsStep
    <3>4. QED
      BY <3>1, <3>2, <3>3
  <2>4. u.entries = EntryRows(n)
    <3>1. CASE ever[n] \in Reset \cup DOMAIN Holder
      BY <1>1, <2>2, <3>1, RowsStep
    <3>2. CASE ever[n] \notin Reset \cup DOMAIN Holder
      <4>1. n \notin DOMAIN t.entries
        BY <1>1, RowsStep
      <4>2. u.entries = Put(t.entries, n, [rec |-> ever[n], epoch |-> EpochOf(n)])
        BY <2>2, <3>2, <4>1 DEF Row
      <4>3. QED
        BY <1>1, <1>5, <3>2, <4>2, RowsStep
    <3>3. QED
      BY <3>1, <3>2
  <2>5. u = [epoch |-> EpochOf(n), accounts |-> u.accounts, entries |-> u.entries]
    BY <2>2
  <2>6. QED
    BY <1>5, <2>1, <2>3, <2>4, <2>5 DEF Tables
<1>6. QED
  BY <1>4, <1>5

-----------------------------------------------------------------------------
(* The invariant of the tables: the records that have not been taken in    *)
(* are untouched in the table, and what has been made of the others is     *)
(* what it should be.                                                      *)
Untaken ==
    /\ DOMAIN events \subseteq 1 .. Len(ever)
    /\ state.last \in 0 .. Len(ever)
    /\ \A n \in state.last + 1 .. Len(ever) : n \in DOMAIN events /\ events[n] = ever[n]

Made ==
    /\ state.epoch = EpochOf(state.last)
    /\ tables.accounts = AccountRows(state.last)
    /\ tables.entries = EntryRows(state.last)

(* A batch is the records after the last one taken, without a gap. *)
LEMMA Together ==
  ASSUME IInv, Untaken, NEW s, Unseen # {}
  PROVE  \E top \in state.last + 1 .. Len(ever) : ToTake(s) = state.last + 1 .. top
<1>1. PICK last, len : last = state.last /\ len = Len(ever)
  OBVIOUS
<1>2. last \in Nat /\ len \in Nat /\ last <= len
  BY <1>1 DEF IInv, Shape, Untaken
<1>3. Unseen = last + 1 .. len
  BY <1>1, <1>2 DEF Unseen, Untaken
<1>4. PICK limit : limit = IF s \in solo THEN 1 ELSE Batch
  OBVIOUS
<1>5. limit \in Nat \ {0}
  BY <1>4, ProjectorAssumption
<1>6. ASSUME NEW n \in last + 1 .. len
      PROVE  Cardinality({m \in Unseen : m < n}) = n - 1 - last
  <2>1. {m \in Unseen : m < n} = last + 1 .. n - 1
    BY <1>2, <1>3
  <2>2. last + 1 \in Int /\ n - 1 \in Int
    BY <1>2
  <2>3. Cardinality(last + 1 .. n - 1) =
           IF last + 1 > n - 1 THEN 0 ELSE (n - 1) - (last + 1) + 1
    BY <2>2, FS_Interval
  <2>4. Cardinality(last + 1 .. n - 1) = n - 1 - last
    <3>1. (last + 1 > n - 1 => n - 1 - last = 0)
          /\ (n - 1) - (last + 1) + 1 = n - 1 - last
      BY <1>2
    <3>2. QED
      BY <2>3, <3>1
  <2>5. QED
    BY <2>1, <2>4
<1>7. ToTake(s) = {n \in last + 1 .. len : n - 1 - last < limit}
  <2>1. ToTake(s) = {n \in Unseen : Cardinality({m \in Unseen : m < n}) < limit}
    BY <1>4 DEF ToTake
  <2>2. QED
    BY <1>3, <1>6, <2>1
<1>8. last < len
  BY <1>2, <1>3
<1>9. PICK top : top = IF last + limit <= len THEN last + limit ELSE len
  OBVIOUS
<1>10. top \in last + 1 .. len /\ ToTake(s) = last + 1 .. top
  BY <1>2, <1>5, <1>7, <1>8, <1>9
<1>11. QED
  BY <1>1, <1>10

(* Applying a batch makes of the tables what they should be after it. *)
LEMMA AppliedIs ==
  ASSUME IInv, Untaken, Made, NEW top \in state.last + 1 .. Len(ever)
  PROVE  Max(state.last + 1 .. top) = top /\ Applied(state.last + 1 .. top) = Tables(top)
<1>1. PICK last, len : last = state.last /\ len = Len(ever)
  OBVIOUS
<1>2. last \in Nat /\ len \in Nat /\ top \in Nat \ {0} /\ last < top /\ top <= len
  BY <1>1 DEF IInv, Shape, Untaken
<1>3. PICK todo : todo = last + 1 .. top
  OBVIOUS
<1>4. Max(todo) = top
  BY <1>2, <1>3, Largest
<1> DEFINE first == [epoch |-> state.epoch, accounts |-> tables.accounts, entries |-> tables.entries]
           It(h) == h = [n \in last .. top |->
                           IF n = last THEN first
                           ELSE IF n \in todo \ Unheld(todo) THEN Apply(h[n - 1], n) ELSE h[n - 1]]
           it == CHOOSE h : It(h)
           f == [n \in last .. top |-> Tables(n)]
<1>5. first = Tables(last)
  BY <1>1 DEF Made, Tables
<1>6. ASSUME NEW n \in last .. top, n # last
      PROVE  /\ n \in Nat \ {0} /\ n - 1 \in last .. top /\ n \in todo /\ n - 1 # n
             /\ \A t : t = Tables(n - 1) => Tables(n) =
                  IF n \in todo \ Unheld(todo) THEN Apply(t, n) ELSE t
  <2>1. n \in Nat \ {0} /\ n - 1 \in last .. top /\ n \in todo /\ n \in last + 1 .. len
    BY <1>2, <1>3, <1>6
  <2>2. events[n] = ever[n]
    BY <1>1, <2>1 DEF Untaken
  <2>3. n \in Unheld(todo) <=> ever[n] \in Unfit
    BY <2>1, <2>2 DEF Unheld
  <2>4. \A t : t = Tables(n - 1) => Tables(n) = IF ever[n] \in Unfit THEN t ELSE Apply(t, n)
    BY <2>1, <2>2, TablesStep
  <2>5. QED
    BY <2>1, <2>3, <2>4
<1>7. It(f)
  <2>1. ASSUME NEW n \in last .. top
        PROVE  f[n] = IF n = last THEN first
                      ELSE IF n \in todo \ Unheld(todo) THEN Apply(f[n - 1], n) ELSE f[n - 1]
    <3>1. CASE n = last
      BY <1>5, <3>1
    <3>2. CASE n # last
      <4>1. n - 1 \in last .. top
        BY <1>6, <3>2
      <4>2. PICK t : t = f[n - 1]
        OBVIOUS
      <4>3. t = Tables(n - 1) /\ f[n] = Tables(n)
        BY <4>1, <4>2
      <4>4. f[n] = IF n \in todo \ Unheld(todo) THEN Apply(t, n) ELSE t
        BY <1>6, <3>2, <4>3
      <4>5. QED
        BY <3>2, <4>2, <4>4
    <3>3. QED
      BY <3>1, <3>2
  <2>2. f = [n \in last .. top |-> f[n]]
    OBVIOUS
  <2> HIDE DEF f, first
  <2>3. QED
    BY <2>1, <2>2
<1>8. It(it)
  <2> HIDE DEF f, first
  <2>1. \E h : It(h)
    BY <1>7
  <2>2. QED
    BY <2>1
<1> DEFINE S == {k \in Nat : last + k <= top => it[last + k] = Tables(last + k)}
<1>9. 0 \in S
  <2>1. last \in last .. top /\ last + 0 = last
    BY <1>2
  <2> HIDE DEF it, first
  <2>2. it[last] = first
    BY <1>8, <2>1
  <2>3. QED
    BY <1>5, <2>1, <2>2
<1>10. ASSUME NEW k \in Nat, k \in S PROVE k + 1 \in S
  <2> HIDE DEF it
  <2> SUFFICES ASSUME last + (k + 1) <= top
               PROVE  it[last + (k + 1)] = Tables(last + (k + 1))
    OBVIOUS
  <2>1. PICK n : n = last + (k + 1)
    OBVIOUS
  <2>2. n \in last .. top /\ n # last /\ n - 1 = last + k /\ last + k <= top
    BY <1>2, <2>1
  <2>3. PICK t : t = it[n - 1]
    OBVIOUS
  <2>4. t = Tables(n - 1)
    BY <1>10, <2>2, <2>3
  <2>5. it[n] = IF n \in todo \ Unheld(todo) THEN Apply(t, n) ELSE t
    <3> HIDE DEF first
    <3>1. QED
      BY <1>8, <2>2, <2>3
  <2>6. it[n] = Tables(n)
    <3> HIDE DEF first
    <3>1. QED
      BY <1>6, <2>2, <2>4, <2>5
  <2>7. QED
    BY <2>1, <2>6
<1>11. it[top] = Tables(top)
  <2> HIDE DEF S
  <2>1. top - last \in S /\ top - last \in Nat
    BY <1>2, <1>9, <1>10, Numbers
  <2> HIDE DEF it
  <2>2. last + (top - last) = top
    BY <1>2
  <2>3. QED
    BY <1>2, <2>1, <2>2 DEF S
<1>12. Applied(todo) = it[top]
  BY <1>1, <1>4 DEF Applied
<1>13. QED
  BY <1>1, <1>3, <1>4, <1>11, <1>12

(* Nothing has been taken in. *)
LEMMA InitTables == Init => Untaken /\ Made
<1> SUFFICES ASSUME Init PROVE Untaken /\ Made
  OBVIOUS
<1>1. /\ events = <<>> /\ ever = <<>> /\ state.last = 0 /\ state.epoch = 1
      /\ tables.accounts = <<>> /\ tables.entries = <<>>
  BY DEF Init, LogInit
<1>2. Len(ever) = 0 /\ DOMAIN events = {}
  BY <1>1
<1>3. Untaken
  BY <1>1, <1>2 DEF Untaken
<1>4. \A h : Seen(0, h) = {}
  BY DEF Seen
<1>5. AccountRows(0) = <<>>
  BY <1>4 DEF AccountRows
<1>6. EntryRows(0) = <<>>
  <2>1. Rows(0) = {}
    BY DEF Rows
  <2>2. QED
    BY <2>1 DEF EntryRows
<1>7. QED
  BY <1>1, <1>3, <1>5, <1>6, Epochs DEF Made

(* A batch is taken in as a whole. *)
LEMMA TakeInTables ==
  ASSUME IInv, Untaken, Made, NEW s \in Server, TakeIn(s)
  PROVE  (Untaken /\ Made)'
<1>1. PICK top \in state.last + 1 .. Len(ever) : ToTake(s) = state.last + 1 .. top
  BY Together DEF TakeIn
<1>2. PICK t : t = Tables(top)
  OBVIOUS
<1>3. t.epoch = EpochOf(top) /\ t.accounts = AccountRows(top) /\ t.entries = EntryRows(top)
  BY <1>2 DEF Tables
<1>4. /\ tables' = [accounts |-> t.accounts, entries |-> t.entries]
      /\ state' = [last |-> top, epoch |-> t.epoch]
  BY <1>1, <1>2, AppliedIs DEF TakeIn
<1>5. ever' = ever /\ events' = events
  BY DEF TakeIn, logVars
<1>6. Untaken'
  <2>1. state.last \in Nat /\ Len(ever) \in Nat /\ state'.last = top
    BY <1>4 DEF IInv, Shape, Untaken
  <2>2. \A n \in top + 1 .. Len(ever) : n \in state.last + 1 .. Len(ever)
    BY <2>1
  <2>3. QED
    BY <1>5, <2>1, <2>2 DEF Untaken
<1>7. Made'
  <2>1. \A n : EpochOf(n)' = EpochOf(n)
    BY <1>5 DEF EpochOf
  <2>2. AccountRows(top)' = AccountRows(top) /\ EntryRows(top)' = EntryRows(top)
    BY <1>5, <2>1 DEF AccountRows, EntryRows, Seen, Rows
  <2>3. QED
    BY <1>3, <1>4, <2>1, <2>2 DEF Made
<1>8. QED
  BY <1>6, <1>7

(* Records inserted later change nothing of what the earlier ones make. *)
LEMMA EarlierTables ==
  ASSUME Made, state.last \in 0 .. Len(ever), ever \in Seq(Record),
         UNCHANGED <<state, tables>>, \A i \in 1 .. Len(ever) : ever'[i] = ever[i]
  PROVE  Made'
<1>1. PICK last : last = state.last
  OBVIOUS
<1>2. last \in Nat /\ \A n \in 0 .. last : 1 .. n \subseteq 1 .. last /\ 1 .. n \subseteq 1 .. Len(ever)
  BY <1>1
<1>3. \A n \in 0 .. last : EpochOf(n)' = EpochOf(n)
  <2>1. ASSUME NEW n \in 0 .. last
        PROVE  {m \in 1 .. n : ever'[m] \in Reset} = {m \in 1 .. n : ever[m] \in Reset}
    BY <1>2
  <2>2. QED
    BY <2>1 DEF EpochOf
<1>4. last \in 0 .. last /\ \A m \in 1 .. last : m \in 0 .. last /\ ever'[m] = ever[m]
  BY <1>2
<1>5. \A h : Seen(last, h)' = Seen(last, h)
  BY <1>3, <1>4 DEF Seen
<1>6. \A h : Seen(last, h) # {} => Max(Seen(last, h)) \in 1 .. last
  <2> SUFFICES ASSUME NEW h, Seen(last, h) # {} PROVE Max(Seen(last, h)) \in 1 .. last
    OBVIOUS
  <2>1. Seen(last, h) \in SUBSET (1 .. last)
    BY DEF Seen
  <2>2. PICK m \in Seen(last, h) : \A y \in Seen(last, h) : m >= y
    BY <1>2, <2>1, Greatest
  <2>3. Max(Seen(last, h)) \in Seen(last, h)
    BY <2>2 DEF Max
  <2>4. QED
    BY <2>1, <2>3
<1>7. AccountRows(last)' = AccountRows(last)
  <2>1. \A h : Seen(last, h) # {} => ever'[Max(Seen(last, h))] = ever[Max(Seen(last, h))]
    BY <1>4, <1>6
  <2>2. QED
    BY <1>5, <2>1 DEF AccountRows
<1>8. EntryRows(last)' = EntryRows(last)
  <2>1. Rows(last)' = Rows(last) /\ Rows(last) \subseteq 1 .. last
    BY <1>4 DEF Rows
  <2>2. \A m \in Rows(last) : ever'[m] = ever[m] /\ EpochOf(m)' = EpochOf(m)
    BY <1>3, <1>4, <2>1
  <2>3. QED
    BY <2>1, <2>2 DEF EntryRows
<1>9. QED
  BY <1>1, <1>3, <1>4, <1>7, <1>8 DEF Made

(* An insert adds the newest records at the end of the table. *)
LEMMA CommitTables ==
  ASSUME IInv, Untaken, Made, Commit, UNCHANGED projVars
  PROVE  (Untaken /\ Made)'
<1>1. /\ ever' \in Seq(Record) /\ Len(ever) <= Len(ever')
      /\ \A i \in 1 .. Len(ever) : ever'[i] = ever[i]
  BY CommitIInv DEF IInv, Shape
<1>2. ever \in Seq(Record) /\ UNCHANGED <<state, tables>>
  BY DEF IInv, Shape, projVars
<1>3. PICK m, n : m = Len(ever) /\ n = Len(ever')
  OBVIOUS
<1>4. m \in Nat /\ n \in Nat /\ m <= n
  BY <1>1, <1>2, <1>3
<1>5. events' = [i \in DOMAIN events \cup (m + 1 .. n) |->
                   IF i \in DOMAIN events THEN events[i] ELSE ever'[i]]
  BY <1>3 DEF Commit
<1>6. DOMAIN events \subseteq 1 .. m /\ state.last \in 0 .. m
  BY <1>3 DEF Untaken
<1>7. DOMAIN events' \subseteq 1 .. n /\ state.last \in 0 .. n
  BY <1>4, <1>5, <1>6
<1>8. ASSUME NEW i \in state.last + 1 .. n PROVE i \in DOMAIN events' /\ events'[i] = ever'[i]
  <2>1. CASE i <= m
    <3>1. i \in state.last + 1 .. m /\ i \in 1 .. m
      BY <1>4, <1>6, <2>1
    <3>2. i \in DOMAIN events /\ events[i] = ever[i]
      BY <1>3, <3>1 DEF Untaken
    <3>3. QED
      BY <1>1, <1>3, <1>5, <3>1, <3>2
  <2>2. CASE ~(i <= m)
    <3>1. i \in m + 1 .. n /\ i \notin 1 .. m
      BY <1>4, <1>6, <2>2
    <3>2. QED
      BY <1>5, <1>6, <3>1
  <2>3. QED
    BY <2>1, <2>2
<1>9. Untaken'
  BY <1>2, <1>3, <1>7, <1>8 DEF Untaken
<1>10. Made'
  BY <1>1, <1>2, EarlierTables DEF Untaken
<1>11. QED
  BY <1>9, <1>10

(* A start tidies only among the records that have been taken in. *)
LEMMA OpenTables ==
  ASSUME IInv, Untaken, Made, NEW s \in Server, Starts(s)
  PROVE  (Untaken /\ Made)'
<1>1. UNCHANGED <<ever, state, tables>> /\ events' = Compact(state.last)
  BY DEF Starts, Open, projVars
<1>2. PICK stale : stale = {n \in DOMAIN events : n <= state.last /\ events[n] \in Ruled}
  OBVIOUS
<1>3. state.last \in Nat /\ DOMAIN events \subseteq 1 .. Len(ever) /\ Len(ever) \in Nat
  BY DEF IInv, Shape, Untaken
<1>4. stale \in SUBSET Nat /\ stale \subseteq DOMAIN events /\ \A n \in stale : n <= state.last
  BY <1>2, <1>3
<1>5. \/ events' = events
      \/ /\ Min(stale) \in stale
         /\ events' = [n \in (DOMAIN events \ stale) \cup {Min(stale)} |->
                         IF n = Min(stale) THEN events[Max(stale)] ELSE events[n]]
  <2>1. CASE Cardinality(stale) < 2
    BY <1>1, <1>2, <2>1 DEF Compact
  <2>2. CASE ~(Cardinality(stale) < 2)
    <3>1. stale # {}
      BY <2>2, FS_EmptySet
    <3>2. QED
      BY <1>1, <1>2, <1>4, <2>2, <3>1, Smallest DEF Compact
  <2>3. QED
    BY <2>1, <2>2
<1>6. /\ DOMAIN events' \subseteq DOMAIN events
      /\ \A n \in DOMAIN events : n \notin stale => n \in DOMAIN events' /\ events'[n] = events[n]
  BY <1>4, <1>5
<1>7. \A n \in state.last + 1 .. Len(ever) : n \notin stale
  BY <1>3, <1>4
<1>8. Untaken'
  BY <1>1, <1>3, <1>6, <1>7 DEF Untaken
<1>9. Made'
  BY <1>1, EarlierTables DEF IInv, Shape, Untaken
<1>10. QED
  BY <1>8, <1>9

(* Every step keeps the records that are not taken in, and what is made of *)
(* the others.                                                             *)
LEMMA NextTables ==
  ASSUME IInv, Untaken, Made, [Next]_vars
  PROVE  (Untaken /\ Made)'
<1>1. ASSUME UNCHANGED <<events, ever, state, tables>> PROVE (Untaken /\ Made)'
  <2>1. Untaken'
    BY <1>1 DEF Untaken
  <2>2. Made'
    BY <1>1, EarlierTables DEF IInv, Shape, Untaken
  <2>3. QED
    BY <2>1, <2>2
<1>2. ASSUME NEW s \in Server, TakeIn(s) PROVE (Untaken /\ Made)'
  BY <1>2, TakeInTables
<1>3. ASSUME NEW s \in Server, Refused(s) PROVE UNCHANGED <<events, ever, state, tables>>
  BY <1>3, Zenon DEF Refused, logVars
<1>4. ASSUME NEW s \in Server, Starts(s) PROVE (Untaken /\ Made)'
  BY <1>4, OpenTables
<1>5. ASSUME NEW s \in Server, Stops(s) PROVE UNCHANGED <<events, ever, state, tables>>
  BY <1>5 DEF Stops, Kill, Exit
<1>6. ASSUME Commit, UNCHANGED projVars PROVE (Untaken /\ Made)'
  BY <1>6, CommitTables
<1>7. ASSUME NEW s \in Server, NEW r \in Record, AppendRecord(s, r) \/ Enqueue(s, r)
      PROVE  UNCHANGED <<events, ever>>
  BY <1>7 DEF AppendRecord, Enqueue
<1>8. ASSUME NEW s \in Server, WriterStep(s) PROVE UNCHANGED <<events, ever>>
  BY <1>8 DEF WriterStep, Begin, Stored, Split, NextOne, Notice, KeepAlive,
              Reconnect, Break, Drained
<1>9. ASSUME NEW s \in Server, Close(s) \/ Closed(s) \/ Abandoned(s)
      PROVE  UNCHANGED <<events, ever>>
  BY <1>9 DEF Close, Closed, Abandoned
<1>10. ASSUME Reject \/ Cut \/ SessionEnds PROVE UNCHANGED <<events, ever>>
  BY <1>10 DEF Reject, Cut, SessionEnds
<1>11. CASE LogNext /\ UNCHANGED projVars
  <2>1. UNCHANGED <<state, tables>>
    BY <1>11 DEF projVars
  <2>2. Commit \/ UNCHANGED <<events, ever>>
    BY <1>7, <1>8, <1>9, <1>10, <1>11 DEF LogNext
  <2>3. QED
    BY <1>1, <1>6, <1>11, <2>1, <2>2
<1>12. CASE UNCHANGED vars
  BY <1>1, <1>12 DEF vars, logVars, projVars
<1>13. QED
  BY <1>1, <1>2, <1>3, <1>4, <1>5, <1>11, <1>12 DEF Next, ProjStep

(* The tables follow the record up to where the projector has come: a      *)
(* batch is taken in whole or not at all, no record is missed or taken     *)
(* twice, one that does not fit is skipped alone, and tidying at a start   *)
(* takes no record the tables still need (RunOnce, apply, compact).        *)
THEOREM TablesAsRecorded == Spec => []TablesFollow
<1>1. IInv /\ Untaken /\ Made => TablesFollow
  <2> SUFFICES ASSUME IInv, Untaken, Made PROVE TablesFollow
    OBVIOUS
  <2>1. PICK last : last = state.last
    OBVIOUS
  <2>2. \A h : Newest(h) = IF Seen(last, h) = {} THEN {} ELSE {ever[Max(Seen(last, h))]}
    BY <2>1 DEF Newest, Seen
  <2>3. /\ DOMAIN tables.accounts = {x \in Range(Holder) : Seen(last, x) # {}}
        /\ \A h \in DOMAIN tables.accounts : tables.accounts[h] = ever[Max(Seen(last, h))]
    BY <2>1 DEF Made, AccountRows
  <2>4. \A h \in Range(Holder) :
           Newest(h) = IF h \in DOMAIN tables.accounts THEN {tables.accounts[h]} ELSE {}
    BY <2>2, <2>3
  <2>5. /\ DOMAIN tables.entries = Rows(last)
        /\ \A n \in Rows(last) : tables.entries[n] = [rec |-> ever[n], epoch |-> EpochOf(n)]
    BY <2>1 DEF Made, EntryRows
  <2>6. QED
    BY <2>1, <2>4, <2>5 DEF TablesFollow, Rows
<1>2. QED
  BY <1>1, Inductive, InitTables, NextTables, PTL DEF Spec
=============================================================================
