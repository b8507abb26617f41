------------------------------ MODULE Induction ------------------------------
(***************************************************************************)
(* Induction over numbers and over the elements of a sequence, stated with *)
(* sets and functions: what FoldLeft computes, element by element, and     *)
(* sums over sequences and finite sets.                                    *)
(***************************************************************************)
EXTENDS Integers, Lists, FiniteSets, SequenceTheorems,
        FiniteSetTheorems, FunctionTheorems, WellFoundedInduction, TLAPS

(* A set with 0, and with the successor of each of its numbers, has every  *)
(* number.                                                                 *)
LEMMA Numbers ==
  ASSUME NEW S, 0 \in S, \A n \in Nat : n \in S => n + 1 \in S
  PROVE  \A n \in Nat : n \in S
<1> SUFFICES ASSUME Nat \ S # {} PROVE FALSE
  OBVIOUS
<1>1. IsWellFoundedOn(OpToRel(<, Nat), Nat)
  BY NatLessThanWellFounded
<1>2. PICK x \in Nat \ S : \A y \in Nat \ S : ~ (<<y, x>> \in OpToRel(<, Nat))
  BY <1>1, WFMin
<1>3. x # 0 /\ x \in Nat
  OBVIOUS
<1>4. x - 1 \in Nat /\ x - 1 < x /\ (x - 1) + 1 = x
  BY <1>3
<1>5. <<x - 1, x>> \in OpToRel(<, Nat)
  BY <1>3, <1>4 DEF OpToRel
<1>6. x - 1 \in S
  BY <1>2, <1>4, <1>5
<1>7. (x - 1) + 1 \in S
  BY <1>4, <1>6
<1>8. QED
  BY <1>4, <1>7

-----------------------------------------------------------------------------
(* A set of numbers up to n has a largest one. *)
LEMMA Greatest ==
  ASSUME NEW n \in Nat, NEW d \in SUBSET (1 .. n), d # {}
  PROVE  \E m \in d : \A y \in d : m >= y
<1> DEFINE S == {k \in Nat : \A e \in SUBSET (1 .. k) :
                                e # {} => \E m \in e : \A y \in e : m >= y}
<1>1. 0 \in S
  <2>1. \A e \in SUBSET (1 .. 0) : e = {}
    OBVIOUS
  <2>2. QED
    BY <2>1
<1>2. ASSUME NEW k \in Nat, k \in S PROVE k + 1 \in S
  <2> SUFFICES ASSUME NEW e \in SUBSET (1 .. k + 1), e # {}
               PROVE  \E m \in e : \A y \in e : m >= y
    OBVIOUS
  <2>1. CASE k + 1 \in e
    BY <2>1
  <2>2. CASE k + 1 \notin e
    <3>1. \A x \in e : x \in 1 .. k
      BY <2>2
    <3>2. e \in SUBSET (1 .. k)
      BY <3>1
    <3>3. QED
      BY <1>2, <3>2
  <2>3. QED
    BY <2>1, <2>2
<1> HIDE DEF S
<1>3. n \in S
  BY <1>1, <1>2, Numbers
<1>4. QED
  BY <1>3 DEF S

(* A set of numbers has a smallest one. *)
LEMMA Smallest ==
  ASSUME NEW d \in SUBSET Nat, d # {}
  PROVE  Min(d) \in d
<1>1. PICK x \in d : \A y \in d : ~ (<<y, x>> \in OpToRel(<, Nat))
  BY NatLessThanWellFounded, WFMin
<1>2. ASSUME NEW y \in d PROVE x <= y
  <2>1. x \in Nat /\ y \in Nat
    OBVIOUS
  <2>2. y < x => <<y, x>> \in OpToRel(<, Nat)
    BY <2>1 DEF OpToRel
  <2>3. ~(y < x)
    BY <1>1, <2>2
  <2>4. QED
    BY <2>1, <2>3
<1>3. QED
  BY <1>2 DEF Min

(* The largest of 1 .. k is k. *)
LEMMA Largest ==
  ASSUME NEW k \in Nat \ {0}, NEW d \in SUBSET (1 .. k), k \in d
  PROVE  Max(d) = k
<1>1. \A x \in d : (\A y \in d : x >= y) <=> x = k
  OBVIOUS
<1>2. QED
  BY <1>1 DEF Max

(* The numbers up to k are the largest one, k, and those up to the one before. *)
LEMMA UpTo ==
  ASSUME NEW k \in Nat \ {0}, NEW n \in Nat, k <= n
  PROVE  /\ (1 .. k) \ {k} = 1 .. k - 1 /\ 1 .. k # {} /\ 1 .. k \in SUBSET (1 .. n)
         /\ Max(1 .. k) = k
<1>1. \A x : x \in (1 .. k) \ {k} <=> x \in 1 .. k - 1
  OBVIOUS
<1>2. k \in 1 .. k /\ \A x \in 1 .. k : x \in 1 .. n
  OBVIOUS
<1>3. Max(1 .. k) = k
  BY <1>2, Largest
<1>4. (1 .. k) \ {k} = 1 .. k - 1
  BY <1>1, Zenon
<1>5. QED
  BY <1>2, <1>3, <1>4

(* What FoldLeft asks of the function it computes with, for a step G. *)
Steps(G, b, s, f) ==
    f = [d \in SUBSET (DOMAIN s) |->
            IF d = {} THEN b ELSE G[<<f[d \ {Max(d)}], s[Max(d)]>>]]

(* There is such a function. *)
LEMMA StepsExist ==
  ASSUME NEW T, NEW R, NEW b \in T, NEW G \in [T \X R -> T], NEW s \in Seq(R)
  PROVE  \E f : f \in [SUBSET (DOMAIN s) -> T] /\ Steps(G, b, s, f)
<1> DEFINE N == Len(s)
           Good(n, f) == /\ f \in [SUBSET (1 .. n) -> T]
                         /\ \A d \in SUBSET (1 .. n) :
                               f[d] = IF d = {} THEN b ELSE G[<<f[d \ {Max(d)}], s[Max(d)]>>]
           S == {n \in Nat : n <= N => \E f : Good(n, f)}
<1>0. N \in Nat /\ DOMAIN s = 1 .. N /\ \A i \in 1 .. N : s[i] \in R
  OBVIOUS
<1> HIDE DEF N
<1>1. 0 \in S
  <2> DEFINE g == [d \in SUBSET (1 .. 0) |-> b]
  <2>1. g \in [SUBSET (1 .. 0) -> T]
    OBVIOUS
  <2>2. \A d \in SUBSET (1 .. 0) : d = {} /\ g[d] = b
    OBVIOUS
  <2> HIDE DEF g
  <2>3. Good(0, g)
    BY <2>1, <2>2
  <2>4. QED
    BY <2>3
<1>2. ASSUME NEW n \in Nat, n \in S PROVE n + 1 \in S
  <2> HIDE DEF Good
  <2> SUFFICES ASSUME n + 1 <= N PROVE \E f : Good(n + 1, f)
    OBVIOUS
  <2>1. PICK f : Good(n, f)
    BY <1>0, <1>2
  <2> USE DEF Good
  <2> DEFINE g == [d \in SUBSET (1 .. n + 1) |->
                      IF n + 1 \in d THEN G[<<f[d \ {n + 1}], s[n + 1]>>] ELSE f[d]]
  <2>2. \A d \in SUBSET (1 .. n + 1) :
           /\ d \ {n + 1} \in SUBSET (1 .. n)
           /\ n + 1 \notin d => d \in SUBSET (1 .. n)
           /\ n + 1 \in d => Max(d) = n + 1 /\ d # {}
    BY Largest
  <2>3. s[n + 1] \in R
    BY <1>0
  <2>4. \A d \in SUBSET (1 .. n + 1) :
           n + 1 \in d => G[<<f[d \ {n + 1}], s[n + 1]>>] \in T
    BY <2>1, <2>2, <2>3
  <2>5. g \in [SUBSET (1 .. n + 1) -> T]
    BY <2>1, <2>2, <2>4
  <2>6. \A d \in SUBSET (1 .. n) : g[d] = f[d] /\ d \in SUBSET (1 .. n + 1) /\ n + 1 \notin d
    OBVIOUS
  <2>7. \A d \in SUBSET (1 .. n + 1) :
           n + 1 \in d => g[d] = G[<<f[d \ {n + 1}], s[n + 1]>>]
    OBVIOUS
  <2> HIDE DEF g
  <2>8. ASSUME NEW d \in SUBSET (1 .. n + 1)
        PROVE  g[d] = IF d = {} THEN b ELSE G[<<g[d \ {Max(d)}], s[Max(d)]>>]
    <3>1. CASE n + 1 \in d
      <4>1. g[d] = G[<<f[d \ {n + 1}], s[n + 1]>>]
        BY <2>7, <3>1
      <4>2. g[d \ {n + 1}] = f[d \ {n + 1}]
        BY <2>2, <2>6
      <4>3. Max(d) = n + 1 /\ d # {}
        BY <3>1, Largest
      <4>4. QED
        BY <4>1, <4>2, <4>3
    <3>2. CASE n + 1 \notin d
      <4>1. d \in SUBSET (1 .. n) /\ g[d] = f[d]
        BY <2>2, <2>6, <3>2
      <4>2. d \ {Max(d)} \in SUBSET (1 .. n)
        BY <4>1
      <4>3. g[d \ {Max(d)}] = f[d \ {Max(d)}]
        BY <2>6, <4>2
      <4>4. f[d] = IF d = {} THEN b ELSE G[<<f[d \ {Max(d)}], s[Max(d)]>>]
        BY <2>1, <4>1
      <4>5. QED
        BY <4>1, <4>3, <4>4
    <3>3. QED
      BY <3>1, <3>2
  <2>9. QED
    BY <2>5, <2>8
<1> HIDE DEF S, Good
<1>3. N \in S
  BY <1>0, <1>1, <1>2, Numbers
<1>4. PICK f : Good(N, f)
  BY <1>0, <1>3 DEF S
<1>5. QED
  BY <1>0, <1>4 DEF Steps, Good

-----------------------------------------------------------------------------
(* The fold of a sequence by a step that is a function. *)
Folded(G, b, s) == FoldLeft(LAMBDA a, x : G[<<a, x>>], b, s)

Chosen(G, b, s) ==
    CHOOSE f : f = [d \in SUBSET (DOMAIN s) |->
                       IF d = {} THEN b ELSE G[<<f[d \ {Max(d)}], s[Max(d)]>>]]

(* A function that makes the steps one after another, ... *)
Climbs(T, G, b, s, h) ==
    /\ h[{}] = b
    /\ \A k \in 1 .. Len(s) :
          h[1 .. k - 1] \in T => h[1 .. k] = G[<<h[1 .. k - 1], s[k]>>]

(* ... whatever it is, ends where the fold does. *)
LEMMA FoldIs ==
  ASSUME NEW T, NEW R, NEW b \in T, NEW G \in [T \X R -> T], NEW s \in Seq(R), NEW h,
         Climbs(T, G, b, s, h)
  PROVE  h[1 .. Len(s)] = Folded(G, b, s) /\ Folded(G, b, s) \in T
<1> DEFINE N == Len(s)
           f == Chosen(G, b, s)
           S == {n \in Nat : n <= N => h[1 .. n] = f[1 .. n] /\ h[1 .. n] \in T}
<1>1. N \in Nat /\ DOMAIN s = 1 .. N /\ \A i \in 1 .. N : s[i] \in R
  OBVIOUS
<1>2. Steps(G, b, s, f)
  <2>1. \E g : g = [d \in SUBSET (DOMAIN s) |->
                     IF d = {} THEN b ELSE G[<<g[d \ {Max(d)}], s[Max(d)]>>]]
    <3>1. PICK g : Steps(G, b, s, g)
      BY StepsExist
    <3>2. QED
      BY <3>1 DEF Steps
  <2>2. QED
    BY <2>1 DEF Steps, Chosen
<1>3. f[{}] = b /\ 1 .. 0 = {}
  BY <1>2 DEF Steps
<1> HIDE DEF N, f
<1>4. ASSUME NEW k \in 1 .. N PROVE f[1 .. k] = G[<<f[1 .. k - 1], s[k]>>]
  <2>0. k \in Nat \ {0} /\ N \in Nat /\ k <= N
    BY <1>1
  <2>1. /\ (1 .. k) \ {k} = 1 .. k - 1 /\ 1 .. k # {} /\ 1 .. k \in SUBSET (1 .. N)
        /\ Max(1 .. k) = k
    BY <2>0, UpTo
  <2>2. \A d \in SUBSET (1 .. N) :
            f[d] = IF d = {} THEN b ELSE G[<<f[d \ {Max(d)}], s[Max(d)]>>]
    BY <1>1, <1>2 DEF Steps
  <2>3. QED
    BY <2>1, <2>2
<1>5. 0 \in S
  BY <1>3 DEF Climbs
<1>6. ASSUME NEW n \in Nat, n \in S PROVE n + 1 \in S
  <2> SUFFICES ASSUME n + 1 <= N PROVE h[1 .. n + 1] = f[1 .. n + 1] /\ h[1 .. n + 1] \in T
    OBVIOUS
  <2>1. n + 1 \in 1 .. N /\ (n + 1) - 1 = n
    BY <1>1
  <2>2. h[1 .. n] = f[1 .. n] /\ h[1 .. n] \in T
    BY <1>1, <1>6
  <2>3. f[1 .. n + 1] = G[<<f[1 .. n], s[n + 1]>>]
    BY <1>4, <2>1
  <2>4. h[1 .. n + 1] = G[<<h[1 .. n], s[n + 1]>>]
    BY <2>1, <2>2 DEF N, Climbs
  <2>5. G[<<h[1 .. n], s[n + 1]>>] \in T
    BY <1>1, <2>1, <2>2
  <2>6. QED
    BY <2>2, <2>3, <2>4, <2>5
<1> HIDE DEF S
<1>7. N \in S
  BY <1>1, <1>5, <1>6, Numbers
<1>8. h[1 .. N] = f[1 .. N] /\ h[1 .. N] \in T
  BY <1>1, <1>7 DEF S
<1>9. Folded(G, b, s) = f[DOMAIN s]
  BY DEF Folded, FoldLeft, MapThenFoldSet, f, Chosen
<1>10. QED
  BY <1>1, <1>8, <1>9 DEF N

(* A step takes what has been computed and one element to what comes next. *)
IsStep(G, T, R) == G \in [T \X R -> T]

(* A fold begins with its base ... *)
LEMMA FoldBase ==
  ASSUME NEW G, NEW b
  PROVE  Folded(G, b, <<>>) = b
<1> DEFINE f == [d \in {{}} |-> b]
<1>1. DOMAIN <<>> = {} /\ SUBSET {} = {{}}
  OBVIOUS
<1>2. f = [d \in SUBSET (DOMAIN <<>>) |->
              IF d = {} THEN b ELSE G[<<f[d \ {Max(d)}], <<>>[Max(d)]>>]]
  BY <1>1
<1>3. PICK h : /\ h = Chosen(G, b, <<>>)
               /\ h = [d \in SUBSET (DOMAIN <<>>) |->
                         IF d = {} THEN b ELSE G[<<h[d \ {Max(d)}], <<>>[Max(d)]>>]]
  BY <1>2 DEF Chosen
<1>4. h[{}] = b
  BY <1>1, <1>3
<1>5. Folded(G, b, <<>>) = h[DOMAIN <<>>]
  BY <1>3 DEF Folded, FoldLeft, MapThenFoldSet, Chosen
<1>6. QED
  BY <1>1, <1>4, <1>5

(* ... and takes one step for each element. *)
LEMMA FoldSteps ==
  ASSUME NEW T, NEW R, NEW G, IsStep(G, T, R), NEW b, b \in T
  PROVE  /\ \A s \in Seq(R) : Folded(G, b, s) \in T
         /\ \A s \in Seq(R), x \in R :
               Folded(G, b, Append(s, x)) = G[<<Folded(G, b, s), x>>]
<1> USE DEF IsStep
<1>0. ASSUME NEW s \in Seq(R), NEW f, Climbs(T, G, b, s, f)
      PROVE  f[1 .. Len(s)] = Folded(G, b, s) /\ Folded(G, b, s) \in T
  BY <1>0, FoldIs
<1>1. ASSUME NEW s \in Seq(R)
      PROVE  \E f : /\ f[{}] = b /\ f[1 .. Len(s)] = Folded(G, b, s) /\ Folded(G, b, s) \in T
                    /\ \A k \in 1 .. Len(s) : f[1 .. k] = G[<<f[1 .. k - 1], s[k]>>]
  <2>1. PICK f : Steps(G, b, s, f)
    BY StepsExist
  <2>2. Len(s) \in Nat /\ DOMAIN s = 1 .. Len(s)
    OBVIOUS
  <2>3. f[{}] = b
    BY <2>1 DEF Steps
  <2>4. ASSUME NEW k \in 1 .. Len(s) PROVE f[1 .. k] = G[<<f[1 .. k - 1], s[k]>>]
    <3>0. k \in Nat \ {0} /\ Len(s) \in Nat /\ k <= Len(s)
      BY <2>2
    <3>1. /\ (1 .. k) \ {k} = 1 .. k - 1 /\ 1 .. k # {} /\ 1 .. k \in SUBSET (1 .. Len(s))
          /\ Max(1 .. k) = k
      BY <3>0, UpTo
    <3>2. \A d \in SUBSET (1 .. Len(s)) :
              f[d] = IF d = {} THEN b ELSE G[<<f[d \ {Max(d)}], s[Max(d)]>>]
      BY <2>1, <2>2 DEF Steps
    <3>3. QED
      BY <3>1, <3>2
  <2>5. f[1 .. Len(s)] = Folded(G, b, s) /\ Folded(G, b, s) \in T
    <3>1. Climbs(T, G, b, s, f)
      BY <2>3, <2>4 DEF Climbs
    <3>2. QED
      BY <3>1, <1>0
  <2>6. QED
    BY <2>3, <2>4, <2>5
<1>3. ASSUME NEW s \in Seq(R), NEW x \in R
      PROVE  Folded(G, b, Append(s, x)) = G[<<Folded(G, b, s), x>>]
  <2> DEFINE t == Append(s, x)
             n == Len(s)
  <2>1. /\ t \in Seq(R) /\ n \in Nat /\ Len(t) = n + 1 /\ t[n + 1] = x
        /\ \A k \in 1 .. n : t[k] = s[k]
    OBVIOUS
  <2> HIDE DEF t
  <2>2. PICK f : /\ f[{}] = b /\ f[1 .. Len(t)] = Folded(G, b, t)
                 /\ \A k \in 1 .. Len(t) : f[1 .. k] = G[<<f[1 .. k - 1], t[k]>>]
    BY <1>1, <2>1
  <2>3. \A k \in 1 .. n : f[1 .. k] = G[<<f[1 .. k - 1], s[k]>>]
    BY <2>1, <2>2
  <2>4. f[1 .. n] = Folded(G, b, s)
    <3>1. Climbs(T, G, b, s, f)
      BY <2>2, <2>3 DEF Climbs
    <3>2. QED
      BY <3>1, <1>0
  <2>5. f[1 .. n + 1] = G[<<f[1 .. n], x>>]
    <3>1. n + 1 \in 1 .. Len(t) /\ (n + 1) - 1 = n
      BY <2>1
    <3>2. QED
      BY <2>1, <2>2, <3>1
  <2>6. QED
    BY <2>1, <2>2, <2>4, <2>5 DEF t
<1>4. QED
  BY <1>1, <1>3

-----------------------------------------------------------------------------
(* A set with the empty sequence, and with each of its sequences one       *)
(* element longer, has every sequence.                                     *)
LEMMA Elements ==
  ASSUME NEW R, NEW S, <<>> \in S,
         \A s \in Seq(R), x \in R : s \in S => Append(s, x) \in S
  PROVE  \A s \in Seq(R) : s \in S
<1> DEFINE N == {n \in Nat : \A s \in Seq(R) : Len(s) = n => s \in S}
<1>1. 0 \in N
  <2> SUFFICES ASSUME NEW s \in Seq(R), Len(s) = 0 PROVE s \in S
    OBVIOUS
  <2>1. s = <<>>
    OBVIOUS
  <2>2. QED
    BY <2>1
<1>2. ASSUME NEW n \in Nat, n \in N PROVE n + 1 \in N
  <2> SUFFICES ASSUME NEW s \in Seq(R), Len(s) = n + 1 PROVE s \in S
    OBVIOUS
  <2> DEFINE t == SubSeq(s, 1, n)
             u == Append(t, s[n + 1])
  <2>1. s[n + 1] \in R /\ \A i \in 1 .. n : s[i] \in R
    OBVIOUS
  <2>2. t \in Seq(R) /\ Len(t) = n /\ \A i \in 1 .. n : t[i] = s[i]
    BY <2>1, SubSeqProperties
  <2> HIDE DEF t
  <2>3. /\ u \in Seq(R) /\ Len(u) = n + 1 /\ u[n + 1] = s[n + 1]
        /\ \A i \in 1 .. n : u[i] = t[i]
    BY <2>1, <2>2
  <2> HIDE DEF u
  <2>4. \A i \in 1 .. n + 1 : u[i] = s[i]
    BY <2>2, <2>3
  <2>5. u = s
    BY <2>3, <2>4, SeqEqual
  <2>6. t \in S
    BY <1>2, <2>2
  <2>7. u \in S
    BY <2>1, <2>2, <2>6 DEF u
  <2>8. QED
    BY <2>5, <2>7
<1> HIDE DEF N
<1>3. \A n \in Nat : n \in N
  BY <1>1, <1>2, Numbers
<1>4. QED
  BY <1>3 DEF N

-----------------------------------------------------------------------------
(* A sequence's elements that are in a set, one after another. *)
Sifted(f, s, S) ==
    /\ f[{}] = <<>>
    /\ \A k \in 1 .. Len(s) :
          f[1 .. k] = IF s[k] \in S THEN Append(f[1 .. k - 1], s[k]) ELSE f[1 .. k - 1]

LEMMA AmongSteps ==
  ASSUME NEW R, NEW s \in Seq(R), NEW S
  PROVE  \E f : Sifted(f, s, S) /\ Among(s, S) = f[1 .. Len(s)]
<1> DEFINE G == [p \in Seq(R) \X R |-> IF p[2] \in S THEN Append(p[1], p[2]) ELSE p[1]]
           it == CHOOSE h : h = [d \in SUBSET (DOMAIN s) |->
                           IF d = {} THEN <<>>
                           ELSE IF s[Max(d)] \in S THEN Append(h[d \ {Max(d)}], s[Max(d)])
                                ELSE h[d \ {Max(d)}]]
           It(h) == h = [d \in SUBSET (DOMAIN s) |->
                           IF d = {} THEN <<>>
                           ELSE IF s[Max(d)] \in S THEN Append(h[d \ {Max(d)}], s[Max(d)])
                                ELSE h[d \ {Max(d)}]]
<1>1. G \in [Seq(R) \X R -> Seq(R)] /\ <<>> \in Seq(R)
  OBVIOUS
<1>2. \A q \in Seq(R), x \in R : G[<<q, x>>] = IF x \in S THEN Append(q, x) ELSE q
  OBVIOUS
<1> HIDE DEF G
<1>3. PICK f : f \in [SUBSET (DOMAIN s) -> Seq(R)] /\ Steps(G, <<>>, s, f)
  BY <1>1, StepsExist
<1>4. Len(s) \in Nat /\ DOMAIN s = 1 .. Len(s) /\ \A i \in 1 .. Len(s) : s[i] \in R
  OBVIOUS
<1>5. It(f)
  <2>1. ASSUME NEW d \in SUBSET (DOMAIN s), d # {}
        PROVE  G[<<f[d \ {Max(d)}], s[Max(d)]>>]
                  = IF s[Max(d)] \in S THEN Append(f[d \ {Max(d)}], s[Max(d)])
                    ELSE f[d \ {Max(d)}]
    <3>1. Max(d) \in d
      <4>1. PICK m \in d : \A y \in d : m >= y
        BY <1>4, <2>1, Greatest
      <4>2. QED
        BY <4>1 DEF Max
    <3>2. s[Max(d)] \in R /\ f[d \ {Max(d)}] \in Seq(R)
      BY <1>3, <1>4, <3>1
    <3>3. QED
      BY <1>2, <3>2
  <2>2. \A d \in SUBSET (DOMAIN s) :
           (IF d = {} THEN <<>> ELSE G[<<f[d \ {Max(d)}], s[Max(d)]>>])
             = IF d = {} THEN <<>>
               ELSE IF s[Max(d)] \in S THEN Append(f[d \ {Max(d)}], s[Max(d)])
                    ELSE f[d \ {Max(d)}]
    BY <2>1
  <2>3. QED
    BY <1>3, <2>2 DEF Steps
<1>6. It(it)
  BY <1>5
<1>7. Sifted(it, s, S)
  <2>1. it[{}] = <<>>
    BY <1>6
  <2>2. ASSUME NEW k \in 1 .. Len(s)
        PROVE  it[1 .. k] = IF s[k] \in S THEN Append(it[1 .. k - 1], s[k])
                            ELSE it[1 .. k - 1]
    <3>1. /\ (1 .. k) \ {k} = 1 .. k - 1 /\ 1 .. k # {}
          /\ 1 .. k \in SUBSET (1 .. Len(s)) /\ Max(1 .. k) = k
      BY <1>4, UpTo
    <3>2. \A d \in SUBSET (1 .. Len(s)) :
             d # {} => it[d] = IF s[Max(d)] \in S THEN Append(it[d \ {Max(d)}], s[Max(d)])
                               ELSE it[d \ {Max(d)}]
      BY <1>4, <1>6
    <3> HIDE DEF it
    <3>3. QED
      BY <3>1, <3>2
  <2> HIDE DEF it
  <2>3. QED
    BY <2>1, <2>2 DEF Sifted
<1>8. Among(s, S) = it[DOMAIN s]
  BY DEF Among, FoldLeft, MapThenFoldSet
<1>9. PICK h : h = it
  OBVIOUS
<1> HIDE DEF it
<1>10. QED
  BY <1>4, <1>7, <1>8, <1>9

(* They are elements of both, and different if those of the sequence are.  *)
LEMMA AmongIs ==
  ASSUME NEW R, NEW s \in Seq(R), NEW S
  PROVE  /\ Among(s, S) \in Seq(R \cap S)
         /\ \A i \in DOMAIN Among(s, S) : \E j \in DOMAIN s : Among(s, S)[i] = s[j]
         /\ IsInjective(s) => IsInjective(Among(s, S))
<1>1. PICK f : Sifted(f, s, S) /\ Among(s, S) = f[1 .. Len(s)]
  BY AmongSteps
<1>2. Len(s) \in Nat /\ DOMAIN s = 1 .. Len(s) /\ \A i \in 1 .. Len(s) : s[i] \in R
  OBVIOUS
<1> DEFINE Good(n) == /\ f[1 .. n] \in Seq(R \cap S)
                      /\ \A i \in DOMAIN f[1 .. n] : \E j \in 1 .. n : f[1 .. n][i] = s[j]
                      /\ IsInjective(s) => IsInjective(f[1 .. n])
           N == {n \in Nat : n <= Len(s) => Good(n)}
<1>3. 0 \in N
  <2>1. 1 .. 0 = {}
    OBVIOUS
  <2>2. f[1 .. 0] = <<>>
    BY <1>1, <2>1 DEF Sifted
  <2>3. <<>> \in Seq(R \cap S) /\ DOMAIN <<>> = {}
    OBVIOUS
  <2>4. Good(0)
    BY <2>2, <2>3 DEF IsInjective
  <2>5. QED
    BY <2>4
<1>4. ASSUME NEW n \in Nat, n \in N PROVE n + 1 \in N
  <2> SUFFICES ASSUME n + 1 <= Len(s) PROVE Good(n + 1)
    OBVIOUS
  <2>1. Good(n) /\ n + 1 \in 1 .. Len(s) /\ (n + 1) - 1 = n /\ s[n + 1] \in R
    BY <1>2, <1>4
  <2>2. f[1 .. n + 1] = IF s[n + 1] \in S THEN Append(f[1 .. n], s[n + 1]) ELSE f[1 .. n]
    BY <1>1, <2>1 DEF Sifted
  <2>3. PICK t : t = f[1 .. n]
    OBVIOUS
  <2>4. PICK u : u = f[1 .. n + 1]
    OBVIOUS
  <2>5. /\ t \in Seq(R \cap S) /\ \A i \in DOMAIN t : \E j \in 1 .. n : t[i] = s[j]
        /\ IsInjective(s) => IsInjective(t)
    BY <2>1, <2>3
  <2>6. CASE s[n + 1] \in S
    <3>1. u = Append(t, s[n + 1]) /\ s[n + 1] \in R \cap S
      BY <2>1, <2>2, <2>3, <2>4, <2>6
    <3>2. /\ u \in Seq(R \cap S) /\ Len(u) = Len(t) + 1 /\ u[Len(t) + 1] = s[n + 1]
          /\ \A i \in 1 .. Len(t) : u[i] = t[i]
      BY <2>5, <3>1
    <3>3. ASSUME NEW i \in DOMAIN u PROVE \E j \in 1 .. n + 1 : u[i] = s[j]
      <4>1. CASE i = Len(t) + 1
        BY <3>2, <4>1
      <4>2. CASE i # Len(t) + 1
        <5>1. i \in 1 .. Len(t) /\ i \in DOMAIN t
          BY <2>5, <3>2, <4>2
        <5>2. PICK j \in 1 .. n : t[i] = s[j]
          BY <2>5, <5>1
        <5>3. QED
          BY <3>2, <5>1, <5>2
      <4>3. QED
        BY <4>1, <4>2
    <3>4. ASSUME IsInjective(s), NEW i \in DOMAIN u, NEW k \in DOMAIN u, u[i] = u[k]
          PROVE  i = k
      <4>1. \A x \in 1 .. Len(t) : u[x] # s[n + 1]
        <5> SUFFICES ASSUME NEW x \in 1 .. Len(t), u[x] = s[n + 1] PROVE FALSE
          OBVIOUS
        <5>1. x \in DOMAIN t
          BY <2>5
        <5>2. PICK j \in 1 .. n : t[x] = s[j]
          BY <2>5, <5>1
        <5>3. s[j] = s[n + 1] /\ j # n + 1 /\ j \in DOMAIN s /\ n + 1 \in DOMAIN s
          BY <1>2, <2>1, <3>2, <5>2
        <5>4. QED
          BY <3>4, <5>3 DEF IsInjective
      <4>2. DOMAIN u = 1 .. Len(t) + 1 /\ DOMAIN t = 1 .. Len(t) /\ Len(t) \in Nat
        BY <2>5, <3>2
      <4>3. CASE i \in 1 .. Len(t) /\ k \in 1 .. Len(t)
        BY <2>5, <3>2, <3>4, <4>2, <4>3 DEF IsInjective
      <4>4. CASE i = Len(t) + 1 \/ k = Len(t) + 1
        BY <3>2, <3>4, <4>1, <4>2, <4>4
      <4>5. QED
        BY <4>2, <4>3, <4>4
    <3>5. QED
      BY <2>4, <3>2, <3>3, <3>4 DEF IsInjective
  <2>7. CASE s[n + 1] \notin S
    <3>1. u = t
      BY <2>2, <2>3, <2>4, <2>7
    <3>2. QED
      BY <2>4, <2>5, <3>1
  <2>8. QED
    BY <2>6, <2>7
<1> HIDE DEF N, Good
<1>5. Len(s) \in N
  BY <1>2, <1>3, <1>4, Numbers
<1>6. Good(Len(s))
  BY <1>2, <1>5 DEF N
<1>7. QED
  BY <1>1, <1>2, <1>6 DEF Good

(* They come one by one. *)
LEMMA AmongGrows ==
  ASSUME NEW R, NEW S
  PROVE  /\ Among(<<>>, S) = <<>>
         /\ \A s \in Seq(R), x \in R :
               Among(Append(s, x), S)
                  = IF x \in S THEN Append(Among(s, S), x) ELSE Among(s, S)
<1> DEFINE H == [p \in Seq(R) \X R |-> IF p[2] \in S THEN Append(p[1], p[2]) ELSE p[1]]
<1>0. /\ H \in [Seq(R) \X R -> Seq(R)] /\ <<>> \in Seq(R)
      /\ \A q \in Seq(R), x \in R : H[<<q, x>>] = IF x \in S THEN Append(q, x) ELSE q
  OBVIOUS
<1>1. PICK G : G = H
  OBVIOUS
<1> HIDE DEF H
<1>2. /\ G \in [Seq(R) \X R -> Seq(R)] /\ IsStep(G, Seq(R), R) /\ <<>> \in Seq(R)
      /\ \A q \in Seq(R), x \in R : G[<<q, x>>] = IF x \in S THEN Append(q, x) ELSE q
  BY <1>0, <1>1 DEF IsStep
<1>3. ASSUME NEW s \in Seq(R)
      PROVE  Among(s, S) = Folded(G, <<>>, s) /\ Among(s, S) \in Seq(R)
  <2>1. PICK f : Sifted(f, s, S) /\ Among(s, S) = f[1 .. Len(s)]
    BY AmongSteps
  <2>2. Climbs(Seq(R), G, <<>>, s, f)
    <3>1. ASSUME NEW k \in 1 .. Len(s), f[1 .. k - 1] \in Seq(R)
          PROVE  f[1 .. k] = G[<<f[1 .. k - 1], s[k]>>]
      <4>1. s[k] \in R
        OBVIOUS
      <4>2. f[1 .. k] = IF s[k] \in S THEN Append(f[1 .. k - 1], s[k]) ELSE f[1 .. k - 1]
        BY <2>1 DEF Sifted
      <4>3. QED
        BY <1>2, <3>1, <4>1, <4>2
    <3>2. f[{}] = <<>>
      BY <2>1 DEF Sifted
    <3>3. QED
      BY <3>1, <3>2 DEF Climbs
  <2>3. f[1 .. Len(s)] = Folded(G, <<>>, s) /\ Folded(G, <<>>, s) \in Seq(R)
    BY <1>2, <2>2, FoldIs
  <2>4. QED
    BY <2>1, <2>3
<1>4. Among(<<>>, S) = <<>>
  <2>1. <<>> \in Seq(R)
    OBVIOUS
  <2>2. Folded(G, <<>>, <<>>) = <<>>
    BY FoldBase
  <2>3. QED
    BY <1>3, <2>1, <2>2
<1>5. ASSUME NEW s \in Seq(R), NEW x \in R
      PROVE  Among(Append(s, x), S)
                = IF x \in S THEN Append(Among(s, S), x) ELSE Among(s, S)
  <2>1. Folded(G, <<>>, Append(s, x)) = G[<<Folded(G, <<>>, s), x>>]
    <3>1. /\ \A q \in Seq(R) : Folded(G, <<>>, q) \in Seq(R)
          /\ \A q \in Seq(R), y \in R :
                Folded(G, <<>>, Append(q, y)) = G[<<Folded(G, <<>>, q), y>>]
      BY <1>2, FoldSteps
    <3>2. QED
      BY <3>1
  <2>2. Append(s, x) \in Seq(R)
    OBVIOUS
  <2>3. QED
    BY <1>2, <1>3, <2>1, <2>2
<1>6. QED
  BY <1>4, <1>5

-----------------------------------------------------------------------------
(* Sums, of the numbers of a sequence and of what a function gives for the *)
(* members of a finite set.                                                *)
Add == [p \in Int \X Int |-> p[1] + p[2]]

Added(s) == Folded(Add, 0, s)

(* A sum takes its numbers one by one. *)
LEMMA Adding ==
  /\ Added(<<>>) = 0
  /\ \A s \in Seq(Int) : Added(s) \in Int
  /\ \A s \in Seq(Int), x \in Int : Added(Append(s, x)) = Added(s) + x
<1>1. IsStep(Add, Int, Int) /\ 0 \in Int /\ \A a, b \in Int : Add[<<a, b>>] = a + b
  BY DEF IsStep, Add
<1>2. Added(<<>>) = 0
  BY FoldBase DEF Added
<1>3. /\ \A s \in Seq(Int) : Folded(Add, 0, s) \in Int
      /\ \A s \in Seq(Int), x \in Int :
            Folded(Add, 0, Append(s, x)) = Add[<<Folded(Add, 0, s), x>>]
  <2>1. PICK N, z : N = Int /\ z = 0
    OBVIOUS
  <2>2. IsStep(Add, N, N) /\ z \in N
    BY <1>1, <2>1
  <2>3. /\ \A s \in Seq(N) : Folded(Add, z, s) \in N
        /\ \A s \in Seq(N), x \in N :
              Folded(Add, z, Append(s, x)) = Add[<<Folded(Add, z, s), x>>]
    BY <2>2, FoldSteps
  <2>4. QED
    BY <2>1, <2>3
<1>4. QED
  BY <1>1, <1>2, <1>3 DEF Added

(* The sums of the first numbers of a sequence. *)
LEMMA Subtotals ==
  ASSUME NEW s \in Seq(Int)
  PROVE  \E p \in [0 .. Len(s) -> Int] :
            /\ p[0] = 0 /\ p[Len(s)] = Added(s)
            /\ \A k \in 0 .. Len(s) - 1 : p[k + 1] = p[k] + s[k + 1]
<1>1. Len(s) \in Nat /\ \A i \in 1 .. Len(s) : s[i] \in Int
  OBVIOUS
<1>2. PICK p : p = [k \in 0 .. Len(s) |-> Added(SubSeq(s, 1, k))]
  OBVIOUS
<1>3. ASSUME NEW k \in 0 .. Len(s) PROVE SubSeq(s, 1, k) \in Seq(Int)
  BY <1>1
<1>4. p \in [0 .. Len(s) -> Int]
  BY <1>2, <1>3, Adding
<1>5. p[0] = 0
  <2>1. SubSeq(s, 1, 0) = <<>> /\ 0 \in 0 .. Len(s)
    BY <1>1
  <2>2. QED
    BY <1>2, <2>1, Adding
<1>6. p[Len(s)] = Added(s)
  <2>1. SubSeq(s, 1, Len(s)) = s /\ Len(s) \in 0 .. Len(s)
    BY <1>1
  <2>2. QED
    BY <1>2, <2>1
<1>7. ASSUME NEW k \in 0 .. Len(s) - 1 PROVE p[k + 1] = p[k] + s[k + 1]
  <2>1. k \in 0 .. Len(s) /\ k + 1 \in 0 .. Len(s) /\ k + 1 \in 1 .. Len(s)
    BY <1>1
  <2>2. SubSeq(s, 1, k + 1) = Append(SubSeq(s, 1, k), s[k + 1])
    BY <1>1, <2>1
  <2>3. Added(SubSeq(s, 1, k + 1)) = Added(SubSeq(s, 1, k)) + s[k + 1]
    BY <1>1, <1>3, <2>1, <2>2, Adding
  <2>4. QED
    BY <1>2, <2>1, <2>3
<1>8. QED
  BY <1>4, <1>5, <1>6, <1>7

(* Greater numbers have a greater sum. *)
LEMMA SumsCompare ==
  ASSUME NEW s \in Seq(Int), NEW t \in Seq(Int), Len(s) = Len(t)
  PROVE  (\A i \in 1 .. Len(s) : s[i] <= t[i]) => Added(s) <= Added(t)
<1>1. PICK n : n = Len(s) /\ n = Len(t)
  OBVIOUS
<1>2. PICK p \in [0 .. n -> Int] :
         /\ p[0] = 0 /\ p[n] = Added(s) /\ \A k \in 0 .. n - 1 : p[k + 1] = p[k] + s[k + 1]
  BY <1>1, Subtotals
<1>3. PICK q \in [0 .. n -> Int] :
         /\ q[0] = 0 /\ q[n] = Added(t) /\ \A k \in 0 .. n - 1 : q[k + 1] = q[k] + t[k + 1]
  BY <1>1, Subtotals
<1> HAVE \A i \in 1 .. Len(s) : s[i] <= t[i]
<1>4. n \in Nat /\ \A i \in 1 .. n : s[i] \in Int /\ t[i] \in Int /\ s[i] <= t[i]
  BY <1>1
<1> DEFINE S == {k \in Nat : k <= n => p[k] <= q[k]}
<1>5. 0 \in S
  BY <1>2, <1>3
<1>6. ASSUME NEW k \in Nat, k \in S PROVE k + 1 \in S
  <2> SUFFICES ASSUME k + 1 <= n PROVE p[k + 1] <= q[k + 1]
    OBVIOUS
  <2>1. /\ k \in 0 .. n - 1 /\ k + 1 \in 1 .. n /\ k \in 0 .. n /\ p[k] <= q[k]
    BY <1>4, <1>6
  <2>2. /\ p[k + 1] = p[k] + s[k + 1] /\ q[k + 1] = q[k] + t[k + 1]
        /\ p[k] \in Int /\ q[k] \in Int /\ s[k + 1] \in Int /\ t[k + 1] \in Int
        /\ s[k + 1] <= t[k + 1]
    BY <1>2, <1>3, <1>4, <2>1
  <2>3. QED
    BY <2>1, <2>2
<1> HIDE DEF S
<1>7. n \in S
  BY <1>4, <1>5, <1>6, Numbers
<1>8. QED
  BY <1>2, <1>3, <1>4, <1>7 DEF S

(* One number that changes changes the sum by as much. *)
LEMMA SumsDiffer ==
  ASSUME NEW s \in Seq(Int), NEW t \in Seq(Int), Len(s) = Len(t),
         NEW j \in 1 .. Len(s)
  PROVE  (\A i \in 1 .. Len(s) : i # j => s[i] = t[i]) => Added(t) = Added(s) + t[j] - s[j]
<1>1. PICK n : n = Len(s) /\ n = Len(t)
  OBVIOUS
<1>2. PICK p \in [0 .. n -> Int] :
         /\ p[0] = 0 /\ p[n] = Added(s) /\ \A k \in 0 .. n - 1 : p[k + 1] = p[k] + s[k + 1]
  BY <1>1, Subtotals
<1>3. PICK q \in [0 .. n -> Int] :
         /\ q[0] = 0 /\ q[n] = Added(t) /\ \A k \in 0 .. n - 1 : q[k + 1] = q[k] + t[k + 1]
  BY <1>1, Subtotals
<1> HAVE \A i \in 1 .. Len(s) : i # j => s[i] = t[i]
<1>4. /\ n \in Nat /\ \A i \in 1 .. n : s[i] \in Int /\ t[i] \in Int /\ (i # j => s[i] = t[i])
      /\ j \in 1 .. n
  BY <1>1
<1> DEFINE S == {k \in Nat : k <= n => q[k] = p[k] + (IF k < j THEN 0 ELSE t[j] - s[j])}
<1>5. 0 \in S
  BY <1>2, <1>3, <1>4
<1>6. ASSUME NEW k \in Nat, k \in S PROVE k + 1 \in S
  <2> SUFFICES ASSUME k + 1 <= n
               PROVE  q[k + 1] = p[k + 1] + (IF k + 1 < j THEN 0 ELSE t[j] - s[j])
    OBVIOUS
  <2>1. /\ k \in 0 .. n - 1 /\ k + 1 \in 1 .. n /\ k \in 0 .. n
        /\ q[k] = p[k] + (IF k < j THEN 0 ELSE t[j] - s[j])
    BY <1>4, <1>6
  <2>2. /\ p[k + 1] = p[k] + s[k + 1] /\ q[k + 1] = q[k] + t[k + 1]
        /\ p[k] \in Int /\ q[k] \in Int /\ s[k + 1] \in Int /\ t[k + 1] \in Int
        /\ s[j] \in Int /\ t[j] \in Int
    BY <1>2, <1>3, <1>4, <2>1
  <2>3. PICK a, b, c, d, f, g, u, v : /\ a = p[k] /\ b = p[k + 1] /\ c = q[k] /\ d = q[k + 1]
                                      /\ f = s[k + 1] /\ g = t[k + 1] /\ u = s[j] /\ v = t[j]
    OBVIOUS
  <2>4. /\ a \in Int /\ c \in Int /\ f \in Int /\ g \in Int /\ u \in Int /\ v \in Int
        /\ b = a + f /\ d = c + g /\ c = a + (IF k < j THEN 0 ELSE v - u)
    BY <2>1, <2>2, <2>3
  <2>5. /\ k + 1 = j => f = u /\ g = v
        /\ k + 1 # j => f = g
    BY <1>4, <2>1, <2>3
  <2>6. d = b + (IF k + 1 < j THEN 0 ELSE v - u)
    <3>1. CASE k + 1 = j
      BY <2>4, <2>5, <3>1
    <3>2. CASE k + 1 < j
      BY <2>4, <2>5, <3>2
    <3>3. CASE j <= k
      BY <2>4, <2>5, <3>3
    <3>4. QED
      BY <1>4, <3>1, <3>2, <3>3
  <2>7. QED
    BY <2>3, <2>6
<1> HIDE DEF S
<1>7. n \in S
  BY <1>4, <1>5, <1>6, Numbers
<1>8. q[n] = p[n] + t[j] - s[j]
  BY <1>2, <1>4, <1>7 DEF S
<1>9. QED
  BY <1>2, <1>3, <1>8

(* The members of a finite set in some order, each once. *)
Line(S) == CHOOSE e : \E n \in Nat : e \in Bijection(1 .. n, S)

(* The sum of what g gives for the members of its domain. *)
Total(g) == Added([i \in DOMAIN Line(DOMAIN g) |-> g[Line(DOMAIN g)[i]]])

(* The members of a finite set, lined up. *)
LEMMA LinedUp ==
  ASSUME NEW S, IsFiniteSet(S)
  PROVE  \E n \in Nat : /\ Line(S) \in [1 .. n -> S]
                        /\ \A x \in S : \E i \in 1 .. n : Line(S)[i] = x
                        /\ \A i, j \in 1 .. n : Line(S)[i] = Line(S)[j] => i = j
<1>1. \E n \in Nat : Bijection(1 .. n, S) # {}
  BY FS_NatBijection DEF ExistsBijection
<1>2. PICK n \in Nat : Line(S) \in Bijection(1 .. n, S)
  BY <1>1 DEF Line
<1>3. PICK e : e = Line(S) /\ e \in Bijection(1 .. n, S)
  BY <1>2
<1>4. e \in Injection(1 .. n, S) /\ e \in Surjection(1 .. n, S)
  BY <1>3 DEF Bijection
<1>5. e \in [1 .. n -> S] /\ \A x \in S : \E i \in 1 .. n : e[i] = x
  BY <1>4 DEF Surjection
<1>6. \A i, j \in 1 .. n : e[i] = e[j] => i = j
  BY <1>4 DEF Injection, IsInjective
<1>7. QED
  BY <1>3, <1>5, <1>6

(* What is summed: one number for each member. *)
LEMMA TotalIs ==
  ASSUME NEW S, IsFiniteSet(S), NEW g \in [S -> Int], NEW n \in Nat, Line(S) \in [1 .. n -> S]
  PROVE  \E s \in Seq(Int) : /\ Total(g) = Added(s) /\ Len(s) = n
                             /\ \A i \in 1 .. n : s[i] = g[Line(S)[i]]
<1>1. PICK e : e = Line(S) /\ e \in [1 .. n -> S]
  OBVIOUS
<1>2. PICK s : s = [i \in DOMAIN e |-> g[e[i]]]
  OBVIOUS
<1>3. DOMAIN e = 1 .. n /\ \A i \in 1 .. n : g[e[i]] \in Int
  BY <1>1
<1>4. s \in Seq(Int) /\ Len(s) = n /\ \A i \in 1 .. n : s[i] = g[e[i]]
  BY <1>1, <1>2, <1>3
<1>5. Total(g) = Added(s)
  <2>1. DOMAIN g = S
    OBVIOUS
  <2>2. QED
    BY <1>1, <1>2, <2>1 DEF Total
<1>6. QED
  BY <1>1, <1>4, <1>5

(* A sum of numbers is a number. *)
LEMMA TotalType ==
  ASSUME NEW S, IsFiniteSet(S), NEW g \in [S -> Int]
  PROVE  Total(g) \in Int
<1>1. PICK n \in Nat : Line(S) \in [1 .. n -> S]
  BY LinedUp
<1>2. PICK s \in Seq(Int) : Total(g) = Added(s)
  BY <1>1, TotalIs
<1>3. QED
  BY <1>2, Adding

(* One member whose number changes changes the sum by as much. *)
LEMMA TotalsDiffer ==
  ASSUME NEW S, IsFiniteSet(S), NEW g \in [S -> Int], NEW h \in [S -> Int], NEW x \in S
  PROVE  (\A y \in S : y # x => g[y] = h[y]) => Total(h) = Total(g) + h[x] - g[x]
<1>1. PICK n \in Nat : /\ Line(S) \in [1 .. n -> S]
                       /\ \A z \in S : \E i \in 1 .. n : Line(S)[i] = z
                       /\ \A i, j \in 1 .. n : Line(S)[i] = Line(S)[j] => i = j
  BY LinedUp
<1>2. Line(S) \in [1 .. n -> S]
  BY <1>1
<1>3. PICK s \in Seq(Int) : /\ Total(g) = Added(s) /\ Len(s) = n
                            /\ \A i \in 1 .. n : s[i] = g[Line(S)[i]]
  BY <1>2, TotalIs
<1>4. PICK t \in Seq(Int) : /\ Total(h) = Added(t) /\ Len(t) = n
                            /\ \A i \in 1 .. n : t[i] = h[Line(S)[i]]
  BY <1>2, TotalIs
<1> HAVE \A y \in S : y # x => g[y] = h[y]
<1>5. PICK j \in 1 .. n : Line(S)[j] = x
  BY <1>1
<1>6. /\ \A i \in 1 .. n : i # j => s[i] = t[i]
      /\ s[j] = g[x] /\ t[j] = h[x]
  BY <1>1, <1>3, <1>4, <1>5
<1>7. Added(t) = Added(s) + t[j] - s[j]
  <2>1. Len(s) = Len(t) /\ j \in 1 .. Len(s) /\ \A i \in 1 .. Len(s) : i # j => s[i] = t[i]
    BY <1>3, <1>4, <1>6
  <2>2. QED
    BY <2>1, SumsDiffer
<1>8. QED
  BY <1>3, <1>4, <1>6, <1>7

(* Greater numbers have a greater sum. *)
LEMMA TotalsCompare ==
  ASSUME NEW S, IsFiniteSet(S), NEW g \in [S -> Int], NEW h \in [S -> Int]
  PROVE  (\A x \in S : g[x] <= h[x]) => Total(g) <= Total(h)
<1>1. PICK n \in Nat : Line(S) \in [1 .. n -> S]
  BY LinedUp
<1>2. PICK s \in Seq(Int) : /\ Total(g) = Added(s) /\ Len(s) = n
                            /\ \A i \in 1 .. n : s[i] = g[Line(S)[i]]
  BY <1>1, TotalIs
<1>3. PICK t \in Seq(Int) : /\ Total(h) = Added(t) /\ Len(t) = n
                            /\ \A i \in 1 .. n : t[i] = h[Line(S)[i]]
  BY <1>1, TotalIs
<1> HAVE \A x \in S : g[x] <= h[x]
<1>4. Len(s) = Len(t) /\ \A i \in 1 .. Len(s) : s[i] <= t[i]
  BY <1>1, <1>2, <1>3
<1>5. QED
  BY <1>2, <1>3, <1>4, SumsCompare

(* Zeros sum up to zero. *)
LEMMA TotalZero ==
  ASSUME NEW S, IsFiniteSet(S), NEW g \in [S -> Int], \A x \in S : g[x] = 0
  PROVE  Total(g) = 0
<1>1. PICK n \in Nat : Line(S) \in [1 .. n -> S]
  BY LinedUp
<1>2. PICK s \in Seq(Int) : /\ Total(g) = Added(s) /\ Len(s) = n
                            /\ \A i \in 1 .. n : s[i] = g[Line(S)[i]]
  BY <1>1, TotalIs
<1>3. \A i \in 1 .. n : s[i] = 0
  BY <1>1, <1>2
<1>4. PICK p \in [0 .. n -> Int] :
         /\ p[0] = 0 /\ p[n] = Added(s) /\ \A k \in 0 .. n - 1 : p[k + 1] = p[k] + s[k + 1]
  BY <1>2, Subtotals
<1> DEFINE Z == {k \in Nat : k <= n => p[k] = 0}
<1>5. 0 \in Z
  BY <1>4
<1>6. ASSUME NEW k \in Nat, k \in Z PROVE k + 1 \in Z
  <2> SUFFICES ASSUME k + 1 <= n PROVE p[k + 1] = 0
    OBVIOUS
  <2>1. k \in 0 .. n - 1 /\ k + 1 \in 1 .. n /\ p[k] = 0
    BY <1>6
  <2>2. p[k + 1] = p[k] + s[k + 1] /\ s[k + 1] = 0
    BY <1>3, <1>4, <2>1
  <2>3. QED
    BY <2>1, <2>2
<1> HIDE DEF Z
<1>7. n \in Z
  BY <1>5, <1>6, Numbers
<1>8. QED
  BY <1>2, <1>4, <1>7 DEF Z

-----------------------------------------------------------------------------
(* The sum over a function's values, in the order CHOOSE takes them. *)
AnyOf(s) == CHOOSE x \in s : TRUE

Summing(f, S, it) ==
    it = [d \in SUBSET S |-> IF d = {} THEN 0 ELSE f[AnyOf(d)] + it[d \ {AnyOf(d)}]]

(* One member less is one less to count. *)
LEMMA OneLess ==
  ASSUME NEW d, IsFiniteSet(d), NEW n \in Nat, Cardinality(d) <= n + 1, d # {}
  PROVE  /\ AnyOf(d) \in d
         /\ \A x \in d : IsFiniteSet(d \ {x}) /\ Cardinality(d \ {x}) <= n
<1>1. AnyOf(d) \in d
  BY DEF AnyOf
<1>2. ASSUME NEW x \in d PROVE IsFiniteSet(d \ {x}) /\ Cardinality(d \ {x}) <= n
  <2>1. IsFiniteSet(d \ {x}) /\ Cardinality(d \ {x}) = Cardinality(d) - 1
    BY FS_RemoveElement
  <2>2. Cardinality(d) \in Nat
    BY FS_CardinalityType
  <2>3. QED
    BY <2>1, <2>2
<1>3. QED
  BY <1>1, <1>2

(* No member at all is the empty set. *)
LEMMA NoneIsEmpty ==
  ASSUME NEW d, IsFiniteSet(d), Cardinality(d) <= 0
  PROVE  d = {}
<1>1. Cardinality(d) \in Nat
  BY FS_CardinalityType
<1>2. Cardinality(d) = 0
  BY <1>1
<1>3. QED
  BY <1>2, FS_EmptySet

(* There is a function that computes the sum over every part of a finite set. *)
LEMMA SumStepsExist ==
  ASSUME NEW S, IsFiniteSet(S), NEW f, \A x \in S : f[x] \in Int
  PROVE  \E it \in [SUBSET S -> Int] : Summing(f, S, it)
<1> DEFINE P(n) == {d \in SUBSET S : Cardinality(d) <= n}
           Good(n, g) == /\ g \in [P(n) -> Int]
                         /\ \A d \in P(n) :
                               g[d] = IF d = {} THEN 0 ELSE f[AnyOf(d)] + g[d \ {AnyOf(d)}]
           N == {n \in Nat : \E g : Good(n, g)}
<1>1. \A d \in SUBSET S : IsFiniteSet(d) /\ Cardinality(d) \in Nat /\ Cardinality(d) <= Cardinality(S)
  BY FS_Subset, FS_CardinalityType
<1>2. 0 \in N
  <2> DEFINE g == [d \in P(0) |-> 0]
  <2>1. \A d \in P(0) : d = {}
    BY <1>1, NoneIsEmpty
  <2>2. Good(0, g)
    BY <2>1
  <2>3. QED
    BY <2>2
<1>3. ASSUME NEW n \in Nat, n \in N PROVE n + 1 \in N
  <2>1. PICK g : Good(n, g)
    BY <1>3
  <2> DEFINE h == [d \in P(n + 1) |-> IF d = {} THEN 0 ELSE f[AnyOf(d)] + g[d \ {AnyOf(d)}]]
  <2>2. ASSUME NEW d \in P(n + 1), d # {}
        PROVE  AnyOf(d) \in d /\ AnyOf(d) \in S /\ d \ {AnyOf(d)} \in P(n)
    <3>1. IsFiniteSet(d) /\ Cardinality(d) <= n + 1
      BY <1>1
    <3>2. AnyOf(d) \in d /\ Cardinality(d \ {AnyOf(d)}) <= n
      BY <2>2, <3>1, OneLess
    <3>3. QED
      BY <3>2
  <2>3. \A d \in P(n + 1) : h[d] = IF d = {} THEN 0 ELSE f[AnyOf(d)] + g[d \ {AnyOf(d)}]
    OBVIOUS
  <2>4. \A d \in P(n) : d \in P(n + 1)
    BY <1>1
  <2>5. \A d \in P(n) : h[d] = g[d]
    BY <2>1, <2>3, <2>4
  <2>6. \A d \in P(n) : g[d] \in Int
    BY <2>1
  <2>7. h \in [P(n + 1) -> Int]
    <3>1. \A d \in P(n + 1) : (IF d = {} THEN 0 ELSE f[AnyOf(d)] + g[d \ {AnyOf(d)}]) \in Int
      BY <2>2, <2>6
    <3>2. QED
      BY <3>1
  <2> HIDE DEF h
  <2>8. ASSUME NEW d \in P(n + 1)
        PROVE  h[d] = IF d = {} THEN 0 ELSE f[AnyOf(d)] + h[d \ {AnyOf(d)}]
    BY <2>2, <2>3, <2>5
  <2>9. Good(n + 1, h)
    BY <2>7, <2>8
  <2>10. \E i : Good(n + 1, i)
    BY <2>9
  <2> HIDE DEF Good
  <2>11. QED
    BY <2>10
<1>4. Cardinality(S) \in Nat
  BY <1>1
<1> HIDE DEF N
<1>5. Cardinality(S) \in N
  BY <1>2, <1>3, <1>4, Numbers
<1>6. PICK it : Good(Cardinality(S), it)
  BY <1>5 DEF N
<1>7. P(Cardinality(S)) = SUBSET S
  BY <1>1
<1>8. it \in [SUBSET S -> Int]
  BY <1>6, <1>7
<1>9. \A d \in SUBSET S : it[d] = IF d = {} THEN 0 ELSE f[AnyOf(d)] + it[d \ {AnyOf(d)}]
  BY <1>6, <1>7
<1>10. Summing(f, S, it)
  BY <1>8, <1>9 DEF Summing
<1>11. QED
  BY <1>8, <1>10

(* Two such functions agree where what they sum does. *)
LEMMA SumsAgree ==
  ASSUME NEW S, NEW T, NEW f, NEW g, NEW i, NEW j, Summing(f, S, i), Summing(g, T, j),
         NEW D, IsFiniteSet(D), D \subseteq S, D \subseteq T, \A x \in D : f[x] = g[x]
  PROVE  i[D] = j[D]
<1> DEFINE N == {n \in Nat : \A d \in SUBSET D : Cardinality(d) <= n => i[d] = j[d]}
<1>0. /\ \A d \in SUBSET D : IsFiniteSet(d) /\ d \in SUBSET S /\ d \in SUBSET T
      /\ Cardinality(D) \in Nat
  BY FS_Subset, FS_CardinalityType
<1>1. \A d \in SUBSET S : i[d] = IF d = {} THEN 0 ELSE f[AnyOf(d)] + i[d \ {AnyOf(d)}]
  BY DEF Summing
<1>2. \A d \in SUBSET T : j[d] = IF d = {} THEN 0 ELSE g[AnyOf(d)] + j[d \ {AnyOf(d)}]
  BY DEF Summing
<1>3. 0 \in N
  <2>1. ASSUME NEW d \in SUBSET D, Cardinality(d) <= 0 PROVE i[d] = j[d]
    <3>1. d = {}
      BY <1>0, <2>1, NoneIsEmpty
    <3>2. QED
      BY <1>0, <1>1, <1>2, <3>1
  <2>2. QED
    BY <2>1
<1>4. ASSUME NEW n \in Nat, n \in N PROVE n + 1 \in N
  <2>1. ASSUME NEW d \in SUBSET D, Cardinality(d) <= n + 1 PROVE i[d] = j[d]
    <3>1. CASE d = {}
      BY <1>0, <1>1, <1>2, <3>1
    <3>2. CASE d # {}
      <4>1. AnyOf(d) \in d /\ Cardinality(d \ {AnyOf(d)}) <= n
        BY <1>0, <2>1, <3>2, OneLess
      <4>2. i[d \ {AnyOf(d)}] = j[d \ {AnyOf(d)}]
        BY <1>4, <4>1
      <4>3. f[AnyOf(d)] = g[AnyOf(d)]
        BY <4>1
      <4>4. QED
        BY <1>0, <1>1, <1>2, <3>2, <4>2, <4>3
    <3>3. QED
      BY <3>1, <3>2
  <2>2. QED
    BY <2>1
<1> HIDE DEF N
<1>5. Cardinality(D) \in N
  BY <1>0, <1>3, <1>4, Numbers
<1>6. Cardinality(D) <= Cardinality(D)
  BY <1>0
<1>7. QED
  BY <1>5, <1>6 DEF N

AnyOrder(f, S, it) == \A d \in SUBSET S : \A y \in d : it[d] = f[y] + it[d \ {y}]

(* The order does not matter: any member may be added last. *)
LEMMA AnyLast ==
  ASSUME NEW S, IsFiniteSet(S), NEW f, \A x \in S : f[x] \in Int,
         NEW it, \A d \in SUBSET S : it[d] \in Int, Summing(f, S, it)
  PROVE  AnyOrder(f, S, it)
<1> DEFINE N == {n \in Nat : \A d \in SUBSET S : Cardinality(d) <= n =>
                                  \A y \in d : it[d] = f[y] + it[d \ {y}]}
<1>0. /\ \A d \in SUBSET S : IsFiniteSet(d) /\ Cardinality(d) \in Nat /\ it[d] \in Int
      /\ \A d \in SUBSET S : Cardinality(d) <= Cardinality(S)
      /\ Cardinality(S) \in Nat
  BY FS_Subset, FS_CardinalityType
<1>1. \A d \in SUBSET S : d # {} => it[d] = f[AnyOf(d)] + it[d \ {AnyOf(d)}]
  BY DEF Summing
<1>2. 0 \in N
  <2>1. ASSUME NEW d \in SUBSET S, Cardinality(d) <= 0 PROVE d = {}
    BY <1>0, <2>1, NoneIsEmpty
  <2>2. QED
    BY <2>1
<1>3. ASSUME NEW n \in Nat, n \in N PROVE n + 1 \in N
  <2>1. ASSUME NEW d \in SUBSET S, Cardinality(d) <= n + 1, NEW y \in d
        PROVE  it[d] = f[y] + it[d \ {y}]
    <3>1. PICK z : z = AnyOf(d)
      OBVIOUS
    <3>2. /\ z \in d /\ z \in S /\ y \in S /\ Cardinality(d \ {z}) <= n /\ Cardinality(d \ {y}) <= n
      BY <1>0, <2>1, <3>1, OneLess
    <3>3. it[d] = f[z] + it[d \ {z}]
      BY <1>1, <3>1
    <3>4. CASE y = z
      BY <3>3, <3>4
    <3>5. CASE y # z
      <4>1. y \in d \ {z} /\ z \in d \ {y} /\ d \ {z} \in SUBSET S /\ d \ {y} \in SUBSET S
        BY <3>2, <3>5
      <4>2. it[d \ {z}] = f[y] + it[(d \ {z}) \ {y}]
        BY <1>3, <3>2, <4>1
      <4>3. it[d \ {y}] = f[z] + it[(d \ {y}) \ {z}]
        BY <1>3, <3>2, <4>1
      <4>4. PICK e : e = (d \ {z}) \ {y}
        OBVIOUS
      <4>5. (d \ {y}) \ {z} = e /\ e \in SUBSET S
        BY <4>1, <4>4
      <4>6. it[e] \in Int /\ f[y] \in Int /\ f[z] \in Int
        BY <1>0, <3>2, <4>5
      <4>7. it[d \ {z}] = f[y] + it[e] /\ it[d \ {y}] = f[z] + it[e]
        BY <4>2, <4>3, <4>4, <4>5
      <4>8. PICK k \in Int : k = it[e]
        BY <4>6
      <4>9. it[d] = f[z] + (f[y] + k) /\ it[d \ {y}] = f[z] + k
        BY <3>3, <4>7, <4>8
      <4>10. QED
        BY <4>6, <4>9
    <3>6. QED
      BY <3>4, <3>5
  <2>2. QED
    BY <2>1
<1> HIDE DEF N
<1>4. Cardinality(S) \in N
  BY <1>0, <1>2, <1>3, Numbers
<1>5. QED
  BY <1>0, <1>4 DEF N, AnyOrder

(* SumFunction is computed so. *)
LEMMA SumFunctionIs ==
  ASSUME NEW S, IsFiniteSet(S), NEW f, DOMAIN f = S, \A x \in S : f[x] \in Int
  PROVE  \E it \in [SUBSET S -> Int] : Summing(f, S, it) /\ SumFunction(f) = it[S]
<1> DEFINE It(i) == i = [d \in SUBSET S |->
                           IF d = {} THEN 0 ELSE f[CHOOSE x \in d : TRUE] + i[d \ {CHOOSE x \in d : TRUE}]]
           it == CHOOSE i : i = [d \in SUBSET S |->
                           IF d = {} THEN 0 ELSE f[CHOOSE x \in d : TRUE] + i[d \ {CHOOSE x \in d : TRUE}]]
<1>1. PICK j \in [SUBSET S -> Int] : Summing(f, S, j)
  BY SumStepsExist
<1>2. It(j)
  BY <1>1 DEF Summing, AnyOf
<1>3. It(it)
  <2>1. \E i : It(i)
    BY <1>2
  <2> HIDE DEF It
  <2>2. It(CHOOSE i : It(i))
    BY <2>1
  <2>3. QED
    BY <2>2 DEF It
<1>4. SumFunction(f) = it[S]
  BY DEF SumFunction, SumFunctionOnSet, FoldFunctionOnSet, MapThenFoldSet
<1> HIDE DEF it
<1>5. Summing(f, S, it)
  BY <1>3 DEF Summing, AnyOf
<1>6. it[S] = j[S]
  BY <1>1, <1>5, SumsAgree
<1>7. QED
  BY <1>1, <1>4, <1>6

(* A sum of integers is one; of nothing it is zero. *)
LEMMA SumType ==
  ASSUME NEW S, IsFiniteSet(S), NEW f \in [S -> Int]
  PROVE  SumFunction(f) \in Int /\ (S = {} => SumFunction(f) = 0)
<1>1. PICK i \in [SUBSET S -> Int] : Summing(f, S, i) /\ SumFunction(f) = i[S]
  BY SumFunctionIs
<1>2. i[{}] = 0
  BY <1>1 DEF Summing
<1>3. QED
  BY <1>1, <1>2

SumMoves(f, g, S, x) ==
    /\ x \in S => SumFunction(g) = SumFunction(f) + g[x] - f[x]
    /\ x \notin S => SumFunction(g) = SumFunction(f) + g[x]

(* A member that is new, or has another value, changes the sum by that. *)
LEMMA SumChanges ==
  ASSUME NEW S, IsFiniteSet(S), NEW T, NEW x, T = S \cup {x},
         NEW f \in [S -> Int], NEW g \in [T -> Int], \A y \in S : y # x => g[y] = f[y]
  PROVE  SumMoves(f, g, S, x)
<1>1. IsFiniteSet(T) /\ x \in T /\ g \in [T -> Int] /\ T \ {x} = S \ {x}
  BY FS_AddElement
<1>2. PICK i \in [SUBSET S -> Int] : Summing(f, S, i) /\ SumFunction(f) = i[S]
  BY SumFunctionIs
<1>3. PICK j \in [SUBSET T -> Int] : Summing(g, T, j) /\ SumFunction(g) = j[T]
  <2>1. IsFiniteSet(T) /\ DOMAIN g = T /\ \A y \in T : g[y] \in Int
    BY <1>1
  <2>2. QED
    BY <2>1, SumFunctionIs
<1>4. j[T] = g[x] + j[T \ {x}]
  <2>1. \A y \in T : g[y] \in Int
    BY <1>1
  <2>2. T \in SUBSET T /\ x \in T
    BY <1>1
  <2>3. AnyOrder(g, T, j)
    <3>1. \A d \in SUBSET T : j[d] \in Int
      BY <1>3
    <3>2. Summing(g, T, j) /\ IsFiniteSet(T)
      BY <1>1, <1>3
    <3>3. QED
      BY <2>1, <3>1, <3>2, AnyLast
  <2>4. QED
    BY <2>2, <2>3 DEF AnyOrder
<1>5. PICK D : D = S \ {x}
  OBVIOUS
<1>6. IsFiniteSet(D)
  BY <1>5, FS_RemoveElement
<1>7. j[D] = i[D]
  <2>1. D \subseteq S /\ D \subseteq T /\ \A y \in D : f[y] = g[y]
    BY <1>5
  <2>2. QED
    BY <1>2, <1>3, <1>6, <2>1, SumsAgree
<1>8. i[S] = IF x \in S THEN f[x] + i[D] ELSE i[D]
  <2>1. CASE x \in S
    <3>1. \A y \in S : f[y] \in Int
      OBVIOUS
    <3>2. S \in SUBSET S
      OBVIOUS
    <3>3. AnyOrder(f, S, i)
      <4>1. \A d \in SUBSET S : i[d] \in Int
        BY <1>2
      <4>2. QED
        BY <1>2, <3>1, <4>1, AnyLast
    <3>4. QED
      BY <1>5, <2>1, <3>2, <3>3 DEF AnyOrder
  <2>2. CASE x \notin S
    <3>1. D = S
      BY <1>5, <2>2
    <3>2. QED
      BY <2>2, <3>1
  <2>3. QED
    BY <2>1, <2>2
<1>9. i[D] \in Int /\ g[x] \in Int /\ (x \in S => f[x] \in Int)
  BY <1>1, <1>2, <1>5
<1>10. j[T] = g[x] + i[D]
  BY <1>1, <1>4, <1>5, <1>7
<1>11. QED
  BY <1>2, <1>3, <1>8, <1>9, <1>10 DEF SumMoves
=============================================================================
