--------------------------- MODULE SequenceLemmas ---------------------------
(***************************************************************************)
(* Induction over the naturals and over sequences, and the recursive       *)
(* functions on sequences that go from left to right.                      *)
(***************************************************************************)
EXTENDS Integers, FiniteSetsExt, SequencesExt, SequenceTheorems, WellFoundedInduction, TLAPS

Less == {p \in Nat \X Nat : p[1] < p[2]}

LEMMA LessWellFounded == IsWellFoundedOn(Less, Nat)
<1>1. OpToRel(<, Nat) = Less
  BY DEF OpToRel, Less
<1> QED
  BY <1>1, NatLessThanWellFounded

(* Induction, for a set of numbers. *)
LEMMA NatInductionSet ==
    ASSUME NEW S, 0 \in S, \A n \in Nat : n \in S => n + 1 \in S
    PROVE  \A n \in Nat : n \in S
<1> SUFFICES ASSUME Nat \ S # {}
             PROVE  FALSE
  OBVIOUS
<1>1. PICK x \in Nat \ S : \A y \in Nat \ S : <<y, x>> \notin Less
  BY LessWellFounded, WFMin
<1>2. x # 0 /\ x - 1 \in Nat
  OBVIOUS
<1>3. <<x - 1, x>> \in Less
  BY <1>2 DEF Less
<1>4. x - 1 \in S
  BY <1>1, <1>2, <1>3
<1> QED
  BY <1>2, <1>4

(* Induction over sequences, from the left, for a set of sequences. *)
LEMMA SeqInduction ==
    ASSUME NEW T, NEW P, << >> \in P,
           \A s \in Seq(T) : \A e \in T : s \in P => Append(s, e) \in P
    PROVE  \A s \in Seq(T) : s \in P
<1> DEFINE S == {n \in Nat : \A s \in Seq(T) : Len(s) = n => s \in P}
<1>1. 0 \in S
  OBVIOUS
<1>2. ASSUME NEW n \in Nat, n \in S
      PROVE  n + 1 \in S
  <2> SUFFICES ASSUME NEW s \in Seq(T), Len(s) = n + 1
               PROVE  s \in P
    OBVIOUS
  <2> DEFINE f == SubSeq(s, 1, n)
  <2>1. f \in Seq(T) /\ Len(f) = n /\ s[n + 1] \in T /\ s = Append(f, s[n + 1])
    OBVIOUS
  <2> QED
    BY <1>2, <2>1
<1>3. \A n \in Nat : n \in S
  <2> HIDE DEF S
  <2> QED
    BY <1>1, <1>2, NatInductionSet
<1> QED
  BY <1>3

(* A function from the left is what base and step make of a sequence. *)
IsFold(f, D, base, step) ==
    f = [s \in D |-> IF s = << >> THEN base ELSE step[<<f[Front(s)], Last(s)>>]]

(* A non-empty sequence is shorter without its last element. *)
LEMMA FrontLast ==
    ASSUME NEW T, NEW s \in Seq(T), s # << >>
    PROVE  /\ Len(s) \in Nat \ {0}
           /\ Front(s) \in Seq(T) /\ Len(Front(s)) = Len(s) - 1
           /\ Last(s) \in T
           /\ s = Append(Front(s), Last(s))
<1>1. PICK t \in Seq(T), e \in T : s = Append(t, e)
  BY SequenceEmptyOrAppend
<1>2. Len(s) = Len(t) + 1 /\ s[Len(t) + 1] = e /\ \A i \in 1 .. Len(t) : s[i] = t[i]
  BY <1>1, AppendProperties
<1>3. Len(t) \in Nat
  BY LenProperties
<1>4. Front(s) = SubSeq(s, 1, Len(t)) /\ Last(s) = e
  BY <1>2, <1>3 DEF Front, Last
<1>5. SubSeq(s, 1, Len(t)) \in Seq(T) /\ Len(SubSeq(s, 1, Len(t))) = Len(t)
      /\ \A i \in 1 .. Len(t) : SubSeq(s, 1, Len(t))[i] = t[i]
  <2>1. \A i \in 1 .. Len(t) : s[i] \in T
    BY <1>2, ElementOfSeq
  <2>2. /\ SubSeq(s, 1, Len(t)) \in Seq(T)
        /\ Len(SubSeq(s, 1, Len(t))) = IF 1 <= Len(t) THEN Len(t) - 1 + 1 ELSE 0
        /\ \A i \in 1 .. Len(t) - 1 + 1 : SubSeq(s, 1, Len(t))[i] = s[1 + i - 1]
    BY <1>3, <2>1, SubSeqProperties
  <2> QED
    BY <1>2, <1>3, <2>2
<1>6. SubSeq(s, 1, Len(t)) = t
  BY <1>5, SeqEqual
<1> QED
  BY <1>1, <1>2, <1>3, <1>4, <1>6

LEMMA AppendFrontLast ==
    ASSUME NEW T, NEW s \in Seq(T), NEW e \in T
    PROVE  /\ Append(s, e) \in Seq(T) /\ Append(s, e) # << >>
           /\ Front(Append(s, e)) = s /\ Last(Append(s, e)) = e
<1> DEFINE u == Append(s, e)
<1>1. u \in Seq(T) /\ u # << >>
  BY AppendProperties
<1>2. u = Append(Front(u), Last(u)) /\ Front(u) \in Seq(T) /\ Last(u) \in T
  <2> HIDE DEF u
  <2> QED
    BY <1>1, FrontLast
<1>3. Front(u) = s /\ Last(u) = e
  BY <1>2, AppendInjective
<1> QED
  BY <1>1, <1>3

LEMMA ConcatAppend ==
    ASSUME NEW T, NEW s \in Seq(T), NEW t \in Seq(T), NEW e \in T
    PROVE  s \o Append(t, e) = Append(s \o t, e)
<1>1. <<e>> \in Seq(T) /\ s \o t \in Seq(T)
  BY ConcatProperties
<1>2. Append(t, e) = t \o <<e>> /\ Append(s \o t, e) = (s \o t) \o <<e>>
  BY <1>1, AppendIsConcat
<1> QED
  BY <1>1, <1>2, ConcatAssociative

UpTo(T, n) == {s \in Seq(T) : Len(s) <= n}

(* Such a function exists on the sequences up to any length ... *)
LEMMA FoldUpTo ==
    ASSUME NEW T, NEW X, NEW base \in X, NEW step \in [X \X T -> X]
    PROVE  \A n \in Nat : \E f \in [UpTo(T, n) -> X] : IsFold(f, UpTo(T, n), base, step)
<1> DEFINE S == {n \in Nat :
                   \E f \in [UpTo(T, n) -> X] : IsFold(f, UpTo(T, n), base, step)}
<1>1. 0 \in S
  <2> DEFINE f == [s \in UpTo(T, 0) |-> base]
  <2>1. \A s \in UpTo(T, 0) : s = << >>
    BY DEF UpTo
  <2>2. f \in [UpTo(T, 0) -> X] /\ IsFold(f, UpTo(T, 0), base, step)
    BY <2>1 DEF IsFold
  <2> QED
    BY <2>2
<1>2. ASSUME NEW n \in Nat, n \in S
      PROVE  n + 1 \in S
  <2>1. PICK f \in [UpTo(T, n) -> X] : IsFold(f, UpTo(T, n), base, step)
    BY <1>2
  <2> DEFINE g == [s \in UpTo(T, n + 1) |-> IF s = << >> THEN base
                                           ELSE step[<<f[Front(s)], Last(s)>>]]
  <2>2. ASSUME NEW k \in Nat, NEW s \in UpTo(T, k), s # << >>
        PROVE  /\ Front(s) \in UpTo(T, k) /\ Last(s) \in T
               /\ k = n + 1 => Front(s) \in UpTo(T, n)
    <3>1. s \in Seq(T) /\ Len(s) <= k
      BY DEF UpTo
    <3>2. Front(s) \in Seq(T) /\ Len(Front(s)) = Len(s) - 1 /\ Last(s) \in T
      BY <2>2, <3>1, FrontLast
    <3> QED
      BY <3>1, <3>2 DEF UpTo
  <2>3. g \in [UpTo(T, n + 1) -> X]
    <3>1. ASSUME NEW s \in UpTo(T, n + 1), s # << >>
          PROVE  step[<<f[Front(s)], Last(s)>>] \in X
      <4>1. f[Front(s)] \in X /\ Last(s) \in T
        BY <2>1, <2>2, <3>1
      <4> QED
        BY <4>1
    <3> QED
      BY <3>1
  <2>4. ASSUME NEW s \in UpTo(T, n)
        PROVE  g[s] = f[s]
    <3>1. s \in UpTo(T, n + 1)
      BY DEF UpTo
    <3>2. f[s] = IF s = << >> THEN base ELSE step[<<f[Front(s)], Last(s)>>]
      BY <2>1 DEF IsFold
    <3> QED
      BY <3>1, <3>2
  <2>5. ASSUME NEW s \in UpTo(T, n + 1)
        PROVE  g[s] = IF s = << >> THEN base ELSE step[<<g[Front(s)], Last(s)>>]
    <3>1. CASE s = << >>
      BY <3>1
    <3>2. CASE s # << >>
      <4>1. Front(s) \in UpTo(T, n)
        BY <2>2, <3>2
      <4>2. g[Front(s)] = f[Front(s)]
        BY <2>4, <4>1
      <4> QED
        BY <3>2, <4>2
    <3> QED
      BY <3>1, <3>2
  <2> HIDE DEF g
  <2>6. IsFold(g, UpTo(T, n + 1), base, step)
    BY <2>3, <2>5 DEF IsFold
  <2> QED
    BY <2>3, <2>6
<1>3. \A n \in Nat : n \in S
  <2> HIDE DEF S
  <2> QED
    BY <1>1, <1>2, NatInductionSet
<1> QED
  BY <1>3

(* ... two of them agree where both are ... *)
LEMMA FoldUnique ==
    ASSUME NEW T, NEW base, NEW step, NEW D, NEW E, NEW f, NEW g,
           IsFold(f, D, base, step), IsFold(g, E, base, step),
           \A s \in Seq(T) : s # << >> => /\ s \in D => Front(s) \in D
                                          /\ s \in E => Front(s) \in E
    PROVE  \A s \in Seq(T) : s \in D /\ s \in E => f[s] = g[s]
<1> DEFINE P == {s \in Seq(T) : s \in D /\ s \in E => f[s] = g[s]}
<1>1. << >> \in P
  BY DEF IsFold
<1>2. ASSUME NEW s \in Seq(T), NEW e \in T, s \in P
      PROVE  Append(s, e) \in P
  <2>1. /\ Append(s, e) \in Seq(T) /\ Append(s, e) # << >>
        /\ Front(Append(s, e)) = s /\ Last(Append(s, e)) = e
    BY AppendFrontLast
  <2>2. SUFFICES ASSUME Append(s, e) \in D, Append(s, e) \in E
                 PROVE  f[Append(s, e)] = g[Append(s, e)]
    BY <2>1
  <2>3. f[s] = g[s]
    BY <1>2, <2>1, <2>2
  <2>4. f[Append(s, e)] = step[<<f[s], e>>]
    BY <2>1, <2>2 DEF IsFold
  <2>5. g[Append(s, e)] = step[<<g[s], e>>]
    BY <2>1, <2>2 DEF IsFold
  <2> QED
    BY <2>3, <2>4, <2>5
<1>3. \A s \in Seq(T) : s \in P
  <2> HIDE DEF P
  <2> QED
    BY <1>1, <1>2, SeqInduction
<1> QED
  BY <1>3

(* ... and so there is one on all sequences. *)
LEMMA FoldExists ==
    ASSUME NEW T, NEW X, NEW base \in X, NEW step \in [X \X T -> X]
    PROVE  \E f \in [Seq(T) -> X] : IsFold(f, Seq(T), base, step)
<1> DEFINE F(n) == CHOOSE f : /\ f \in [UpTo(T, n) -> X]
                              /\ IsFold(f, UpTo(T, n), base, step)
           g == [s \in Seq(T) |-> F(Len(s))[s]]
<1>1. \A n \in Nat : F(n) \in [UpTo(T, n) -> X] /\ IsFold(F(n), UpTo(T, n), base, step)
  BY FoldUpTo
<1> HIDE DEF F
<1>2. ASSUME NEW m \in Nat, NEW n \in Nat, NEW s \in Seq(T), Len(s) <= m, Len(s) <= n
      PROVE  F(m)[s] = F(n)[s]
  <2>1. ASSUME NEW k \in Nat, NEW t \in Seq(T), t # << >>, t \in UpTo(T, k)
        PROVE  Front(t) \in UpTo(T, k)
    <3>1. Front(t) \in Seq(T) /\ Len(Front(t)) = Len(t) - 1
      BY <2>1, FrontLast
    <3> QED
      BY <2>1, <3>1 DEF UpTo
  <2>2. s \in UpTo(T, m) /\ s \in UpTo(T, n)
    BY <1>2 DEF UpTo
  <2> QED
    BY <1>1, <2>1, <2>2, FoldUnique
<1>0. ASSUME NEW s \in Seq(T)
      PROVE  Len(s) \in Nat /\ s \in UpTo(T, Len(s))
  BY DEF UpTo
<1>3. g \in [Seq(T) -> X]
  BY <1>1, <1>0
<1>4. ASSUME NEW s \in Seq(T)
      PROVE  g[s] = IF s = << >> THEN base ELSE step[<<g[Front(s)], Last(s)>>]
  <2>1. Len(s) \in Nat /\ s \in UpTo(T, Len(s))
    BY <1>0
  <2>2. F(Len(s))[s] = IF s = << >> THEN base
                       ELSE step[<<F(Len(s))[Front(s)], Last(s)>>]
    BY <1>1, <2>1 DEF IsFold
  <2>3. s # << >> => /\ Front(s) \in Seq(T) /\ Len(Front(s)) \in Nat
                     /\ Len(Front(s)) <= Len(s)
    BY FrontLast
  <2>4. s # << >> => F(Len(s))[Front(s)] = g[Front(s)]
    BY <1>2, <2>1, <2>3
  <2> QED
    BY <2>2, <2>4
<1> HIDE DEF g
<1>5. IsFold(g, Seq(T), base, step)
  BY <1>3, <1>4 DEF IsFold
<1> QED
  BY <1>3, <1>5

-----------------------------------------------------------------------------

(* A set of numbers that is not empty has a least one. *)
LEMMA LeastOf ==
    ASSUME NEW T \in SUBSET Nat, T # {}
    PROVE  \E x \in T : \A y \in T : x <= y
<1>1. PICK x \in T : \A y \in T : <<y, x>> \notin Less
  BY LessWellFounded, WFMin
<1>2. ASSUME NEW y \in T
      PROVE  x <= y
  <2>1. x \in Nat /\ y \in Nat
    OBVIOUS
  <2>2. ~ y < x
    BY <1>1, <2>1 DEF Less
  <2> QED
    BY <2>1, <2>2
<1> QED
  BY <1>2

(* The largest of the first n + 1 numbers that are in s, if n + 1 is. *)
LEMMA MaxOf ==
    ASSUME NEW n \in Nat, NEW s \in SUBSET (1 .. n + 1), n + 1 \in s
    PROVE  Max(s) = n + 1
<1>1. \A x \in s : n + 1 >= x
  OBVIOUS
<1>2. \A x \in s : (\A y \in s : x >= y) => x = n + 1
  <2> SUFFICES ASSUME NEW x \in s, \A y \in s : x >= y
               PROVE  x = n + 1
    OBVIOUS
  <2>1. x >= n + 1 /\ n + 1 >= x /\ x \in Nat
    BY <1>1
  <2> QED
    BY <2>1
<1> QED
  BY <1>1, <1>2 DEF Max

(* A set of numbers that has one below n + 1 has all it has below, or n + 1. *)
LEMMA MaxIn ==
    ASSUME NEW n \in Nat, NEW s \in SUBSET (1 .. n), s # {}
    PROVE  Max(s) \in s
<1> DEFINE S == {k \in Nat : \A t \in SUBSET (1 .. k) : t # {} => Max(t) \in t}
<1>1. 0 \in S
  <2>1. \A t \in SUBSET (1 .. 0) : t = {}
    OBVIOUS
  <2> QED
    BY <2>1
<1>2. ASSUME NEW k \in Nat, k \in S
      PROVE  k + 1 \in S
  <2> SUFFICES ASSUME NEW t \in SUBSET (1 .. k + 1), t # {}
               PROVE  Max(t) \in t
    OBVIOUS
  <2>1. CASE k + 1 \in t
    BY <2>1, MaxOf
  <2>2. CASE k + 1 \notin t
    <3>1. t \in SUBSET (1 .. k)
      BY <2>2
    <3> QED
      BY <1>2, <3>1
  <2> QED
    BY <2>1, <2>2
<1>3. \A k \in Nat : k \in S
  <2> HIDE DEF S
  <2> QED
    BY <1>1, <1>2, NatInductionSet
<1> QED
  BY <1>3

(* g folds the elements of seq at the places in a set, the last one last. *)
IsSetFold(g, n, base, step, seq) ==
    g = [s \in SUBSET (1 .. n) |->
            IF s = {} THEN base ELSE step[<<g[s \ {Max(s)}], seq[Max(s)]>>]]

(* A fold over a finite set exists: it is defined by recursion on subsets. *)
LEMMA SetFoldExists ==
    ASSUME NEW T, NEW X, NEW base \in X, NEW step \in [X \X T -> X], NEW seq \in Seq(T)
    PROVE  \E g \in [SUBSET (1 .. Len(seq)) -> X] :
              IsSetFold(g, Len(seq), base, step, seq)
<1> DEFINE Has(n) == \E g \in [SUBSET (1 .. n) -> X] : IsSetFold(g, n, base, step, seq)
           S == {n \in Nat : n <= Len(seq) => Has(n)}
<1>1. 0 \in S
  <2> DEFINE g == [s \in SUBSET (1 .. 0) |-> base]
  <2>1. \A s \in SUBSET (1 .. 0) : s = {}
    OBVIOUS
  <2>2. g \in [SUBSET (1 .. 0) -> X]
    OBVIOUS
  <2>3. IsSetFold(g, 0, base, step, seq)
    BY <2>1 DEF IsSetFold
  <2> HIDE DEF g
  <2>4. Has(0)
    BY <2>2, <2>3
  <2> HIDE DEF Has
  <2> QED
    BY <2>4
<1>2. ASSUME NEW n \in Nat, n \in S
      PROVE  n + 1 \in S
  <2> SUFFICES ASSUME n + 1 <= Len(seq)
               PROVE  Has(n + 1)
    <3> HIDE DEF Has
    <3> QED
      OBVIOUS
  <2>0. Has(n)
    <3> HIDE DEF Has
    <3>1. Len(seq) \in Nat
      BY LenProperties
    <3> QED
      BY <1>2, <3>1
  <2>1. PICK h \in [SUBSET (1 .. n) -> X] : IsSetFold(h, n, base, step, seq)
    BY <2>0
  <2>2. n + 1 \in 1 .. Len(seq) /\ seq[n + 1] \in T
    BY LenProperties, ElementOfSeq
  <2> DEFINE g == [s \in SUBSET (1 .. n + 1) |->
                     IF n + 1 \in s THEN step[<<h[s \ {n + 1}], seq[n + 1]>>] ELSE h[s]]
  <2>3. \A s \in SUBSET (1 .. n + 1) : /\ s \ {n + 1} \in SUBSET (1 .. n)
                                       /\ n + 1 \notin s => s \in SUBSET (1 .. n)
    OBVIOUS
  <2>4. g \in [SUBSET (1 .. n + 1) -> X]
    BY <2>2, <2>3
  <2>5. \A s \in SUBSET (1 .. n) : g[s] = h[s]
    <3> SUFFICES ASSUME NEW s \in SUBSET (1 .. n)
                 PROVE  g[s] = h[s]
      OBVIOUS
    <3>1. s \in SUBSET (1 .. n + 1) /\ n + 1 \notin s
      OBVIOUS
    <3> QED
      BY <3>1
  <2>6. \A s \in SUBSET (1 .. n + 1) :
            g[s] = IF s = {} THEN base ELSE step[<<g[s \ {Max(s)}], seq[Max(s)]>>]
    <3> SUFFICES ASSUME NEW s \in SUBSET (1 .. n + 1)
                 PROVE  g[s] = IF s = {} THEN base ELSE step[<<g[s \ {Max(s)}], seq[Max(s)]>>]
      OBVIOUS
    <3>1. CASE n + 1 \in s
      <4>1. Max(s) = n + 1
        BY <3>1, MaxOf
      <4>2. g[s] = step[<<h[s \ {n + 1}], seq[n + 1]>>]
        BY <3>1
      <4>3. g[s \ {n + 1}] = h[s \ {n + 1}]
        BY <2>3, <2>5
      <4> HIDE DEF g
      <4> QED
        BY <3>1, <4>1, <4>2, <4>3
    <3>2. CASE n + 1 \notin s
      <4>1. s \in SUBSET (1 .. n) /\ g[s] = h[s]
        BY <2>3, <2>5, <3>2
      <4>2. h[s] = IF s = {} THEN base ELSE step[<<h[s \ {Max(s)}], seq[Max(s)]>>]
        BY <2>1, <4>1 DEF IsSetFold
      <4>3. s \ {Max(s)} \in SUBSET (1 .. n)
        BY <4>1
      <4>4. g[s \ {Max(s)}] = h[s \ {Max(s)}]
        BY <2>5, <4>3
      <4> HIDE DEF g
      <4> QED
        BY <4>1, <4>2, <4>4
    <3> QED
      BY <3>1, <3>2
  <2>7. IsSetFold(g, n + 1, base, step, seq)
    <3> HIDE DEF g
    <3>1. g = [s \in SUBSET (1 .. n + 1) |-> g[s]]
      BY <2>4
    <3> QED
      BY <2>6, <3>1, Zenon DEF IsSetFold
  <2> HIDE DEF g
  <2> QED
    BY <2>4, <2>7
<1>3. \A n \in Nat : n \in S
  <2> HIDE DEF S
  <2> QED
    BY <1>1, <1>2, NatInductionSet
<1>4. Len(seq) \in Nat
  BY LenProperties
<1>5. Has(Len(seq))
  <2> HIDE DEF Has
  <2> QED
    BY <1>3, <1>4
<1> QED
  BY <1>5

(* Whatever function goes on like that where it is in X, is in X. *)
(* g folds like that wherever what it builds on is in X. *)
FoldsIn(X, g, base, step, seq) ==
    \A s \in SUBSET (1 .. Len(seq)) :
        IF s = {} THEN g[s] = base
        ELSE g[s \ {Max(s)}] \in X => g[s] = step[<<g[s \ {Max(s)}], seq[Max(s)]>>]

(* A fold over a finite set stays in a set that each of its steps stays in. *)
LEMMA SetFoldType ==
    ASSUME NEW T, NEW X, NEW base \in X, NEW step \in [X \X T -> X], NEW seq \in Seq(T),
           NEW g, FoldsIn(X, g, base, step, seq)
    PROVE  g[1 .. Len(seq)] \in X
<1>1. Len(seq) \in Nat /\ \A i \in 1 .. Len(seq) : seq[i] \in T
  BY LenProperties, ElementOfSeq
<1>2. \A s \in SUBSET (1 .. Len(seq)) :
         IF s = {} THEN g[s] = base
         ELSE g[s \ {Max(s)}] \in X => g[s] = step[<<g[s \ {Max(s)}], seq[Max(s)]>>]
  BY Zenon DEF FoldsIn
<1> DEFINE S == {n \in Nat : n <= Len(seq) => \A s \in SUBSET (1 .. n) : g[s] \in X}
<1>3. 0 \in S
  <2>1. \A s \in SUBSET (1 .. 0) : s = {} /\ s \in SUBSET (1 .. Len(seq))
    OBVIOUS
  <2> QED
    BY <1>2, <2>1
<1>4. ASSUME NEW n \in Nat, n \in S
      PROVE  n + 1 \in S
  <2> SUFFICES ASSUME n + 1 <= Len(seq), NEW s \in SUBSET (1 .. n + 1)
               PROVE  g[s] \in X
    OBVIOUS
  <2>1. n <= Len(seq) /\ \A t \in SUBSET (1 .. n) : g[t] \in X
    BY <1>1, <1>4
  <2>2. CASE n + 1 \notin s
    <3>1. s \in SUBSET (1 .. n)
      BY <2>2
    <3> QED
      BY <2>1, <3>1
  <2>3. CASE n + 1 \in s
    <3>1. Max(s) = n + 1 /\ s # {}
      BY <2>3, MaxOf
    <3>2. s \ {n + 1} \in SUBSET (1 .. n) /\ s \in SUBSET (1 .. Len(seq))
      BY <1>1
    <3>3. g[s \ {n + 1}] \in X /\ seq[n + 1] \in T
      BY <1>1, <2>1, <3>2
    <3>4. g[s] = step[<<g[s \ {n + 1}], seq[n + 1]>>]
      BY <1>2, <3>1, <3>2, <3>3
    <3> QED
      BY <3>3, <3>4
  <2> QED
    BY <2>2, <2>3
<1>5. \A n \in Nat : n \in S
  <2> HIDE DEF S
  <2> QED
    BY <1>3, <1>4, NatInductionSet
<1> QED
  BY <1>1, <1>5

-----------------------------------------------------------------------------
(* What is in a sequence that is put together from others. *)

(* The elements of two sequences one after the other. *)
LEMMA ToSetConcat ==
    ASSUME NEW T, NEW s \in Seq(T), NEW t \in Seq(T)
    PROVE  s \o t \in Seq(T) /\ ToSet(s \o t) = ToSet(s) \cup ToSet(t)
<1> DEFINE u == s \o t
           m == Len(s)
           n == Len(t)
<1>1. m \in Nat /\ n \in Nat /\ DOMAIN s = 1 .. m /\ DOMAIN t = 1 .. n
  BY LenProperties
<1>2. /\ u \in Seq(T) /\ Len(u) = m + n /\ DOMAIN u = 1 .. m + n
      /\ \A i \in 1 .. m + n : u[i] = IF i <= m THEN s[i] ELSE t[i - m]
  BY ConcatProperties, LenProperties
<1> HIDE DEF u, m, n
<1>3. \A i \in DOMAIN u : u[i] \in ToSet(s) \cup ToSet(t)
  <2> SUFFICES ASSUME NEW i \in DOMAIN u
               PROVE  u[i] \in ToSet(s) \cup ToSet(t)
    OBVIOUS
  <2>1. CASE i <= m
    BY <1>1, <1>2, <2>1 DEF ToSet
  <2>2. CASE ~ i <= m
    <3>1. i - m \in DOMAIN t /\ u[i] = t[i - m]
      BY <1>1, <1>2, <2>2
    <3> QED
      BY <3>1 DEF ToSet
  <2> QED
    BY <2>1, <2>2
<1>4. \A i \in DOMAIN s : i \in DOMAIN u /\ u[i] = s[i]
  BY <1>1, <1>2
<1>5. \A i \in DOMAIN t : m + i \in DOMAIN u /\ u[m + i] = t[i]
  BY <1>1, <1>2
<1>6. ToSet(u) = ToSet(s) \cup ToSet(t)
  BY <1>3, <1>4, <1>5 DEF ToSet
<1> QED
  BY <1>2, <1>6 DEF u

(* f[i] is the first i of the sequences, one after the other. *)
IsFlatten(f, seqs) ==
    f = [i \in 1 .. Len(seqs) |-> IF i = 1 THEN seqs[i] ELSE f[i - 1] \o seqs[i]]

(* The function that FlattenSeq chooses exists. *)
LEMMA FlattenExists ==
    ASSUME NEW T, NEW seqs \in Seq(Seq(T))
    PROVE  \E f : IsFlatten(f, seqs)
<1>1. Len(seqs) \in Nat /\ \A i \in 1 .. Len(seqs) : seqs[i] \in Seq(T)
  BY LenProperties, ElementOfSeq
<1> DEFINE Next(f, i) == IF i = 1 THEN seqs[i] ELSE f[i - 1] \o seqs[i]
           Has(n) == \E f \in [1 .. n -> Seq(T)] : f = [i \in 1 .. n |-> Next(f, i)]
           S == {n \in Nat : n <= Len(seqs) => Has(n)}
<1>2. 0 \in S
  <2> DEFINE f == [i \in 1 .. 0 |-> << >>]
  <2>1. f \in [1 .. 0 -> Seq(T)]
    OBVIOUS
  <2>2. f = [i \in 1 .. 0 |-> Next(f, i)]
    OBVIOUS
  <2> HIDE DEF f
  <2>3. Has(0)
    BY <2>1, <2>2
  <2> HIDE DEF Has
  <2> QED
    BY <2>3
<1>3. ASSUME NEW n \in Nat, n \in S
      PROVE  n + 1 \in S
  <2> SUFFICES ASSUME n + 1 <= Len(seqs)
               PROVE  Has(n + 1)
    <3> HIDE DEF Has
    <3> QED
      OBVIOUS
  <2>0. Has(n)
    <3> HIDE DEF Has
    <3> QED
      BY <1>1, <1>3
  <2>1. PICK f \in [1 .. n -> Seq(T)] : f = [i \in 1 .. n |-> Next(f, i)]
    BY <2>0
  <2>2. \A i \in 1 .. n : f[i] = Next(f, i)
    BY <2>1
  <2> DEFINE new == Next(f, n + 1)
             g == [i \in 1 .. n + 1 |-> IF i = n + 1 THEN new ELSE f[i]]
  <2>3. new \in Seq(T)
    <3>1. seqs[n + 1] \in Seq(T)
      BY <1>1
    <3>2. n # 0 => f[(n + 1) - 1] \in Seq(T)
      OBVIOUS
    <3>3. n # 0 => f[(n + 1) - 1] \o seqs[n + 1] \in Seq(T)
      BY <3>1, <3>2, ConcatProperties
    <3> QED
      BY <3>1, <3>3
  <2> HIDE DEF new
  <2>4. g \in [1 .. n + 1 -> Seq(T)]
    BY <2>3
  <2>5. /\ \A i \in 1 .. n : g[i] = f[i]
        /\ g[n + 1] = new
    OBVIOUS
  <2>6. \A i \in 1 .. n + 1 : g[i] = Next(g, i)
    <3> SUFFICES ASSUME NEW i \in 1 .. n + 1
                 PROVE  g[i] = Next(g, i)
      OBVIOUS
    <3> HIDE DEF g
    <3>1. CASE i = 1 /\ i # n + 1
      <4>1. i \in 1 .. n
        BY <3>1
      <4>2. g[i] = f[i] /\ f[i] = Next(f, i)
        BY ONLY <2>2, <2>5, <4>1
      <4> QED
        BY <3>1, <4>2
    <3>2. CASE i = 1 /\ i = n + 1
      BY <2>5, <3>2 DEF new
    <3>3. CASE i # 1
      <4>1. i - 1 \in 1 .. n /\ g[i - 1] = f[i - 1]
        BY <2>5, <3>3
      <4>2. CASE i = n + 1
        BY <2>5, <3>3, <4>1, <4>2 DEF new
      <4>3. CASE i # n + 1
        <5>1. i \in 1 .. n
          BY <4>3
        <5>2. g[i] = f[i] /\ f[i] = Next(f, i)
          BY ONLY <2>2, <2>5, <5>1
        <5> QED
          BY <3>3, <4>1, <5>2
      <4> QED
        BY <4>2, <4>3
    <3> QED
      BY <3>1, <3>2, <3>3
  <2>7. g = [i \in 1 .. n + 1 |-> Next(g, i)]
    <3> HIDE DEF g
    <3>1. g = [i \in 1 .. n + 1 |-> g[i]]
      BY <2>4
    <3> HIDE DEF Next
    <3> QED
      BY <2>6, <3>1, Zenon
  <2> HIDE DEF g
  <2> QED
    BY <2>4, <2>7
<1>4. \A n \in Nat : n \in S
  <2> HIDE DEF S
  <2> QED
    BY <1>2, <1>3, NatInductionSet
<1>5. Has(Len(seqs))
  <2> HIDE DEF Has
  <2> QED
    BY <1>1, <1>4
<1> QED
  BY <1>5 DEF IsFlatten

(* The elements of the sequences are those of their concatenation. *)
LEMMA FlattenElements ==
    ASSUME NEW T, NEW seqs \in Seq(Seq(T))
    PROVE  /\ FlattenSeq(seqs) \in Seq(T)
           /\ ToSet(FlattenSeq(seqs)) = UNION {ToSet(seqs[i]) : i \in 1 .. Len(seqs)}
<1> DEFINE f == CHOOSE f : IsFlatten(f, seqs)
           All(n) == UNION {ToSet(seqs[i]) : i \in 1 .. n}
<1>1. Len(seqs) \in Nat /\ \A i \in 1 .. Len(seqs) : seqs[i] \in Seq(T)
  BY LenProperties, ElementOfSeq
<1>2. IsFlatten(f, seqs)
  BY FlattenExists
<1>3. FlattenSeq(seqs) = IF Len(seqs) = 0 THEN seqs ELSE f[Len(seqs)]
  BY DEF FlattenSeq, IsFlatten
<1> HIDE DEF f
<1>4. \A i \in 1 .. Len(seqs) : f[i] = IF i = 1 THEN seqs[i] ELSE f[i - 1] \o seqs[i]
  BY <1>2, Zenon DEF IsFlatten
<1> DEFINE S == {n \in Nat : n # 0 /\ n <= Len(seqs) =>
                                f[n] \in Seq(T) /\ ToSet(f[n]) = All(n)}
<1>5. 0 \in S
  OBVIOUS
<1>6. ASSUME NEW n \in Nat, n \in S
      PROVE  n + 1 \in S
  <2> SUFFICES ASSUME n + 1 <= Len(seqs)
               PROVE  f[n + 1] \in Seq(T) /\ ToSet(f[n + 1]) = All(n + 1)
    <3> HIDE DEF All
    <3> QED
      OBVIOUS
  <2>1. n + 1 \in 1 .. Len(seqs) /\ seqs[n + 1] \in Seq(T)
    BY <1>1
  <2>2. All(n + 1) = All(n) \cup ToSet(seqs[n + 1])
    <3>1. 1 .. n + 1 = (1 .. n) \cup {n + 1}
      OBVIOUS
    <3> QED
      BY <3>1
  <2>3. CASE n = 0
    <3>1. All(n) = {}
      BY <2>3
    <3>2. f[n + 1] = seqs[n + 1]
      <4>1. n + 1 = 1
        BY <2>3
      <4> QED
        BY <1>4, <2>1, <4>1
    <3> HIDE DEF All
    <3> QED
      BY <2>1, <2>2, <3>1, <3>2
  <2>4. CASE n # 0
    <3> HIDE DEF All
    <3>1. f[n] \in Seq(T) /\ ToSet(f[n]) = All(n)
      BY <1>1, <1>6, <2>4
    <3>2. f[n + 1] = f[n] \o seqs[n + 1]
      <4>1. n + 1 # 1 /\ (n + 1) - 1 = n
        BY <2>4
      <4> QED
        BY <1>4, <2>1, <4>1
    <3>3. /\ f[n] \o seqs[n + 1] \in Seq(T)
          /\ ToSet(f[n] \o seqs[n + 1]) = ToSet(f[n]) \cup ToSet(seqs[n + 1])
      BY <2>1, <3>1, ToSetConcat
    <3> QED
      BY <2>2, <3>1, <3>2, <3>3, Zenon
  <2> QED
    BY <2>3, <2>4
<1>7. \A n \in Nat : n \in S
  <2> HIDE DEF S
  <2> QED
    BY <1>5, <1>6, NatInductionSet
<1>8. CASE Len(seqs) = 0
  <2>1. All(Len(seqs)) = {}
    BY <1>8
  <2>2. seqs = << >> /\ FlattenSeq(seqs) = seqs
    BY <1>3, <1>8, EmptySeq
  <2>3. << >> \in Seq(T) /\ ToSet(<< >>) = {}
    BY DEF ToSet
  <2> HIDE DEF All
  <2>4. FlattenSeq(seqs) \in Seq(T) /\ ToSet(FlattenSeq(seqs)) = All(Len(seqs))
    BY <2>1, <2>2, <2>3
  <2> QED
    BY <2>4 DEF All
<1>9. CASE Len(seqs) # 0
  <2> HIDE DEF All
  <2>1. FlattenSeq(seqs) \in Seq(T) /\ ToSet(FlattenSeq(seqs)) = All(Len(seqs))
    BY <1>1, <1>3, <1>7, <1>9
  <2> QED
    BY <2>1 DEF All
<1> QED
  BY <1>8, <1>9

(* One more sequence goes to the end of their concatenation. *)
LEMMA FlattenAppend ==
    ASSUME NEW T, NEW seqs \in Seq(Seq(T)), NEW s \in Seq(T)
    PROVE  FlattenSeq(Append(seqs, s)) = FlattenSeq(seqs) \o s
<1> DEFINE all == Append(seqs, s)
           n == Len(seqs)
           f == CHOOSE f : IsFlatten(f, seqs)
           g == CHOOSE g : IsFlatten(g, all)
<1>1. n \in Nat /\ \A i \in 1 .. n : seqs[i] \in Seq(T)
  BY LenProperties, ElementOfSeq
<1>2. /\ all \in Seq(Seq(T)) /\ Len(all) = n + 1 /\ all[n + 1] = s
      /\ \A i \in 1 .. n : all[i] = seqs[i]
  BY AppendProperties
<1> HIDE DEF all, n
<1>3. IsFlatten(f, seqs) /\ IsFlatten(g, all)
  BY <1>2, FlattenExists
<1>4. /\ FlattenSeq(seqs) = IF n = 0 THEN seqs ELSE f[n]
      /\ FlattenSeq(all) = IF Len(all) = 0 THEN all ELSE g[Len(all)]
  BY DEF FlattenSeq, IsFlatten, n
<1> HIDE DEF f, g
<1>5. /\ \A i \in 1 .. n : f[i] = IF i = 1 THEN seqs[i] ELSE f[i - 1] \o seqs[i]
      /\ \A i \in 1 .. n + 1 : g[i] = IF i = 1 THEN all[i] ELSE g[i - 1] \o all[i]
  <2>1. \A i \in 1 .. Len(seqs) : f[i] = IF i = 1 THEN seqs[i] ELSE f[i - 1] \o seqs[i]
    BY <1>3, Zenon DEF IsFlatten
  <2>2. \A i \in 1 .. Len(all) : g[i] = IF i = 1 THEN all[i] ELSE g[i - 1] \o all[i]
    BY <1>3, Zenon DEF IsFlatten
  <2> QED
    BY <1>2, <2>1, <2>2 DEF n
<1> DEFINE S == {k \in Nat : k # 0 /\ k <= n => f[k] = g[k]}
<1>6. 0 \in S
  OBVIOUS
<1>7. ASSUME NEW k \in Nat, k \in S
      PROVE  k + 1 \in S
  <2> SUFFICES ASSUME k + 1 <= n
               PROVE  f[k + 1] = g[k + 1]
    OBVIOUS
  <2>1. k + 1 \in 1 .. n /\ k + 1 \in 1 .. n + 1 /\ (k + 1) - 1 = k
    BY <1>1
  <2>2. all[k + 1] = seqs[k + 1]
    BY <1>2, <2>1
  <2>3. CASE k = 0
    <3>1. k + 1 = 1
      BY <2>3
    <3> QED
      BY <1>5, <2>1, <2>2, <3>1
  <2>4. CASE k # 0
    <3>1. k + 1 # 1 /\ f[k] = g[k]
      BY <1>1, <1>7, <2>4
    <3>2. f[k + 1] = f[k] \o seqs[k + 1] /\ g[k + 1] = g[k] \o all[k + 1]
      BY <1>5, <2>1, <3>1
    <3> QED
      BY <2>2, <3>1, <3>2
  <2> QED
    BY <2>3, <2>4
<1>8. \A k \in Nat : k \in S
  <2> HIDE DEF S
  <2> QED
    BY <1>6, <1>7, NatInductionSet
<1>9. n + 1 # 0 /\ n + 1 \in 1 .. n + 1 /\ (n + 1) - 1 = n /\ FlattenSeq(all) = g[n + 1]
  BY <1>1, <1>2, <1>4
<1>10. CASE n = 0
  <2>1. seqs = << >> /\ n + 1 = 1
    BY <1>10, EmptySeq DEF n
  <2>2. FlattenSeq(seqs) = << >> /\ FlattenSeq(all) = s
    BY <1>2, <1>4, <1>5, <1>9, <1>10, <2>1
  <2>3. << >> \o s = s
    BY ConcatEmptySeq
  <2> QED
    BY <2>2, <2>3 DEF all
<1>11. CASE n # 0
  <2>1. f[n] = g[n] /\ FlattenSeq(seqs) = f[n]
    BY <1>1, <1>4, <1>8, <1>11
  <2>2. g[n + 1] = g[n] \o s
    <3>1. n + 1 # 1
      BY <1>1, <1>11
    <3> QED
      BY <1>2, <1>5, <1>9, <3>1
  <2> QED
    BY <1>9, <2>1, <2>2 DEF all
<1> QED
  BY <1>10, <1>11
=============================================================================
