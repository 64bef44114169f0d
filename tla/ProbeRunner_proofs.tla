-------------------------- MODULE ProbeRunner_proofs --------------------------
(***************************************************************************)
(* The run of the helper loses nothing of its stderr, whatever the helper  *)
(* writes, however small the pipes are and however the two queues meet.    *)
(***************************************************************************)
EXTENDS ProbeRunner, SequenceLemmas, FiniteSetTheorems

Pieces == [lines : Seq(Line), rest : Line]
NoPieces == [lines |-> << >>, rest |-> << >>]

(* What one more byte makes of the pieces so far. *)
Piece(sofar, b) ==
    IF b = NL THEN [lines |-> Append(sofar.lines, sofar.rest), rest |-> << >>]
              ELSE [lines |-> sofar.lines, rest |-> Append(sofar.rest, b)]

(* Concatenation is associative.  N hides the numbers, which would have the
   solver treat the sequences as sequences of integers.                      *)
LEMMA AssocLaw ==
    \A u, v, w \in Seq(Nat) : (u \o v) \o w = u \o (v \o w)
<1> DEFINE N == Nat
<1>1. \A u, v, w \in Seq(N) : (u \o v) \o w = u \o (v \o w)
  <2> HIDE DEF N
  <2>1. ASSUME NEW u \in Seq(N), NEW v \in Seq(N), NEW w \in Seq(N)
        PROVE  (u \o v) \o w = u \o (v \o w)
    BY <2>1, ConcatAssociative, Z3
  <2> QED
    BY ONLY <2>1
<1> QED
  BY ONLY <1>1

LEMMA LineAssocLaw ==
    \A u, v, w \in Seq(Line) : (u \o v) \o w = u \o (v \o w)
<1>1. ASSUME NEW u \in Seq(Line), NEW v \in Seq(Line), NEW w \in Seq(Line)
      PROVE  (u \o v) \o w = u \o (v \o w)
  BY <1>1, ConcatAssociative, Z3
<1> QED
  BY ONLY <1>1

LEMMA PieceType ==
    ASSUME NEW p \in Pieces, NEW b \in Nat
    PROVE  Piece(p, b) \in Pieces
<1>1. p.lines \in Seq(Seq(Nat)) /\ p.rest \in Seq(Nat)
  BY DEF Pieces, Line
<1>2. Append(p.lines, p.rest) \in Seq(Seq(Nat)) /\ Append(p.rest, b) \in Seq(Nat)
  BY <1>1, AppendProperties
<1>3. << >> \in Seq(Nat)
  BY EmptySeq
<1> QED
  BY <1>1, <1>2, <1>3 DEF Piece, Pieces, Line

LEMMA NoPiecesType == NoPieces \in Pieces
BY EmptySeq DEF NoPieces, Pieces, Line

(* Splitting unfolds. *)
LEMMA SplittingDef ==
    Splitting = [bytes \in Seq(Nat) |->
                    IF bytes = << >> THEN NoPieces
                    ELSE Piece(Splitting[Front(bytes)], Last(bytes))]
<1> DEFINE step == [p \in Pieces \X Nat |-> Piece(p[1], p[2])]
           Unfolds(f) == f = [bytes \in Seq(Nat) |->
                                  IF bytes = << >> THEN NoPieces
                                  ELSE Piece(f[Front(bytes)], Last(bytes))]
<1>1. step \in [Pieces \X Nat -> Pieces]
  BY PieceType
<1>2. PICK f \in [Seq(Nat) -> Pieces] : IsFold(f, Seq(Nat), NoPieces, step)
  <2> HIDE DEF step
  <2> QED
    BY <1>1, NoPiecesType, FoldExists
<1>3. \A bytes \in Seq(Nat) :
          f[bytes] = IF bytes = << >> THEN NoPieces ELSE Piece(f[Front(bytes)], Last(bytes))
  <2> SUFFICES ASSUME NEW bytes \in Seq(Nat), bytes # << >>
               PROVE  f[bytes] = Piece(f[Front(bytes)], Last(bytes))
    BY <1>2 DEF IsFold
  <2>1. f[bytes] = step[<<f[Front(bytes)], Last(bytes)>>]
    BY <1>2 DEF IsFold
  <2>2. f[Front(bytes)] \in Pieces /\ Last(bytes) \in Nat
    BY <1>2, FrontLast
  <2> QED
    BY <2>1, <2>2
<1>4. Unfolds(f)
  <2> HIDE DEF step
  <2> QED
    BY <1>2, <1>3
<1>5. Unfolds(CHOOSE g : Unfolds(g))
  <2> HIDE DEF Unfolds
  <2> QED
    BY <1>4
<1>6. Splitting = CHOOSE g : Unfolds(g)
  BY DEF Splitting, Piece, NoPieces
<1> QED
  BY <1>5, <1>6

LEMMA SplitEquations ==
    /\ Split(<< >>) = NoPieces
    /\ \A s \in Seq(Nat), b \in Nat : Split(Append(s, b)) = Piece(Split(s), b)
<1>1. << >> \in Seq(Nat)
  BY EmptySeq
<1>2. Split(<< >>) = NoPieces
  BY <1>1, SplittingDef DEF Split
<1>3. ASSUME NEW s \in Seq(Nat), NEW b \in Nat
      PROVE  Split(Append(s, b)) = Piece(Split(s), b)
  <2> DEFINE u == Append(s, b)
  <2>1. u \in Seq(Nat) /\ u # << >> /\ Front(u) = s /\ Last(u) = b
    BY <1>3, AppendFrontLast
  <2> HIDE DEF u
  <2>2. Splitting[u] = Piece(Splitting[Front(u)], Last(u))
    BY <2>1, SplittingDef
  <2>3. Split(u) = Piece(Split(s), b)
    BY <2>1, <2>2 DEF Split
  <2> QED
    BY <2>3 DEF u
<1> QED
  BY <1>2, <1>3

LEMMA SplitType == \A s \in Seq(Nat) : Split(s) \in Pieces
<1> DEFINE P == {s \in Seq(Nat) : Split(s) \in Pieces}
<1>1. << >> \in P
  BY EmptySeq, SplitEquations, NoPiecesType
<1>2. ASSUME NEW s \in Seq(Nat), NEW b \in Nat, s \in P
      PROVE  Append(s, b) \in P
  BY <1>2, SplitEquations, PieceType, AppendProperties
<1>3. \A s \in Seq(Nat) : s \in P
  <2> HIDE DEF P
  <2> QED
    BY <1>1, <1>2, SeqInduction
<1> QED
  BY <1>3

(* The line begun holds no newline: splitting it again gives it back. *)
LEMMA SplitRest ==
    \A s \in Seq(Nat) : Split(Split(s).rest) = [lines |-> << >>, rest |-> Split(s).rest]
<1> DEFINE P == {s \in Seq(Nat) :
                   Split(Split(s).rest) = [lines |-> << >>, rest |-> Split(s).rest]}
<1>1. << >> \in P
  BY EmptySeq, SplitEquations DEF NoPieces
<1>2. ASSUME NEW s \in Seq(Nat), NEW b \in Nat, s \in P
      PROVE  Append(s, b) \in P
  <2>1. Append(s, b) \in Seq(Nat) /\ Split(Append(s, b)) = Piece(Split(s), b)
    BY AppendProperties, SplitEquations
  <2>2. Split(s).rest \in Seq(Nat)
    BY SplitType DEF Pieces, Line
  <2>3. CASE b = NL
    BY <2>1, <2>3, SplitEquations DEF Piece, NoPieces
  <2>4. CASE b # NL
    <3>1. Split(Append(s, b)).rest = Append(Split(s).rest, b)
      BY <2>1, <2>4 DEF Piece
    <3>2. Split(Append(Split(s).rest, b)) = Piece(Split(Split(s).rest), b)
      BY <2>2, SplitEquations
    <3>3. Split(Split(s).rest) = [lines |-> << >>, rest |-> Split(s).rest]
      BY <1>2
    <3>4. Split(Append(Split(s).rest, b))
          = [lines |-> << >>, rest |-> Append(Split(s).rest, b)]
      BY <2>4, <3>2, <3>3 DEF Piece
    <3>5. Split(Split(Append(s, b)).rest)
          = [lines |-> << >>, rest |-> Split(Append(s, b)).rest]
      BY <3>1, <3>4
    <3> QED
      BY <2>1, <3>5
  <2> QED
    BY <2>3, <2>4
<1>3. \A s \in Seq(Nat) : s \in P
  <2> HIDE DEF P
  <2> QED
    BY <1>1, <1>2, SeqInduction
<1> QED
  BY <1>3

(* However a stream falls into chunks, its lines are the same. *)
LEMMA SplitConcat ==
    ASSUME NEW s \in Seq(Nat)
    PROVE  \A t \in Seq(Nat) :
               /\ Split(s \o t).lines = Split(s).lines \o Split(Split(s).rest \o t).lines
               /\ Split(s \o t).rest = Split(Split(s).rest \o t).rest
<1> DEFINE r == Split(s).rest
           P == {t \in Seq(Nat) :
                   /\ Split(s \o t).lines = Split(s).lines \o Split(r \o t).lines
                   /\ Split(s \o t).rest = Split(r \o t).rest}
<1>0. r \in Seq(Nat) /\ Split(s).lines \in Seq(Line)
  BY SplitType DEF Pieces, Line
<1>1. << >> \in P
  <2>1. s \o << >> = s /\ r \o << >> = r /\ Split(s).lines \o << >> = Split(s).lines
    BY <1>0, ConcatEmptySeq
  <2>2. Split(r) = [lines |-> << >>, rest |-> r]
    BY SplitRest
  <2>3. /\ Split(s \o << >>).lines = Split(s).lines \o Split(r \o << >>).lines
        /\ Split(s \o << >>).rest = Split(r \o << >>).rest
    <3>1. Split(r).lines = << >> /\ Split(r).rest = r
      BY <2>2
    <3> HIDE DEF r
    <3>2. Split(s).rest = r
      BY DEF r
    <3> QED
      BY <2>1, <3>1, <3>2
  <2> QED
    BY <2>3, EmptySeq
<1>2. ASSUME NEW t \in Seq(Nat), NEW b \in Nat, t \in P
      PROVE  Append(t, b) \in P
  <2> DEFINE u == Append(t, b)
  <2>1. u \in Seq(Nat) /\ s \o t \in Seq(Nat) /\ r \o t \in Seq(Nat)
    BY <1>0, AppendProperties, ConcatProperties
  <2>2. s \o u = Append(s \o t, b) /\ r \o u = Append(r \o t, b)
    <3>1. \A v \in Seq(Nat) : v \o u = Append(v \o t, b)
      BY ConcatAppend
    <3> QED
      BY <1>0, <3>1
  <2>3. /\ Split(s \o u) = Piece(Split(s \o t), b)
        /\ Split(r \o u) = Piece(Split(r \o t), b)
    BY <2>1, <2>2, SplitEquations
  <2>4. /\ Split(s \o t).lines = Split(s).lines \o Split(r \o t).lines
        /\ Split(s \o t).rest = Split(r \o t).rest
    BY <1>2
  <2>5. Split(r \o t).lines \in Seq(Line) /\ Split(r \o t).rest \in Line
    BY <2>1, SplitType DEF Pieces
  <2>6. Split(s).lines \o Append(Split(r \o t).lines, Split(r \o t).rest)
        = Append(Split(s).lines \o Split(r \o t).lines, Split(r \o t).rest)
    <3>1. \A v \in Seq(Line), w \in Seq(Line), e \in Line :
              v \o Append(w, e) = Append(v \o w, e)
      BY ConcatAppend
    <3> QED
      BY <1>0, <2>5, <3>1
  <2>7. /\ Split(s \o u).lines = Split(s).lines \o Split(r \o u).lines
        /\ Split(s \o u).rest = Split(r \o u).rest
    <3> DEFINE a == Split(s \o u)
               c == Split(s \o t)
               d == Split(r \o u)
               e == Split(r \o t)
               l == Split(s).lines
    <3>1. a = Piece(c, b) /\ d = Piece(e, b)
      BY <2>3
    <3>2. c.lines = l \o e.lines /\ c.rest = e.rest
      BY <2>4
    <3>3. l \o Append(e.lines, e.rest) = Append(l \o e.lines, e.rest)
      BY <2>6
    <3> SUFFICES a.lines = l \o d.lines /\ a.rest = d.rest
      OBVIOUS
    <3> HIDE DEF a, c, d, e, l
    <3>4. CASE b = NL
      BY <3>1, <3>2, <3>3, <3>4 DEF Piece
    <3>5. CASE b # NL
      BY <3>1, <3>2, <3>5 DEF Piece
    <3> QED
      BY <3>4, <3>5
  <2> QED
    BY <2>1, <2>7
<1>3. \A t \in Seq(Nat) : t \in P
  <2> HIDE DEF P
  <2> QED
    BY <1>1, <1>2, SeqInduction
<1> QED
  BY <1>3

-----------------------------------------------------------------------------
(* What the helper has written, and the bytes of the lines. *)

LEMMA WrittenDef ==
    WrittenBy = [steps \in Seq(HelperSteps) |->
                    IF steps = << >> THEN << >>
                    ELSE IF Last(steps).to = "err"
                         THEN Append(WrittenBy[Front(steps)], Last(steps).byte)
                         ELSE WrittenBy[Front(steps)]]
<1> DEFINE body(sofar, w) == IF w.to = "err" THEN Append(sofar, w.byte) ELSE sofar
           step == [p \in Seq(Nat) \X HelperSteps |-> body(p[1], p[2])]
           Unfolds(f) == f = [steps \in Seq(HelperSteps) |->
                                  IF steps = << >> THEN << >>
                                  ELSE body(f[Front(steps)], Last(steps))]
<1>1. step \in [Seq(Nat) \X HelperSteps -> Seq(Nat)]
  <2>1. ASSUME NEW sofar \in Seq(Nat), NEW w \in HelperSteps
        PROVE  body(sofar, w) \in Seq(Nat)
    <3>1. w.byte \in Nat
      BY DEF HelperSteps
    <3> QED
      BY <3>1, AppendProperties
  <2> HIDE DEF body
  <2> QED
    BY <2>1
<1>2. PICK f \in [Seq(HelperSteps) -> Seq(Nat)] :
          IsFold(f, Seq(HelperSteps), << >>, step)
  <2> HIDE DEF step
  <2> QED
    BY <1>1, EmptySeq, FoldExists
<1>3. \A steps \in Seq(HelperSteps) :
          f[steps] = IF steps = << >> THEN << >> ELSE body(f[Front(steps)], Last(steps))
  <2> HIDE DEF body
  <2> SUFFICES ASSUME NEW steps \in Seq(HelperSteps), steps # << >>
               PROVE  f[steps] = body(f[Front(steps)], Last(steps))
    BY <1>2 DEF IsFold
  <2>1. f[steps] = step[<<f[Front(steps)], Last(steps)>>]
    BY <1>2 DEF IsFold
  <2>2. f[Front(steps)] \in Seq(Nat) /\ Last(steps) \in HelperSteps
    BY <1>2, FrontLast
  <2> QED
    BY <2>1, <2>2
<1>4. Unfolds(f)
  <2> HIDE DEF step, body
  <2> QED
    BY <1>2, <1>3
<1>5. Unfolds(CHOOSE g : Unfolds(g))
  <2> HIDE DEF Unfolds
  <2> QED
    BY <1>4
<1>6. WrittenBy = CHOOSE g : Unfolds(g)
  BY DEF WrittenBy
<1>7. Unfolds(WrittenBy)
  <2> HIDE DEF Unfolds
  <2> QED
    BY <1>5, <1>6
<1> QED
  BY ONLY <1>7

LEMMA WrittenEquations ==
    /\ WrittenBy[<< >>] = << >>
    /\ \A s \in Seq(HelperSteps), w \in HelperSteps :
           WrittenBy[Append(s, w)] = IF w.to = "err" THEN Append(WrittenBy[s], w.byte)
                                                     ELSE WrittenBy[s]
<1>1. << >> \in Seq(HelperSteps)
  BY EmptySeq
<1>2. WrittenBy[<< >>] = << >>
  BY <1>1, WrittenDef
<1>3. ASSUME NEW s \in Seq(HelperSteps), NEW w \in HelperSteps
      PROVE  WrittenBy[Append(s, w)] = IF w.to = "err" THEN Append(WrittenBy[s], w.byte)
                                                       ELSE WrittenBy[s]
  <2> DEFINE u == Append(s, w)
  <2>1. u \in Seq(HelperSteps) /\ u # << >> /\ Front(u) = s /\ Last(u) = w
    BY <1>3, AppendFrontLast
  <2> HIDE DEF u
  <2>2. WrittenBy[u] = IF Last(u).to = "err" THEN Append(WrittenBy[Front(u)], Last(u).byte)
                                             ELSE WrittenBy[Front(u)]
    BY <2>1, WrittenDef
  <2>3. WrittenBy[u] = IF w.to = "err" THEN Append(WrittenBy[s], w.byte) ELSE WrittenBy[s]
    BY <2>1, <2>2
  <2> QED
    BY <2>3 DEF u
<1> QED
  BY <1>2, <1>3

LEMMA WrittenType == \A s \in Seq(HelperSteps) : WrittenBy[s] \in Seq(Nat)
<1> DEFINE P == {s \in Seq(HelperSteps) : WrittenBy[s] \in Seq(Nat)}
<1>1. << >> \in P
  BY EmptySeq, WrittenEquations
<1>2. ASSUME NEW s \in Seq(HelperSteps), NEW w \in HelperSteps, s \in P
      PROVE  Append(s, w) \in P
  <2>1. w.byte \in Nat /\ WrittenBy[s] \in Seq(Nat) /\ Append(s, w) \in Seq(HelperSteps)
    BY <1>2, AppendProperties DEF HelperSteps
  <2>2. Append(WrittenBy[s], w.byte) \in Seq(Nat)
    BY <2>1, AppendProperties
  <2> QED
    BY <2>1, <2>2, WrittenEquations
<1>3. \A s \in Seq(HelperSteps) : s \in P
  <2> HIDE DEF P
  <2> QED
    BY <1>1, <1>2, SeqInduction
<1> QED
  BY <1>3

LEMMA JoinedDef ==
    Joined = [lines \in Seq(Line) |->
                 IF lines = << >> THEN << >> ELSE Joined[Front(lines)] \o Last(lines)]
<1> DEFINE step == [p \in Line \X Line |-> p[1] \o p[2]]
           Unfolds(f) == f = [lines \in Seq(Line) |->
                                  IF lines = << >> THEN << >>
                                  ELSE f[Front(lines)] \o Last(lines)]
<1>1. step \in [Line \X Line -> Line]
  <2>1. ASSUME NEW a \in Line, NEW b \in Line
        PROVE  a \o b \in Line
    BY ConcatProperties DEF Line
  <2> QED
    BY <2>1
<1>2. PICK f \in [Seq(Line) -> Line] : IsFold(f, Seq(Line), << >>, step)
  <2>1. << >> \in Line
    BY EmptySeq DEF Line
  <2> HIDE DEF step
  <2> QED
    BY <1>1, <2>1, FoldExists
<1>3. \A lines \in Seq(Line) :
          f[lines] = IF lines = << >> THEN << >> ELSE f[Front(lines)] \o Last(lines)
  <2> SUFFICES ASSUME NEW lines \in Seq(Line), lines # << >>
               PROVE  f[lines] = f[Front(lines)] \o Last(lines)
    BY <1>2 DEF IsFold
  <2>1. f[lines] = step[<<f[Front(lines)], Last(lines)>>]
    BY <1>2 DEF IsFold
  <2>2. f[Front(lines)] \in Line /\ Last(lines) \in Line
    BY <1>2, FrontLast
  <2> QED
    BY <2>1, <2>2
<1>4. Unfolds(f)
  <2> HIDE DEF step
  <2> QED
    BY <1>2, <1>3
<1>5. Unfolds(CHOOSE g : Unfolds(g))
  <2> HIDE DEF Unfolds
  <2> QED
    BY <1>4
<1>6. Joined = CHOOSE g : Unfolds(g)
  BY DEF Joined
<1> QED
  BY <1>5, <1>6

LEMMA JoinedEquations ==
    /\ Joined[<< >>] = << >>
    /\ \A s \in Seq(Line), l \in Line : Joined[Append(s, l)] = Joined[s] \o l
<1>1. << >> \in Seq(Line)
  BY EmptySeq
<1>2. Joined[<< >>] = << >>
  BY <1>1, JoinedDef
<1>3. ASSUME NEW s \in Seq(Line), NEW l \in Line
      PROVE  Joined[Append(s, l)] = Joined[s] \o l
  <2> DEFINE u == Append(s, l)
  <2>1. u \in Seq(Line) /\ u # << >> /\ Front(u) = s /\ Last(u) = l
    BY <1>3, AppendFrontLast
  <2> HIDE DEF u
  <2>2. Joined[u] = Joined[Front(u)] \o Last(u)
    BY <2>1, JoinedDef
  <2>3. Joined[u] = Joined[s] \o l
    BY <2>1, <2>2
  <2> QED
    BY <2>3 DEF u
<1> QED
  BY <1>2, <1>3

LEMMA JoinedType == \A s \in Seq(Line) : Joined[s] \in Seq(Nat)
<1> DEFINE P == {s \in Seq(Line) : Joined[s] \in Seq(Nat)}
<1>1. << >> \in P
  BY EmptySeq, JoinedEquations
<1>2. ASSUME NEW s \in Seq(Line), NEW l \in Line, s \in P
      PROVE  Append(s, l) \in P
  <2>1. Joined[s] \o l \in Seq(Nat)
    BY <1>2, ConcatProperties DEF Line
  <2> QED
    BY <2>1, JoinedEquations, AppendProperties
<1>3. \A s \in Seq(Line) : s \in P
  <2> HIDE DEF P
  <2> QED
    BY <1>1, <1>2, SeqInduction
<1> QED
  BY <1>3

-----------------------------------------------------------------------------
(* How often an element occurs. *)

LEMMA CountAppend ==
    ASSUME NEW T, NEW s \in Seq(T), NEW d \in T, NEW e
    PROVE  /\ Count(e, s) \in Nat
           /\ Count(e, Append(s, d)) = Count(e, s) + (IF d = e THEN 1 ELSE 0)
<1> DEFINE n == Len(s)
           A == {i \in 1 .. n : s[i] = e}
           B == {i \in 1 .. n + 1 : Append(s, d)[i] = e}
<1>1. n \in Nat /\ DOMAIN s = 1 .. n /\ DOMAIN Append(s, d) = 1 .. n + 1
  BY LenProperties, AppendProperties
<1>2. \A i \in 1 .. n + 1 : Append(s, d)[i] = IF i = n + 1 THEN d ELSE s[i]
  BY <1>1, AppendProperties
<1>3. IsFiniteSet(A) /\ Cardinality(A) \in Nat
  <2>1. IsFiniteSet(1 .. n)
    BY <1>1, FS_Interval
  <2>2. A \subseteq 1 .. n
    OBVIOUS
  <2> QED
    BY <2>1, <2>2, FS_Subset, FS_CardinalityType
<1>4. B = IF d = e THEN A \cup {n + 1} ELSE A
  BY <1>1, <1>2
<1>5. n + 1 \notin A
  BY <1>1
<1>6. Cardinality(A \cup {n + 1}) = Cardinality(A) + 1
  <2> HIDE DEF A
  <2> QED
    BY <1>3, <1>5, FS_AddElement
<1>7. Count(e, s) = Cardinality(A) /\ Count(e, Append(s, d)) = Cardinality(B)
  BY <1>1 DEF Count
<1> HIDE DEF A, B
<1> QED
  BY <1>3, <1>4, <1>6, <1>7

LEMMA CountEmpty == \A e : Count(e, << >>) = 0
BY FS_EmptySet DEF Count

LEMMA CountType ==
    ASSUME NEW T, NEW s \in Seq(T), NEW e
    PROVE  Count(e, s) \in Nat
<1>1. CASE s = << >>
  BY <1>1, CountEmpty
<1>2. CASE s # << >>
  <2>1. PICK t \in Seq(T), d \in T : s = Append(t, d)
    BY <1>2, SequenceEmptyOrAppend
  <2> QED
    BY <2>1, CountAppend
<1> QED
  BY <1>1, <1>2

LEMMA CountConcat ==
    ASSUME NEW T, NEW s \in Seq(T), NEW e
    PROVE  \A t \in Seq(T) : Count(e, s \o t) = Count(e, s) + Count(e, t)
<1> DEFINE P == {t \in Seq(T) : Count(e, s \o t) = Count(e, s) + Count(e, t)}
<1>1. << >> \in P
  BY EmptySeq, ConcatEmptySeq, CountEmpty, CountType
<1>2. ASSUME NEW t \in Seq(T), NEW d \in T, t \in P
      PROVE  Append(t, d) \in P
  <2>1. s \o Append(t, d) = Append(s \o t, d) /\ s \o t \in Seq(T)
    BY ConcatAppend, ConcatProperties
  <2>2. Count(e, Append(s \o t, d)) = Count(e, s \o t) + (IF d = e THEN 1 ELSE 0)
    BY <2>1, CountAppend
  <2>3. Count(e, Append(t, d)) = Count(e, t) + (IF d = e THEN 1 ELSE 0)
    BY CountAppend
  <2>4. Count(e, s) \in Nat /\ Count(e, t) \in Nat
    BY CountType
  <2>5. Count(e, s \o t) = Count(e, s) + Count(e, t)
    BY <1>2
  <2>6. Count(e, s \o Append(t, d)) = Count(e, s) + Count(e, Append(t, d))
    BY <2>1, <2>2, <2>3, <2>4, <2>5
  <2> QED
    BY <2>6, AppendProperties
<1>3. \A t \in Seq(T) : t \in P
  <2> HIDE DEF P
  <2> QED
    BY <1>1, <1>2, SeqInduction
<1> QED
  BY <1>3

(* Splitting keeps every byte that is no newline. *)
LEMMA CountSplit ==
    ASSUME NEW b \in Nat, b # NL
    PROVE  \A s \in Seq(Nat) :
               Count(b, s) = Count(b, Joined[Split(s).lines]) + Count(b, Split(s).rest)
<1> DEFINE P == {s \in Seq(Nat) :
                   Count(b, s) = Count(b, Joined[Split(s).lines]) + Count(b, Split(s).rest)}
<1>1. << >> \in P
  BY EmptySeq, SplitEquations, JoinedEquations, CountEmpty DEF NoPieces
<1>2. ASSUME NEW s \in Seq(Nat), NEW c \in Nat, s \in P
      PROVE  Append(s, c) \in P
  <2> DEFINE l == Split(s).lines
             r == Split(s).rest
             n == IF c = b THEN 1 ELSE 0
  <2>1. l \in Seq(Line) /\ r \in Seq(Nat) /\ r \in Line /\ Joined[l] \in Seq(Nat)
    BY SplitType, JoinedType DEF Pieces, Line
  <2>2. Count(b, Append(s, c)) = Count(b, s) + n
    BY CountAppend
  <2>3. Count(b, s) = Count(b, Joined[l]) + Count(b, r)
    BY <1>2
  <2>4. Count(b, Joined[l]) \in Nat /\ Count(b, r) \in Nat
    BY <2>1, CountType
  <2>5. Split(Append(s, c)) = Piece(Split(s), c) /\ Append(s, c) \in Seq(Nat)
    BY SplitEquations, AppendProperties
  <2>6. CASE c = NL
    <3>1. Split(Append(s, c)).lines = Append(l, r) /\ Split(Append(s, c)).rest = << >>
      BY <2>5, <2>6 DEF Piece
    <3>2. Joined[Append(l, r)] = Joined[l] \o r
      BY <2>1, JoinedEquations
    <3>3. Count(b, Joined[l] \o r) = Count(b, Joined[l]) + Count(b, r)
      BY <2>1, CountConcat
    <3>4. n = 0 /\ Count(b, << >>) = 0
      BY <2>6, CountEmpty
    <3>5. Count(b, Append(s, c)) = Count(b, Joined[Split(Append(s, c)).lines])
                                   + Count(b, Split(Append(s, c)).rest)
      <4> HIDE DEF l, r, n
      <4> QED
        BY <2>2, <2>3, <2>4, <3>1, <3>2, <3>3, <3>4
    <3> QED
      BY <2>5, <3>5
  <2>7. CASE c # NL
    <3>1. Split(Append(s, c)).lines = l /\ Split(Append(s, c)).rest = Append(r, c)
      BY <2>5, <2>7 DEF Piece
    <3>2. Count(b, Append(r, c)) = Count(b, r) + n
      BY <2>1, CountAppend
    <3>3. n \in Nat
      OBVIOUS
    <3>4. Count(b, Append(s, c)) = Count(b, Joined[Split(Append(s, c)).lines])
                                   + Count(b, Split(Append(s, c)).rest)
      <4> HIDE DEF l, r, n
      <4> QED
        BY <2>2, <2>3, <2>4, <3>1, <3>2, <3>3
    <3> QED
      BY <2>5, <3>4
  <2> QED
    BY <2>6, <2>7
<1>3. \A s \in Seq(Nat) : s \in P
  <2> HIDE DEF P
  <2> QED
    BY <1>1, <1>2, SeqInduction
<1> QED
  BY <1>3

LEMMA JoinedConcat ==
    ASSUME NEW s \in Seq(Line)
    PROVE  \A t \in Seq(Line) : Joined[s \o t] = Joined[s] \o Joined[t]
<1> DEFINE P == {t \in Seq(Line) : Joined[s \o t] = Joined[s] \o Joined[t]}
<1>1. << >> \in P
  BY EmptySeq, ConcatEmptySeq, JoinedEquations, JoinedType
<1>2. ASSUME NEW t \in Seq(Line), NEW l \in Line, t \in P
      PROVE  Append(t, l) \in P
  <2>1. s \o Append(t, l) = Append(s \o t, l) /\ s \o t \in Seq(Line)
    BY ConcatAppend, ConcatProperties
  <2>2. /\ Joined[Append(s \o t, l)] = Joined[s \o t] \o l
        /\ Joined[Append(t, l)] = Joined[t] \o l
    BY <2>1, JoinedEquations
  <2>3. (Joined[s] \o Joined[t]) \o l = Joined[s] \o (Joined[t] \o l)
    <3>1. Joined[s] \in Seq(Nat)
      BY JoinedType
    <3>2. Joined[t] \in Seq(Nat)
      BY JoinedType
    <3>3. l \in Seq(Nat)
      BY DEF Line
    <3> QED
      BY ONLY <3>1, <3>2, <3>3, AssocLaw
  <2>4. Joined[s \o Append(t, l)] = Joined[s] \o Joined[Append(t, l)]
    BY <1>2, <2>1, <2>2, <2>3
  <2> QED
    BY <2>4, AppendProperties
<1>3. \A t \in Seq(Line) : t \in P
  <2> HIDE DEF P
  <2> QED
    BY <1>1, <1>2, SeqInduction
<1> QED
  BY <1>3

-----------------------------------------------------------------------------
(* The types, and who holds what when. *)

Order ==
    /\ app \in {"launch", "threw"} => helper = "none"
    /\ helper # "exited" => ender = "idle"
    /\ resumes = IF app = "threw" \/ ender = "done" THEN 1 ELSE 0
    /\ reader # "append" => chunk = << >>
    /\ ender \notin {"drain", "append"} => tail = << >>
    /\ ender = "idle" => ~ overtook
    /\ ender \notin {"idle", "drain"} => errPipe = << >>
    /\ reader # "hand" => toHand["reader"] = << >>
    /\ ender # "hand" => toHand["ender"] = << >>
    /\ ender = "idle" => handed \o toHand["reader"] = text

LEMMA StepType ==
    ASSUME RunnerTypeOK, at < Len(script)
    PROVE  at \in Nat /\ at + 1 \in 1 .. Len(script) /\ Step \in HelperSteps
<1>1. script \in Seq(HelperSteps) /\ at \in 0 .. Len(script)
  BY RunnerAssumption DEF RunnerTypeOK
<1>2. Len(script) \in Nat
  BY <1>1, LenProperties
<1>3. at \in Nat /\ at + 1 \in 1 .. Len(script)
  BY <1>1, <1>2
<1> QED
  BY <1>1, <1>3, ElementOfSeq DEF Step

LEMMA CollectType ==
    ASSUME RunnerTypeOK, NEW q \in Queue, NEW split \in Pieces, Collect(q, split)
    PROVE  /\ buffer' \in Seq(Nat) /\ text' \in Seq(Line)
           /\ toHand' \in [Queue -> Seq(Line)]
           /\ toHand'[q] = split.lines
           /\ \A r \in Queue \ {q} : toHand'[r] = toHand[r]
<1>1. split.lines \in Seq(Line) /\ split.rest \in Seq(Nat)
  BY DEF Pieces, Line
<1>2. text \in Seq(Line) /\ toHand \in [Queue -> Seq(Line)]
  BY DEF RunnerTypeOK
<1>3. text \o split.lines \in Seq(Line)
  BY <1>1, <1>2, ConcatProperties
<1> QED
  BY <1>1, <1>2, <1>3 DEF Collect

LEMMA HandOutType ==
    ASSUME RunnerTypeOK, NEW q \in Queue, HandOut(q)
    PROVE  /\ handed' \in Seq(Line) /\ toHand' \in [Queue -> Seq(Line)]
           /\ Head(toHand[q]) \in Line
           /\ handed' = Append(handed, Head(toHand[q]))
           /\ toHand[q] = <<Head(toHand[q])>> \o toHand'[q]
           /\ \A r \in Queue \ {q} : toHand'[r] = toHand[r]
<1>1. toHand \in [Queue -> Seq(Line)] /\ handed \in Seq(Line) /\ toHand[q] # << >>
  BY DEF RunnerTypeOK, HandOut
<1> DEFINE s == toHand[q]
<1>2. s \in Seq(Line) /\ s # << >>
  BY <1>1
<1> HIDE DEF s
<1>3. Head(s) \in Line /\ Tail(s) \in Seq(Line)
  BY <1>2, HeadTailProperties
<1>4. s = <<Head(s)>> \o Tail(s)
  BY <1>2, <1>3
<1>5. Append(handed, Head(s)) \in Seq(Line)
  BY <1>1, <1>3, AppendProperties
<1>6. handed' = Append(handed, Head(s)) /\ toHand' = [toHand EXCEPT ![q] = Tail(s)]
  BY DEF HandOut, s
<1> QED
  BY <1>1, <1>3, <1>4, <1>5, <1>6 DEF s

LEMMA FlushedType ==
    ASSUME NEW p \in Pieces
    PROVE  Flushed(p) \in Pieces
<1>1. p.lines \in Seq(Line) /\ p.rest \in Line /\ << >> \in Line
  BY EmptySeq DEF Pieces, Line
<1>2. Append(p.lines, p.rest) \in Seq(Line)
  BY <1>1, AppendProperties
<1> QED
  BY <1>1, <1>2 DEF Flushed, Pieces

(* What each queue appends is made of the pieces of what is begun and read. *)
LEMMA AppendsType ==
    ASSUME RunnerTypeOK
    PROVE  Split(buffer \o chunk) \in Pieces /\ Flushed(Split(buffer \o tail)) \in Pieces
<1>1. buffer \in Seq(Nat) /\ chunk \in Seq(Nat) /\ tail \in Seq(Nat)
  BY DEF RunnerTypeOK
<1>2. buffer \o chunk \in Seq(Nat) /\ buffer \o tail \in Seq(Nat)
  BY <1>1, ConcatProperties
<1> QED
  BY <1>2, SplitType, FlushedType

(* What a read takes and what it leaves are the stderr pipe. *)
LEMMA ReadType ==
    ASSUME RunnerTypeOK, NEW n \in 1 .. Len(errPipe), LeaveErr(n)
    PROVE  /\ ReadErr(n) \in Seq(Nat)
           /\ errPipe' \in Seq(Nat) /\ Len(errPipe') <= ErrCap
           /\ errPipe = ReadErr(n) \o errPipe'
<1> DEFINE m == Len(errPipe)
<1>1. errPipe \in Seq(Nat) /\ m \in Nat /\ m <= ErrCap
  BY LenProperties DEF RunnerTypeOK
<1>2. n \in Nat /\ 1 <= n /\ n <= m
  BY <1>1
<1>3. \A i \in 1 .. m : errPipe[i] \in Nat
  BY <1>1, ElementOfSeq
<1> HIDE DEF m
<1>4. SubSeq(errPipe, 1, n) \in Seq(Nat)
  <2>1. \A i \in 1 .. n : errPipe[i] \in Nat
    BY <1>1, <1>2, <1>3
  <2> QED
    BY <1>2, <2>1, SubSeqProperties
<1>5. /\ SubSeq(errPipe, n + 1, m) \in Seq(Nat)
      /\ Len(SubSeq(errPipe, n + 1, m)) <= ErrCap
  <2>1. \A i \in n + 1 .. m : errPipe[i] \in Nat
    BY <1>1, <1>2, <1>3
  <2>2. /\ SubSeq(errPipe, n + 1, m) \in Seq(Nat)
        /\ Len(SubSeq(errPipe, n + 1, m)) = IF n + 1 <= m THEN m - (n + 1) + 1 ELSE 0
    BY <1>1, <1>2, <2>1, SubSeqProperties
  <2> QED
    BY <1>1, <1>2, <2>2, RunnerAssumption
<1>6. SubSeq(errPipe, 1, n) \o SubSeq(errPipe, n + 1, m) = SubSeq(errPipe, 1, m)
  <2>1. 1 \in 1 .. m + 1 /\ n \in 1 - 1 .. m /\ m \in n .. m
    BY <1>1, <1>2
  <2> QED
    BY <1>1, <2>1, ConcatAdjacentSubSeq DEF m
<1>7. SubSeq(errPipe, 1, m) = errPipe
  BY <1>1, SubSeqFull DEF m
<1> QED
  BY <1>4, <1>5, <1>6, <1>7 DEF ReadErr, LeaveErr, m

LEMMA OrderInit == Init => RunnerTypeOK /\ Order
<1> SUFFICES ASSUME Init
             PROVE  RunnerTypeOK /\ Order
  OBVIOUS
<1>1. script \in Seq(HelperSteps) /\ Len(script) \in Nat
  BY RunnerAssumption, LenProperties DEF Init
<1>2. \A T : << >> \in Seq(T) /\ Len(<< >>) = 0
  BY EmptySeq
<1>3. << >> \o << >> = << >>
  BY <1>2, ConcatEmptySeq
<1>4. RunnerTypeOK
  <2>1. << >> \in Seq(Nat) /\ << >> \in Seq(Line) /\ Len(<< >>) = 0
    BY <1>2
  <2>2. toHand \in [Queue -> Seq(Line)]
    BY <2>1 DEF Init
  <2>3. 0 \in 0 .. Len(script) /\ 0 <= OutCap /\ 0 <= ErrCap
    BY <1>1, RunnerAssumption
  <2> QED
    BY <2>1, <2>2, <2>3 DEF Init, RunnerTypeOK
<1>5. Order
  BY <1>3 DEF Init, Order, Queue
<1> QED
  BY <1>4, <1>5

LEMMA OrderNext == RunnerTypeOK /\ Order /\ [Next]_vars => RunnerTypeOK' /\ Order'
<1> SUFFICES ASSUME RunnerTypeOK, Order, [Next]_vars
             PROVE  RunnerTypeOK' /\ Order'
  OBVIOUS
<1> USE DEF helperVars, collectorVars, readerVars, enderVars, callerVars
<1>0. << >> \in Seq(Nat) /\ Len(<< >>) = 0
  BY EmptySeq
<1>1. CASE LaunchFails
  <2>1. RunnerTypeOK'
    BY <1>1 DEF LaunchFails, RunnerTypeOK, Order
  <2>2. Order'
    BY <1>1 DEF LaunchFails, Order
  <2> QED
    BY <2>1, <2>2
<1>2. CASE Launch
  <2>1. RunnerTypeOK'
    BY <1>2 DEF Launch, RunnerTypeOK, Order
  <2>2. Order'
    BY <1>2 DEF Launch, Order
  <2> QED
    BY <2>1, <2>2
<1>3. CASE CloseStdin
  <2>1. RunnerTypeOK'
    BY <1>3 DEF CloseStdin, RunnerTypeOK, Order
  <2>2. Order'
    BY <1>3 DEF CloseStdin, Order
  <2> QED
    BY <2>1, <2>2
<1>4. CASE HelperStep
  <2>1. at < Len(script) /\ helper = "running"
    BY <1>4 DEF HelperStep
  <2>2. at + 1 \in 0 .. Len(script) /\ Step.byte \in Nat
    BY <2>1, StepType, LenProperties DEF HelperSteps
  <2>3. errPipe' \in Seq(Nat) /\ Len(errPipe') <= ErrCap
    <3>1. errPipe \in Seq(Nat) /\ Len(errPipe) <= ErrCap /\ Len(errPipe) \in Nat
      BY LenProperties DEF RunnerTypeOK
    <3>2. Append(errPipe, Step.byte) \in Seq(Nat)
          /\ Len(Append(errPipe, Step.byte)) = Len(errPipe) + 1
      BY <2>2, <3>1, AppendProperties
    <3>3. \/ errPipe' = errPipe
          \/ Len(errPipe) < ErrCap /\ errPipe' = Append(errPipe, Step.byte)
      BY <1>4 DEF HelperStep
    <3>4. CASE errPipe' = errPipe
      BY <3>1, <3>4
    <3>5. CASE Len(errPipe) < ErrCap /\ errPipe' = Append(errPipe, Step.byte)
      <4>1. Len(errPipe) + 1 <= ErrCap
        BY <3>1, <3>5, RunnerAssumption
      <4> QED
        BY <3>2, <3>5, <4>1
    <3> QED
      BY <3>3, <3>4, <3>5
  <2>4. outPipe' \in Seq(Nat) /\ Len(outPipe') <= OutCap
    <3>1. outPipe \in Seq(Nat) /\ Len(outPipe) <= OutCap /\ Len(outPipe) \in Nat
      BY LenProperties DEF RunnerTypeOK
    <3>2. Append(outPipe, Step.byte) \in Seq(Nat)
          /\ Len(Append(outPipe, Step.byte)) = Len(outPipe) + 1
      BY <2>2, <3>1, AppendProperties
    <3>3. \/ outPipe' = outPipe
          \/ Len(outPipe) < OutCap /\ outPipe' = Append(outPipe, Step.byte)
      BY <1>4 DEF HelperStep
    <3>4. CASE outPipe' = outPipe
      BY <3>1, <3>4
    <3>5. CASE Len(outPipe) < OutCap /\ outPipe' = Append(outPipe, Step.byte)
      <4>1. Len(outPipe) + 1 <= OutCap
        BY <3>1, <3>5, RunnerAssumption
      <4> QED
        BY <3>2, <3>5, <4>1
    <3> QED
      BY <3>3, <3>4, <3>5
  <2>5. /\ at' = at + 1
        /\ UNCHANGED <<app, script, helper, handler, readerVars, enderVars,
                       collectorVars, toHand, handed, callerVars>>
    BY <1>4 DEF HelperStep
  <2> QED
    BY <2>1, <2>2, <2>3, <2>4, <2>5 DEF RunnerTypeOK, Order
<1>5. CASE HelperExits
  <2>1. RunnerTypeOK'
    BY <1>5 DEF HelperExits, RunnerTypeOK, Order
  <2>2. Order'
    BY <1>5 DEF HelperExits, Order
  <2> QED
    BY <2>1, <2>2
<1>6. CASE Fire
  <2>1. RunnerTypeOK'
    BY <1>6 DEF Fire, RunnerTypeOK, Order
  <2>2. Order'
    BY <1>6 DEF Fire, Order
  <2> QED
    BY <2>1, <2>2
<1>7. CASE AvailableData
  <2>1. /\ reader = "fired" /\ reader' = "append" /\ overtook' = (overtook \/ tail # << >>)
        /\ UNCHANGED <<app, helperVars, outPipe, handler, enderVars, collectorVars,
                       toHand, handed, callerVars>>
    BY <1>7 DEF AvailableData
  <2>r. PICK n \in 1 .. Len(errPipe) : chunk' = ReadErr(n) /\ LeaveErr(n)
    BY <1>7 DEF AvailableData
  <2>2. errPipe' \in Seq(Nat) /\ Len(errPipe') <= ErrCap /\ chunk' \in Seq(Nat)
    BY <2>r, ReadType
  <2>3. RunnerTypeOK'
    BY <2>1, <2>2 DEF RunnerTypeOK
  <2>e. errPipe # << >>
    BY <1>0, <2>r
  <2>4. Order'
    BY <2>1, <2>e DEF Order
  <2> QED
    BY <2>3, <2>4
<1>8. CASE EndOfErr
  <2>1. RunnerTypeOK'
    BY <1>8 DEF EndOfErr, RunnerTypeOK, Order
  <2>2. Order'
    BY <1>8 DEF EndOfErr, Order
  <2> QED
    BY <2>1, <2>2
<1>9. CASE AppendChunk
  <2>1. /\ reader = "append" /\ chunk' = << >> /\ reader' = "hand"
        /\ Collect("reader", Split(buffer \o chunk))
        /\ UNCHANGED <<app, helperVars, errPipe, outPipe, handler, overtook, enderVars,
                       handed, callerVars>>
    BY <1>9 DEF AppendChunk
  <2>2. /\ buffer' \in Seq(Nat) /\ text' \in Seq(Line)
        /\ toHand' \in [Queue -> Seq(Line)] /\ toHand'["ender"] = toHand["ender"]
        /\ toHand'["reader"] = Split(buffer \o chunk).lines
    BY <2>1, AppendsType, CollectType DEF Queue
  <2>3. ender = "idle" => handed \o toHand'["reader"] = text'
    <3>1. text' = text \o Split(buffer \o chunk).lines
      BY <2>1 DEF Collect
    <3>2. ender = "idle" => handed \o << >> = text
      BY <2>1 DEF Order
    <3>3. handed \o << >> = handed
      BY ConcatEmptySeq DEF RunnerTypeOK
    <3> QED
      BY <2>2, <3>1, <3>2, <3>3
  <2>4. /\ reader = "append" /\ chunk' = << >> /\ reader' = "hand"
        /\ UNCHANGED <<app, helperVars, errPipe, outPipe, handler, overtook, enderVars,
                       handed, callerVars>>
        /\ buffer' \in Seq(Nat) /\ text' \in Seq(Line)
        /\ toHand' \in [Queue -> Seq(Line)] /\ toHand'["ender"] = toHand["ender"]
    BY <2>1, <2>2
  <2>5. RunnerTypeOK'
    BY <1>0, <2>4 DEF RunnerTypeOK
  <2>6. Order'
    BY <2>3, <2>4 DEF Order
  <2> QED
    BY <2>5, <2>6
<1>10. CASE HandChunk
  <2>1. CASE HandOut("reader") /\ UNCHANGED reader
    <3>1. /\ reader = "hand"
          /\ UNCHANGED <<app, helperVars, errPipe, outPipe, handler, chunk, overtook,
                         enderVars, collectorVars, callerVars>>
      BY <1>10 DEF HandChunk
    <3> DEFINE h == Head(toHand["reader"])
               s == toHand'["reader"]
    <3>2. /\ handed' \in Seq(Line) /\ toHand' \in [Queue -> Seq(Line)] /\ h \in Line
          /\ handed' = Append(handed, h) /\ toHand["reader"] = <<h>> \o s
          /\ toHand'["ender"] = toHand["ender"]
      BY <2>1, HandOutType DEF Queue
    <3>3. ender = "idle" => handed' \o s = text
      <4>1. ender = "idle" => handed \o (<<h>> \o s) = text
        BY <3>2 DEF Order
      <4>2. handed \in Seq(Line) /\ <<h>> \in Seq(Line) /\ s \in Seq(Line)
        BY <3>2 DEF RunnerTypeOK, Queue
      <4>3. Append(handed, h) = handed \o <<h>>
        BY <3>2, <4>2, AppendIsConcat
      <4>4. \A a, b, c \in Seq(Line) : (a \o b) \o c = a \o (b \o c)
        BY ONLY LineAssocLaw
      <4>5. (handed \o <<h>>) \o s = handed \o (<<h>> \o s)
        BY <4>2, <4>4
      <4> HIDE DEF h, s
      <4> QED
        BY <3>2, <4>1, <4>3, <4>5
    <3> HIDE DEF h
    <3> QED
      BY <2>1, <3>1, <3>2, <3>3 DEF RunnerTypeOK, Order
  <2>2. CASE toHand["reader"] = << >> /\ reader' = "idle" /\ UNCHANGED <<toHand, handed>>
    <3>1. RunnerTypeOK'
      BY <1>10, <2>2 DEF HandChunk, RunnerTypeOK
    <3>2. Order'
      BY <1>10, <2>2 DEF HandChunk, Order
    <3> QED
      BY <3>1, <3>2
  <2> QED
    BY <1>10, <2>1, <2>2 DEF HandChunk
<1>11. CASE TakeOff
  <2>1. RunnerTypeOK'
    BY <1>11 DEF TakeOff, RunnerTypeOK, Order
  <2>2. Order'
    BY <1>11 DEF TakeOff, Order
  <2> QED
    BY <2>1, <2>2
<1>12. CASE Drain
  <2>1. /\ ender = "drain"
        /\ UNCHANGED <<app, helperVars, outPipe, handler, readerVars, ender, out,
                       collectorVars, toHand, handed, callerVars>>
    BY <1>12 DEF Drain
  <2>2. PICK n \in 1 .. Len(errPipe) : tail' = tail \o ReadErr(n) /\ LeaveErr(n)
    BY <1>12 DEF Drain
  <2>3. errPipe' \in Seq(Nat) /\ Len(errPipe') <= ErrCap /\ ReadErr(n) \in Seq(Nat)
    BY <2>2, ReadType
  <2>4. tail' \in Seq(Nat)
    BY <2>2, <2>3, ConcatProperties DEF RunnerTypeOK
  <2>5. RunnerTypeOK'
    BY <2>1, <2>3, <2>4 DEF RunnerTypeOK
  <2>6. Order'
    BY <2>1 DEF Order
  <2> QED
    BY <2>5, <2>6
<1>13. CASE DrainEnd
  <2>1. RunnerTypeOK'
    BY <1>13 DEF DrainEnd, RunnerTypeOK
  <2>2. Order'
    BY <1>13 DEF DrainEnd, Order
  <2> QED
    BY <2>1, <2>2
<1>14. CASE AppendTail
  <2>1. /\ ender = "append" /\ tail' = << >> /\ ender' = "hand"
        /\ Collect("ender", Flushed(Split(buffer \o tail)))
        /\ UNCHANGED <<app, helperVars, errPipe, outPipe, handler, readerVars, out,
                       handed, callerVars>>
    BY <1>14 DEF AppendTail
  <2>2. /\ buffer' \in Seq(Nat) /\ text' \in Seq(Line)
        /\ toHand' \in [Queue -> Seq(Line)] /\ toHand'["reader"] = toHand["reader"]
    BY <2>1, AppendsType, CollectType DEF Queue
  <2> QED
    BY <1>0, <2>1, <2>2 DEF RunnerTypeOK, Order
<1>15. CASE HandTail
  <2>1. CASE HandOut("ender") /\ UNCHANGED ender
    <3>1. /\ ender = "hand"
          /\ UNCHANGED <<app, helperVars, errPipe, outPipe, handler, readerVars, tail, out,
                         collectorVars, callerVars>>
      BY <1>15 DEF HandTail
    <3>2. /\ handed' \in Seq(Line) /\ toHand' \in [Queue -> Seq(Line)]
          /\ toHand'["reader"] = toHand["reader"]
      BY <2>1, HandOutType DEF Queue
    <3> QED
      BY <2>1, <3>1, <3>2 DEF RunnerTypeOK, Order
  <2>2. CASE toHand["ender"] = << >> /\ ender' = "stdout" /\ UNCHANGED <<toHand, handed>>
    <3>1. RunnerTypeOK'
      BY <1>15, <2>2 DEF HandTail, RunnerTypeOK
    <3>2. Order'
      BY <1>15, <2>2 DEF HandTail, Order
    <3> QED
      BY <3>1, <3>2
  <2> QED
    BY <1>15, <2>1, <2>2 DEF HandTail
<1>16. CASE ReadOut
  <2>1. /\ ender = "stdout" /\ ender' = "resume" /\ out' = outPipe /\ outPipe' = << >>
        /\ UNCHANGED <<app, helperVars, errPipe, handler, readerVars, tail,
                       collectorVars, toHand, handed, callerVars>>
    BY <1>16 DEF ReadOut
  <2>2. out' \in Seq(Nat) /\ outPipe' \in Seq(Nat) /\ Len(outPipe') <= OutCap
    BY <1>0, <2>1, RunnerAssumption DEF RunnerTypeOK
  <2>3. RunnerTypeOK'
    BY <2>1, <2>2 DEF RunnerTypeOK
  <2>4. Order'
    BY <2>1 DEF Order
  <2> QED
    BY <2>3, <2>4
<1>17. CASE Resume
  <2>1. RunnerTypeOK'
    BY <1>17 DEF Resume, RunnerTypeOK, Order
  <2>2. Order'
    BY <1>17 DEF Resume, Order
  <2> QED
    BY <2>1, <2>2
<1>18. CASE UNCHANGED vars
  BY <1>18 DEF vars, RunnerTypeOK, Order
<1> QED
  BY <1>1, <1>2, <1>3, <1>4, <1>5, <1>6, <1>7, <1>8, <1>9, <1>10, <1>11, <1>12, <1>14,
     <1>15, <1>16, <1>17, <1>18, <1>13 DEF Next, Body, Helper, Reader, Ender

(* Every variable keeps its type, and no run resumes its caller twice. *)
THEOREM RunnerTypes == Spec => []RunnerTypeOK
<1>1. Init => RunnerTypeOK /\ Order
  BY OrderInit
<1>2. RunnerTypeOK /\ Order /\ [Next]_vars => RunnerTypeOK' /\ Order'
  BY OrderNext
<1> QED
  BY <1>1, <1>2, PTL DEF Spec

-----------------------------------------------------------------------------
(* Where the bytes are: a first part of what was written is collected, and *)
(* the rest is on its way, in the order in which it was written -- unless  *)
(* the readability handler has read past the termination handler.          *)

Early == {"idle", "drain", "append"}

OnTheirWay == chunk \o (tail \o errPipe)

Cut == ender \in Early /\ ~ overtook =>
           \E c \in Seq(Nat) : /\ Written = c \o OnTheirWay
                               /\ text = Split(c).lines
                               /\ buffer = Split(c).rest

BytesKept ==
    \A b \in Nat \ {NL} :
        Count(b, Written) = Count(b, errPipe) + Count(b, chunk) + Count(b, tail)
                            + Count(b, buffer) + Count(b, Joined[text])

LinesKept ==
    \A l \in Line :
        Count(l, text) = Count(l, handed) + Count(l, toHand["reader"])
                         + Count(l, toHand["ender"])

streamVars == <<script, at, errPipe, chunk, tail, buffer, text, overtook>>

(* The steps that move bytes, and the others. *)
LEMMA StreamSteps ==
    ASSUME [Next]_vars
    PROVE  \/ HelperStep \/ AvailableData \/ AppendChunk \/ Drain \/ AppendTail
           \/ UNCHANGED streamVars /\ (ender' \in Early => ender \in Early)
<1> USE DEF helperVars, collectorVars, readerVars, enderVars, callerVars, streamVars, Early
<1>1. CASE LaunchFails \/ Launch \/ CloseStdin \/ HelperExits \/ Fire \/ EndOfErr
  BY <1>1 DEF LaunchFails, Launch, CloseStdin, HelperExits, Fire, EndOfErr
<1>2. CASE HandChunk \/ HandTail
  BY <1>2 DEF HandChunk, HandTail
<1>3. CASE TakeOff \/ DrainEnd \/ ReadOut \/ Resume
  BY <1>3 DEF TakeOff, DrainEnd, ReadOut, Resume
<1>4. CASE UNCHANGED vars
  BY <1>4 DEF vars
<1> QED
  BY <1>1, <1>2, <1>3, <1>4 DEF Next, Body, Helper, Reader, Ender

(* A write to stderr is the last byte written. *)
LEMMA WrittenNext ==
    ASSUME RunnerTypeOK, HelperStep
    PROVE  /\ Step \in HelperSteps /\ Written \in Seq(Nat)
           /\ \/ Written' = Written /\ errPipe' = errPipe
              \/ Written' = Append(Written, Step.byte) /\ errPipe' = Append(errPipe, Step.byte)
<1>1. at < Len(script) /\ at' = at + 1 /\ script' = script
  BY DEF HelperStep, helperVars
<1>2. at \in Nat /\ at + 1 \in 1 .. Len(script) /\ Step \in HelperSteps
  BY <1>1, StepType
<1>3. script \in Seq(HelperSteps)
  BY RunnerAssumption DEF RunnerTypeOK
<1>4. SubSeq(script, 1, at) \in Seq(HelperSteps)
  <2>1. \A i \in 1 .. at : script[i] \in HelperSteps
    BY <1>2, <1>3, ElementOfSeq, LenProperties
  <2> QED
    BY <1>2, <2>1, SubSeqProperties
<1>5. SubSeq(script, 1, at + 1) = Append(SubSeq(script, 1, at), Step)
  <2>1. SubSeq(script, 1, at + 1) = SubSeq(script, 1, (at + 1) - 1) \o <<script[at + 1]>>
    <3>1. 1 \in 1 .. Len(script) /\ at + 1 \in 1 .. Len(script)
      BY <1>2, <1>3, LenProperties
    <3> QED
      BY <1>3, <3>1, SubSeqRecursiveSecond
  <2>2. (at + 1) - 1 = at
    BY <1>2
  <2> QED
    BY <1>2, <1>4, <2>1, <2>2, AppendIsConcat DEF Step
<1>6. Written' = WrittenBy[Append(SubSeq(script, 1, at), Step)]
  BY <1>1, <1>5 DEF Written
<1>7. Written' = IF Step.to = "err" THEN Append(Written, Step.byte) ELSE Written
  BY <1>2, <1>4, <1>6, WrittenEquations DEF Written
<1>8. Written \in Seq(Nat)
  BY <1>4, WrittenType DEF Written
<1> QED
  BY <1>2, <1>7, <1>8 DEF HelperStep

LEMMA WrittenIsBytes == RunnerTypeOK => Written \in Seq(Nat)
<1> SUFFICES ASSUME RunnerTypeOK
             PROVE  Written \in Seq(Nat)
  OBVIOUS
<1>1. script \in Seq(HelperSteps) /\ at \in 0 .. Len(script) /\ Len(script) \in Nat
  BY RunnerAssumption, LenProperties DEF RunnerTypeOK
<1>2. \A i \in 1 .. at : script[i] \in HelperSteps
  BY <1>1, ElementOfSeq
<1>3. SubSeq(script, 1, at) \in Seq(HelperSteps)
  BY <1>1, <1>2, SubSeqProperties
<1> QED
  BY <1>3, WrittenType DEF Written

(* The laws of concatenation. *)
LEMMA Laws ==
    /\ << >> \in Seq(Nat)
    /\ \A u \in Seq(Nat) : u \o << >> = u /\ << >> \o u = u
    /\ \A u, v \in Seq(Nat) : u \o v \in Seq(Nat)
<1>1. << >> \in Seq(Nat)
  BY EmptySeq
<1>2. \A u \in Seq(Nat) : u \o << >> = u /\ << >> \o u = u
  BY ConcatEmptySeq
<1>3. \A u, v \in Seq(Nat) : u \o v \in Seq(Nat)
  BY ConcatProperties
<1> QED
  BY <1>1, <1>2, <1>3

LEMMA AppendLaw ==
    \A u, v \in Seq(Nat) : \A b \in Nat : u \o Append(v, b) = Append(u \o v, b)
BY ConcatAppend

LEMMA CutNext == RunnerTypeOK /\ Order /\ Cut /\ [Next]_vars => Cut'
<1> SUFFICES ASSUME RunnerTypeOK, Order, Cut, [Next]_vars, ender' \in Early, ~ overtook'
             PROVE  \E c \in Seq(Nat) : /\ Written' = c \o OnTheirWay'
                                        /\ text' = Split(c).lines
                                        /\ buffer' = Split(c).rest
  BY DEF Cut
<1> USE DEF helperVars, collectorVars, readerVars, enderVars, callerVars
<1>t. /\ chunk \in Seq(Nat) /\ tail \in Seq(Nat) /\ errPipe \in Seq(Nat)
      /\ buffer \in Seq(Nat) /\ text \in Seq(Line)
  BY DEF RunnerTypeOK
<1>e. ender \in Early /\ ~ overtook
  <2>1. ender \in Early
    BY StreamSteps DEF HelperStep, AvailableData, AppendChunk, Drain, AppendTail, Early,
       streamVars
  <2>2. ~ overtook
    <3>1. CASE AvailableData
      BY <3>1 DEF AvailableData
    <3>2. CASE ~ AvailableData
      <4>1. overtook' = overtook
        BY <3>2, StreamSteps DEF HelperStep, AppendChunk, Drain, AppendTail, streamVars
      <4> QED
        BY <4>1
    <3> QED
      BY <3>1, <3>2
  <2> QED
    BY <2>1, <2>2
<1>c. PICK c \in Seq(Nat) : /\ Written = c \o OnTheirWay
                            /\ text = Split(c).lines
                            /\ buffer = Split(c).rest
  BY <1>e DEF Cut
<1>1. CASE HelperStep
  <2>1. tail' = tail /\ chunk' = chunk /\ text' = text /\ buffer' = buffer
    BY <1>1 DEF HelperStep
  <2>2. CASE Written' = Written /\ errPipe' = errPipe
    BY <1>c, <2>1, <2>2 DEF OnTheirWay
  <2>3. CASE Written' = Append(Written, Step.byte) /\ errPipe' = Append(errPipe, Step.byte)
    <3>1. Step.byte \in Nat
      BY <1>1, WrittenNext DEF HelperSteps
    <3>t. tail \o errPipe \in Seq(Nat) /\ OnTheirWay \in Seq(Nat)
      BY <1>t, Laws DEF OnTheirWay
    <3>2. tail \o Append(errPipe, Step.byte) = Append(tail \o errPipe, Step.byte)
      BY <1>t, <3>1, AppendLaw
    <3>3. chunk \o Append(tail \o errPipe, Step.byte) = Append(OnTheirWay, Step.byte)
      BY <1>t, <3>1, <3>t, AppendLaw DEF OnTheirWay
    <3>4. c \o Append(OnTheirWay, Step.byte) = Append(c \o OnTheirWay, Step.byte)
      BY <3>1, <3>t, AppendLaw
    <3>5. OnTheirWay' = Append(OnTheirWay, Step.byte)
      BY <2>1, <2>3, <3>2, <3>3 DEF OnTheirWay
    <3> QED
      BY <1>c, <2>1, <2>3, <3>4, <3>5
  <2> QED
    BY <1>1, <2>2, <2>3, WrittenNext
<1>2. CASE AvailableData
  <2>1. /\ reader # "append" /\ tail' = tail /\ (overtook' = (overtook \/ tail # << >>))
        /\ script' = script /\ at' = at /\ text' = text /\ buffer' = buffer
    BY <1>2 DEF AvailableData
  <2>2. chunk = << >> /\ tail = << >>
    BY <2>1 DEF Order
  <2>r. errPipe = chunk' \o errPipe' /\ errPipe' \in Seq(Nat)
    <3>1. PICK n \in 1 .. Len(errPipe) : chunk' = ReadErr(n) /\ LeaveErr(n)
      BY <1>2 DEF AvailableData
    <3> QED
      BY <3>1, ReadType
  <2>3. OnTheirWay = errPipe /\ OnTheirWay' = errPipe
    BY <1>t, <2>1, <2>2, <2>r, Laws DEF OnTheirWay
  <2>4. Written' = Written
    BY <2>1 DEF Written
  <2> QED
    BY <1>c, <2>1, <2>3, <2>4
<1>3. CASE AppendChunk
  <2>1. /\ chunk' = << >> /\ errPipe' = errPipe /\ tail' = tail
        /\ script' = script /\ at' = at
        /\ text' = text \o Split(buffer \o chunk).lines
        /\ buffer' = Split(buffer \o chunk).rest
    BY <1>3 DEF AppendChunk, Collect
  <2>2. c \o chunk \in Seq(Nat) /\ tail \o errPipe \in Seq(Nat)
    BY <1>t, Laws
  <2>3. /\ Split(c \o chunk).lines = text \o Split(buffer \o chunk).lines
        /\ Split(c \o chunk).rest = Split(buffer \o chunk).rest
    BY <1>c, <1>t, SplitConcat
  <2>4. OnTheirWay' = tail \o errPipe
    BY <2>1, <2>2, Laws DEF OnTheirWay
  <2>5. Written' = (c \o chunk) \o OnTheirWay'
    <3>1. Written' = Written
      BY <2>1 DEF Written
    <3>2. (c \o chunk) \o (tail \o errPipe) = c \o (chunk \o (tail \o errPipe))
      <4>1. c \in Seq(Nat) /\ chunk \in Seq(Nat)
        BY <1>t
      <4>2. \A q \in Seq(Nat) : (c \o chunk) \o q = c \o (chunk \o q)
        BY ONLY <4>1, AssocLaw
      <4> QED
        BY ONLY <2>2, <4>2
    <3>3. Written = c \o (chunk \o (tail \o errPipe))
      BY <1>c DEF OnTheirWay
    <3> QED
      BY ONLY <2>4, <3>1, <3>2, <3>3
  <2> QED
    BY <2>1, <2>2, <2>3, <2>5
<1>4. CASE Drain
  <2>1. /\ chunk' = chunk /\ script' = script /\ at' = at
        /\ text' = text /\ buffer' = buffer
    BY <1>4 DEF Drain
  <2>2. PICK n \in 1 .. Len(errPipe) : tail' = tail \o ReadErr(n) /\ LeaveErr(n)
    BY <1>4 DEF Drain
  <2>r. errPipe = ReadErr(n) \o errPipe' /\ ReadErr(n) \in Seq(Nat) /\ errPipe' \in Seq(Nat)
    BY <2>2, ReadType
  <2>a. (tail \o ReadErr(n)) \o errPipe' = tail \o (ReadErr(n) \o errPipe')
    <3>1. tail \in Seq(Nat)
      BY <1>t
    <3> QED
      BY ONLY <2>r, <3>1, AssocLaw
  <2>3. OnTheirWay' = OnTheirWay
    BY <2>1, <2>2, <2>r, <2>a DEF OnTheirWay
  <2>4. Written' = Written
    BY <2>1 DEF Written
  <2> QED
    BY <1>c, <2>1, <2>3, <2>4
<1>5. CASE AppendTail
  BY <1>5 DEF AppendTail, Early
<1>6. CASE UNCHANGED streamVars
  <2>1. OnTheirWay' = OnTheirWay /\ Written' = Written
    BY <1>6 DEF streamVars, OnTheirWay, Written
  <2> QED
    BY <1>c, <1>6, <2>1 DEF streamVars
<1> QED
  BY <1>1, <1>2, <1>3, <1>4, <1>5, <1>6, StreamSteps

LEMMA CutInit == Init => Cut
<1> SUFFICES ASSUME Init
             PROVE  Cut
  OBVIOUS
<1>1. SubSeq(script, 1, at) = << >>
  <2>1. at = 0
    BY DEF Init
  <2> QED
    BY <2>1, SubSeqEmpty
<1>2. Written = << >> /\ OnTheirWay = << >>
  BY <1>1, WrittenEquations, Laws DEF Written, OnTheirWay, Init
<1>3. << >> \o << >> = << >> /\ << >> \in Seq(Nat)
  BY Laws
<1>4. text = Split(<< >>).lines /\ buffer = Split(<< >>).rest
  BY SplitEquations DEF Init, NoPieces
<1> QED
  BY <1>2, <1>3, <1>4 DEF Cut

-----------------------------------------------------------------------------
(* Bytes and lines are kept. *)

LEMMA BytesNext == RunnerTypeOK /\ Order /\ BytesKept /\ [Next]_vars => BytesKept'
<1> SUFFICES ASSUME RunnerTypeOK, Order, BytesKept, [Next]_vars, NEW b \in Nat \ {NL}
             PROVE  Count(b, Written')
                    = Count(b, errPipe') + Count(b, chunk') + Count(b, tail')
                      + Count(b, buffer') + Count(b, Joined[text'])
  BY DEF BytesKept
<1> USE DEF helperVars, collectorVars, readerVars, enderVars, callerVars
<1>t. /\ chunk \in Seq(Nat) /\ tail \in Seq(Nat) /\ errPipe \in Seq(Nat)
      /\ buffer \in Seq(Nat) /\ text \in Seq(Line) /\ Joined[text] \in Seq(Nat)
      /\ Written \in Seq(Nat)
  BY JoinedType, WrittenIsBytes DEF RunnerTypeOK
<1>n. /\ Count(b, chunk) \in Nat /\ Count(b, tail) \in Nat /\ Count(b, errPipe) \in Nat
      /\ Count(b, buffer) \in Nat /\ Count(b, Joined[text]) \in Nat
      /\ Count(b, Written) \in Nat
  BY <1>t, CountType
<1>k. Count(b, Written) = Count(b, errPipe) + Count(b, chunk) + Count(b, tail)
                          + Count(b, buffer) + Count(b, Joined[text])
  BY DEF BytesKept
<1>z. Count(b, << >>) = 0
  BY CountEmpty
<1>r. ASSUME NEW n \in 1 .. Len(errPipe), LeaveErr(n)
      PROVE  /\ Count(b, errPipe) = Count(b, ReadErr(n)) + Count(b, errPipe')
             /\ Count(b, ReadErr(n)) \in Nat /\ Count(b, errPipe') \in Nat
  <2>1. /\ ReadErr(n) \in Seq(Nat) /\ errPipe' \in Seq(Nat)
        /\ errPipe = ReadErr(n) \o errPipe'
    BY <1>r, ReadType
  <2>2. Count(b, ReadErr(n) \o errPipe') = Count(b, ReadErr(n)) + Count(b, errPipe')
    BY <2>1, CountConcat
  <2>3. Count(b, ReadErr(n)) \in Nat /\ Count(b, errPipe') \in Nat
    BY <2>1, CountType
  <2> QED
    BY <2>1, <2>2, <2>3
<1>s. ASSUME NEW d \in Seq(Nat)
      PROVE  /\ Split(buffer \o d) \in Pieces
             /\ Count(b, Joined[text \o Split(buffer \o d).lines])
                  + Count(b, Split(buffer \o d).rest)
                = Count(b, Joined[text]) + Count(b, buffer) + Count(b, d)
  <2> DEFINE p == Split(buffer \o d)
  <2>1. buffer \o d \in Seq(Nat) /\ p \in Pieces
    BY <1>t, Laws, SplitType
  <2>2. p.lines \in Seq(Line) /\ p.rest \in Seq(Nat)
    BY <2>1 DEF Pieces, Line
  <2>3. Count(b, buffer \o d) = Count(b, buffer) + Count(b, d)
    BY <1>t, CountConcat
  <2>4. Count(b, buffer \o d) = Count(b, Joined[p.lines]) + Count(b, p.rest)
    BY <2>1, CountSplit
  <2>5. Joined[text \o p.lines] = Joined[text] \o Joined[p.lines]
    BY <1>t, <2>2, JoinedConcat
  <2>6. /\ Joined[p.lines] \in Seq(Nat)
        /\ Count(b, Joined[text] \o Joined[p.lines])
           = Count(b, Joined[text]) + Count(b, Joined[p.lines])
    BY <1>t, <2>2, JoinedType, CountConcat
  <2>7. /\ Count(b, Joined[p.lines]) \in Nat /\ Count(b, p.rest) \in Nat
        /\ Count(b, d) \in Nat
    BY <2>2, <2>6, CountType
  <2> HIDE DEF p
  <2>8. Count(b, Joined[text \o p.lines]) = Count(b, Joined[text]) + Count(b, Joined[p.lines])
    BY <2>5, <2>6
  <2>9. Count(b, Joined[text \o p.lines]) + Count(b, p.rest)
        = Count(b, Joined[text]) + Count(b, buffer) + Count(b, d)
    <3> DEFINE j == Count(b, Joined[text \o p.lines])
               a == Count(b, Joined[p.lines])
               r == Count(b, p.rest)
               e == Count(b, d)
               f == Count(b, buffer)
               t == Count(b, Joined[text])
    <3>1. /\ a \in Nat /\ r \in Nat /\ e \in Nat /\ f \in Nat /\ t \in Nat
          /\ j = t + a /\ f + e = a + r
      BY <1>n, <2>3, <2>4, <2>7, <2>8
    <3> HIDE DEF j, a, r, e, f, t
    <3>2. j + r = t + f + e
      BY <3>1
    <3> QED
      BY <3>2 DEF j, a, r, e, f, t
  <2> QED
    BY <2>1, <2>9 DEF p
<1>1. CASE HelperStep
  <2>1. tail' = tail /\ chunk' = chunk /\ text' = text /\ buffer' = buffer
    BY <1>1 DEF HelperStep
  <2>2. CASE Written' = Written /\ errPipe' = errPipe
    BY <1>k, <2>1, <2>2
  <2>3. CASE Written' = Append(Written, Step.byte) /\ errPipe' = Append(errPipe, Step.byte)
    <3> DEFINE n == IF Step.byte = b THEN 1 ELSE 0
    <3>1. Step.byte \in Nat
      BY <1>1, WrittenNext DEF HelperSteps
    <3>2. /\ Count(b, Append(Written, Step.byte)) = Count(b, Written) + n
          /\ Count(b, Append(errPipe, Step.byte)) = Count(b, errPipe) + n
      <4>1. Written \in Seq(Nat) /\ errPipe \in Seq(Nat)
        BY <1>t
      <4>2. \A q \in Seq(Nat) : Count(b, Append(q, Step.byte)) = Count(b, q) + n
        BY ONLY <3>1, CountAppend
      <4> QED
        BY ONLY <4>1, <4>2
    <3>3. n \in Nat
      OBVIOUS
    <3> HIDE DEF n
    <3>4. /\ Count(b, Written') = Count(b, Written) + n
          /\ Count(b, errPipe') = Count(b, errPipe) + n
      BY ONLY <2>3, <3>2
    <3>5. Count(b, Written) + n
          = (Count(b, errPipe) + n) + Count(b, chunk) + Count(b, tail)
            + Count(b, buffer) + Count(b, Joined[text])
      BY ONLY <1>k, <1>n, <3>3
    <3> QED
      BY ONLY <2>1, <3>4, <3>5
  <2> QED
    BY <1>1, <2>2, <2>3, WrittenNext
<1>2. CASE AvailableData
  <2>1. /\ reader # "append" /\ tail' = tail
        /\ script' = script /\ at' = at /\ text' = text /\ buffer' = buffer
    BY <1>2 DEF AvailableData
  <2>2. chunk = << >> /\ Written' = Written
    BY <2>1 DEF Order, Written
  <2>3. PICK n \in 1 .. Len(errPipe) : chunk' = ReadErr(n) /\ LeaveErr(n)
    BY <1>2 DEF AvailableData
  <2>4. /\ Count(b, errPipe) = Count(b, chunk') + Count(b, errPipe')
        /\ Count(b, chunk') \in Nat /\ Count(b, errPipe') \in Nat
    BY <1>r, <2>3
  <2> QED
    BY <1>k, <1>n, <1>z, <2>1, <2>2, <2>4
<1>3. CASE AppendChunk
  <2>1. /\ chunk' = << >> /\ errPipe' = errPipe /\ tail' = tail
        /\ script' = script /\ at' = at
        /\ text' = text \o Split(buffer \o chunk).lines
        /\ buffer' = Split(buffer \o chunk).rest
    BY <1>3 DEF AppendChunk, Collect
  <2>2. Written' = Written
    BY <2>1 DEF Written
  <2>3. Count(b, Joined[text']) + Count(b, buffer')
        = Count(b, Joined[text]) + Count(b, buffer) + Count(b, chunk)
    BY <1>s, <1>t, <2>1
  <2>4. Count(b, Joined[text']) \in Nat /\ Count(b, buffer') \in Nat
    <3>1. text' \in Seq(Line) /\ buffer' \in Seq(Nat)
      BY OrderNext DEF RunnerTypeOK
    <3> QED
      BY <3>1, JoinedType, CountType
  <2>5. /\ Count(b, errPipe') = Count(b, errPipe) /\ Count(b, tail') = Count(b, tail)
        /\ Count(b, chunk') = 0 /\ Count(b, Written') = Count(b, Written)
    BY <1>z, <2>1, <2>2
  <2> QED
    BY <1>k, <1>n, <2>3, <2>4, <2>5
<1>4. CASE Drain
  <2>1. /\ chunk' = chunk /\ script' = script /\ at' = at
        /\ text' = text /\ buffer' = buffer
    BY <1>4 DEF Drain
  <2>2. Written' = Written
    BY <2>1 DEF Written
  <2>3. PICK n \in 1 .. Len(errPipe) : tail' = tail \o ReadErr(n) /\ LeaveErr(n)
    BY <1>4 DEF Drain
  <2>4. /\ Count(b, errPipe) = Count(b, ReadErr(n)) + Count(b, errPipe')
        /\ Count(b, ReadErr(n)) \in Nat /\ Count(b, errPipe') \in Nat
    BY <1>r, <2>3
  <2>5. Count(b, tail') = Count(b, tail) + Count(b, ReadErr(n))
    <3>1. ReadErr(n) \in Seq(Nat)
      BY <2>3, ReadType
    <3> QED
      BY <1>t, <2>3, <3>1, CountConcat
  <2> QED
    BY <1>k, <1>n, <2>1, <2>2, <2>4, <2>5
<1>5. CASE AppendTail
  <2> DEFINE p == Split(buffer \o tail)
  <2>1. /\ tail' = << >> /\ errPipe' = errPipe /\ chunk' = chunk
        /\ script' = script /\ at' = at
        /\ text' = text \o Flushed(p).lines
        /\ buffer' = Flushed(p).rest
    BY <1>5 DEF AppendTail, Collect
  <2>2. Written' = Written
    BY <2>1 DEF Written
  <2>3. /\ p \in Pieces
        /\ Count(b, Joined[text \o p.lines]) + Count(b, p.rest)
           = Count(b, Joined[text]) + Count(b, buffer) + Count(b, tail)
    BY <1>s, <1>t
  <2> HIDE DEF p
  <2>4. p.lines \in Seq(Line) /\ p.rest \in Line /\ p.rest \in Seq(Nat)
    BY <2>3 DEF Pieces, Line
  <2>5. Count(b, Joined[text']) + Count(b, buffer')
        = Count(b, Joined[text \o p.lines]) + Count(b, p.rest)
    <3>1. CASE p.rest = << >>
      BY <2>1, <3>1 DEF Flushed
    <3>2. CASE p.rest # << >>
      <4>1. text' = text \o Append(p.lines, p.rest) /\ buffer' = << >>
        BY <2>1, <3>2 DEF Flushed
      <4>2. text \o Append(p.lines, p.rest) = Append(text \o p.lines, p.rest)
            /\ text \o p.lines \in Seq(Line)
        <5>1. \A v, w \in Seq(Line) : \A e \in Line : v \o Append(w, e) = Append(v \o w, e)
          BY ConcatAppend
        <5>2. text \o p.lines \in Seq(Line)
          BY <1>t, <2>4, ConcatProperties
        <5> QED
          BY <1>t, <2>4, <5>1, <5>2
      <4>3. Joined[text'] = Joined[text \o p.lines] \o p.rest
        BY <2>4, <4>1, <4>2, JoinedEquations
      <4>4. Joined[text \o p.lines] \in Seq(Nat)
        BY <4>2, JoinedType
      <4>5. /\ Count(b, Joined[text']) = Count(b, Joined[text \o p.lines]) + Count(b, p.rest)
            /\ Count(b, Joined[text \o p.lines]) \in Nat /\ Count(b, p.rest) \in Nat
        BY <2>4, <4>3, <4>4, CountConcat, CountType
      <4> QED
        BY <1>z, <4>1, <4>5
    <3> QED
      BY <3>1, <3>2
  <2>6. Count(b, Joined[text']) \in Nat /\ Count(b, buffer') \in Nat
    <3>1. text' \in Seq(Line) /\ buffer' \in Seq(Nat)
      BY OrderNext DEF RunnerTypeOK
    <3> QED
      BY <3>1, JoinedType, CountType
  <2>7. /\ Count(b, errPipe') = Count(b, errPipe) /\ Count(b, chunk') = Count(b, chunk)
        /\ Count(b, tail') = 0 /\ Count(b, Written') = Count(b, Written)
    BY <1>z, <2>1, <2>2
  <2> QED
    BY <1>k, <1>n, <2>3, <2>5, <2>6, <2>7
<1>6. CASE UNCHANGED streamVars
  <2>1. Written' = Written
    BY <1>6 DEF streamVars, Written
  <2> QED
    BY <1>k, <1>6, <2>1 DEF streamVars
<1> QED
  BY <1>1, <1>2, <1>3, <1>4, <1>5, <1>6, StreamSteps

LEMMA LinesNext == RunnerTypeOK /\ Order /\ LinesKept /\ [Next]_vars => LinesKept'
<1> SUFFICES ASSUME RunnerTypeOK, Order, LinesKept, [Next]_vars, NEW l \in Line
             PROVE  Count(l, text') = Count(l, handed') + Count(l, toHand'["reader"])
                                      + Count(l, toHand'["ender"])
  BY DEF LinesKept
<1> USE DEF helperVars, collectorVars, readerVars, enderVars, callerVars
<1>t. /\ text \in Seq(Line) /\ handed \in Seq(Line)
      /\ toHand["reader"] \in Seq(Line) /\ toHand["ender"] \in Seq(Line)
  BY DEF RunnerTypeOK, Queue
<1>n. /\ Count(l, text) \in Nat /\ Count(l, handed) \in Nat
      /\ Count(l, toHand["reader"]) \in Nat /\ Count(l, toHand["ender"]) \in Nat
  BY <1>t, CountType
<1>k. Count(l, text) = Count(l, handed) + Count(l, toHand["reader"])
                       + Count(l, toHand["ender"])
  BY DEF LinesKept
<1>z. Count(l, << >>) = 0
  BY CountEmpty
<1>c. ASSUME NEW q \in Queue, NEW split \in Pieces, Collect(q, split), toHand[q] = << >>
      PROVE  /\ Count(l, text') = Count(l, text) + Count(l, toHand'[q])
             /\ Count(l, toHand'[q]) \in Nat /\ Count(l, toHand[q]) = 0
             /\ \A r \in Queue \ {q} : toHand'[r] = toHand[r]
  <2>1. /\ toHand'[q] = split.lines /\ split.lines \in Seq(Line)
        /\ \A r \in Queue \ {q} : toHand'[r] = toHand[r]
    BY <1>c, CollectType DEF Pieces
  <2>2. text' = text \o split.lines
    BY <1>c DEF Collect
  <2> QED
    BY <1>t, <1>c, <1>z, <2>1, <2>2, CountConcat, CountType
<1>h. ASSUME NEW q \in Queue, HandOut(q)
      PROVE  /\ Count(l, handed') + Count(l, toHand'[q]) = Count(l, handed) + Count(l, toHand[q])
             /\ Count(l, handed') \in Nat /\ Count(l, toHand'[q]) \in Nat
             /\ \A r \in Queue \ {q} : toHand'[r] = toHand[r]
  <2> DEFINE h == Head(toHand[q])
             s == toHand'[q]
  <2>1. /\ handed' = Append(handed, h) /\ toHand[q] = <<h>> \o s /\ h \in Line
        /\ s \in Seq(Line) /\ handed' \in Seq(Line)
        /\ \A r \in Queue \ {q} : toHand'[r] = toHand[r]
    BY <1>h, HandOutType
  <2> HIDE DEF h, s
  <2>2. <<h>> = Append(<< >>, h) /\ << >> \in Seq(Line) /\ <<h>> \in Seq(Line)
    BY <2>1
  <2>3. Count(l, <<h>>) = 0 + (IF h = l THEN 1 ELSE 0)
    <3>1. \A e \in Line : Count(l, Append(<< >>, e)) = Count(l, << >>) + (IF e = l THEN 1 ELSE 0)
      BY <2>2, CountAppend
    <3> QED
      BY <1>z, <2>1, <2>2, <3>1
  <2>4. Count(l, handed') = Count(l, handed) + (IF h = l THEN 1 ELSE 0)
    BY <1>t, <2>1, CountAppend
  <2>5. Count(l, toHand[q]) = Count(l, <<h>>) + Count(l, s)
    <3>1. \A u, v \in Seq(Line) : Count(l, u \o v) = Count(l, u) + Count(l, v)
      BY CountConcat
    <3> QED
      BY <2>1, <2>2, <3>1
  <2>6. Count(l, s) \in Nat /\ Count(l, handed') \in Nat
    BY <2>1, CountType
  <2>7. Count(l, handed') + Count(l, s) = Count(l, handed) + Count(l, toHand[q])
    BY <1>n, <2>3, <2>4, <2>5, <2>6
  <2> QED
    BY <2>1, <2>6, <2>7 DEF s
<1>1. CASE AppendChunk
  <2>1. Collect("reader", Split(buffer \o chunk)) /\ toHand["reader"] = << >>
        /\ handed' = handed
    BY <1>1 DEF AppendChunk, Order
  <2>2. /\ Count(l, text') = Count(l, text) + Count(l, toHand'["reader"])
        /\ Count(l, toHand'["reader"]) \in Nat /\ Count(l, toHand["reader"]) = 0
        /\ toHand'["ender"] = toHand["ender"]
    BY <1>c, <2>1, AppendsType DEF Queue
  <2> QED
    BY <1>k, <1>n, <2>1, <2>2
<1>2. CASE AppendTail
  <2>1. Collect("ender", Flushed(Split(buffer \o tail))) /\ toHand["ender"] = << >>
        /\ handed' = handed
    BY <1>2 DEF AppendTail, Order
  <2>2. /\ Count(l, text') = Count(l, text) + Count(l, toHand'["ender"])
        /\ Count(l, toHand'["ender"]) \in Nat /\ Count(l, toHand["ender"]) = 0
        /\ toHand'["reader"] = toHand["reader"]
    BY <1>c, <2>1, AppendsType DEF Queue
  <2> QED
    BY <1>k, <1>n, <2>1, <2>2
<1>3. CASE HandOut("reader") /\ UNCHANGED text
  <2>1. /\ Count(l, handed') + Count(l, toHand'["reader"])
             = Count(l, handed) + Count(l, toHand["reader"])
        /\ Count(l, handed') \in Nat /\ Count(l, toHand'["reader"]) \in Nat
        /\ toHand'["ender"] = toHand["ender"]
    BY <1>h, <1>3 DEF Queue
  <2> QED
    BY <1>3, <1>k, <1>n, <2>1
<1>4. CASE HandOut("ender") /\ UNCHANGED text
  <2>1. /\ Count(l, handed') + Count(l, toHand'["ender"])
             = Count(l, handed) + Count(l, toHand["ender"])
        /\ Count(l, handed') \in Nat /\ Count(l, toHand'["ender"]) \in Nat
        /\ toHand'["reader"] = toHand["reader"]
    BY <1>h, <1>4 DEF Queue
  <2> QED
    BY <1>4, <1>k, <1>n, <2>1
<1>5. CASE UNCHANGED <<text, handed, toHand>>
  BY <1>5, <1>k
<1>6. \/ AppendChunk \/ AppendTail
      \/ HandOut("reader") /\ UNCHANGED text
      \/ HandOut("ender") /\ UNCHANGED text
      \/ UNCHANGED <<text, handed, toHand>>
  <2>1. CASE LaunchFails \/ Launch \/ CloseStdin \/ HelperStep \/ HelperExits
    BY <2>1 DEF LaunchFails, Launch, CloseStdin, HelperStep, HelperExits
  <2>2. CASE Fire \/ AvailableData \/ EndOfErr \/ HandChunk
    BY <2>2 DEF Fire, AvailableData, EndOfErr, HandChunk
  <2>3. CASE TakeOff \/ Drain \/ DrainEnd \/ HandTail \/ ReadOut \/ Resume
    BY <2>3 DEF TakeOff, Drain, DrainEnd, HandTail, ReadOut, Resume
  <2>4. CASE UNCHANGED vars
    BY <2>4 DEF vars
  <2> QED
    BY <2>1, <2>2, <2>3, <2>4 DEF Next, Body, Helper, Reader, Ender
<1> QED
  BY <1>1, <1>2, <1>3, <1>4, <1>5, <1>6

-----------------------------------------------------------------------------
(* The properties. *)

RunnerInv == RunnerTypeOK /\ Order /\ Cut /\ BytesKept /\ LinesKept

LEMMA RunnerInductive == Spec => []RunnerInv
<1>1. Init => RunnerInv
  <2> SUFFICES ASSUME Init
               PROVE  RunnerInv
    OBVIOUS
  <2>1. /\ RunnerTypeOK /\ Order /\ Cut
    BY OrderInit, CutInit
  <2>2. Written = << >> /\ Joined[text] = << >>
    <3>1. at = 0 /\ text = << >>
      BY DEF Init
    <3>2. SubSeq(script, 1, at) = << >>
      BY <3>1, SubSeqEmpty
    <3> QED
      BY <3>1, <3>2, WrittenEquations, JoinedEquations DEF Written
  <2>3. BytesKept
    BY <2>2, CountEmpty DEF BytesKept, Init
  <2>4. LinesKept
    BY CountEmpty DEF LinesKept, Init, Queue
  <2> QED
    BY <2>1, <2>3, <2>4 DEF RunnerInv
<1>2. RunnerInv /\ [Next]_vars => RunnerInv'
  BY OrderNext, CutNext, BytesNext, LinesNext DEF RunnerInv
<1> QED
  BY <1>1, <1>2, PTL DEF Spec

LEMMA PrefixOfConcat ==
    ASSUME NEW T, NEW s \in Seq(T), NEW t \in Seq(T)
    PROVE  IsPrefix(s, s \o t)
<1>1. /\ Len(s) \in Nat /\ Len(t) \in Nat /\ Len(s \o t) = Len(s) + Len(t)
      /\ s \o t \in Seq(T)
  BY LenProperties, ConcatProperties
<1>2. SubSeq(s, 1, Len(s)) = SubSeq(s \o t, 1, Len(s))
  <2>1. CASE Len(s) = 0
    BY <2>1, SubSeqEmpty
  <2>2. CASE Len(s) # 0
    <3>1. 1 \in 1 .. Len(s) /\ Len(s) \in 1 .. Len(s)
      BY <1>1, <2>2
    <3> QED
      BY <3>1, SubSeqOfConcat1
  <2> QED
    BY <2>1, <2>2
<1> QED
  BY <1>1, <1>2 DEF IsPrefix

(* While the helper runs, what onStderrLine has had and is being given are
   lines the helper wrote, whole and in order: LineCollector.append puts the
   chunks together whatever they are.                                        *)
THEOREM LinesWhole == Spec => []LinesAreWhole
<1>1. RunnerInv => LinesAreWhole
  <2> SUFFICES ASSUME RunnerInv, ender = "idle"
               PROVE  IsPrefix(handed \o toHand["reader"], Split(Written).lines)
    BY DEF LinesAreWhole
  <2>1. PICK c \in Seq(Nat) : /\ Written = c \o OnTheirWay
                              /\ text = Split(c).lines
                              /\ buffer = Split(c).rest
    BY DEF RunnerInv, Order, Cut, Early
  <2>2. OnTheirWay \in Seq(Nat)
    BY Laws DEF OnTheirWay, RunnerInv, RunnerTypeOK
  <2> DEFINE more == Split(Split(c).rest \o OnTheirWay).lines
  <2>3. Split(Written).lines = text \o more
    BY <2>1, <2>2, SplitConcat
  <2>4. text \in Seq(Line) /\ more \in Seq(Line)
    BY <2>2, SplitType, Laws DEF Pieces, Line, RunnerInv, RunnerTypeOK
  <2>5. handed \o toHand["reader"] = text
    BY DEF RunnerInv, Order
  <2> HIDE DEF more
  <2> QED
    BY <2>3, <2>4, <2>5, PrefixOfConcat
<1> QED
  BY <1>1, RunnerInductive, PTL

(* The two queues lose no byte and no line, and double none. *)
THEOREM BytesOnce == Spec => []EveryByteOnce
<1>1. RunnerInv => EveryByteOnce
  <2> SUFFICES ASSUME RunnerInv
               PROVE  EveryByteOnce
    OBVIOUS
  <2> DEFINE held == errPipe \o chunk \o tail \o buffer \o Joined[text]
             lines == handed \o toHand["reader"] \o toHand["ender"]
  <2>t. /\ chunk \in Seq(Nat) /\ tail \in Seq(Nat) /\ errPipe \in Seq(Nat)
        /\ buffer \in Seq(Nat) /\ text \in Seq(Line) /\ Joined[text] \in Seq(Nat)
        /\ Written \in Seq(Nat) /\ handed \in Seq(Line)
        /\ toHand["reader"] \in Seq(Line) /\ toHand["ender"] \in Seq(Line)
    BY JoinedType, WrittenIsBytes DEF RunnerTypeOK, RunnerInv, Queue
  <2>1. held \in Seq(Nat) /\ Written \o held \in Seq(Nat)
    BY <2>t, Laws
  <2>2. ASSUME NEW b \in Nat, b # NL
        PROVE  Count(b, Written) = Count(b, held)
    <3>1. errPipe \o chunk \in Seq(Nat) /\ (errPipe \o chunk) \o tail \in Seq(Nat)
          /\ ((errPipe \o chunk) \o tail) \o buffer \in Seq(Nat)
      BY <2>t, Laws
    <3>c. \A u, v \in Seq(Nat) : Count(b, u \o v) = Count(b, u) + Count(b, v)
      BY CountConcat
    <3>2. Count(b, errPipe \o chunk) = Count(b, errPipe) + Count(b, chunk)
      BY <2>t, <3>c
    <3>3. Count(b, (errPipe \o chunk) \o tail) = Count(b, errPipe \o chunk) + Count(b, tail)
      BY <2>t, <3>1, <3>c
    <3>4. Count(b, ((errPipe \o chunk) \o tail) \o buffer)
          = Count(b, (errPipe \o chunk) \o tail) + Count(b, buffer)
      BY <2>t, <3>1, <3>c
    <3>5. Count(b, held) = Count(b, ((errPipe \o chunk) \o tail) \o buffer)
                           + Count(b, Joined[text])
      BY <2>t, <3>1, <3>c
    <3>6. Count(b, Written) = Count(b, errPipe) + Count(b, chunk) + Count(b, tail)
                              + Count(b, buffer) + Count(b, Joined[text])
      BY <2>2 DEF RunnerInv, BytesKept
    <3> HIDE DEF held
    <3> QED
      BY <3>2, <3>3, <3>4, <3>5, <3>6
  <2>3. ASSUME NEW b \in ToSet(Written \o held) \ {NL}
        PROVE  Count(b, Written) = Count(b, held)
    <3>1. b \in Nat
      <4> HIDE DEF held
      <4> QED
        BY <2>1, ElementOfSeq, LenProperties DEF ToSet
    <3> HIDE DEF held
    <3> QED
      BY <2>2, <2>3, <3>1
  <2>4. lines \in Seq(Line) /\ text \o lines \in Seq(Line)
        /\ handed \o toHand["reader"] \in Seq(Line)
    <3>1. \A u, v \in Seq(Line) : u \o v \in Seq(Line)
      BY ConcatProperties
    <3> QED
      BY <2>t, <3>1
  <2>5. ASSUME NEW l \in ToSet(text \o lines)
        PROVE  Count(l, text) = Count(l, lines)
    <3>1. l \in Line
      <4> HIDE DEF lines
      <4> QED
        BY <2>4, ElementOfSeq, LenProperties DEF ToSet
    <3>c. \A u, v \in Seq(Line) : Count(l, u \o v) = Count(l, u) + Count(l, v)
      BY CountConcat
    <3>2. Count(l, handed \o toHand["reader"]) = Count(l, handed) + Count(l, toHand["reader"])
      BY <2>t, <3>c
    <3>3. Count(l, lines) = Count(l, handed \o toHand["reader"]) + Count(l, toHand["ender"])
      BY <2>t, <2>4, <3>c
    <3>4. Count(l, text) = Count(l, handed) + Count(l, toHand["reader"])
                           + Count(l, toHand["ender"])
      BY <3>1 DEF RunnerInv, LinesKept
    <3> HIDE DEF lines
    <3> QED
      BY <3>2, <3>3, <3>4
  <2> HIDE DEF held, lines
  <2>6. \A b \in ToSet(Written \o held) \ {NL} : Count(b, Written) = Count(b, held)
    BY <2>3
  <2>7. SameBag(text, lines)
    BY <2>5 DEF SameBag
  <2> QED
    BY <2>6, <2>7 DEF EveryByteOnce, held, lines
<1> QED
  BY <1>1, RunnerInductive, PTL

(* The termination handler leaves all of the helper's lines in the stderr of
   the Output, the unfinished one included, unless the readability handler
   holds a chunk just then or has read past it.                              *)
THEOREM HandoverComplete == Spec => HandoverIsComplete
<1> DEFINE Complete ==
             ender = "append" /\ ender' = "hand" /\ reader # "append" /\ ~ overtook =>
                 text' = LinesOf(Written)
<1>1. RunnerInv /\ [Next]_vars => [Complete]_vars
  <2> SUFFICES ASSUME RunnerInv, [Next]_vars, ender = "append", ender' = "hand",
                      reader # "append", ~ overtook
               PROVE  text' = LinesOf(Written)
    OBVIOUS
  <2>1. AppendTail
    <3> USE DEF helperVars, collectorVars, readerVars, enderVars, callerVars
    <3>1. CASE LaunchFails \/ Launch \/ CloseStdin \/ HelperStep \/ HelperExits
      BY <3>1 DEF LaunchFails, Launch, CloseStdin, HelperStep, HelperExits
    <3>2. CASE Fire \/ AvailableData \/ EndOfErr \/ AppendChunk \/ HandChunk
      BY <3>2 DEF Fire, AvailableData, EndOfErr, AppendChunk, HandChunk
    <3>3. CASE TakeOff \/ Drain \/ DrainEnd \/ HandTail \/ ReadOut \/ Resume
      BY <3>3 DEF TakeOff, Drain, DrainEnd, HandTail, ReadOut, Resume
    <3>4. CASE UNCHANGED vars
      BY <3>4 DEF vars
    <3> QED
      BY <3>1, <3>2, <3>3, <3>4 DEF Next, Body, Helper, Reader, Ender
  <2>2. /\ tail \in Seq(Nat) /\ buffer \in Seq(Nat) /\ text \in Seq(Line)
        /\ chunk = << >> /\ errPipe = << >>
    BY DEF RunnerInv, RunnerTypeOK, Order
  <2>3. PICK c \in Seq(Nat) : /\ Written = c \o OnTheirWay
                              /\ text = Split(c).lines
                              /\ buffer = Split(c).rest
    BY DEF RunnerInv, Cut, Early
  <2>4. OnTheirWay = tail
    BY <2>2, Laws DEF OnTheirWay
  <2> DEFINE p == Split(buffer \o tail)
  <2>5. Split(Written).lines = text \o p.lines /\ Split(Written).rest = p.rest
    BY <2>2, <2>3, <2>4, SplitConcat
  <2>6. text' = text \o Flushed(p).lines
    BY <2>1 DEF AppendTail, Collect
  <2>7. p.lines \in Seq(Line) /\ p.rest \in Line
    BY <2>2, Laws, SplitType DEF Pieces
  <2> HIDE DEF p
  <2>8. CASE p.rest = << >>
    <3>1. text' = text \o p.lines
      BY <2>6, <2>8 DEF Flushed
    <3>2. (text \o p.lines) \o << >> = text \o p.lines
      <4>1. text \o p.lines \in Seq(Line)
        BY <2>2, <2>7, ConcatProperties
      <4> QED
        BY <4>1, ConcatEmptySeq
    <3>3. LinesOf(Written) = (text \o p.lines) \o << >>
      BY <2>5, <2>8 DEF LinesOf
    <3> QED
      BY <3>1, <3>2, <3>3
  <2>9. CASE p.rest # << >>
    <3>1. text' = text \o Append(p.lines, p.rest)
      BY <2>6, <2>9 DEF Flushed
    <3>2. LinesOf(Written) = (text \o p.lines) \o <<p.rest>>
      BY <2>5, <2>9 DEF LinesOf
    <3>3. Append(p.lines, p.rest) = p.lines \o <<p.rest>> /\ <<p.rest>> \in Seq(Line)
      <4>1. \A u \in Seq(Line) : \A e \in Line : Append(u, e) = u \o <<e>>
        BY AppendIsConcat
      <4>2. \A e \in Line : <<e>> \in Seq(Line)
        OBVIOUS
      <4> QED
        BY <2>7, <4>1, <4>2
    <3>4. \A u, v, w \in Seq(Line) : (u \o v) \o w = u \o (v \o w)
      BY ONLY LineAssocLaw
    <3>5. (text \o p.lines) \o <<p.rest>> = text \o (p.lines \o <<p.rest>>)
      BY <2>2, <2>7, <3>3, <3>4
    <3> QED
      BY <3>1, <3>2, <3>3, <3>5
  <2> QED
    BY <2>8, <2>9
<1>2. Spec => [][Complete]_vars
  BY <1>1, RunnerInductive, PTL DEF Spec
<1> QED
  BY <1>2 DEF HandoverIsComplete
=============================================================================
