-------------------------- MODULE PacketPath_proofs --------------------------
(***************************************************************************)
(* Theorems about PacketPath, for every command line, machine, camera and  *)
(* capture: what is put in a packet is what comes out of it, what ipcprobe *)
(* lists is what it accepts, what mhedpcap calls ours is, and what is      *)
(* asked for is the address of a host.                                     *)
(***************************************************************************)
EXTENDS PacketPath, SequenceLemmas, FiniteSetTheorems

-----------------------------------------------------------------------------
(* Bytes, fields and numbers (mhed.go) *)

(* What ++ means, so that no proof has to expand it. *)
LEMMA PutIs ==
    ASSUME NEW p, NEW f
    PROVE  p ++ f = [i \in DOMAIN p |-> IF f[1] < i /\ i <= f[1] + Len(f[2])
                                       THEN f[2][i - f[1]] ELSE p[i]]
<1>1. p ++ f = Copied(p, f)
  BY DEF ++
<1> QED
  BY ONLY <1>1, Zenon DEF Copied

(* What is written to a packet, byte for byte. *)
LEMMA PutBytes ==
    ASSUME NEW p \in Bytes, NEW off \in Nat, NEW s \in Bytes
    PROVE  /\ p ++ <<off, s>> \in Bytes
           /\ Len(p ++ <<off, s>>) = Len(p)
           /\ \A i \in 1 .. Len(p) :
                  (p ++ <<off, s>>)[i] = IF off < i /\ i <= off + Len(s) THEN s[i - off] ELSE p[i]
<1>1. /\ Len(p) \in Nat /\ DOMAIN p = 1 .. Len(p) /\ Len(s) \in Nat
      /\ \A i \in 1 .. Len(p) : p[i] \in Byte
      /\ \A i \in 1 .. Len(s) : s[i] \in Byte
  BY LenProperties, ElementOfSeq DEF Bytes
<1> DEFINE q == [i \in 1 .. Len(p) |->
                   IF off < i /\ i <= off + Len(s) THEN s[i - off] ELSE p[i]]
<1>2. p ++ <<off, s>> = q
  <2> DEFINE f == <<off, s>>
  <2>1. f[1] = off /\ f[2] = s /\ DOMAIN p = 1 .. Len(p)
    BY <1>1
  <2> HIDE DEF f, q
  <2>2. p ++ f = [i \in DOMAIN p |-> IF f[1] < i /\ i <= f[1] + Len(f[2])
                                    THEN f[2][i - f[1]] ELSE p[i]]
    BY ONLY TRUE, PutIs
  <2>3. q = [i \in DOMAIN p |-> IF f[1] < i /\ i <= f[1] + Len(f[2])
                                THEN f[2][i - f[1]] ELSE p[i]]
    BY ONLY <2>1, Zenon DEF q
  <2> QED
    BY <2>2, <2>3 DEF f
<1>3. q \in [1 .. Len(p) -> Byte]
  BY ONLY <1>1, SMTT(30)
<1>4. q \in Bytes /\ Len(q) = Len(p)
  BY <1>1, <1>3 DEF Bytes
<1> QED
  BY <1>2, <1>4

(* A field is that many bytes from its offset. *)
LEMMA FieldBytes ==
    ASSUME NEW p \in Bytes, NEW off \in Nat, NEW n \in Nat, off + n <= Len(p)
    PROVE  /\ Field(p, off, n) \in Bytes
           /\ Len(Field(p, off, n)) = n
           /\ \A i \in 1 .. n : Field(p, off, n)[i] = p[off + i]
<1>1. Len(p) \in Nat /\ \A i \in 1 .. Len(p) : p[i] \in Byte
  BY LenProperties, ElementOfSeq DEF Bytes
<1>2. \A i \in off + 1 .. off + n : p[i] \in Byte
  BY <1>1
<1>3. /\ SubSeq(p, off + 1, off + n) \in Seq(Byte)
      /\ Len(SubSeq(p, off + 1, off + n)) =
            IF off + 1 <= off + n THEN off + n - (off + 1) + 1 ELSE 0
      /\ \A i \in 1 .. off + n - (off + 1) + 1 :
             SubSeq(p, off + 1, off + n)[i] = p[off + 1 + i - 1]
  BY <1>2, SubSeqProperties, SMTT(30)
<1> QED
  BY <1>3 DEF Field, Bytes

(* Packets of the same length are the same if each of their bytes is. *)
LEMMA SameBytes ==
    ASSUME NEW s \in Bytes, NEW t \in Bytes, Len(s) = Len(t),
           \A i \in 1 .. Len(s) : s[i] = t[i]
    PROVE  s = t
  BY SeqEqual DEF Bytes

(* A field that is written holds what was written. *)
LEMMA FieldPut ==
    ASSUME NEW p \in Bytes, NEW off \in Nat, NEW s \in Bytes, off + Len(s) <= Len(p)
    PROVE  Field(p ++ <<off, s>>, off, Len(s)) = s
<1> DEFINE q == p ++ <<off, s>>
           f == Field(q, off, Len(s))
<1>1. Len(s) \in Nat /\ Len(p) \in Nat
  BY LenProperties DEF Bytes
<1>2. /\ q \in Bytes /\ Len(q) = Len(p)
      /\ \A i \in 1 .. Len(p) :
             q[i] = IF off < i /\ i <= off + Len(s) THEN s[i - off] ELSE p[i]
  BY PutBytes
<1> HIDE DEF q
<1>3. /\ f \in Bytes /\ Len(f) = Len(s)
      /\ \A i \in 1 .. Len(s) : f[i] = q[off + i]
  BY <1>1, <1>2, FieldBytes
<1>4. \A i \in 1 .. Len(s) : f[i] = s[i]
  <2> SUFFICES ASSUME NEW i \in 1 .. Len(s)
               PROVE  f[i] = s[i]
    OBVIOUS
  <2>1. off + i \in 1 .. Len(p) /\ off < off + i /\ off + i <= off + Len(s)
        /\ (off + i) - off = i
    BY <1>1
  <2> HIDE DEF f
  <2> QED
    BY <1>2, <1>3, <2>1
<1>5. f = s
  <2> HIDE DEF f
  <2> QED
    BY <1>3, <1>4, SameBytes
<1> QED
  BY <1>5 DEF q

(* Any other keeps what it held. *)
LEMMA FieldSkip ==
    ASSUME NEW p \in Bytes, NEW off \in Nat, NEW s \in Bytes, NEW o \in Nat, NEW n \in Nat,
           o + n <= Len(p), o + n <= off \/ off + Len(s) <= o
    PROVE  Field(p ++ <<off, s>>, o, n) = Field(p, o, n)
<1> DEFINE q == p ++ <<off, s>>
           f == Field(q, o, n)
           g == Field(p, o, n)
<1>1. Len(s) \in Nat /\ Len(p) \in Nat
  BY LenProperties DEF Bytes
<1>2. /\ q \in Bytes /\ Len(q) = Len(p)
      /\ \A i \in 1 .. Len(p) :
             q[i] = IF off < i /\ i <= off + Len(s) THEN s[i - off] ELSE p[i]
  BY PutBytes
<1> HIDE DEF q
<1>3. /\ f \in Bytes /\ Len(f) = n
      /\ \A i \in 1 .. n : f[i] = q[o + i]
  BY <1>1, <1>2, FieldBytes
<1>4. /\ g \in Bytes /\ Len(g) = n
      /\ \A i \in 1 .. n : g[i] = p[o + i]
  BY FieldBytes
<1>5. \A i \in 1 .. n : f[i] = g[i]
  <2> SUFFICES ASSUME NEW i \in 1 .. n
               PROVE  f[i] = g[i]
    OBVIOUS
  <2>1. o + i \in 1 .. Len(p) /\ ~ (off < o + i /\ o + i <= off + Len(s))
    BY <1>1
  <2> HIDE DEF f, g
  <2> QED
    BY <1>2, <1>3, <1>4, <2>1
<1>6. f = g
  <2> HIDE DEF f, g
  <2> QED
    BY <1>3, <1>4, <1>5, SameBytes
<1> QED
  BY <1>6 DEF q

(* A packet begins as zeros, and a field of it is zeros. *)
LEMMA ZerosBytes ==
    ASSUME NEW n \in Nat
    PROVE  /\ Zeros(n) \in Bytes /\ Len(Zeros(n)) = n
           /\ \A i \in 1 .. n : Zeros(n)[i] = 0
<1>1. [i \in 1 .. n |-> 0] \in [1 .. n -> Byte]
  BY DEF Byte
<1>2. Zeros(n) \in [1 .. n -> Byte]
  BY <1>1 DEF Zeros
<1>3. Zeros(n) \in Bytes /\ Len(Zeros(n)) = n
  BY <1>2 DEF Bytes
<1> QED
  BY <1>3 DEF Zeros

(* Numbers of 16 and 32 bits come out as they went in. *)
LEMMA Le16Bytes ==
    ASSUME NEW v \in Word
    PROVE  Le16(v) \in Bytes /\ Len(Le16(v)) = 2 /\ Uint16(Le16(v)) = v
<1> DEFINE lo == v % 256
           hi == v \div 256
<1>1. lo \in Byte /\ hi \in Byte /\ lo + 256 * hi = v
  BY SMT DEF Word, Byte
<1> HIDE DEF lo, hi
<1>2. <<lo, hi>> \in Bytes
  BY <1>1 DEF Bytes
<1>3. Uint16(<<lo, hi>>) = v
  BY <1>1 DEF Uint16
<1>4. Le16(v) = <<lo, hi>>
  BY DEF Le16, lo, hi
<1> QED
  BY <1>2, <1>3, <1>4

(* Two strings of bytes, one after the other. *)
LEMMA ConcatBytes ==
    ASSUME NEW s \in Bytes, NEW t \in Bytes
    PROVE  /\ s \o t \in Bytes /\ Len(s \o t) = Len(s) + Len(t)
           /\ Field(s \o t, 0, Len(s)) = s
           /\ Field(s \o t, Len(s), Len(t)) = t
           /\ \A i \in 1 .. Len(s) : (s \o t)[i] = s[i]
           /\ \A i \in 1 .. Len(t) : (s \o t)[Len(s) + i] = t[i]
<1> DEFINE b == s \o t
           m == Len(s)
           n == Len(t)
<1>1. m \in Nat /\ n \in Nat
  BY LenProperties DEF Bytes
<1>2. /\ b \in Bytes /\ Len(b) = m + n
      /\ \A i \in 1 .. m + n : b[i] = IF i <= m THEN s[i] ELSE t[i - m]
  BY ConcatProperties DEF Bytes
<1> HIDE DEF b, m, n
<1>3. /\ \A i \in 1 .. m : b[i] = s[i]
      /\ \A i \in 1 .. n : b[m + i] = t[i]
  BY <1>1, <1>2
<1>4. Field(b, 0, m) = s
  <2>1. 0 \in Nat /\ 0 + m <= Len(b)
    BY <1>1, <1>2
  <2>2. /\ Field(b, 0, m) \in Bytes /\ Len(Field(b, 0, m)) = m
        /\ \A i \in 1 .. m : Field(b, 0, m)[i] = b[0 + i]
    BY <1>1, <1>2, <2>1, FieldBytes
  <2>3. \A i \in 1 .. m : Field(b, 0, m)[i] = s[i]
    BY <1>1, <1>3, <2>2
  <2> QED
    BY <2>2, <2>3, SameBytes DEF m
<1>5. Field(b, m, n) = t
  <2>1. m + n <= Len(b)
    BY <1>1, <1>2
  <2>2. /\ Field(b, m, n) \in Bytes /\ Len(Field(b, m, n)) = n
        /\ \A i \in 1 .. n : Field(b, m, n)[i] = b[m + i]
    BY <1>1, <1>2, <2>1, FieldBytes
  <2>3. \A i \in 1 .. n : Field(b, m, n)[i] = t[i]
    BY <1>3, <2>2
  <2> QED
    BY <2>2, <2>3, SameBytes DEF n
<1> QED
  BY <1>2, <1>3, <1>4, <1>5 DEF b, m, n

(* A field of a field. *)
LEMMA FieldField ==
    ASSUME NEW p \in Bytes, NEW off \in Nat, NEW n \in Nat, off + n <= Len(p),
           NEW o \in Nat, NEW k \in Nat, o + k <= n
    PROVE  Field(Field(p, off, n), o, k) = Field(p, off + o, k)
<1> DEFINE f == Field(p, off, n)
           g == Field(f, o, k)
           h == Field(p, off + o, k)
<1>1. f \in Bytes /\ Len(f) = n /\ \A i \in 1 .. n : f[i] = p[off + i]
  BY FieldBytes
<1> HIDE DEF f
<1>2. g \in Bytes /\ Len(g) = k /\ \A i \in 1 .. k : g[i] = f[o + i]
  BY <1>1, FieldBytes
<1>3. off + o \in Nat /\ (off + o) + k <= Len(p)
  BY LenProperties DEF Bytes
<1>4. h \in Bytes /\ Len(h) = k /\ \A i \in 1 .. k : h[i] = p[(off + o) + i]
  BY <1>3, FieldBytes
<1> HIDE DEF g, h
<1>5. \A i \in 1 .. k : g[i] = h[i]
  <2> SUFFICES ASSUME NEW i \in 1 .. k
               PROVE  g[i] = h[i]
    OBVIOUS
  <2>1. o + i \in 1 .. n /\ off + (o + i) = (off + o) + i
    OBVIOUS
  <2> QED
    BY <1>1, <1>2, <1>4, <2>1
<1>6. g = h
  BY <1>2, <1>4, <1>5, SameBytes
<1> QED
  BY <1>6 DEF f, g, h

(* A number of 32 bits is two of 16. *)
LEMMA Le32Bytes ==
    ASSUME NEW lo \in Word, NEW hi \in Word
    PROVE  LET b == Le16(lo) \o Le16(hi)
           IN  b \in Bytes /\ Len(b) = 4 /\ Uint16(b) = lo /\ Uint16(Field(b, 2, 2)) = hi
<1> DEFINE l == Le16(lo)
           h == Le16(hi)
<1>1. /\ l \in Bytes /\ Len(l) = 2 /\ Uint16(l) = lo
      /\ h \in Bytes /\ Len(h) = 2 /\ Uint16(h) = hi
  BY Le16Bytes
<1> HIDE DEF l, h
<1>2. /\ l \o h \in Bytes /\ Len(l \o h) = Len(l) + Len(h)
      /\ Field(l \o h, Len(l), Len(h)) = h
      /\ \A i \in 1 .. Len(l) : (l \o h)[i] = l[i]
  BY <1>1, ConcatBytes
<1>3. Uint16(l \o h) = lo
  BY <1>1, <1>2 DEF Uint16
<1>4. Len(l \o h) = 4 /\ Field(l \o h, 2, 2) = h
  BY <1>1, <1>2
<1> QED
  BY <1>1, <1>2, <1>3, <1>4 DEF l, h

(* The digits of a date, and the number they make. *)
Digits(y, m, d) == y \in Nat /\ y < 10000 /\ m \in Nat /\ m < 100 /\ d \in Nat /\ d < 100
DateNumber(y, m, d) == (y * 100 + m) * 100 + d

(* The number in which a date is written is one of 32 bits, and its parts are
   those of the date.                                                        *)
LEMMA DateRead ==
    ASSUME NEW y, NEW m, NEW d, Digits(y, m, d)
    PROVE  LET v == DateNumber(y, m, d)
           IN  /\ v \in Nat /\ v % 65536 \in Word /\ v \div 65536 \in Word
               /\ (v % 65536) + 65536 * (v \div 65536) = v
               /\ v \div 10000 = y /\ (v \div 100) % 100 = m /\ v % 100 = d
<1> DEFINE v == DateNumber(y, m, d)
           w == y * 100 + m
           r == m * 100 + d
<1>1. /\ w \in Nat /\ v \in Nat /\ r \in Nat
      /\ v = w * 100 + d /\ v = y * 10000 + r /\ r < 10000 /\ y < 10000
      /\ d \in Nat /\ d < 100 /\ m \in Nat /\ m < 100 /\ y \in Nat
      /\ w = y * 100 + m
  <2>1. d \in Nat /\ d < 100 /\ m \in Nat /\ m < 100 /\ y \in Nat /\ y < 10000
    BY SMT DEF Digits
  <2>2. w \in Nat /\ w = y * 100 + m /\ v = w * 100 + d
    BY ONLY <2>1, SMT DEF DateNumber
  <2>3. v \in Nat
    BY ONLY <2>1, SMT DEF DateNumber
  <2>4. r \in Nat /\ r < 10000
    BY ONLY <2>1, SMT
  <2>5. v = y * 10000 + r
    BY ONLY <2>1, SMT DEF DateNumber
  <2> HIDE DEF v, w, r
  <2> QED
    BY <2>1, <2>2, <2>3, <2>4, <2>5
<1> HIDE DEF v, w, r
<1>2. v % 100 = d /\ v \div 100 = w
  BY ONLY <1>1, SMT
<1>3. w % 100 = m
  BY ONLY <1>1, SMT
<1>4. v \div 10000 = y
  BY ONLY <1>1, SMT
<1>5. v < 10000 * 10000
  BY ONLY <1>1, SMT
<1>6. v % 65536 \in Word /\ v \div 65536 \in Word /\ (v % 65536) + 65536 * (v \div 65536) = v
  <2> DEFINE l == v % 65536
             h == v \div 65536
  <2>1. v = 65536 * h + l /\ h \in Nat /\ l \in Nat /\ l < 65536
    BY ONLY <1>1, SMT
  <2> HIDE DEF l, h
  <2>2. h < 65536
    BY ONLY <1>1, <1>5, <2>1, SMT
  <2>3. l \in Word /\ h \in Word
    BY ONLY <2>1, <2>2, SMT DEF Word
  <2>4. l + 65536 * h = v
    BY ONLY <1>1, <2>1, SMT
  <2> QED
    BY <2>3, <2>4 DEF l, h
<1> QED
  BY <1>1, <1>2, <1>3, <1>4, <1>6 DEF v

(* The number in which a date is written, as bytes. *)
LEMMA DateBytes ==
    ASSUME NEW y, NEW m, NEW d, Digits(y, m, d)
    PROVE  LET v == DateNumber(y, m, d)
           IN  /\ Le32(v) \in Bytes /\ Len(Le32(v)) = 4 /\ Uint32(Le32(v)) = v
               /\ buildDate(v) = IF y \in 2000..2099 /\ m \in 1..12 /\ d \in 1..31
                                 THEN <<y, m, d>> ELSE Nil
<1> DEFINE v == DateNumber(y, m, d)
           lo == v % 65536
           hi == v \div 65536
           b == Le16(lo) \o Le16(hi)
<1>1. /\ v \in Nat /\ lo \in Word /\ hi \in Word /\ lo + 65536 * hi = v
      /\ v \div 10000 = y /\ (v \div 100) % 100 = m /\ v % 100 = d
  BY DateRead
<1>2. Le32(v) = b
  BY ONLY TRUE, SMT DEF Le32
<1> HIDE DEF lo, hi
<1>3. lo \in Word /\ hi \in Word
  BY ONLY <1>1
<1>4. b \in Bytes /\ Len(b) = 4 /\ Uint16(b) = lo /\ Uint16(Field(b, 2, 2)) = hi
  BY ONLY <1>3, Le32Bytes
<1> HIDE DEF b, v
<1>5. Uint32(b) = v
  BY ONLY <1>1, <1>4, SMT DEF Uint32
<1>6. buildDate(v) = IF y \in 2000..2099 /\ m \in 1..12 /\ d \in 1..31 THEN <<y, m, d>> ELSE Nil
  BY ONLY <1>1, SMT DEF buildDate
<1> QED
  BY <1>2, <1>4, <1>5, <1>6 DEF v

(* The first ten bytes tell which packet it is. *)
LEMMA HeaderBytes ==
    ASSUME NEW ver \in Word, NEW cmd \in Word
    PROVE  /\ header(ver, cmd) \in Bytes /\ Len(header(ver, cmd)) = 10
           /\ Field(header(ver, cmd), 0, 4) = MHED
           /\ Uint16(Field(header(ver, cmd), 8, 2)) = cmd
<1> DEFINE u == Le16(ver)
           w == Le16(1)
           c == Le16(cmd)
           a == MHED \o u
           b == a \o w
<1>1. 1 \in Word
  BY SMT DEF Word
<1>2. /\ u \in Bytes /\ Len(u) = 2 /\ w \in Bytes /\ Len(w) = 2
      /\ c \in Bytes /\ Len(c) = 2 /\ Uint16(c) = cmd
  BY <1>1, Le16Bytes
<1>3. MHED \in Bytes /\ Len(MHED) = 4
  BY DEF MHED, Bytes, Byte
<1> HIDE DEF u, w, c
<1>4. a \in Bytes /\ Len(a) = Len(MHED) + Len(u) /\ Field(a, 0, Len(MHED)) = MHED
  BY <1>2, <1>3, ConcatBytes
<1>5. Len(a) = 6 /\ Field(a, 0, 4) = MHED
  BY <1>2, <1>3, <1>4
<1> HIDE DEF a
<1>6. b \in Bytes /\ Len(b) = Len(a) + Len(w) /\ Field(b, 0, Len(a)) = a
  BY <1>2, <1>4, ConcatBytes
<1>7. Len(b) = 8 /\ Field(b, 0, 6) = a
  BY <1>2, <1>5, <1>6
<1> HIDE DEF b
<1>8. /\ b \o c \in Bytes /\ Len(b \o c) = Len(b) + Len(c)
      /\ Field(b \o c, 0, Len(b)) = b /\ Field(b \o c, Len(b), Len(c)) = c
  BY <1>2, <1>6, ConcatBytes
<1>9. Len(b \o c) = 10 /\ Field(b \o c, 0, 8) = b /\ Field(b \o c, 8, 2) = c
  BY <1>2, <1>7, <1>8
<1>10. Field(b \o c, 0, 4) = MHED
  <2>1. /\ 0 \in Nat /\ 4 \in Nat /\ 6 \in Nat /\ 8 \in Nat
        /\ 0 + 4 <= 6 /\ 0 + 4 <= 8 /\ 0 + 6 <= Len(b) /\ 0 + 8 <= Len(b \o c) /\ 0 + 0 = 0
    BY <1>7, <1>9
  <2>2. Field(Field(b \o c, 0, 8), 0, 4) = Field(b \o c, 0 + 0, 4)
    <3> DEFINE h == b \o c
    <3>1. h \in Bytes /\ 0 + 8 <= Len(h)
      BY <1>8, <2>1
    <3> HIDE DEF h
    <3>2. Field(Field(h, 0, 8), 0, 4) = Field(h, 0 + 0, 4)
      BY <3>1, <2>1, FieldField
    <3> QED
      BY <3>2 DEF h
  <2>3. Field(Field(b, 0, 6), 0, 4) = Field(b, 0 + 0, 4)
    BY <1>6, <2>1, FieldField
  <2> QED
    BY <1>5, <1>7, <1>9, <2>1, <2>2, <2>3
<1>11. b \o c = header(ver, cmd)
  BY DEF header, a, b, c, u, w
<1> QED
  BY <1>2, <1>8, <1>9, <1>10, <1>11

(* The command is read as it was written. *)
LEMMA CommandRead ==
    ASSUME NEW p \in Bytes, NEW ver \in Word, NEW cmd \in Word,
           10 <= Len(p), Field(p, 0, 10) = header(ver, cmd)
    PROVE  Command(p) = cmd
<1>1. Len(p) \in Nat
  BY LenProperties DEF Bytes
<1>2. /\ 0 \in Nat /\ 10 \in Nat /\ 4 \in Nat /\ 8 \in Nat /\ 2 \in Nat
      /\ 0 + 10 <= Len(p) /\ 0 + 4 <= 10 /\ 8 + 2 <= 10 /\ 0 + 0 = 0 /\ 0 + 8 = 8
  BY <1>1
<1>3. /\ Field(Field(p, 0, 10), 0, 4) = Field(p, 0 + 0, 4)
      /\ Field(Field(p, 0, 10), 8, 2) = Field(p, 0 + 8, 2)
  BY <1>2, FieldField
<1>4. /\ Field(header(ver, cmd), 0, 4) = MHED
      /\ Uint16(Field(header(ver, cmd), 8, 2)) = cmd
  BY HeaderBytes
<1>5. Field(p, 0, 4) = MHED /\ Uint16(Field(p, 8, 2)) = cmd
  BY <1>2, <1>3, <1>4
<1> QED
  BY <1>1, <1>5 DEF Command

(* A text that leaves room for a zero ends at it. *)
LEMMA FieldText ==
    ASSUME NEW p \in Bytes, NEW off \in Nat, NEW k \in Nat, NEW s \in Chars,
           off + k <= Len(p), Field(p, off, k) = Zeros(k), Len(s) < k
    PROVE  /\ s \in Bytes
           /\ Cstr(Field(p ++ <<off, s>>, off, k)) = s
<1> DEFINE q == p ++ <<off, s>>
           f == Field(q, off, k)
<1>1. /\ Len(s) \in Nat /\ Len(p) \in Nat /\ s \in Bytes
      /\ \A i \in 1 .. Len(s) : s[i] \in Byte /\ s[i] # 0
  BY LenProperties, ElementOfSeq, SeqMonotonic DEF Bytes, Chars
<1>2. /\ q \in Bytes /\ Len(q) = Len(p)
      /\ \A i \in 1 .. Len(p) :
             q[i] = IF off < i /\ i <= off + Len(s) THEN s[i - off] ELSE p[i]
  BY <1>1, PutBytes
<1> HIDE DEF q
<1>3. /\ f \in Bytes /\ Len(f) = k
      /\ \A i \in 1 .. k : f[i] = q[off + i]
  BY <1>2, FieldBytes
<1>4. \A i \in 1 .. k : p[off + i] = 0
  <2>1. \A i \in 1 .. k : Field(p, off, k)[i] = p[off + i]
    BY FieldBytes
  <2> QED
    BY <2>1, ZerosBytes
<1> HIDE DEF f
<1>5. \A i \in 1 .. k : f[i] = IF i <= Len(s) THEN s[i] ELSE 0
  <2> SUFFICES ASSUME NEW i \in 1 .. k
               PROVE  f[i] = IF i <= Len(s) THEN s[i] ELSE 0
    OBVIOUS
  <2>1. off + i \in 1 .. Len(p) /\ (off + i) - off = i /\ off < off + i
        /\ (off + i <= off + Len(s) <=> i <= Len(s))
    BY <1>1
  <2> QED
    BY <1>2, <1>3, <1>4, <2>1
<1>6. DOMAIN f = 1 .. k
  BY <1>3, LenProperties DEF Bytes
<1> DEFINE z == CHOOSE i \in DOMAIN f : f[i] = 0 /\ \A j \in 1 .. i - 1 : f[j] # 0
<1>7. z = Len(s) + 1
  <2>1. Len(s) + 1 \in DOMAIN f /\ f[Len(s) + 1] = 0 /\ \A j \in 1 .. Len(s) : f[j] # 0
    BY <1>1, <1>5, <1>6
  <2>2. ASSUME NEW i \in DOMAIN f, f[i] = 0, \A j \in 1 .. i - 1 : f[j] # 0
        PROVE  i = Len(s) + 1
    <3>1. i \in Nat /\ i <= k
      BY <1>6
    <3>2. ~ i <= Len(s)
      BY <1>1, <1>5, <1>6, <2>2, <3>1
    <3>3. ~ Len(s) + 1 < i
      BY <1>1, <2>1, <2>2, <3>1
    <3> QED
      BY <1>1, <3>1, <3>2, <3>3
  <2>3. \A j \in 1 .. (Len(s) + 1) - 1 : f[j] # 0
    BY <1>1, <2>1
  <2> QED
    BY <2>1, <2>2, <2>3
<1>8. Cstr(f) = SubSeq(f, 1, z - 1)
  <2>1. ~ \A i \in DOMAIN f : f[i] # 0
    BY <1>1, <1>5, <1>6
  <2> QED
    BY <2>1 DEF Cstr
<1>9. Cstr(f) = s
  <2>1. Cstr(f) = SubSeq(f, 1, Len(s))
    <3> HIDE DEF z
    <3>1. z - 1 = Len(s)
      BY <1>1, <1>7
    <3> QED
      BY <1>8, <3>1
  <2>2. \A i \in 1 .. Len(s) : f[i] \in Byte
    BY <1>1, <1>5
  <2>3. /\ SubSeq(f, 1, Len(s)) \in Seq(Byte)
        /\ Len(SubSeq(f, 1, Len(s))) = IF 1 <= Len(s) THEN Len(s) - 1 + 1 ELSE 0
        /\ \A i \in 1 .. Len(s) - 1 + 1 : SubSeq(f, 1, Len(s))[i] = f[1 + i - 1]
    BY <1>1, <2>2, SubSeqProperties
  <2>4. /\ Len(SubSeq(f, 1, Len(s))) = Len(s)
        /\ \A i \in 1 .. Len(s) : SubSeq(f, 1, Len(s))[i] = s[i]
    BY <1>1, <1>5, <2>3
  <2> QED
    BY <1>1, <2>1, <2>3, <2>4, SameBytes DEF Bytes
<1> QED
  BY <1>1, <1>9 DEF f, q

-----------------------------------------------------------------------------
(* The password *)

(* A group of three bytes as four digits of six bits. *)
LEMMA SixBits ==
    ASSUME NEW x \in Byte, NEW y \in Byte, NEW z \in Byte
    PROVE  LET v == (x * 256 + y) * 256 + z
           IN  /\ v \in Nat
               /\ (v \div (64 * 64 * 64)) % 64 = x \div 4
               /\ (v \div (64 * 64)) % 64 = (x % 4) * 16 + y \div 16
               /\ (v \div 64) % 64 = (y % 16) * 4 + z \div 64
               /\ (v \div 1) % 64 = z % 64
<1> DEFINE v == (x * 256 + y) * 256 + z
<1>1. x \in Nat /\ y \in Nat /\ z \in Nat /\ x < 256 /\ y < 256 /\ z < 256
  BY DEF Byte
<1>2. v \in Nat /\ v = 65536 * x + 256 * y + z
  BY <1>1, SMT
<1>3. (v \div (64 * 64 * 64)) % 64 = x \div 4
  BY <1>1, <1>2, SMT
<1>4. (v \div (64 * 64)) % 64 = (x % 4) * 16 + y \div 16
  BY <1>1, <1>2, SMT
<1>5. (v \div 64) % 64 = (y % 16) * 4 + z \div 64
  BY <1>1, <1>2, SMT
<1>6. (v \div 1) % 64 = z % 64
  BY <1>1, <1>2, SMT
<1> QED
  BY <1>2, <1>3, <1>4, <1>5, <1>6, SMT

(* The character of a digit, and of a place in the text. *)
Char64(v) ==
    CASE v < 26 -> v + 65 [] v \in 26..51 -> v + 71
      [] v \in 52..61 -> v - 4 [] v = 62 -> 43 [] v = 63 -> 47

(* Each digit has a character of its own, and none is that of the padding. *)
LEMMA CharsDiffer ==
    /\ \A v \in 0 .. 63 : Char64(v) \in 1 .. 255 /\ Char64(v) # 61
    /\ \A v, w \in 0 .. 63 : Char64(v) = Char64(w) => v = w
<1>1. \A v \in 0 .. 63 :
         \/ v < 26 /\ Char64(v) = v + 65
         \/ v \in 26 .. 51 /\ Char64(v) = v + 71
         \/ v \in 52 .. 61 /\ Char64(v) = v - 4
         \/ v = 62 /\ Char64(v) = 43
         \/ v = 63 /\ Char64(v) = 47
  BY DEF Char64
<1>2. \A v \in 0 .. 63 : Char64(v) \in 1 .. 255 /\ Char64(v) # 61
  BY <1>1
<1>3. ASSUME NEW v \in 0 .. 63, NEW w \in 0 .. 63, Char64(v) = Char64(w)
      PROVE  v = w
  BY <1>1, <1>3, SMTT(60)
<1> QED
  BY <1>2, <1>3

(* Of the group g of a text: its bytes, and its digits. *)
ByteAt(s, i) == IF i <= Len(s) THEN s[i] ELSE 0
Digit(s, g, j) ==
    LET x == ByteAt(s, 3*g + 1)  y == ByteAt(s, 3*g + 2)  z == ByteAt(s, 3*g + 3)
    IN  IF j = 0 THEN x \div 4
        ELSE IF j = 1 THEN (x % 4) * 16 + y \div 16
        ELSE IF j = 2 THEN (y % 16) * 4 + z \div 64 ELSE z % 64

(* What base64 writes, character for character. *)
LEMMA Base64At ==
    ASSUME NEW s \in Bytes
    PROVE  LET n == (Len(s) + 2) \div 3
           IN  /\ n \in Nat /\ 3 * n >= Len(s) /\ 3 * n <= Len(s) + 2
               /\ Base64(s) \in Bytes /\ Len(Base64(s)) = 4 * n
               /\ \A k \in 1 .. 4 * n : Base64(s)[k] # 0
               /\ \A g \in 0 .. n - 1, j \in 0 .. 3 :
                     /\ Digit(s, g, j) \in 0 .. 63
                     /\ Base64(s)[4 * g + j + 1] =
                            IF 3 * g + j > Len(s) THEN 61 ELSE Char64(Digit(s, g, j))
<1> DEFINE n == (Len(s) + 2) \div 3
           byte(i)  == IF i <= Len(s) THEN s[i] ELSE 0
           group(g) == (byte(3*g + 1) * 256 + byte(3*g + 2)) * 256 + byte(3*g + 3)
           char(v)  == CASE v < 26 -> v + 65 [] v \in 26..51 -> v + 71
                         [] v \in 52..61 -> v - 4 [] v = 62 -> 43 [] v = 63 -> 47
           at(g, j) == IF 3*g + j > Len(s) THEN 61
                       ELSE char((group(g) \div <<64 * 64 * 64, 64 * 64, 64, 1>>[j + 1]) % 64)
           b == [k \in 1..4 * ((Len(s) + 2) \div 3) |-> at((k - 1) \div 4, (k - 1) % 4)]
<1>1. Len(s) \in Nat /\ \A i \in 1 .. Len(s) : s[i] \in Byte
  BY LenProperties, ElementOfSeq DEF Bytes
<1>2. n \in Nat /\ 3 * n >= Len(s) /\ 3 * n <= Len(s) + 2
  BY <1>1
<1>3. Base64(s) = b
  BY Zenon DEF Base64
<1>4. \A i \in Nat \ {0} : byte(i) \in Byte /\ byte(i) = ByteAt(s, i)
  BY <1>1 DEF Byte, ByteAt
<1>5. ASSUME NEW g \in Nat, NEW j \in 0 .. 3
      PROVE  /\ Digit(s, g, j) \in 0 .. 63
             /\ (group(g) \div <<64 * 64 * 64, 64 * 64, 64, 1>>[j + 1]) % 64 = Digit(s, g, j)
  <2> DEFINE x == byte(3*g + 1)
             y == byte(3*g + 2)
             z == byte(3*g + 3)
             v == (x * 256 + y) * 256 + z
  <2>0. 3*g + 1 \in Nat \ {0} /\ 3*g + 2 \in Nat \ {0} /\ 3*g + 3 \in Nat \ {0}
    OBVIOUS
  <2>1. /\ x \in Byte /\ x = ByteAt(s, 3*g + 1)
        /\ y \in Byte /\ y = ByteAt(s, 3*g + 2)
        /\ z \in Byte /\ z = ByteAt(s, 3*g + 3)
    BY <1>4, <2>0
  <2>2. group(g) = v
    OBVIOUS
  <2> HIDE DEF x, y, z, byte
  <2>3. /\ (v \div (64 * 64 * 64)) % 64 = x \div 4
        /\ (v \div (64 * 64)) % 64 = (x % 4) * 16 + y \div 16
        /\ (v \div 64) % 64 = (y % 16) * 4 + z \div 64
        /\ (v \div 1) % 64 = z % 64
    BY <2>1, SixBits
  <2> HIDE DEF v
  <2>4. x \div 4 \in 0 .. 63 /\ (x % 4) * 16 + y \div 16 \in 0 .. 63
        /\ (y % 16) * 4 + z \div 64 \in 0 .. 63 /\ z % 64 \in 0 .. 63
    <3>1. x \in 0 .. 255 /\ y \in 0 .. 255 /\ z \in 0 .. 255
      BY <2>1 DEF Byte
    <3> QED
      BY ONLY <3>1, SMT
  <2> HIDE DEF group
  <2>5. CASE j = 0
    <3>1. <<64 * 64 * 64, 64 * 64, 64, 1>>[j + 1] = 64 * 64 * 64
      BY ONLY <2>5, SMT
    <3> QED
      BY <2>1, <2>2, <2>3, <2>4, <2>5, <3>1, SMT DEF Digit
  <2>6. CASE j = 1
    <3>1. <<64 * 64 * 64, 64 * 64, 64, 1>>[j + 1] = 64 * 64
      BY ONLY <2>6, SMT
    <3> QED
      BY <2>1, <2>2, <2>3, <2>4, <2>6, <3>1, SMT DEF Digit
  <2>7. CASE j = 2
    <3>1. <<64 * 64 * 64, 64 * 64, 64, 1>>[j + 1] = 64
      BY ONLY <2>7, SMT
    <3> QED
      BY <2>1, <2>2, <2>3, <2>4, <2>7, <3>1, SMT DEF Digit
  <2>8. CASE j = 3
    <3>1. <<64 * 64 * 64, 64 * 64, 64, 1>>[j + 1] = 1
      BY ONLY <2>8, SMT
    <3> QED
      BY <2>1, <2>2, <2>3, <2>4, <2>8, <3>1, SMT DEF Digit
  <2> QED
    BY <2>5, <2>6, <2>7, <2>8
<1>6. \A v : char(v) = Char64(v)
  BY Zenon DEF Char64
<1> HIDE DEF group, char, byte
<1>7. \A g \in Nat, j \in 0 .. 3 :
         at(g, j) = IF 3 * g + j > Len(s) THEN 61 ELSE Char64(Digit(s, g, j))
  BY <1>5, <1>6
<1> HIDE DEF at
<1>8. \A g \in Nat, j \in 0 .. 3 : at(g, j) \in Byte /\ at(g, j) # 0
  <2> SUFFICES ASSUME NEW g \in Nat, NEW j \in 0 .. 3
               PROVE  at(g, j) \in Byte /\ at(g, j) # 0
    OBVIOUS
  <2> DEFINE c == Char64(Digit(s, g, j))
  <2>1. c \in 1 .. 255
    BY <1>5, CharsDiffer
  <2> HIDE DEF c
  <2>2. at(g, j) = 61 \/ at(g, j) = c
    BY <1>7 DEF c
  <2> QED
    BY ONLY <2>1, <2>2 DEF Byte
<1> DEFINE m == 4 * n
<1>9. m \in Nat
  BY <1>2
<1>10. \A k \in 1 .. m : (k - 1) \div 4 \in Nat /\ (k - 1) % 4 \in 0 .. 3
  OBVIOUS
<1>11. b = [k \in 1 .. m |-> at((k - 1) \div 4, (k - 1) % 4)]
  OBVIOUS
<1> HIDE DEF m, b
<1>12. b \in [1 .. m -> Byte] /\ \A k \in 1 .. m : b[k] # 0 /\ b[k] = at((k - 1) \div 4, (k - 1) % 4)
  BY <1>8, <1>10, <1>11
<1>13. b \in Bytes /\ Len(b) = m
  BY <1>9, <1>12 DEF Bytes
<1>14. ASSUME NEW g \in 0 .. n - 1, NEW j \in 0 .. 3
       PROVE  b[4 * g + j + 1] = at(g, j) /\ g \in Nat
  <2> HIDE DEF n
  <2> DEFINE k == 4 * g + j + 1
  <2>1. k \in 1 .. m /\ (k - 1) \div 4 = g /\ (k - 1) % 4 = j /\ g \in Nat
    BY <1>2 DEF m
  <2> HIDE DEF k
  <2>2. b[k] = at(g, j)
    BY <1>12, <2>1
  <2> QED
    BY <2>1, <2>2 DEF k
<1> HIDE DEF n
<1>15. \A g \in 0 .. n - 1, j \in 0 .. 3 :
          /\ Digit(s, g, j) \in 0 .. 63
          /\ b[4 * g + j + 1] = IF 3 * g + j > Len(s) THEN 61 ELSE Char64(Digit(s, g, j))
  <2> SUFFICES ASSUME NEW g \in 0 .. n - 1, NEW j \in 0 .. 3
               PROVE  /\ Digit(s, g, j) \in 0 .. 63
                      /\ b[4 * g + j + 1] = IF 3 * g + j > Len(s) THEN 61
                                            ELSE Char64(Digit(s, g, j))
    BY Zenon
  <2>1. b[4 * g + j + 1] = at(g, j) /\ g \in Nat
    BY <1>14, Zenon
  <2>2. Digit(s, g, j) \in 0 .. 63
    BY <1>5, <2>1, Zenon
  <2>3. at(g, j) = IF 3 * g + j > Len(s) THEN 61 ELSE Char64(Digit(s, g, j))
    BY <1>7, <2>1, Zenon
  <2> QED
    BY <2>1, <2>2, <2>3, Zenon
<1>16. \A k \in 1 .. 4 * n : b[k] # 0
  BY <1>12 DEF m
<1> QED
  BY <1>2, <1>3, <1>13, <1>15, <1>16, Zenon DEF n, m

(* No two texts have the same base64. *)
LEMMA Base64Injective ==
    ASSUME NEW s \in Bytes, NEW t \in Bytes, Base64(s) = Base64(t)
    PROVE  s = t
<1> DEFINE n == (Len(s) + 2) \div 3
           m == (Len(t) + 2) \div 3
<1>1. /\ n \in Nat /\ 3 * n >= Len(s) /\ 3 * n <= Len(s) + 2
      /\ Len(Base64(s)) = 4 * n
      /\ \A g \in 0 .. n - 1, j \in 0 .. 3 :
            /\ Digit(s, g, j) \in 0 .. 63
            /\ Base64(s)[4 * g + j + 1] = IF 3 * g + j > Len(s) THEN 61 ELSE Char64(Digit(s, g, j))
  BY Base64At
<1>2. /\ m \in Nat /\ 3 * m >= Len(t) /\ 3 * m <= Len(t) + 2
      /\ Len(Base64(t)) = 4 * m
      /\ \A g \in 0 .. m - 1, j \in 0 .. 3 :
            /\ Digit(t, g, j) \in 0 .. 63
            /\ Base64(t)[4 * g + j + 1] = IF 3 * g + j > Len(t) THEN 61 ELSE Char64(Digit(t, g, j))
  BY Base64At
<1>3. /\ Len(s) \in Nat /\ \A i \in 1 .. Len(s) : s[i] \in Byte
      /\ Len(t) \in Nat /\ \A i \in 1 .. Len(t) : t[i] \in Byte
  BY LenProperties, ElementOfSeq DEF Bytes
<1> HIDE DEF n, m
<1>4. n = m
  BY <1>1, <1>2
<1>5. ASSUME NEW g \in 0 .. n - 1, NEW j \in 0 .. 3
      PROVE  /\ 3 * g + j > Len(s) <=> 3 * g + j > Len(t)
             /\ 3 * g + j <= Len(s) => Digit(s, g, j) = Digit(t, g, j)
  <2> DEFINE cs == Char64(Digit(s, g, j))
             ct == Char64(Digit(t, g, j))
  <2>1. /\ Digit(s, g, j) \in 0 .. 63 /\ Digit(t, g, j) \in 0 .. 63
        /\ (IF 3 * g + j > Len(s) THEN 61 ELSE cs) = (IF 3 * g + j > Len(t) THEN 61 ELSE ct)
    BY <1>1, <1>2, <1>4
  <2>2. cs # 61 /\ ct # 61 /\ (cs = ct => Digit(s, g, j) = Digit(t, g, j))
    BY <2>1, CharsDiffer
  <2> HIDE DEF cs, ct
  <2> QED
    BY <1>3, <2>1, <2>2
<1>6. Len(s) = Len(t)
  <2>1. CASE n = 0
    BY <1>1, <1>2, <1>3, <1>4, <2>1
  <2>2. CASE n # 0
    <3> DEFINE g == n - 1
    <3>1. g \in 0 .. n - 1 /\ 3 * g < Len(s) /\ 3 * g < Len(t)
          /\ Len(s) <= 3 * g + 3 /\ Len(t) <= 3 * g + 3
      BY <1>1, <1>2, <1>3, <1>4, <2>2
    <3> HIDE DEF g
    <3>2. /\ 3 * g + 2 > Len(s) <=> 3 * g + 2 > Len(t)
          /\ 3 * g + 3 > Len(s) <=> 3 * g + 3 > Len(t)
      BY <1>5, <3>1
    <3> QED
      BY <1>1, <1>3, <3>1, <3>2
  <2> QED
    BY <2>1, <2>2
<1>7. ASSUME NEW i \in 1 .. Len(s)
      PROVE  s[i] = t[i]
  <2> DEFINE g == (i - 1) \div 3
             x == ByteAt(s, 3*g + 1)
             y == ByteAt(s, 3*g + 2)
             z == ByteAt(s, 3*g + 3)
             u == ByteAt(t, 3*g + 1)
             v == ByteAt(t, 3*g + 2)
             w == ByteAt(t, 3*g + 3)
  <2>1. /\ g \in Nat /\ 3 * g < Len(s) /\ g \in 0 .. n - 1
        /\ i \in {3 * g + 1, 3 * g + 2, 3 * g + 3}
    BY <1>1, <1>3
  <2> HIDE DEF g
  <2>2. /\ x \in Byte /\ y \in Byte /\ z \in Byte /\ u \in Byte /\ v \in Byte /\ w \in Byte
    <3>1. /\ 3*g + 1 \in Nat \ {0} /\ 3*g + 2 \in Nat \ {0} /\ 3*g + 3 \in Nat \ {0}
      BY ONLY <2>1, SMT
    <3>2. \A k \in Nat \ {0} : ByteAt(s, k) \in Byte /\ ByteAt(t, k) \in Byte
      BY ONLY <1>3, SMT DEF ByteAt, Byte
    <3> QED
      BY ONLY <3>1, <3>2, Zenon
  <2>3. /\ s[i] = ByteAt(s, i) /\ t[i] = ByteAt(t, i)
    BY <1>6 DEF ByteAt
  <2>4. /\ 3 * g + 2 > Len(s) => y = 0 /\ v = 0
        /\ 3 * g + 3 > Len(s) => z = 0 /\ w = 0
    BY <1>3, <1>6, <2>1 DEF ByteAt
  <2>5. /\ x \div 4 = u \div 4
        /\ (x % 4) * 16 + y \div 16 = (u % 4) * 16 + v \div 16
    <3>1. Digit(s, g, 0) = Digit(t, g, 0) /\ Digit(s, g, 1) = Digit(t, g, 1)
      BY <1>3, <1>5, <2>1
    <3> QED
      BY <3>1 DEF Digit
  <2>6. 3 * g + 2 <= Len(s) => (y % 16) * 4 + z \div 64 = (v % 16) * 4 + w \div 64
    <3>1. 3 * g + 2 <= Len(s) => Digit(s, g, 2) = Digit(t, g, 2)
      BY <1>5, <2>1
    <3> QED
      BY <3>1 DEF Digit
  <2>7. 3 * g + 3 <= Len(s) => z % 64 = w % 64
    <3>1. 3 * g + 3 <= Len(s) => Digit(s, g, 3) = Digit(t, g, 3)
      BY <1>5, <2>1
    <3> QED
      BY <3>1 DEF Digit
  <2> HIDE DEF x, y, z, u, v, w
  <2>8. x = u
    BY ONLY <2>2, <2>5, SMTT(30) DEF Byte
  <2>9. y = v
    <3>1. CASE 3 * g + 2 > Len(s)
      BY ONLY <2>4, <3>1
    <3>2. CASE 3 * g + 2 <= Len(s)
      <4>1. y \div 16 = v \div 16
        BY ONLY <2>2, <2>5, <2>8, SMT DEF Byte
      <4>2. y % 16 = v % 16
        BY ONLY <2>2, <2>6, <3>2, SMT DEF Byte
      <4> QED
        BY ONLY <2>2, <4>1, <4>2, SMT DEF Byte
    <3> QED
      BY <1>3, <2>1, <3>1, <3>2
  <2>10. z = w
    <3>1. CASE 3 * g + 3 > Len(s)
      BY ONLY <2>4, <3>1
    <3>2. CASE 3 * g + 3 <= Len(s)
      <4>1. 3 * g + 2 <= Len(s)
        BY ONLY <1>3, <2>1, <3>2
      <4>2. z \div 64 = w \div 64
        BY ONLY <2>2, <2>6, <2>9, <4>1, SMT DEF Byte
      <4> QED
        BY ONLY <2>2, <2>7, <3>2, <4>2, SMT DEF Byte
    <3> QED
      BY <1>3, <2>1, <3>1, <3>2
  <2> QED
    BY <2>1, <2>3, <2>8, <2>9, <2>10 DEF x, y, z, u, v, w
<1> QED
  BY <1>6, <1>7, SameBytes

(* The password's field, and what the camera reads of it. *)
LEMMA PasswordField ==
    ASSUME NEW pw \in Bytes, PasswordFits(pw)
    PROVE  /\ EncodePassword(pw) \in Bytes /\ Len(EncodePassword(pw)) = 28
           /\ Cstr(EncodePassword(pw)) = Base64(pw)
<1> DEFINE b == Base64(pw)
           z == Zeros(28 - Len(b))
           e == b \o z
<1>1. b \in Bytes /\ Len(b) \in Nat /\ (\A i \in 1 .. Len(b) : b[i] # 0)
  <2>1. b \in Bytes
    BY Base64At
  <2>2. \A i \in 1 .. Len(b) : b[i] # 0
    BY Base64At
  <2> QED
    BY <2>1, <2>2, LenProperties DEF Bytes
<1>2. Len(b) <= 28 /\ EncodePassword(pw) = e
  BY DEF PasswordFits, EncodePassword, lenPassword
<1> HIDE DEF b
<1>3. z \in Bytes /\ Len(z) = 28 - Len(b) /\ \A i \in 1 .. Len(z) : z[i] = 0
  BY <1>1, <1>2, ZerosBytes
<1> HIDE DEF z
<1>4. /\ e \in Bytes /\ Len(e) = 28
      /\ \A i \in 1 .. Len(b) : e[i] = b[i]
      /\ \A i \in 1 .. Len(z) : e[Len(b) + i] = z[i]
      /\ SubSeq(e, 1, Len(b)) = b
  <2>1. /\ e \in Bytes /\ Len(e) = Len(b) + Len(z)
        /\ Field(e, 0, Len(b)) = b
        /\ \A i \in 1 .. Len(b) : e[i] = b[i]
        /\ \A i \in 1 .. Len(z) : e[Len(b) + i] = z[i]
    BY <1>1, <1>3, ConcatBytes
  <2> HIDE DEF e
  <2>2. Field(e, 0, Len(b)) = SubSeq(e, 1, Len(b))
    BY <1>1 DEF Field
  <2> QED
    BY <1>1, <1>3, <2>1, <2>2
<1> HIDE DEF e
<1>5. DOMAIN e = 1 .. 28
  BY <1>4, LenProperties DEF Bytes
<1>6. CASE Len(b) = 28
  <2>1. \A i \in DOMAIN e : e[i] # 0
    <3>1. \A i \in 1 .. Len(b) : e[i] # 0
      BY ONLY <1>1, <1>4, Zenon
    <3>2. DOMAIN e = 1 .. Len(b)
      BY ONLY <1>5, <1>6, Zenon
    <3> QED
      BY ONLY <3>1, <3>2, Zenon
  <2>2. e = b
    <3>1. e \in Bytes /\ b \in Bytes /\ Len(b) = Len(e) /\ \A i \in 1 .. Len(b) : b[i] = e[i]
      BY ONLY <1>1, <1>4, <1>6, Zenon
    <3> QED
      BY ONLY <3>1, SameBytes, Zenon
  <2> QED
    BY <1>2, <1>4, <2>1, <2>2 DEF Cstr, b
<1>7. CASE Len(b) # 28
  <2> DEFINE k == Len(b) + 1
             First(i) == i \in DOMAIN e /\ e[i] = 0 /\ \A j \in 1 .. i - 1 : e[j] # 0
             i0 == CHOOSE i \in DOMAIN e : e[i] = 0 /\ \A j \in 1 .. i - 1 : e[j] # 0
  <2>1. k \in DOMAIN e /\ e[k] = 0 /\ \A j \in 1 .. k - 1 : e[j] # 0
    <3>0. \A l, m \in Nat : l <= 28 /\ l # 28 /\ m = 28 - l =>
                              1 \in 1 .. m /\ l + 1 \in 1 .. 28 /\ (l + 1) - 1 = l
      BY ONLY TRUE
    <3>1. 1 \in 1 .. Len(z) /\ k \in 1 .. 28 /\ k - 1 = Len(b)
      <4>1. Len(b) \in Nat /\ Len(z) \in Nat
        BY <1>1, <1>3, LenProperties DEF Bytes
      <4> QED
        BY <1>2, <1>3, <1>7, <3>0, <4>1, Zenon
    <3>2. e[Len(b) + 1] = 0
      BY <1>3, <1>4, <3>1
    <3>3. \A j \in 1 .. Len(b) : e[j] # 0
      BY <1>1, <1>4
    <3> QED
      BY <1>5, <3>1, <3>2, <3>3
  <2> HIDE DEF k
  <2>2. i0 \in DOMAIN e /\ e[i0] = 0 /\ \A j \in 1 .. i0 - 1 : e[j] # 0
    BY <2>1, Zenon
  <2> HIDE DEF i0
  <2>3. i0 = k
    <3>1. k \in 1 .. 28 /\ i0 \in 1 .. 28
      BY ONLY <1>5, <2>1, <2>2, Zenon
    <3>2. ~ (i0 < k) /\ ~ (k < i0)
      BY ONLY <2>1, <2>2, <3>1, SMT
    <3> QED
      BY ONLY <3>1, <3>2, SMT
  <2>4. Cstr(e) = SubSeq(e, 1, i0 - 1)
    BY <2>1, Zenon DEF Cstr, i0
  <2>5. i0 - 1 = Len(b)
    BY <1>1, <2>3 DEF k
  <2> QED
    BY <1>2, <1>4, <2>4, <2>5 DEF b
<1> QED
  BY <1>6, <1>7

-----------------------------------------------------------------------------
(* Packets as they are built *)

(* q is p of n bytes with the k bytes of s at off: the other fields are as they
   were.                                                                      *)
IsPut(q, p, n, off, k, s) ==
    /\ q \in Bytes /\ Len(q) = n
    /\ Field(q, off, k) = s
    /\ \A o, m \in Nat : o + m <= n /\ (o + m <= off \/ off + k <= o) =>
                           Field(q, o, m) = Field(p, o, m)

(* A field that is put in a packet is in it, and the others are as they were. *)
LEMMA Put ==
    ASSUME NEW p \in Bytes, NEW off \in Nat, NEW s \in Bytes, off + Len(s) <= Len(p)
    PROVE  IsPut(p ++ <<off, s>>, p, Len(p), off, Len(s), s)
<1> DEFINE q == p ++ <<off, s>>
<1>1. q \in Bytes /\ Len(q) = Len(p)
  BY PutBytes
<1>2. Field(q, off, Len(s)) = s
  BY FieldPut
<1>3. \A o, m \in Nat : o + m <= Len(p) /\ (o + m <= off \/ off + Len(s) <= o) =>
                          Field(q, o, m) = Field(p, o, m)
  BY FieldSkip
<1> QED
  BY <1>1, <1>2, <1>3 DEF IsPut

(* Each field of an empty packet is empty. *)
LEMMA FieldZeros ==
    ASSUME NEW n \in Nat, NEW o \in Nat, NEW k \in Nat, o + k <= n
    PROVE  Field(Zeros(n), o, k) = Zeros(k)
<1> DEFINE z == Zeros(n)
<1>1. z \in Bytes /\ Len(z) = n /\ \A i \in 1 .. n : z[i] = 0
  BY ZerosBytes
<1> HIDE DEF z
<1>2. /\ Field(z, o, k) \in Bytes /\ Len(Field(z, o, k)) = k
      /\ \A i \in 1 .. k : Field(z, o, k)[i] = z[o + i]
  BY <1>1, FieldBytes
<1>3. Zeros(k) \in Bytes /\ Len(Zeros(k)) = k /\ \A i \in 1 .. k : Zeros(k)[i] = 0
  BY ZerosBytes
<1>4. \A i \in 1 .. k : Field(z, o, k)[i] = Zeros(k)[i]
  <2> SUFFICES ASSUME NEW i \in 1 .. k
               PROVE  Field(z, o, k)[i] = Zeros(k)[i]
    OBVIOUS
  <2>1. o + i \in 1 .. n
    OBVIOUS
  <2> QED
    BY <1>1, <1>2, <1>3, <2>1
<1>5. Field(z, o, k) = Zeros(k)
  BY <1>2, <1>3, <1>4, SameBytes
<1> QED
  BY <1>5 DEF z

-----------------------------------------------------------------------------

(* A request that a set-network packet can be built for. *)
Complete(r) ==
    /\ r \in Request
    /\ Len(r.mac) = 6 /\ Len(r.ip) = 4 /\ Len(r.mask) = 4 /\ Len(r.gw) = 4
    /\ Len(r.dns1) = 4 /\ Len(r.dns2) = 4

(* A set-network packet holds the fields of the request, and the password. *)
LEMMA SetPacketFields ==
    ASSUME NEW r, Complete(r), NEW pw \in Bytes, PasswordFits(pw)
    PROVE  LET p == SetPacket(r, pw)
           IN  /\ p \in Bytes /\ Len(p) = 140 /\ Command(p) = CmdSetNet
               /\ Field(p, 32, 6) = r.mac /\ Field(p, 40, 4) = r.ip /\ Field(p, 44, 4) = r.mask
               /\ Field(p, 48, 4) = r.gw /\ Field(p, 112, 4) = r.dns1 /\ Field(p, 116, 4) = r.dns2
               /\ Cstr(Field(p, 84, 28)) = Base64(pw)
<1> DEFINE p0 == Zeros(140)
           h  == header(9, CmdSetNet)
           e  == EncodePassword(pw)
           p1 == p0 ++ <<0, h>>
           p2 == p1 ++ <<32, r.mac>>
           p3 == p2 ++ <<40, r.ip>>
           p4 == p3 ++ <<44, r.mask>>
           p5 == p4 ++ <<48, r.gw>>
           p6 == p5 ++ <<84, e>>
           p7 == p6 ++ <<112, r.dns1>>
           p8 == p7 ++ <<116, r.dns2>>
<1>1. SetPacket(r, pw) = p8
  BY Zenon DEF SetPacket, lenTX
<1>2. /\ r.mac \in Bytes /\ r.ip \in Bytes /\ r.mask \in Bytes /\ r.gw \in Bytes
      /\ r.dns1 \in Bytes /\ r.dns2 \in Bytes
      /\ Len(r.mac) = 6 /\ Len(r.ip) = 4 /\ Len(r.mask) = 4 /\ Len(r.gw) = 4
      /\ Len(r.dns1) = 4 /\ Len(r.dns2) = 4
  BY DEF Complete, Request
<1>3. h \in Bytes /\ Len(h) = 10
  <2>1. 9 \in Word /\ CmdSetNet \in Word
    BY SMT DEF Word, CmdSetNet
  <2> QED
    BY <2>1, HeaderBytes
<1>4. e \in Bytes /\ Len(e) = 28 /\ Cstr(e) = Base64(pw)
  BY PasswordField
<1>5. p0 \in Bytes /\ Len(p0) = 140
  <2> DEFINE n == 140
  <2>1. n \in Nat
    OBVIOUS
  <2> HIDE DEF n
  <2>2. Zeros(n) \in Bytes /\ Len(Zeros(n)) = n
    BY ONLY <2>1, ZerosBytes
  <2> QED
    BY ONLY <2>2 DEF n
<1> HIDE DEF h, e, p0
<1>6. IsPut(p1, p0, 140, 0, 10, h) /\ p1 \in Bytes /\ Len(p1) = 140
  <2>1. /\ p0 \in Bytes /\ h \in Bytes
        /\ 0 \in Nat /\ 0 + Len(h) <= Len(p0)
    BY ONLY <1>3, <1>5
  <2>2. IsPut(p1, p0, Len(p0), 0, Len(h), h)
    BY ONLY <2>1, Put
  <2> HIDE DEF p1
  <2> QED
    BY ONLY <1>3, <1>5, <2>2 DEF IsPut
<1> HIDE DEF p1
<1>7. IsPut(p2, p1, 140, 32, 6, r.mac) /\ p2 \in Bytes /\ Len(p2) = 140
  <2>1. /\ p1 \in Bytes /\ r.mac \in Bytes
        /\ 32 \in Nat /\ 32 + Len(r.mac) <= Len(p1)
    BY ONLY <1>2, <1>6
  <2>2. IsPut(p2, p1, Len(p1), 32, Len(r.mac), r.mac)
    BY ONLY <2>1, Put
  <2> HIDE DEF p2
  <2> QED
    BY ONLY <1>2, <1>6, <2>2 DEF IsPut
<1> HIDE DEF p2
<1>8. IsPut(p3, p2, 140, 40, 4, r.ip) /\ p3 \in Bytes /\ Len(p3) = 140
  <2>1. /\ p2 \in Bytes /\ r.ip \in Bytes
        /\ 40 \in Nat /\ 40 + Len(r.ip) <= Len(p2)
    BY ONLY <1>2, <1>7
  <2>2. IsPut(p3, p2, Len(p2), 40, Len(r.ip), r.ip)
    BY ONLY <2>1, Put
  <2> HIDE DEF p3
  <2> QED
    BY ONLY <1>2, <1>7, <2>2 DEF IsPut
<1> HIDE DEF p3
<1>9. IsPut(p4, p3, 140, 44, 4, r.mask) /\ p4 \in Bytes /\ Len(p4) = 140
  <2>1. /\ p3 \in Bytes /\ r.mask \in Bytes
        /\ 44 \in Nat /\ 44 + Len(r.mask) <= Len(p3)
    BY ONLY <1>2, <1>8
  <2>2. IsPut(p4, p3, Len(p3), 44, Len(r.mask), r.mask)
    BY ONLY <2>1, Put
  <2> HIDE DEF p4
  <2> QED
    BY ONLY <1>2, <1>8, <2>2 DEF IsPut
<1> HIDE DEF p4
<1>10. IsPut(p5, p4, 140, 48, 4, r.gw) /\ p5 \in Bytes /\ Len(p5) = 140
  <2>1. /\ p4 \in Bytes /\ r.gw \in Bytes
        /\ 48 \in Nat /\ 48 + Len(r.gw) <= Len(p4)
    BY ONLY <1>2, <1>9
  <2>2. IsPut(p5, p4, Len(p4), 48, Len(r.gw), r.gw)
    BY ONLY <2>1, Put
  <2> HIDE DEF p5
  <2> QED
    BY ONLY <1>2, <1>9, <2>2 DEF IsPut
<1> HIDE DEF p5
<1>11. IsPut(p6, p5, 140, 84, 28, e) /\ p6 \in Bytes /\ Len(p6) = 140
  <2>1. /\ p5 \in Bytes /\ e \in Bytes
        /\ 84 \in Nat /\ 84 + Len(e) <= Len(p5)
    BY ONLY <1>4, <1>10
  <2>2. IsPut(p6, p5, Len(p5), 84, Len(e), e)
    BY ONLY <2>1, Put
  <2> HIDE DEF p6
  <2> QED
    BY ONLY <1>4, <1>10, <2>2 DEF IsPut
<1> HIDE DEF p6
<1>12. IsPut(p7, p6, 140, 112, 4, r.dns1) /\ p7 \in Bytes /\ Len(p7) = 140
  <2>1. /\ p6 \in Bytes /\ r.dns1 \in Bytes
        /\ 112 \in Nat /\ 112 + Len(r.dns1) <= Len(p6)
    BY ONLY <1>2, <1>11
  <2>2. IsPut(p7, p6, Len(p6), 112, Len(r.dns1), r.dns1)
    BY ONLY <2>1, Put
  <2> HIDE DEF p7
  <2> QED
    BY ONLY <1>2, <1>11, <2>2 DEF IsPut
<1> HIDE DEF p7
<1>13. IsPut(p8, p7, 140, 116, 4, r.dns2) /\ p8 \in Bytes /\ Len(p8) = 140
  <2>1. /\ p7 \in Bytes /\ r.dns2 \in Bytes
        /\ 116 \in Nat /\ 116 + Len(r.dns2) <= Len(p7)
    BY ONLY <1>2, <1>12
  <2>2. IsPut(p8, p7, Len(p7), 116, Len(r.dns2), r.dns2)
    BY ONLY <2>1, Put
  <2> HIDE DEF p8
  <2> QED
    BY ONLY <1>2, <1>12, <2>2 DEF IsPut
<1> HIDE DEF p8
<1>14. Field(p8, 0, 10) = h
  <2>1. Field(p3, 0, 10) = h
    BY ONLY <1>6, <1>7, <1>8 DEF IsPut
  <2>2. Field(p6, 0, 10) = h
    BY ONLY <1>9, <1>10, <1>11, <2>1 DEF IsPut
  <2> QED
    BY ONLY <1>12, <1>13, <2>2 DEF IsPut
<1>15. Field(p8, 32, 6) = r.mac
  BY <1>7, <1>8, <1>9, <1>10, <1>11, <1>12, <1>13 DEF IsPut
<1>16. Field(p8, 40, 4) = r.ip
  BY <1>8, <1>9, <1>10, <1>11, <1>12, <1>13 DEF IsPut
<1>17. Field(p8, 44, 4) = r.mask
  BY <1>9, <1>10, <1>11, <1>12, <1>13 DEF IsPut
<1>18. Field(p8, 48, 4) = r.gw
  BY <1>10, <1>11, <1>12, <1>13 DEF IsPut
<1>19. Field(p8, 84, 28) = e
  BY <1>11, <1>12, <1>13 DEF IsPut
<1>20. Field(p8, 112, 4) = r.dns1
  BY <1>12, <1>13 DEF IsPut
<1>21. Field(p8, 116, 4) = r.dns2
  BY <1>13 DEF IsPut
<1>22. Command(p8) = CmdSetNet
  <2>1. 9 \in Word /\ CmdSetNet \in Word
    BY SMT DEF Word, CmdSetNet
  <2> QED
    <3>1. p8 \in Bytes /\ 10 <= Len(p8) /\ Field(p8, 0, 10) = header(9, CmdSetNet)
      BY ONLY <1>13, <1>14 DEF h
    <3> QED
      BY ONLY <2>1, <3>1, CommandRead, Zenon
<1> QED
  BY <1>1, <1>4, <1>13, <1>15, <1>16, <1>17, <1>18, <1>19, <1>20, <1>21, <1>22

(* A text written to a field of zeros is what a reader finds there. *)
IsTextPut(q, p, n, off, k, s) ==
    /\ q \in Bytes /\ Len(q) = n
    /\ Cstr(Field(q, off, k)) = s
    /\ \A o, m \in Nat : o + m <= n /\ (o + m <= off \/ off + k <= o) =>
                           Field(q, o, m) = Field(p, o, m)

(* A text put in an empty field can be read, and the others are as they were. *)
LEMMA PutText ==
    ASSUME NEW p \in Bytes, NEW off \in Nat, NEW k \in Nat, NEW s \in Chars,
           off + k <= Len(p), Field(p, off, k) = Zeros(k), Len(s) < k
    PROVE  IsTextPut(p ++ <<off, s>>, p, Len(p), off, k, s)
<1> DEFINE q == p ++ <<off, s>>
<1>1. s \in Bytes /\ Cstr(Field(q, off, k)) = s
  BY FieldText
<1>2. Len(s) \in Nat /\ Len(p) \in Nat
  BY <1>1, LenProperties DEF Bytes
<1>3. IsPut(q, p, Len(p), off, Len(s), s)
  BY <1>1, <1>2, Put
<1> HIDE DEF q
<1>4. \A o, m \in Nat : o + m <= Len(p) /\ (o + m <= off \/ off + k <= o) =>
                          Field(q, o, m) = Field(p, o, m)
  <2> SUFFICES ASSUME NEW o \in Nat, NEW m \in Nat,
                      o + m <= Len(p), o + m <= off \/ off + k <= o
               PROVE  Field(q, o, m) = Field(p, o, m)
    OBVIOUS
  <2>1. o + m <= off \/ off + Len(s) <= o
    BY <1>2
  <2> QED
    BY <1>3, <2>1 DEF IsPut
<1> QED
  BY <1>1, <1>3, <1>4 DEF IsPut, IsTextPut, q

(* A record that an announcement can be built of. *)
Announceable(d) ==
    /\ d \in Device
    /\ Len(d.mac) = 6 /\ Len(d.ip) = 4 /\ Len(d.mask) = 4 /\ Len(d.gw) = 4
    /\ Len(d.dns1) = 4 /\ Len(d.dns2) = 4
    /\ Len(d.name) < 20 /\ Len(d.serial) < 16 /\ Len(d.firmware) < 16
    /\ Len(d.model) < 16 /\ Len(d.vendor) < 16
    /\ Len(d.build) \in {0, 3}

(* The date's bytes. *)
BuildOf(d) == IF d.build = Nil THEN Zeros(4)
              ELSE Le32((d.build[1] * 100 + d.build[2]) * 100 + d.build[3])

(* An announcement holds the fields of the record. *)
LEMMA AnnounceFields ==
    ASSUME NEW d, Announceable(d), BuildOf(d) \in Bytes, Len(BuildOf(d)) = 4
    PROVE  LET p == BuildAnnounce(d)
           IN  /\ p \in Bytes /\ Len(p) = 240 /\ Command(p) = CmdAnnounce
               /\ Field(p, 32, 6) = d.mac /\ Field(p, 40, 4) = d.ip
               /\ Field(p, 44, 4) = d.mask /\ Field(p, 48, 4) = d.gw
               /\ Field(p, 112, 4) = d.dns1 /\ Field(p, 116, 4) = d.dns2
               /\ Cstr(Field(p, 12, 20)) = d.name /\ Cstr(Field(p, 140, 16)) = d.serial
               /\ Cstr(Field(p, 156, 16)) = d.firmware /\ Cstr(Field(p, 196, 16)) = d.model
               /\ Cstr(Field(p, 212, 16)) = d.vendor /\ Field(p, 60, 2) = Le16(d.http)
               /\ Field(p, 62, 2) = Le16(d.rtsp) /\ Field(p, 56, 4) = BuildOf(d)
<1> DEFINE h  == header(8, CmdAnnounce)
           x  == Le16(d.http)
           y  == Le16(d.rtsp)
           b  == BuildOf(d)
           c  == IF d.build = Nil THEN Nil ELSE b
           p0 == Zeros(240)
           p1  == p0 ++ <<0, h>>
           p2  == p1 ++ <<32, d.mac>>
           p3  == p2 ++ <<40, d.ip>>
           p4  == p3 ++ <<44, d.mask>>
           p5  == p4 ++ <<48, d.gw>>
           p6  == p5 ++ <<112, d.dns1>>
           p7  == p6 ++ <<116, d.dns2>>
           p8  == p7 ++ <<12, d.name>>
           p9  == p8 ++ <<140, d.serial>>
           p10 == p9 ++ <<156, d.firmware>>
           p11 == p10 ++ <<196, d.model>>
           p12 == p11 ++ <<212, d.vendor>>
           p13 == p12 ++ <<60, x>>
           p14 == p13 ++ <<62, y>>
           p15 == p14 ++ <<56, c>>
<1>1. BuildAnnounce(d) = p15
  <2> DEFINE fits == /\ Len(d.mac) = 6
                     /\ \A a \in {d.ip, d.mask, d.gw, d.dns1, d.dns2} : Is4(a)
                     /\ Fits(d.name, 20)
                     /\ \A s \in {d.serial, d.firmware, d.model, d.vendor} : Fits(s, 16)
                     /\ Len(d.build) \in {0, 3}
             date == IF d.build = Nil THEN Nil
                     ELSE Le32((d.build[1] * 100 + d.build[2]) * 100 + d.build[3])
             built == p14 ++ <<56, date>>
  <2>1. BuildAnnounce(d) = IF fits THEN built ELSE Nil
    BY ONLY TRUE, Zenon DEF BuildAnnounce, lenAnnounce
  <2>2. fits
    <3>1. \A s : s \in Chars => Len(s) \in Nat
      BY LenProperties DEF Chars
    <3>2. Fits(d.name, 20) /\ Fits(d.serial, 16) /\ Fits(d.firmware, 16) /\ Fits(d.model, 16)
          /\ Fits(d.vendor, 16)
      BY <3>1 DEF Fits, Announceable, Device
    <3>3. /\ Len(d.mac) = 6 /\ Len(d.build) \in {0, 3}
          /\ Is4(d.ip) /\ Is4(d.mask) /\ Is4(d.gw) /\ Is4(d.dns1) /\ Is4(d.dns2)
      BY DEF Is4, Announceable
    <3> QED
      BY <3>2, <3>3
  <2>3. c = date
    BY DEF BuildOf
  <2> HIDE DEF fits, date, c, p14
  <2> QED
    BY ONLY <2>1, <2>2, <2>3, Zenon
<1>2. /\ d.mac \in Bytes /\ d.ip \in Bytes /\ d.mask \in Bytes /\ d.gw \in Bytes
      /\ d.dns1 \in Bytes /\ d.dns2 \in Bytes
      /\ Len(d.mac) = 6 /\ Len(d.ip) = 4 /\ Len(d.mask) = 4 /\ Len(d.gw) = 4
      /\ Len(d.dns1) = 4 /\ Len(d.dns2) = 4
  BY DEF Announceable, Device
<1>3. h \in Bytes /\ Len(h) = 10
  <2>1. 8 \in Word /\ CmdAnnounce \in Word
    BY SMT DEF Word, CmdAnnounce
  <2> QED
    BY <2>1, HeaderBytes
<1>4. x \in Bytes /\ Len(x) = 2 /\ y \in Bytes /\ Len(y) = 2
  <2>1. d.http \in Word /\ d.rtsp \in Word
    BY DEF Announceable, Device
  <2> QED
    BY <2>1, Le16Bytes
<1>5. /\ d.name \in Chars /\ d.serial \in Chars /\ d.firmware \in Chars
      /\ d.model \in Chars /\ d.vendor \in Chars
      /\ Len(d.name) < 20 /\ Len(d.serial) < 16 /\ Len(d.firmware) < 16
      /\ Len(d.model) < 16 /\ Len(d.vendor) < 16
  BY DEF Announceable, Device
<1>6. b \in Bytes /\ Len(b) = 4 /\ (d.build = Nil => b = Zeros(4))
  BY DEF BuildOf
<1>7. p0 \in Bytes /\ Len(p0) = 240
  <2> DEFINE n == 240
  <2>1. n \in Nat
    OBVIOUS
  <2> HIDE DEF n
  <2>2. Zeros(n) \in Bytes /\ Len(Zeros(n)) = n
    BY ONLY <2>1, ZerosBytes
  <2> QED
    BY ONLY <2>2 DEF n
<1>8. /\ Field(p0, 12, 20) = Zeros(20) /\ Field(p0, 140, 16) = Zeros(16)
      /\ Field(p0, 156, 16) = Zeros(16) /\ Field(p0, 196, 16) = Zeros(16)
      /\ Field(p0, 212, 16) = Zeros(16) /\ Field(p0, 56, 4) = Zeros(4)
  BY FieldZeros
<1> HIDE DEF h, x, y, b, p0
<1>9. IsPut(p1, p0, 240, 0, 10, h) /\ p1 \in Bytes /\ Len(p1) = 240
  <2>1. /\ p0 \in Bytes /\ h \in Bytes
        /\ 0 \in Nat /\ 0 + Len(h) <= Len(p0)
    BY ONLY <1>3, <1>7
  <2>2. IsPut(p1, p0, Len(p0), 0, Len(h), h)
    BY ONLY <2>1, Put
  <2> HIDE DEF p1
  <2> QED
    BY ONLY <1>3, <1>7, <2>2 DEF IsPut
<1> HIDE DEF p1
<1>10. IsPut(p2, p1, 240, 32, 6, d.mac) /\ p2 \in Bytes /\ Len(p2) = 240
  <2>1. /\ p1 \in Bytes /\ d.mac \in Bytes
        /\ 32 \in Nat /\ 32 + Len(d.mac) <= Len(p1)
    BY ONLY <1>2, <1>9
  <2>2. IsPut(p2, p1, Len(p1), 32, Len(d.mac), d.mac)
    BY ONLY <2>1, Put
  <2> HIDE DEF p2
  <2> QED
    BY ONLY <1>2, <1>9, <2>2 DEF IsPut
<1> HIDE DEF p2
<1>11. IsPut(p3, p2, 240, 40, 4, d.ip) /\ p3 \in Bytes /\ Len(p3) = 240
  <2>1. /\ p2 \in Bytes /\ d.ip \in Bytes
        /\ 40 \in Nat /\ 40 + Len(d.ip) <= Len(p2)
    BY ONLY <1>2, <1>10
  <2>2. IsPut(p3, p2, Len(p2), 40, Len(d.ip), d.ip)
    BY ONLY <2>1, Put
  <2> HIDE DEF p3
  <2> QED
    BY ONLY <1>2, <1>10, <2>2 DEF IsPut
<1> HIDE DEF p3
<1>12. /\ Field(p3, 0, 10) = h /\ Field(p3, 32, 6) = d.mac
       /\ Field(p3, 40, 4) = d.ip /\ Field(p3, 12, 20) = Zeros(20)
       /\ Field(p3, 140, 16) = Zeros(16) /\ Field(p3, 156, 16) = Zeros(16)
       /\ Field(p3, 196, 16) = Zeros(16) /\ Field(p3, 212, 16) = Zeros(16)
       /\ Field(p3, 56, 4) = Zeros(4)
  BY ONLY <1>8, <1>9, <1>10, <1>11 DEF IsPut, IsTextPut
<1>13. IsPut(p4, p3, 240, 44, 4, d.mask) /\ p4 \in Bytes /\ Len(p4) = 240
  <2>1. /\ p3 \in Bytes /\ d.mask \in Bytes
        /\ 44 \in Nat /\ 44 + Len(d.mask) <= Len(p3)
    BY ONLY <1>2, <1>11
  <2>2. IsPut(p4, p3, Len(p3), 44, Len(d.mask), d.mask)
    BY ONLY <2>1, Put
  <2> HIDE DEF p4
  <2> QED
    BY ONLY <1>2, <1>11, <2>2 DEF IsPut
<1> HIDE DEF p4
<1>14. IsPut(p5, p4, 240, 48, 4, d.gw) /\ p5 \in Bytes /\ Len(p5) = 240
  <2>1. /\ p4 \in Bytes /\ d.gw \in Bytes
        /\ 48 \in Nat /\ 48 + Len(d.gw) <= Len(p4)
    BY ONLY <1>2, <1>13
  <2>2. IsPut(p5, p4, Len(p4), 48, Len(d.gw), d.gw)
    BY ONLY <2>1, Put
  <2> HIDE DEF p5
  <2> QED
    BY ONLY <1>2, <1>13, <2>2 DEF IsPut
<1> HIDE DEF p5
<1>15. IsPut(p6, p5, 240, 112, 4, d.dns1) /\ p6 \in Bytes /\ Len(p6) = 240
  <2>1. /\ p5 \in Bytes /\ d.dns1 \in Bytes
        /\ 112 \in Nat /\ 112 + Len(d.dns1) <= Len(p5)
    BY ONLY <1>2, <1>14
  <2>2. IsPut(p6, p5, Len(p5), 112, Len(d.dns1), d.dns1)
    BY ONLY <2>1, Put
  <2> HIDE DEF p6
  <2> QED
    BY ONLY <1>2, <1>14, <2>2 DEF IsPut
<1> HIDE DEF p6
<1>16. /\ Field(p6, 0, 10) = h /\ Field(p6, 32, 6) = d.mac
       /\ Field(p6, 40, 4) = d.ip /\ Field(p6, 44, 4) = d.mask
       /\ Field(p6, 48, 4) = d.gw /\ Field(p6, 112, 4) = d.dns1
       /\ Field(p6, 12, 20) = Zeros(20) /\ Field(p6, 140, 16) = Zeros(16)
       /\ Field(p6, 156, 16) = Zeros(16) /\ Field(p6, 196, 16) = Zeros(16)
       /\ Field(p6, 212, 16) = Zeros(16) /\ Field(p6, 56, 4) = Zeros(4)
  BY ONLY <1>12, <1>13, <1>14, <1>15 DEF IsPut, IsTextPut
<1>17. IsPut(p7, p6, 240, 116, 4, d.dns2) /\ p7 \in Bytes /\ Len(p7) = 240
  <2>1. /\ p6 \in Bytes /\ d.dns2 \in Bytes
        /\ 116 \in Nat /\ 116 + Len(d.dns2) <= Len(p6)
    BY ONLY <1>2, <1>15
  <2>2. IsPut(p7, p6, Len(p6), 116, Len(d.dns2), d.dns2)
    BY ONLY <2>1, Put
  <2> HIDE DEF p7
  <2> QED
    BY ONLY <1>2, <1>15, <2>2 DEF IsPut
<1> HIDE DEF p7
<1>18. IsTextPut(p8, p7, 240, 12, 20, d.name) /\ p8 \in Bytes /\ Len(p8) = 240
  <2>1. /\ p7 \in Bytes /\ d.name \in Chars /\ Len(d.name) < 20
        /\ 12 \in Nat /\ 20 \in Nat /\ 12 + 20 <= Len(p7)
    BY ONLY <1>5, <1>17
  <2>2. Field(p7, 12, 20) = Zeros(20)
    BY ONLY <1>16, <1>17 DEF IsPut, IsTextPut
  <2>3. IsTextPut(p8, p7, Len(p7), 12, 20, d.name)
    BY ONLY <2>1, <2>2, PutText
  <2> HIDE DEF p8
  <2> QED
    BY ONLY <1>17, <2>3 DEF IsTextPut
<1> HIDE DEF p8
<1>19. IsTextPut(p9, p8, 240, 140, 16, d.serial) /\ p9 \in Bytes /\ Len(p9) = 240
  <2>1. /\ p8 \in Bytes /\ d.serial \in Chars /\ Len(d.serial) < 16
        /\ 140 \in Nat /\ 16 \in Nat /\ 140 + 16 <= Len(p8)
    BY ONLY <1>5, <1>18
  <2>2. Field(p8, 140, 16) = Zeros(16)
    BY ONLY <1>16, <1>17, <1>18 DEF IsPut, IsTextPut
  <2>3. IsTextPut(p9, p8, Len(p8), 140, 16, d.serial)
    BY ONLY <2>1, <2>2, PutText
  <2> HIDE DEF p9
  <2> QED
    BY ONLY <1>18, <2>3 DEF IsTextPut
<1> HIDE DEF p9
<1>20. /\ Field(p9, 0, 10) = h /\ Field(p9, 32, 6) = d.mac
       /\ Field(p9, 40, 4) = d.ip /\ Field(p9, 44, 4) = d.mask
       /\ Field(p9, 48, 4) = d.gw /\ Field(p9, 112, 4) = d.dns1
       /\ Field(p9, 116, 4) = d.dns2 /\ Cstr(Field(p9, 12, 20)) = d.name
       /\ Cstr(Field(p9, 140, 16)) = d.serial /\ Field(p9, 156, 16) = Zeros(16)
       /\ Field(p9, 196, 16) = Zeros(16) /\ Field(p9, 212, 16) = Zeros(16)
       /\ Field(p9, 56, 4) = Zeros(4)
  BY ONLY <1>16, <1>17, <1>18, <1>19 DEF IsPut, IsTextPut
<1>21. IsTextPut(p10, p9, 240, 156, 16, d.firmware) /\ p10 \in Bytes /\ Len(p10) = 240
  <2>1. /\ p9 \in Bytes /\ d.firmware \in Chars /\ Len(d.firmware) < 16
        /\ 156 \in Nat /\ 16 \in Nat /\ 156 + 16 <= Len(p9)
    BY ONLY <1>5, <1>19
  <2>2. Field(p9, 156, 16) = Zeros(16)
    BY ONLY <1>20 DEF IsPut, IsTextPut
  <2>3. IsTextPut(p10, p9, Len(p9), 156, 16, d.firmware)
    BY ONLY <2>1, <2>2, PutText
  <2> HIDE DEF p10
  <2> QED
    BY ONLY <1>19, <2>3 DEF IsTextPut
<1> HIDE DEF p10
<1>22. IsTextPut(p11, p10, 240, 196, 16, d.model) /\ p11 \in Bytes /\ Len(p11) = 240
  <2>1. /\ p10 \in Bytes /\ d.model \in Chars /\ Len(d.model) < 16
        /\ 196 \in Nat /\ 16 \in Nat /\ 196 + 16 <= Len(p10)
    BY ONLY <1>5, <1>21
  <2>2. Field(p10, 196, 16) = Zeros(16)
    BY ONLY <1>20, <1>21 DEF IsPut, IsTextPut
  <2>3. IsTextPut(p11, p10, Len(p10), 196, 16, d.model)
    BY ONLY <2>1, <2>2, PutText
  <2> HIDE DEF p11
  <2> QED
    BY ONLY <1>21, <2>3 DEF IsTextPut
<1> HIDE DEF p11
<1>23. IsTextPut(p12, p11, 240, 212, 16, d.vendor) /\ p12 \in Bytes /\ Len(p12) = 240
  <2>1. /\ p11 \in Bytes /\ d.vendor \in Chars /\ Len(d.vendor) < 16
        /\ 212 \in Nat /\ 16 \in Nat /\ 212 + 16 <= Len(p11)
    BY ONLY <1>5, <1>22
  <2>2. Field(p11, 212, 16) = Zeros(16)
    BY ONLY <1>20, <1>21, <1>22 DEF IsPut, IsTextPut
  <2>3. IsTextPut(p12, p11, Len(p11), 212, 16, d.vendor)
    BY ONLY <2>1, <2>2, PutText
  <2> HIDE DEF p12
  <2> QED
    BY ONLY <1>22, <2>3 DEF IsTextPut
<1> HIDE DEF p12
<1>24. /\ Field(p12, 0, 10) = h /\ Field(p12, 32, 6) = d.mac
       /\ Field(p12, 40, 4) = d.ip /\ Field(p12, 44, 4) = d.mask
       /\ Field(p12, 48, 4) = d.gw /\ Field(p12, 112, 4) = d.dns1
       /\ Field(p12, 116, 4) = d.dns2 /\ Cstr(Field(p12, 12, 20)) = d.name
       /\ Cstr(Field(p12, 140, 16)) = d.serial /\ Cstr(Field(p12, 156, 16)) = d.firmware
       /\ Cstr(Field(p12, 196, 16)) = d.model /\ Cstr(Field(p12, 212, 16)) = d.vendor
       /\ Field(p12, 56, 4) = Zeros(4)
  BY ONLY <1>20, <1>21, <1>22, <1>23 DEF IsPut, IsTextPut
<1>25. IsPut(p13, p12, 240, 60, 2, x) /\ p13 \in Bytes /\ Len(p13) = 240
  <2>1. /\ p12 \in Bytes /\ x \in Bytes
        /\ 60 \in Nat /\ 60 + Len(x) <= Len(p12)
    BY ONLY <1>4, <1>23
  <2>2. IsPut(p13, p12, Len(p12), 60, Len(x), x)
    BY ONLY <2>1, Put
  <2> HIDE DEF p13
  <2> QED
    BY ONLY <1>4, <1>23, <2>2 DEF IsPut
<1> HIDE DEF p13
<1>26. IsPut(p14, p13, 240, 62, 2, y) /\ p14 \in Bytes /\ Len(p14) = 240
  <2>1. /\ p13 \in Bytes /\ y \in Bytes
        /\ 62 \in Nat /\ 62 + Len(y) <= Len(p13)
    BY ONLY <1>4, <1>25
  <2>2. IsPut(p14, p13, Len(p13), 62, Len(y), y)
    BY ONLY <2>1, Put
  <2> HIDE DEF p14
  <2> QED
    BY ONLY <1>4, <1>25, <2>2 DEF IsPut
<1> HIDE DEF p14
<1>27. IsPut(p15, p14, 240, 56, 4, b) /\ p15 \in Bytes /\ Len(p15) = 240
  <2>0. Field(p14, 56, 4) = Zeros(4)
    BY ONLY <1>24, <1>25, <1>26 DEF IsPut, IsTextPut
  <2>1. CASE d.build # Nil
    <3>1. c = b
      BY <2>1
    <3> HIDE DEF c
    <3>2. p14 \in Bytes /\ b \in Bytes /\ 56 \in Nat /\ 56 + Len(b) <= Len(p14)
      BY ONLY <1>6, <1>26
    <3>3. IsPut(p14 ++ <<56, b>>, p14, Len(p14), 56, Len(b), b)
      BY ONLY <3>2, Put
    <3> QED
      BY ONLY <1>6, <1>26, <3>1, <3>3 DEF IsPut
  <2>2. CASE d.build = Nil
    <3>1. c = << >> /\ << >> \in Bytes /\ Len(<< >>) = 0
      BY <2>2 DEF Bytes, Nil
    <3> HIDE DEF c
    <3>2. p14 \in Bytes /\ c \in Bytes /\ 56 \in Nat /\ 56 + Len(c) <= Len(p14)
      BY ONLY <1>26, <3>1
    <3>3. IsPut(p14 ++ <<56, c>>, p14, Len(p14), 56, Len(c), c)
      BY ONLY <3>2, Put
    <3>4. p15 \in Bytes /\ Len(p15) = 240
          /\ \A o, m \in Nat : o + m <= 240 /\ (o + m <= 56 \/ 56 <= o) =>
                                Field(p15, o, m) = Field(p14, o, m)
      BY ONLY <1>26, <3>1, <3>3 DEF IsPut
    <3>5. Field(p15, 56, 4) = b
      BY ONLY <1>6, <2>0, <2>2, <3>4
    <3> HIDE DEF p15
    <3> QED
      BY ONLY <3>4, <3>5 DEF IsPut
  <2> QED
    BY <2>1, <2>2
<1> HIDE DEF p15
<1>28. /\ Field(p15, 0, 10) = h /\ Field(p15, 32, 6) = d.mac
       /\ Field(p15, 40, 4) = d.ip /\ Field(p15, 44, 4) = d.mask
       /\ Field(p15, 48, 4) = d.gw /\ Field(p15, 112, 4) = d.dns1
       /\ Field(p15, 116, 4) = d.dns2 /\ Cstr(Field(p15, 12, 20)) = d.name
       /\ Cstr(Field(p15, 140, 16)) = d.serial /\ Cstr(Field(p15, 156, 16)) = d.firmware
       /\ Cstr(Field(p15, 196, 16)) = d.model /\ Cstr(Field(p15, 212, 16)) = d.vendor
       /\ Field(p15, 60, 2) = x /\ Field(p15, 62, 2) = y
       /\ Field(p15, 56, 4) = b
  BY ONLY <1>24, <1>25, <1>26, <1>27 DEF IsPut, IsTextPut
<1>29. Command(p15) = CmdAnnounce
  <2>1. 8 \in Word /\ CmdAnnounce \in Word
    BY SMT DEF Word, CmdAnnounce
  <2>2. p15 \in Bytes /\ 10 <= Len(p15) /\ Field(p15, 0, 10) = header(8, CmdAnnounce)
    BY ONLY <1>27, <1>28 DEF h
  <2> QED
    BY ONLY <2>1, <2>2, CommandRead, Zenon
<1> QED
  BY <1>1, <1>27, <1>28, <1>29 DEF x, y, b

-----------------------------------------------------------------------------
(* Packets as they are read *)

(* Whether a build date is one the tool reads. *)
Readable(b) == b # Nil /\ b[1] \in 2000..2099 /\ b[2] \in 1..12 /\ b[3] \in 1..31

(* A build date is read as it was written, or not at all. *)
LEMMA DateSurvives ==
    ASSUME NEW d, Announceable(d)
    PROVE  /\ BuildOf(d) \in Bytes /\ Len(BuildOf(d)) = 4
           /\ buildDate(Uint32(BuildOf(d))) = IF Readable(d.build) THEN d.build ELSE Nil
<1>1. d.build \in Seq(Nat) /\ Len(d.build) \in {0, 3}
      /\ (Len(d.build) = 3 => d.build[1] < 10000 /\ d.build[2] < 100 /\ d.build[3] < 100)
  BY DEF Announceable, Device, Date
<1>2. CASE d.build = Nil
  <2> DEFINE z == Zeros(4)
  <2>1. BuildOf(d) = z
    BY <1>2 DEF BuildOf
  <2>2. z \in Bytes /\ Len(z) = 4 /\ z[1] = 0 /\ z[2] = 0 /\ Field(z, 2, 2) = Zeros(2)
    <3>1. 4 \in Nat /\ 2 \in Nat /\ 2 + 2 <= 4 /\ 1 \in 1 .. 4 /\ 2 \in 1 .. 4
      OBVIOUS
    <3>2. z \in Bytes /\ Len(z) = 4 /\ \A i \in 1 .. 4 : z[i] = 0
      BY ONLY <3>1, ZerosBytes
    <3>3. Field(z, 2, 2) = Zeros(2)
      BY ONLY <3>1, FieldZeros
    <3> QED
      BY ONLY <3>1, <3>2, <3>3
  <2>3. Zeros(2)[1] = 0 /\ Zeros(2)[2] = 0
    BY ZerosBytes
  <2> HIDE DEF z
  <2>4. Uint16(z) = 0 /\ Uint16(Field(z, 2, 2)) = 0
    BY <2>2, <2>3 DEF Uint16
  <2>5. Uint32(z) = 0
    BY <2>4, SMT DEF Uint32
  <2>6. buildDate(0) = Nil
    BY SMT DEF buildDate
  <2>7. ~ Readable(d.build)
    BY <1>2 DEF Readable
  <2> QED
    BY <2>1, <2>2, <2>5, <2>6, <2>7, Zenon
<1>3. CASE d.build # Nil
  <2> DEFINE b == d.build
             y == b[1]
             m == b[2]
             dd == b[3]
             v == DateNumber(y, m, dd)
  <2>1. Len(b) = 3
    BY <1>1, <1>3, EmptySeq DEF Nil
  <2>2. y \in Nat /\ m \in Nat /\ dd \in Nat /\ b = <<y, m, dd>>
    <3> DEFINE N == Nat
    <3>1. b \in Seq(N) /\ Len(b) = 3
      BY <1>1, <2>1
    <3> HIDE DEF N, b
    <3>2. 1 \in 1 .. Len(b) /\ 2 \in 1 .. Len(b) /\ 3 \in 1 .. Len(b)
      BY <3>1
    <3>3. b[1] \in N /\ b[2] \in N /\ b[3] \in N
      BY ONLY <3>1, <3>2, ElementOfSeq, Zenon
    <3>4. b = <<b[1], b[2], b[3]>>
      BY ONLY <3>1
    <3> QED
      BY <3>3, <3>4 DEF N
  <2>3. Digits(y, m, dd)
    BY ONLY <1>1, <2>1, <2>2, SMT DEF Digits
  <2>4. BuildOf(d) = Le32(v)
    BY ONLY <1>3, SMT DEF BuildOf, DateNumber
  <2>5. Readable(b) <=> y \in 2000..2099 /\ m \in 1..12 /\ dd \in 1..31
    BY ONLY <1>3, SMT DEF Readable
  <2> HIDE DEF y, m, dd, b
  <2>6. /\ Le32(v) \in Bytes /\ Len(Le32(v)) = 4 /\ Uint32(Le32(v)) = v
        /\ buildDate(v) = IF y \in 2000..2099 /\ m \in 1..12 /\ dd \in 1..31
                          THEN <<y, m, dd>> ELSE Nil
    BY ONLY <2>3, DateBytes
  <2> HIDE DEF v
  <2>7. buildDate(v) = IF Readable(b) THEN b ELSE Nil
    BY ONLY <2>2, <2>5, <2>6
  <2> QED
    BY ONLY <2>4, <2>6, <2>7 DEF b
<1> QED
  BY <1>2, <1>3

(* What a camera announces is what the tool hears, but for a date it does not
   read; and if it reads it, what it heard makes the same announcement.       *)
LEMMA AnnouncementSurvives ==
    ASSUME NEW d, Announceable(d)
    PROVE  LET p == BuildAnnounce(d)
               heard == ParseAnnounce(p)
           IN  /\ p \in Bytes /\ Len(p) = lenAnnounce
               /\ IsAnnounce(p) /\ ~ IsSetAck(p)
               /\ heard = [d EXCEPT !.build = IF Readable(d.build) THEN d.build ELSE Nil]
               /\ Readable(d.build) => BuildAnnounce(heard) = p
<1> DEFINE p == BuildAnnounce(d)
           heard == ParseAnnounce(p)
           e == IF Readable(d.build) THEN d.build ELSE Nil
<1>1. /\ BuildOf(d) \in Bytes /\ Len(BuildOf(d)) = 4
      /\ buildDate(Uint32(BuildOf(d))) = e
  BY DateSurvives
<1>2. /\ p \in Bytes /\ Len(p) = 240 /\ Command(p) = CmdAnnounce
      /\ Field(p, 32, 6) = d.mac /\ Field(p, 40, 4) = d.ip
      /\ Field(p, 44, 4) = d.mask /\ Field(p, 48, 4) = d.gw
      /\ Field(p, 112, 4) = d.dns1 /\ Field(p, 116, 4) = d.dns2
      /\ Cstr(Field(p, 12, 20)) = d.name /\ Cstr(Field(p, 140, 16)) = d.serial
      /\ Cstr(Field(p, 156, 16)) = d.firmware /\ Cstr(Field(p, 196, 16)) = d.model
      /\ Cstr(Field(p, 212, 16)) = d.vendor /\ Field(p, 60, 2) = Le16(d.http)
      /\ Field(p, 62, 2) = Le16(d.rtsp) /\ Field(p, 56, 4) = BuildOf(d)
  BY <1>1, AnnounceFields
<1>3. Uint16(Le16(d.http)) = d.http /\ Uint16(Le16(d.rtsp)) = d.rtsp
  <2>1. d.http \in Word /\ d.rtsp \in Word
    BY DEF Announceable, Device
  <2> QED
    BY <2>1, Le16Bytes
<1> HIDE DEF e, p
<1>4. ParseAnnounce(p) =
         [mac |-> d.mac, ip |-> d.ip, mask |-> d.mask, gw |-> d.gw, dns1 |-> d.dns1,
          dns2 |-> d.dns2, name |-> d.name, serial |-> d.serial, firmware |-> d.firmware,
          model |-> d.model, vendor |-> d.vendor, http |-> d.http, rtsp |-> d.rtsp, build |-> e]
  BY ONLY <1>1, <1>2, <1>3, ZenonT(60) DEF ParseAnnounce
<1>5. d = [mac |-> d.mac, ip |-> d.ip, mask |-> d.mask, gw |-> d.gw, dns1 |-> d.dns1,
           dns2 |-> d.dns2, name |-> d.name, serial |-> d.serial, firmware |-> d.firmware,
           model |-> d.model, vendor |-> d.vendor, http |-> d.http, rtsp |-> d.rtsp,
           build |-> d.build]
  BY DEF Announceable, Device
<1>6. heard = [d EXCEPT !.build = e]
  BY ONLY <1>4, <1>5
<1>7. Readable(d.build) => heard = d
  BY ONLY <1>4, <1>5 DEF e
<1>8. IsAnnounce(p) /\ ~ IsSetAck(p)
  BY <1>2 DEF IsAnnounce, IsSetAck, CmdAnnounce, CmdSetAck, lenAnnounce
<1> QED
  BY <1>2, <1>6, <1>7, <1>8 DEF e, p, lenAnnounce

(* An acknowledgement is one to the tool, and gives it back its address. *)
LEMMA AckSurvives ==
    ASSUME NEW ip \in Bytes, Is4(ip), NEW port \in Word
    PROVE  LET p == BuildSetAck(ip, port)
           IN  /\ p \in Bytes /\ Len(p) = lenTX
               /\ IsSetAck(p) /\ ~ IsAnnounce(p)
               /\ ParseSetAck(p) = [ip |-> ip, port |-> port]
<1> DEFINE h  == header(8, CmdSetAck)
           x  == Le16(port)
           p0 == Zeros(140)
           p1 == p0 ++ <<0, h>>
           p2 == p1 ++ <<12, ip>>
           p3 == p2 ++ <<16, x>>
<1>1. BuildSetAck(ip, port) = p3
  BY Zenon DEF BuildSetAck, lenTX
<1>2. ip \in Bytes /\ Len(ip) = 4
  BY DEF Is4
<1>3. h \in Bytes /\ Len(h) = 10
  <2>1. 8 \in Word /\ CmdSetAck \in Word
    BY SMT DEF Word, CmdSetAck
  <2> QED
    BY <2>1, HeaderBytes
<1>4. x \in Bytes /\ Len(x) = 2 /\ Uint16(x) = port
  BY Le16Bytes
<1>5. p0 \in Bytes /\ Len(p0) = 140
  <2> DEFINE n == 140
  <2>1. n \in Nat
    OBVIOUS
  <2> HIDE DEF n
  <2>2. Zeros(n) \in Bytes /\ Len(Zeros(n)) = n
    BY ONLY <2>1, ZerosBytes
  <2> QED
    BY ONLY <2>2 DEF n
<1> HIDE DEF h, x, p0
<1>6. IsPut(p1, p0, 140, 0, 10, h) /\ p1 \in Bytes /\ Len(p1) = 140
  <2>1. /\ p0 \in Bytes /\ h \in Bytes
        /\ 0 \in Nat /\ 0 + Len(h) <= Len(p0)
    BY ONLY <1>3, <1>5
  <2>2. IsPut(p1, p0, Len(p0), 0, Len(h), h)
    BY ONLY <2>1, Put
  <2> HIDE DEF p1
  <2> QED
    BY ONLY <1>3, <1>5, <2>2 DEF IsPut
<1> HIDE DEF p1
<1>7. IsPut(p2, p1, 140, 12, 4, ip) /\ p2 \in Bytes /\ Len(p2) = 140
  <2>1. /\ p1 \in Bytes /\ ip \in Bytes
        /\ 12 \in Nat /\ 12 + Len(ip) <= Len(p1)
    BY ONLY <1>2, <1>6
  <2>2. IsPut(p2, p1, Len(p1), 12, Len(ip), ip)
    BY ONLY <2>1, Put
  <2> HIDE DEF p2
  <2> QED
    BY ONLY <1>2, <1>6, <2>2 DEF IsPut
<1> HIDE DEF p2
<1>8. IsPut(p3, p2, 140, 16, 2, x) /\ p3 \in Bytes /\ Len(p3) = 140
  <2>1. /\ p2 \in Bytes /\ x \in Bytes
        /\ 16 \in Nat /\ 16 + Len(x) <= Len(p2)
    BY ONLY <1>4, <1>7
  <2>2. IsPut(p3, p2, Len(p2), 16, Len(x), x)
    BY ONLY <2>1, Put
  <2> HIDE DEF p3
  <2> QED
    BY ONLY <1>4, <1>7, <2>2 DEF IsPut
<1> HIDE DEF p3
<1>9. /\ Field(p3, 0, 10) = h /\ Field(p3, 12, 4) = ip /\ Field(p3, 16, 2) = x
  BY ONLY <1>6, <1>7, <1>8 DEF IsPut
<1>10. Command(p3) = CmdSetAck
  <2>1. 8 \in Word /\ CmdSetAck \in Word
    BY SMT DEF Word, CmdSetAck
  <2>2. p3 \in Bytes /\ 10 <= Len(p3) /\ Field(p3, 0, 10) = header(8, CmdSetAck)
    BY ONLY <1>8, <1>9 DEF h
  <2> QED
    BY ONLY <2>1, <2>2, CommandRead, Zenon
<1>11. IsSetAck(p3) /\ ~ IsAnnounce(p3)
  BY ONLY <1>8, <1>10 DEF IsAnnounce, IsSetAck, CmdAnnounce, CmdSetAck
<1>12. ParseSetAck(p3) = [ip |-> ip, port |-> port]
  BY ONLY <1>4, <1>9 DEF ParseSetAck
<1> QED
  BY <1>1, <1>8, <1>11, <1>12 DEF lenTX

-----------------------------------------------------------------------------
(* The command line *)

(* Flags with their values. *)
Texts == UNION {[D -> Text] : D \in SUBSET STRING}
(* What parseFlags has read so far. *)
Flags == [m : Texts, want : SUBSET STRING, bad : BOOLEAN]

(* The texts that parseFlags makes up. *)
LEMMA TextConstants == Empty \in Text /\ True \in Text /\ Dashes \in Text
<1>1. << >> \in Bytes /\ <<116>> \in Bytes /\ <<45, 45>> \in Bytes
  BY DEF Bytes, Byte
<1> QED
  BY <1>1 DEF Empty, True, Dashes, Text, Nil

(* The flags m with one more value. *)
Updated(m, k, t) == [x \in DOMAIN m \cup {k} |-> IF x = k THEN t ELSE m[x]]

(* What Given means, so that no proof has to expand it. *)
LEMMA GivenIs ==
    ASSUME NEW f \in Flags, NEW k, NEW t
    PROVE  Given(f, k, t) = [m |-> Updated(f.m, k, t), want |-> {}, bad |-> f.bad]
<1> DEFINE m == Updated(f.m, k, t)
<1>1. f = [m |-> f.m, want |-> f.want, bad |-> f.bad]
  BY DEF Flags
<1>2. Given(f, k, t) = [[f EXCEPT !.m = m] EXCEPT !.want = {}]
  BY DEF Given, Updated
<1> HIDE DEF m
<1>3. Given(f, k, t) = [m |-> m, want |-> {}, bad |-> f.bad]
  BY ONLY <1>1, <1>2
<1> QED
  BY <1>3 DEF m

(* A flag given keeps the flags what they are. *)
LEMMA GivenType ==
    ASSUME NEW f \in Flags, NEW k \in STRING, NEW t \in Text
    PROVE  Given(f, k, t) \in Flags
<1>1. PICK E \in SUBSET STRING : f.m \in [E -> Text]
  BY DEF Flags, Texts
<1>2. E \cup {k} \in SUBSET STRING /\ Updated(f.m, k, t) \in [E \cup {k} -> Text]
  BY <1>1 DEF Updated
<1>3. Updated(f.m, k, t) \in Texts
  BY <1>2 DEF Texts
<1>4. Given(f, k, t) = [m |-> Updated(f.m, k, t), want |-> {}, bad |-> f.bad]
  BY GivenIs
<1> QED
  BY <1>3, <1>4 DEF Flags

(* An argument taken keeps the flags what they are. *)
LEMMA TakeFlagType ==
    ASSUME NEW f \in Flags, NEW a \in Argument, NEW bools
    PROVE  TakeFlag(f, a, bools) \in Flags
<1>1. \/ a \in Text /\ IsText(a)
      \/ a[1] = "flag" /\ a[2] \in STRING /\ ~ IsText(a)
      \/ a[1] = "flag=" /\ a[2] \in STRING /\ a[3] \in Text /\ ~ IsText(a)
  BY DEF Argument, Text, IsText
<1>2. CASE f.bad
  BY <1>2 DEF TakeFlag
<1>3. CASE ~ f.bad /\ f.want # {}
  <2> DEFINE k == CHOOSE k \in f.want : TRUE
             t == IF IsText(a) THEN a ELSE Dashes
  <2>1. k \in STRING /\ t \in Text
    BY <1>1, <1>3, TextConstants DEF Flags
  <2>2. TakeFlag(f, a, bools) = Given(f, k, t)
    BY <1>3, Zenon DEF TakeFlag
  <2> HIDE DEF k, t
  <2> QED
    BY <2>1, <2>2, GivenType
<1>4. CASE ~ f.bad /\ f.want = {} /\ IsText(a)
  <2>1. a[1] # "flag=" /\ a[1] # "flag"
    BY <1>4 DEF IsText
  <2>2. TakeFlag(f, a, bools) = [f EXCEPT !.bad = TRUE]
    BY <1>4, <2>1 DEF TakeFlag
  <2> QED
    BY <2>2 DEF Flags
<1>5. CASE ~ f.bad /\ f.want = {} /\ ~ IsText(a) /\ a[1] = "flag="
  <2>1. TakeFlag(f, a, bools) = Given(f, a[2], a[3])
    BY <1>5 DEF TakeFlag
  <2>2. a[2] \in STRING /\ a[3] \in Text
    BY <1>1, <1>5
  <2> QED
    BY <2>1, <2>2, GivenType
<1>6. CASE ~ f.bad /\ f.want = {} /\ ~ IsText(a) /\ a[1] = "flag"
  <2>1. a[2] \in STRING
    BY <1>1, <1>6
  <2>2. CASE a[2] \in bools
    <3>1. TakeFlag(f, a, bools) = Given(f, a[2], True)
      BY <1>6, <2>2 DEF TakeFlag
    <3> QED
      BY <2>1, <3>1, GivenType, TextConstants
  <2>3. CASE a[2] \notin bools
    <3>1. TakeFlag(f, a, bools) = [f EXCEPT !.want = {a[2]}]
      BY <1>6, <2>3 DEF TakeFlag
    <3> QED
      BY <2>1, <3>1 DEF Flags
  <2> QED
    BY <2>2, <2>3
<1> QED
  BY <1>1, <1>2, <1>3, <1>4, <1>5, <1>6

(* What parseFlags starts with. *)
NoFlags == [m |-> << >>, want |-> {}, bad |-> FALSE]

(* It has the type of flags. *)
LEMMA NoFlagsType == NoFlags \in Flags
<1>1. << >> \in [{} -> Text]
  OBVIOUS
<1>2. << >> \in Texts
  BY <1>1 DEF Texts
<1> QED
  BY <1>2 DEF Flags, NoFlags

(* p[n] is what parseFlags has read in the first n arguments. *)
Parses(p, args, bools) ==
    /\ p[0] = NoFlags
    /\ \A n \in 1 .. Len(args) : p[n] = TakeFlag(p[n - 1], args[n], bools)
    /\ parseFlags(args, bools) = p[Len(args)]

(* parseFlags takes one argument after the other. *)
LEMMA ParseSteps ==
    ASSUME NEW args \in Seq(Argument), NEW bools
    PROVE  \E p : Parses(p, args, bools)
<1> DEFINE base == NoFlags
           step == [p \in Flags \X Argument |-> TakeFlag(p[1], p[2], bools)]
           S == SUBSET (1 .. Len(args))
           Is(g) == g = [s \in S |-> IF s = {} THEN base
                                     ELSE TakeFlag(g[s \ {Max(s)}], args[Max(s)], bools)]
           fold == CHOOSE g : Is(g)
<1>1. Len(args) \in Nat /\ DOMAIN args = 1 .. Len(args)
      /\ \A i \in 1 .. Len(args) : args[i] \in Argument
  BY LenProperties, ElementOfSeq
<1>2. base \in Flags
  BY NoFlagsType
<1>3. step \in [Flags \X Argument -> Flags]
  BY TakeFlagType
<1>4. \A f \in Flags, a \in Argument : step[<<f, a>>] = TakeFlag(f, a, bools)
  OBVIOUS
<1>5. parseFlags(args, bools) = fold[1 .. Len(args)]
  BY <1>1, Zenon DEF parseFlags, FoldLeft, MapThenFoldSet, NoFlags
<1> HIDE DEF base, step
<1>6. \A s \in S : s # {} => Max(s) \in s /\ Max(s) \in 1 .. Len(args)
  BY <1>1, MaxIn
<1>7. \E g : Is(g)
  <2>1. PICK g \in [S -> Flags] : IsSetFold(g, Len(args), base, step, args)
    BY <1>2, <1>3, SetFoldExists
  <2>2. \A s \in S : g[s] = IF s = {} THEN base ELSE step[<<g[s \ {Max(s)}], args[Max(s)]>>]
    BY <2>1, Zenon DEF IsSetFold
  <2>3. \A s \in S : s # {} =>
           step[<<g[s \ {Max(s)}], args[Max(s)]>>] = TakeFlag(g[s \ {Max(s)}], args[Max(s)], bools)
    <3> SUFFICES ASSUME NEW s \in S, s # {}
                 PROVE  step[<<g[s \ {Max(s)}], args[Max(s)]>>]
                          = TakeFlag(g[s \ {Max(s)}], args[Max(s)], bools)
      OBVIOUS
    <3>1. g[s \ {Max(s)}] \in Flags /\ args[Max(s)] \in Argument
      BY <1>1, <1>6
    <3> QED
      BY <1>4, <3>1
  <2>4. g = [s \in S |-> g[s]]
    OBVIOUS
  <2>5. Is(g)
    BY <2>2, <2>3, <2>4, Zenon
  <2> HIDE DEF Is
  <2> QED
    BY <2>5
<1>8. Is(fold)
  <2> HIDE DEF Is
  <2> QED
    BY <1>7
<1> HIDE DEF fold
<1>9. \A s \in S : fold[s] = IF s = {} THEN base
                             ELSE TakeFlag(fold[s \ {Max(s)}], args[Max(s)], bools)
  BY <1>8, Zenon
<1> DEFINE p == [n \in 0 .. Len(args) |-> fold[1 .. n]]
<1>10. p[0] = NoFlags
  <2>1. 1 .. 0 = {} /\ {} \in S
    OBVIOUS
  <2>2. fold[{}] = NoFlags
    BY <1>9, <2>1 DEF base
  <2> QED
    BY <1>1, <2>1, <2>2
<1>11. \A n \in 1 .. Len(args) : p[n] = TakeFlag(p[n - 1], args[n], bools)
  <2> SUFFICES ASSUME NEW n \in 1 .. Len(args)
               PROVE  p[n] = TakeFlag(p[n - 1], args[n], bools)
    OBVIOUS
  <2> DEFINE s == 1 .. n
  <2>1. n - 1 \in Nat /\ s \in S /\ s # {} /\ s \in SUBSET (1 .. (n - 1) + 1) /\ (n - 1) + 1 \in s
    <3>1. n - 1 \in Nat /\ (n - 1) + 1 = n /\ n \in s
      BY <1>1
    <3>2. s \in SUBSET (1 .. Len(args))
      BY <1>1
    <3> QED
      BY <3>1, <3>2
  <2>2. Max(s) = (n - 1) + 1
    <3> HIDE DEF s
    <3> QED
      BY <2>1, MaxOf
  <2>3. Max(s) = n /\ s \ {n} = 1 .. n - 1
    BY <2>2
  <2>4. fold[s] = TakeFlag(fold[1 .. n - 1], args[n], bools)
    <3> HIDE DEF s
    <3> QED
      BY <1>9, <2>1, <2>3
  <2>5. p[n] = fold[s] /\ p[n - 1] = fold[1 .. n - 1]
    BY <1>1
  <2> QED
    BY <2>4, <2>5
<1>12. parseFlags(args, bools) = p[Len(args)]
  BY <1>1, <1>5
<1> HIDE DEF p
<1> QED
  BY <1>10, <1>11, <1>12 DEF Parses

(* What parseFlags returns, of any command line. *)
LEMMA FlagsType ==
    ASSUME NEW args \in Seq(Argument), NEW bools
    PROVE  parseFlags(args, bools) \in Flags
<1>1. Len(args) \in Nat /\ \A i \in 1 .. Len(args) : args[i] \in Argument
  BY LenProperties, ElementOfSeq
<1>2. PICK p : Parses(p, args, bools)
  BY ParseSteps
<1> DEFINE S == {n \in Nat : n <= Len(args) => p[n] \in Flags}
<1>3. 0 \in S
  BY <1>2, NoFlagsType DEF Parses
<1>4. ASSUME NEW n \in Nat, n \in S
      PROVE  n + 1 \in S
  <2> SUFFICES ASSUME n + 1 <= Len(args)
               PROVE  p[n + 1] \in Flags
    OBVIOUS
  <2>1. n + 1 \in 1 .. Len(args) /\ (n + 1) - 1 = n /\ p[n] \in Flags
    BY <1>1, <1>4
  <2>2. p[n + 1] = TakeFlag(p[n], args[n + 1], bools)
    BY <1>2, <2>1 DEF Parses
  <2> QED
    BY <1>1, <2>1, <2>2, TakeFlagType
<1>5. \A n \in Nat : n \in S
  <2> HIDE DEF S
  <2> QED
    BY <1>3, <1>4, NatInductionSet
<1> QED
  BY <1>1, <1>2, <1>5 DEF Parses

(* One more argument is taken after all the others. *)
LEMMA ParseAppend ==
    ASSUME NEW args \in Seq(Argument), NEW a \in Argument, NEW bools
    PROVE  parseFlags(Append(args, a), bools) = TakeFlag(parseFlags(args, bools), a, bools)
<1> DEFINE all == Append(args, a)
           k == Len(args)
<1>1. /\ k \in Nat /\ all \in Seq(Argument) /\ Len(all) = k + 1 /\ all[k + 1] = a
      /\ \A i \in 1 .. k : all[i] = args[i]
  BY LenProperties, AppendProperties
<1> HIDE DEF all, k
<1>2. PICK p : Parses(p, args, bools)
  BY ParseSteps
<1>3. PICK q : Parses(q, all, bools)
  BY <1>1, ParseSteps
<1>4. /\ p[0] = NoFlags /\ q[0] = NoFlags
      /\ \A n \in 1 .. k : p[n] = TakeFlag(p[n - 1], args[n], bools)
      /\ \A n \in 1 .. k + 1 : q[n] = TakeFlag(q[n - 1], all[n], bools)
      /\ parseFlags(args, bools) = p[k] /\ parseFlags(all, bools) = q[k + 1]
  BY <1>1, <1>2, <1>3 DEF Parses, k
<1> DEFINE S == {n \in Nat : n <= k => p[n] = q[n]}
<1>5. 0 \in S
  BY <1>4
<1>6. ASSUME NEW n \in Nat, n \in S
      PROVE  n + 1 \in S
  <2> SUFFICES ASSUME n + 1 <= k
               PROVE  p[n + 1] = q[n + 1]
    OBVIOUS
  <2>1. n + 1 \in 1 .. k /\ n + 1 \in 1 .. k + 1 /\ (n + 1) - 1 = n /\ p[n] = q[n]
    BY <1>1, <1>6
  <2>2. p[n + 1] = TakeFlag(p[n], args[n + 1], bools) /\ q[n + 1] = TakeFlag(q[n], all[n + 1], bools)
    BY <1>4, <2>1
  <2> QED
    BY <1>1, <2>1, <2>2
<1>7. \A n \in Nat : n \in S
  <2> HIDE DEF S
  <2> QED
    BY <1>5, <1>6, NatInductionSet
<1>8. p[k] = q[k]
  BY <1>1, <1>7
<1>9. k + 1 \in 1 .. k + 1 /\ (k + 1) - 1 = k
  BY <1>1
<1>10. q[k + 1] = TakeFlag(q[k], all[k + 1], bools)
  BY <1>4, <1>9
<1> QED
  BY <1>1, <1>4, <1>8, <1>10 DEF all

(* f says exactly what the settings say, the last of each flag. *)
ToldBy(f, says) ==
    /\ FlagsOK(f)
    /\ \A k : has(f, k) <=> Said(says, k) # {}
    /\ \A k : str(f, k) = Told(says, k)

(* A sequence of two elements. *)
LEMMA SeqOfTwo ==
    ASSUME NEW T, NEW s \in Seq(T), Len(s) = 2
    PROVE  /\ s[1] \in T /\ s[2] \in T /\ s = <<s[1], s[2]>>
           /\ <<s[1]>> \in Seq(T) /\ s = Append(<<s[1]>>, s[2])
<1>1. s[1] \in T /\ s[2] \in T
  BY ElementOfSeq
<1>2. \A t \in Seq(T) : Len(t) = 2 => t = <<t[1], t[2]>>
  OBVIOUS
<1>3. <<s[1]>> \in Seq(T) /\ Len(<<s[1]>>) = 1 /\ <<s[1]>>[1] = s[1]
  BY <1>1
<1>4. ASSUME NEW u \in Seq(T), Len(u) = 1, NEW e \in T
      PROVE  Append(u, e) = <<u[1], e>>
  <2> DEFINE t == Append(u, e)
  <2>1. /\ t \in Seq(T) /\ Len(t) = Len(u) + 1
        /\ \A i \in 1 .. Len(u) : t[i] = u[i]
        /\ t[Len(u) + 1] = e
    BY AppendProperties
  <2> HIDE DEF t
  <2>2. Len(t) = 2 /\ t[1] = u[1] /\ t[2] = e
    BY <1>4, <2>1
  <2>3. t = <<u[1], e>>
    BY <1>2, <2>1, <2>2
  <2> QED
    BY <2>3 DEF t
<1> DEFINE one == <<s[1]>>
<1>5. one \in Seq(T) /\ Len(one) = 1 /\ one[1] = s[1]
  BY <1>3
<1> HIDE DEF one
<1>6. Append(one, s[2]) = <<s[1], s[2]>>
  BY <1>1, <1>4, <1>5
<1>7. s = <<s[1], s[2]>>
  BY <1>2
<1> QED
  BY <1>1, <1>5, <1>6, <1>7 DEF one

(* The first element stays the first. *)
LEMMA FirstKept ==
    ASSUME NEW T, NEW s \in Seq(T), NEW e \in T, s # << >>
    PROVE  Append(s, e)[1] = s[1]
<1>1. Len(s) \in Nat /\ Len(s) # 0
  BY EmptySeq, LenProperties
<1>2. 1 \in 1 .. Len(s)
  BY <1>1
<1> QED
  BY <1>2, AppendProperties

(* A setting, one argument or two, is taken as its flag and its value. *)
LEMMA SettingTaken ==
    ASSUME NEW args \in Seq(Argument), FlagsOK(parseFlags(args, switches)),
           NEW s \in Seq(Argument), IsSetting(s)
    PROVE  parseFlags(args \o s, switches) = Given(parseFlags(args, switches), Key(s), Value(s))
<1> DEFINE f == parseFlags(args, switches)
<1>0. f \in Flags
  BY FlagsType
<1> HIDE DEF f
<1>1. ~ f.bad /\ f.want = {}
  BY DEF FlagsOK, f
<1>2. s[1] \in Argument
  BY ElementOfSeq DEF IsSetting
<1>3. CASE Len(s) = 1
  <2>1. s = <<s[1]>>
    BY <1>3
  <2>2. args \o s = Append(args, s[1])
    BY <1>2, <2>1, AppendIsConcat
  <2>3. parseFlags(args \o s, switches) = TakeFlag(f, s[1], switches)
    BY <1>2, <2>2, ParseAppend DEF f
  <2>4. CASE s[1][1] = "flag="
    <3>1. Value(s) = s[1][3] /\ ~ IsText(s[1])
      BY <1>3, <2>4 DEF Value, IsText
    <3>2. TakeFlag(f, s[1], switches) = Given(f, s[1][2], s[1][3])
      BY <1>1, <2>4, <3>1 DEF TakeFlag
    <3> QED
      BY <2>3, <3>1, <3>2 DEF f, Key
  <2>5. CASE s[1][1] = "flag" /\ s[1][2] \in switches
    <3>1. Value(s) = True /\ ~ IsText(s[1])
      BY <1>3, <2>5 DEF Value, IsText
    <3>2. TakeFlag(f, s[1], switches) = Given(f, s[1][2], True)
      BY <1>1, <2>5, <3>1 DEF TakeFlag
    <3> QED
      BY <2>3, <3>1, <3>2 DEF f, Key
  <2> QED
    BY <1>3, <2>4, <2>5 DEF IsSetting
<1>4. CASE Len(s) = 2
  <2>1. s = <<s[1], s[2]>> /\ s[2] \in Argument
    BY <1>4, SeqOfTwo
  <2>2. args \o s = Append(Append(args, s[1]), s[2])
    <3>1. <<s[1]>> \in Seq(Argument) /\ s = Append(<<s[1]>>, s[2])
      BY <1>4, SeqOfTwo
    <3>2. args \o Append(<<s[1]>>, s[2]) = Append(args \o <<s[1]>>, s[2])
      BY <2>1, <3>1, ConcatAppend
    <3>3. args \o <<s[1]>> = Append(args, s[1])
      BY <1>2, AppendIsConcat
    <3> QED
      BY <3>1, <3>2, <3>3
  <2>3. Append(args, s[1]) \in Seq(Argument)
    BY <1>2, AppendProperties
  <2> DEFINE g == TakeFlag(f, s[1], switches)
  <2>4. parseFlags(args \o s, switches) = TakeFlag(g, s[2], switches)
    BY <1>2, <2>1, <2>2, <2>3, ParseAppend DEF f
  <2>5. g = [f EXCEPT !.want = {Key(s)}]
    <3>1. s[1][1] = "flag" /\ s[1][2] \notin switches /\ ~ IsText(s[1])
      BY <1>4 DEF IsSetting, IsText
    <3> QED
      BY <1>1, <3>1 DEF TakeFlag, Key
  <2>6. ~ g.bad /\ g.want = {Key(s)} /\ g.m = f.m
    BY <1>0, <1>1, <2>5 DEF Flags
  <2>7. TakeFlag(g, s[2], switches) = Given(g, Key(s), Value(s))
    <3>1. (CHOOSE k \in {Key(s)} : TRUE) = Key(s)
      OBVIOUS
    <3>2. Value(s) = IF IsText(s[2]) THEN s[2] ELSE Dashes
      BY <1>4 DEF Value
    <3> HIDE DEF g
    <3> QED
      BY <2>6, <3>1, <3>2, Zenon DEF TakeFlag
  <2>8. Given(g, Key(s), Value(s)) = Given(f, Key(s), Value(s))
    <3> DEFINE k == Key(s)
               v == Value(s)
    <3>1. g \in Flags
      BY <1>0, <1>2, TakeFlagType
    <3> HIDE DEF g, k, v
    <3>2. Given(g, k, v) = [m |-> Updated(g.m, k, v), want |-> {}, bad |-> g.bad]
      BY <3>1, GivenIs
    <3>3. Given(f, k, v) = [m |-> Updated(f.m, k, v), want |-> {}, bad |-> f.bad]
      BY <1>0, GivenIs
    <3>4. g.m = f.m /\ g.bad = f.bad
      <4>1. f.bad \in BOOLEAN /\ g.bad \in BOOLEAN
        BY <1>0, <3>1 DEF Flags
      <4> QED
        BY <1>1, <2>6, <4>1
    <3>5. Given(g, k, v) = Given(f, k, v)
      BY <3>2, <3>3, <3>4
    <3> QED
      BY <3>5 DEF k, v
  <2> QED
    BY <2>4, <2>7, <2>8 DEF f
<1> QED
  BY <1>3, <1>4 DEF IsSetting

(* One more setting is the last of its flag. *)
LEMMA ToldAppend ==
    ASSUME NEW T, NEW says \in Seq(T), NEW s \in T, NEW k
    PROVE  /\ Said(Append(says, s), k) # {} <=> Key(s) = k \/ Said(says, k) # {}
           /\ Told(Append(says, s), k) = IF Key(s) = k THEN Value(s) ELSE Told(says, k)
<1> DEFINE all == Append(says, s)
           n == Len(says)
<1>1. /\ n \in Nat /\ DOMAIN says = 1 .. n /\ DOMAIN all = 1 .. n + 1 /\ all[n + 1] = s
      /\ \A i \in 1 .. n : all[i] = says[i]
  BY LenProperties, AppendProperties
<1> HIDE DEF all, n
<1>2. CASE Key(s) = k
  <2>1. n + 1 \in Said(all, k) /\ Said(all, k) \in SUBSET (1 .. n + 1)
    BY <1>1, <1>2 DEF Said
  <2>2. Max(Said(all, k)) = n + 1
    BY <1>1, <2>1, MaxOf
  <2>3. Told(all, k) = Value(s)
    BY <1>1, <2>1, <2>2 DEF Told
  <2> QED
    BY <1>2, <2>1, <2>3 DEF all
<1>3. CASE Key(s) # k
  <2>1. Said(all, k) = Said(says, k)
    BY <1>1, <1>3 DEF Said
  <2>2. Said(says, k) # {} => Max(Said(says, k)) \in 1 .. n
    <3>1. Said(says, k) \in SUBSET (1 .. n)
      BY <1>1 DEF Said
    <3> QED
      BY <1>1, <3>1, MaxIn
  <2>3. Told(all, k) = Told(says, k)
    BY <1>1, <2>1, <2>2 DEF Told
  <2> QED
    BY <1>3, <2>1, <2>3 DEF all
<1> QED
  BY <1>2, <1>3

(* Settings are parsed as what they say, however each is spelled. *)
LEMMA SettingsParsed ==
    ASSUME NEW says \in Seq(Seq(Argument)), \A i \in DOMAIN says : IsSetting(says[i])
    PROVE  ToldBy(parseFlags(FlattenSeq(says), switches), says)
<1> DEFINE A == Seq(Argument)
           Well(x) == \A i \in DOMAIN x : IsSetting(x[i])
           parsed(x) == parseFlags(FlattenSeq(x), switches)
           P == {x \in Seq(A) : Well(x) => ToldBy(parsed(x), x)}
<1>1. << >> \in P
  <2>1. FlattenSeq(<< >>) = << >>
    BY DEF FlattenSeq
  <2>2. parsed(<< >>) = NoFlags
    <3>1. << >> \in Seq(Argument) /\ Len(<< >>) = 0
      OBVIOUS
    <3>2. PICK p : Parses(p, << >>, switches)
      BY <3>1, ParseSteps
    <3> QED
      BY <2>1, <3>1, <3>2 DEF Parses
  <2>3. \A k : Said(<< >>, k) = {}
    BY DEF Said
  <2>4. ToldBy(NoFlags, << >>)
    BY <2>3 DEF ToldBy, NoFlags, FlagsOK, has, str, Told
  <2> HIDE DEF A, parsed
  <2> QED
    BY <2>2, <2>4
<1>2. ASSUME NEW x \in Seq(A), NEW s \in A, x \in P
      PROVE  Append(x, s) \in P
  <2> DEFINE y == Append(x, s)
  <2>1. y \in Seq(A) /\ Len(x) \in Nat /\ DOMAIN x = 1 .. Len(x) /\ DOMAIN y = 1 .. Len(x) + 1
        /\ y[Len(x) + 1] = s /\ \A i \in 1 .. Len(x) : y[i] = x[i]
    <3> HIDE DEF A
    <3> QED
      BY LenProperties, AppendProperties
  <2> SUFFICES ASSUME Well(y)
               PROVE  ToldBy(parsed(y), y)
    <3> HIDE DEF A, parsed, Well, y
    <3> QED
      BY <2>1 DEF y
  <2>2. IsSetting(s) /\ Well(x)
    <3> HIDE DEF y, A
    <3> QED
      BY <2>1
  <2>3. ToldBy(parsed(x), x)
    BY <1>2, <2>2
  <2> DEFINE f == parsed(x)
  <2>4. FlattenSeq(x) \in Seq(Argument) /\ FlattenSeq(y) = FlattenSeq(x) \o s
    BY FlattenElements, FlattenAppend
  <2>5. f \in Flags
    BY <2>4, FlagsType
  <2>6. parsed(y) = Given(f, Key(s), Value(s))
    BY <2>2, <2>3, <2>4, SettingTaken DEF ToldBy
  <2> HIDE DEF f, parsed
  <2>7. parsed(y) = [m |-> Updated(f.m, Key(s), Value(s)), want |-> {}, bad |-> f.bad]
    BY <2>5, <2>6, GivenIs
  <2>8. ToldBy(f, x)
    BY <2>3 DEF f
  <2>9. /\ \A k : Said(y, k) # {} <=> Key(s) = k \/ Said(x, k) # {}
        /\ \A k : Told(y, k) = IF Key(s) = k THEN Value(s) ELSE Told(x, k)
    <3> HIDE DEF A
    <3> QED
      BY ToldAppend
  <2> HIDE DEF y
  <2>10. FlagsOK(parsed(y))
    BY <2>7, <2>8 DEF ToldBy, FlagsOK
  <2>11. ASSUME NEW k
         PROVE  (has(parsed(y), k) <=> Said(y, k) # {}) /\ str(parsed(y), k) = Told(y, k)
    <3>1. (has(f, k) <=> Said(x, k) # {}) /\ str(f, k) = Told(x, k)
      BY <2>8 DEF ToldBy
    <3>2. parsed(y).m = Updated(f.m, Key(s), Value(s))
      BY <2>7
    <3>3. /\ k \in DOMAIN parsed(y).m <=> k = Key(s) \/ k \in DOMAIN f.m
          /\ k = Key(s) => parsed(y).m[k] = Value(s)
          /\ k # Key(s) /\ k \in DOMAIN f.m => parsed(y).m[k] = f.m[k]
      BY <3>2 DEF Updated
    <3> HIDE DEF y
    <3>4. /\ Said(y, k) # {} <=> Key(s) = k \/ Said(x, k) # {}
          /\ Told(y, k) = IF Key(s) = k THEN Value(s) ELSE Told(x, k)
      BY <2>9
    <3> QED
      BY <3>1, <3>3, <3>4 DEF has, str
  <2> QED
    BY <2>10, <2>11 DEF ToldBy
<1>3. \A x \in Seq(A) : x \in P
  <2> HIDE DEF A, P
  <2> QED
    BY <1>1, <1>2, SeqInduction
<1> QED
  BY <1>3

(* What is no setting makes the command line one that is refused. *)
LEMMA RestRefused ==
    ASSUME NEW args \in Seq(Argument), FlagsOK(parseFlags(args, switches)),
           NEW rest \in Seq(Argument), IsRest(rest), rest # << >>
    PROVE  ~ FlagsOK(parseFlags(args \o rest, switches))
<1> DEFINE f == parseFlags(args, switches)
           a == rest[1]
<1>1. f \in Flags /\ ~ f.bad /\ f.want = {} /\ a \in Argument
  <2>1. a \in Argument
    BY EmptySeq, LenProperties, ElementOfSeq
  <2> QED
    BY <2>1, FlagsType DEF FlagsOK
<1>2. args \o <<a>> = Append(args, a) /\ parseFlags(Append(args, a), switches) = TakeFlag(f, a, switches)
  BY <1>1, AppendIsConcat, ParseAppend
<1>3. CASE Len(rest) = 1 /\ a[1] = "flag" /\ a[2] \notin switches
  <2>1. rest = <<a>> /\ ~ IsText(a)
    BY <1>3 DEF IsText
  <2> HIDE DEF f, a
  <2>2. TakeFlag(f, a, switches) = [f EXCEPT !.want = {a[2]}]
    BY <1>1, <1>3, <2>1 DEF TakeFlag
  <2>3. TakeFlag(f, a, switches).want = {a[2]}
    BY <1>1, <2>2 DEF Flags
  <2> QED
    BY <1>2, <2>1, <2>3 DEF FlagsOK
<1>4. CASE IsText(a)
  <2> DEFINE P == {t \in Seq(Argument) :
                     t # << >> /\ t[1] = a => parseFlags(args \o t, switches).bad}
  <2>1. << >> \in P
    OBVIOUS
  <2>2. ASSUME NEW t \in Seq(Argument), NEW e \in Argument, t \in P
        PROVE  Append(t, e) \in P
    <3>1. Append(t, e) \in Seq(Argument) /\ args \o t \in Seq(Argument)
          /\ args \o Append(t, e) = Append(args \o t, e)
      BY AppendProperties, ConcatProperties, ConcatAppend
    <3> SUFFICES ASSUME Append(t, e)[1] = a
                 PROVE  parseFlags(args \o Append(t, e), switches).bad
      BY <3>1
    <3>2. CASE t = << >>
      <4>1. e = a /\ Append(t, e) = <<a>>
        BY <3>2
      <4> HIDE DEF f, a
      <4>2. TakeFlag(f, a, switches) = [f EXCEPT !.bad = TRUE]
        <5>1. a[1] # "flag=" /\ a[1] # "flag"
          BY <1>4 DEF IsText
        <5> QED
          BY <1>1, <1>4, <5>1 DEF TakeFlag
      <4> QED
        BY <1>1, <1>2, <4>1, <4>2 DEF Flags
    <3>3. CASE t # << >>
      <4>1. t[1] = a
        BY <3>3, FirstKept
      <4>2. parseFlags(args \o t, switches).bad
        BY <2>2, <3>3, <4>1
      <4>3. parseFlags(args \o Append(t, e), switches)
              = TakeFlag(parseFlags(args \o t, switches), e, switches)
        <5> DEFINE u == args \o t
        <5>1. u \in Seq(Argument) /\ args \o Append(t, e) = Append(u, e)
          BY <3>1
        <5> HIDE DEF u, f, a, P
        <5>2. parseFlags(Append(u, e), switches) = TakeFlag(parseFlags(u, switches), e, switches)
          BY ParseAppend, <5>1
        <5>3. parseFlags(args \o Append(t, e), switches)
                = TakeFlag(parseFlags(u, switches), e, switches)
          BY <5>1, <5>2
        <5> QED
          BY <5>3 DEF u
      <4> QED
        BY <4>2, <4>3 DEF TakeFlag
    <3> QED
      BY <3>2, <3>3
  <2>3. \A t \in Seq(Argument) : t \in P
    <3> DEFINE A == Argument
    <3> HIDE DEF A, P
    <3> QED
      BY <2>1, <2>2, SeqInduction DEF A
  <2> QED
    BY <2>3 DEF FlagsOK
<1> QED
  BY <1>3, <1>4 DEF IsRest

(* What set is asked for is a request of bytes. *)
LEMMA AskedType ==
    ASSUME NEW f \in Flags
    PROVE  Asked(f) \in Request /\ \A k : str(f, k) \in Text
<1>1. \A k : str(f, k) \in Text
  BY TextConstants DEF str, has, Flags, Texts
<1>2. \A t \in Text : ParseAddr(t) \in Bytes /\ ParseMAC(t) \in Bytes
  BY DEF Text, ParseAddr, ParseMAC, Nil, Bytes
<1>3. <<8, 8, 8, 8>> \in Bytes
  BY DEF Bytes, Byte
<1>4. Asked(f) \in Request
  BY <1>1, <1>2, <1>3 DEF Asked, Request
<1> QED
  BY <1>1, <1>4

-----------------------------------------------------------------------------
(* Interfaces *)

(* The concatenation of a function's sequences has their elements. *)
LEMMA FlattenFunction ==
    ASSUME NEW T, NEW n \in Nat, NEW f \in [1 .. n -> Seq(T)]
    PROVE  /\ FlattenSeq(f) \in Seq(T)
           /\ \A e : e \in ToSet(FlattenSeq(f)) <=> \E i \in 1 .. n : e \in ToSet(f[i])
<1> DEFINE Ts == Seq(T)
<1>1. f \in Seq(Ts) /\ Len(f) = n
  <2> HIDE DEF Ts
  <2>1. f \in [1 .. n -> Ts]
    BY DEF Ts
  <2> QED
    BY <2>1
<1>2. /\ FlattenSeq(f) \in Seq(T)
      /\ ToSet(FlattenSeq(f)) = UNION {ToSet(f[i]) : i \in 1 .. n}
  BY <1>1, FlattenElements
<1> QED
  BY <1>2

(* An interface's usable address. *)
Entry == [name : Text, ip : Bytes, bits : Nat]
(* One of Interfaces. *)
EntryOf(in, a) == [name |-> in.name, ip |-> a.ip, bits |-> a.bits]

(* A machine's interfaces come to an entry for each IPv4 address of one that
   can carry the protocol.                                                   *)
IsEntry(os, e) ==
    \E i \in 1 .. Len(os) : \E j \in 1 .. Len(os[i].addrs) :
        /\ Carries(os[i]) /\ Is4(os[i].addrs[j].ip)
        /\ e = EntryOf(os[i], os[i].addrs[j])

(* What there is of each of a machine's interfaces. *)
LEMMA InterfaceTypes ==
    ASSUME NEW os \in Seq(Interface)
    PROVE  /\ Len(os) \in Nat /\ DOMAIN os = 1 .. Len(os)
           /\ \A i \in 1 .. Len(os) :
                /\ os[i] \in Interface
                /\ os[i].name \in Text
                /\ Len(os[i].addrs) \in Nat /\ DOMAIN os[i].addrs = 1 .. Len(os[i].addrs)
                /\ \A j \in 1 .. Len(os[i].addrs) :
                      /\ os[i].addrs[j] \in [ip : Bytes, bits : Nat]
                      /\ EntryOf(os[i], os[i].addrs[j]) \in Entry
<1>1. /\ Len(os) \in Nat /\ DOMAIN os = 1 .. Len(os)
      /\ \A i \in 1 .. Len(os) : os[i] \in Interface
  BY LenProperties, ElementOfSeq
<1>2. \A i \in 1 .. Len(os) :
         /\ os[i].name \in Text
         /\ os[i].addrs \in Seq([ip : Bytes, bits : Nat])
         /\ Len(os[i].addrs) \in Nat /\ DOMAIN os[i].addrs = 1 .. Len(os[i].addrs)
         /\ \A j \in 1 .. Len(os[i].addrs) : os[i].addrs[j] \in [ip : Bytes, bits : Nat]
  BY <1>1, LenProperties, ElementOfSeq DEF Interface
<1>3. \A i \in 1 .. Len(os) : \A j \in 1 .. Len(os[i].addrs) :
         EntryOf(os[i], os[i].addrs[j]) \in Entry
  BY <1>2 DEF EntryOf, Entry
<1> QED
  BY <1>1, <1>2, <1>3

(* Interfaces has the entries, and no others. *)
LEMMA InterfacesElements ==
    ASSUME NEW os \in Seq(Interface)
    PROVE  /\ Interfaces(os) \in Seq(Entry)
           /\ \A e : e \in ToSet(Interfaces(os)) <=> IsEntry(os, e)
<1> DEFINE of(i, j) == IF Carries(os[i]) /\ Is4(os[i].addrs[j].ip)
                       THEN <<EntryOf(os[i], os[i].addrs[j])>> ELSE << >>
           each(i) == [j \in DOMAIN os[i].addrs |-> of(i, j)]
           parts == [i \in DOMAIN os |-> FlattenSeq(each(i))]
           Entries == Seq(Entry)
<1>1. Interfaces(os) = FlattenSeq(parts)
  BY Zenon DEF Interfaces, EntryOf
<1>2. \A i \in 1 .. Len(os) : \A j \in 1 .. Len(os[i].addrs) :
         /\ of(i, j) \in Entries
         /\ \A e : e \in ToSet(of(i, j)) <=>
                      /\ Carries(os[i]) /\ Is4(os[i].addrs[j].ip)
                      /\ e = EntryOf(os[i], os[i].addrs[j])
  <2> SUFFICES ASSUME NEW i \in 1 .. Len(os), NEW j \in 1 .. Len(os[i].addrs)
               PROVE  /\ of(i, j) \in Entries
                      /\ \A e : e \in ToSet(of(i, j)) <=>
                                   /\ Carries(os[i]) /\ Is4(os[i].addrs[j].ip)
                                   /\ e = EntryOf(os[i], os[i].addrs[j])
    OBVIOUS
  <2> DEFINE e0 == EntryOf(os[i], os[i].addrs[j])
  <2>1. e0 \in Entry
    BY InterfaceTypes
  <2> HIDE DEF e0
  <2>2. <<e0>> \in Seq(Entry) /\ ToSet(<<e0>>) = {e0} /\ << >> \in Seq(Entry) /\ ToSet(<< >>) = {}
    BY <2>1 DEF ToSet
  <2> QED
    BY <2>2 DEF e0
<1> HIDE DEF of
<1>3. \A i \in 1 .. Len(os) :
         /\ FlattenSeq(each(i)) \in Entries
         /\ \A e : e \in ToSet(FlattenSeq(each(i))) <=>
                      \E j \in 1 .. Len(os[i].addrs) : e \in ToSet(of(i, j))
  <2> SUFFICES ASSUME NEW i \in 1 .. Len(os)
               PROVE  /\ FlattenSeq(each(i)) \in Entries
                      /\ \A e : e \in ToSet(FlattenSeq(each(i))) <=>
                                   \E j \in 1 .. Len(os[i].addrs) : e \in ToSet(of(i, j))
    OBVIOUS
  <2> DEFINE n == Len(os[i].addrs)
             f == each(i)
  <2>1. n \in Nat /\ f = [j \in 1 .. n |-> of(i, j)]
    BY InterfaceTypes, Zenon
  <2> HIDE DEF f, n, Entries
  <2>2. \A j \in 1 .. n : of(i, j) \in Entries
    BY <1>2 DEF n
  <2>3. f \in [1 .. n -> Entries] /\ \A j \in 1 .. n : f[j] = of(i, j)
    BY <2>1, <2>2
  <2>4. /\ FlattenSeq(f) \in Entries
        /\ \A e : e \in ToSet(FlattenSeq(f)) <=> \E j \in 1 .. n : e \in ToSet(f[j])
    BY <2>1, <2>3, FlattenFunction DEF Entries
  <2>5. \A e : e \in ToSet(FlattenSeq(f)) <=> \E j \in 1 .. n : e \in ToSet(of(i, j))
    BY <2>3, <2>4, Zenon
  <2> QED
    BY <2>4, <2>5 DEF f, n
<1> HIDE DEF each
<1> DEFINE m == Len(os)
<1>4. m \in Nat /\ DOMAIN os = 1 .. m
  BY InterfaceTypes
<1>5. parts \in [1 .. m -> Entries] /\ \A i \in 1 .. m : parts[i] = FlattenSeq(each(i))
  <2> HIDE DEF Entries
  <2> QED
    BY <1>3, <1>4
<1> HIDE DEF parts
<1>6. /\ FlattenSeq(parts) \in Seq(Entry)
      /\ \A e : e \in ToSet(FlattenSeq(parts)) <=> \E i \in 1 .. m : e \in ToSet(parts[i])
  BY <1>4, <1>5, FlattenFunction
<1>7. \A e : e \in ToSet(Interfaces(os)) <=>
         \E i \in 1 .. m : \E j \in 1 .. Len(os[i].addrs) : e \in ToSet(of(i, j))
  BY <1>1, <1>3, <1>5, <1>6, Zenon
<1>8. \A e : e \in ToSet(Interfaces(os)) <=> IsEntry(os, e)
  <2> SUFFICES ASSUME NEW e
               PROVE  e \in ToSet(Interfaces(os)) <=> IsEntry(os, e)
    OBVIOUS
  <2>1. \A i \in 1 .. m : \A j \in 1 .. Len(os[i].addrs) :
           e \in ToSet(of(i, j)) <=> /\ Carries(os[i]) /\ Is4(os[i].addrs[j].ip)
                                    /\ e = EntryOf(os[i], os[i].addrs[j])
    BY <1>2
  <2>2. IsEntry(os, e) <=> \E i \in 1 .. m : \E j \in 1 .. Len(os[i].addrs) : e \in ToSet(of(i, j))
    BY <2>1 DEF IsEntry
  <2> QED
    BY <1>7, <2>2, Zenon
<1> QED
  BY <1>1, <1>6, <1>8

(* Those of a list that are in K, in their order. *)
LEMMA KeptElements ==
    ASSUME NEW all \in Seq(Entry), NEW K
    PROVE  LET f == [i \in DOMAIN all |-> IF all[i] \in K THEN <<all[i]>> ELSE << >>]
           IN  /\ FlattenSeq(f) \in Seq(Entry)
               /\ \A e : e \in ToSet(FlattenSeq(f)) <=> e \in ToSet(all) /\ e \in K
<1> DEFINE f == [i \in DOMAIN all |-> IF all[i] \in K THEN <<all[i]>> ELSE << >>]
           n == Len(all)
           Entries == Seq(Entry)
<1>1. n \in Nat /\ DOMAIN all = 1 .. n /\ \A i \in 1 .. n : all[i] \in Entry
  BY LenProperties, ElementOfSeq
<1>2. \A x \in Entry : <<x>> \in Seq(Entry) /\ ToSet(<<x>>) = {x}
  BY DEF ToSet
<1>3. << >> \in Seq(Entry) /\ ToSet(<< >>) = {}
  BY DEF ToSet
<1> HIDE DEF n
<1>4. /\ f \in [1 .. n -> Entries]
      /\ \A i \in 1 .. n : f[i] = IF all[i] \in K THEN <<all[i]>> ELSE << >>
  <2> HIDE DEF Entries
  <2>1. \A i \in 1 .. n : (IF all[i] \in K THEN <<all[i]>> ELSE << >>) \in Entries
    BY <1>1, <1>2, <1>3 DEF Entries
  <2> QED
    BY <1>1, <2>1
<1> HIDE DEF f
<1>5. /\ FlattenSeq(f) \in Seq(Entry)
      /\ \A e : e \in ToSet(FlattenSeq(f)) <=> \E i \in 1 .. n : e \in ToSet(f[i])
  BY <1>1, <1>4, FlattenFunction
<1>6. \A e, i : i \in 1 .. n => (e \in ToSet(f[i]) <=> all[i] \in K /\ e = all[i])
  BY <1>1, <1>2, <1>3, <1>4
<1>7. ToSet(all) = {all[i] : i \in 1 .. n}
  BY <1>1 DEF ToSet
<1>8. \A e : e \in ToSet(FlattenSeq(f)) <=> e \in ToSet(all) /\ e \in K
  <2> SUFFICES ASSUME NEW e
               PROVE  e \in ToSet(FlattenSeq(f)) <=> e \in ToSet(all) /\ e \in K
    OBVIOUS
  <2>1. e \in ToSet(all) <=> \E i \in 1 .. n : e = all[i]
    BY <1>7
  <2>2. \A i \in 1 .. n : e \in ToSet(f[i]) <=> all[i] \in K /\ e = all[i]
    BY <1>6
  <2>3. e \in ToSet(FlattenSeq(f)) <=> \E i \in 1 .. n : e \in ToSet(f[i])
    BY <1>5, Zenon
  <2> QED
    BY <2>1, <2>2, <2>3, Zenon
<1> QED
  BY <1>5, <1>8, Zenon DEF f

(* What --iface chooses by name. *)
LEMMA ThoseOfName ==
    ASSUME NEW all \in Seq(Entry), NEW name
    PROVE  LET those == Those(all, LAMBDA l : l.name = name)
           IN  /\ those \in Seq(Entry)
               /\ \A e : e \in ToSet(those) <=> e \in ToSet(all) /\ e.name = name
<1> DEFINE K == {l \in Entry : l.name = name}
           f == [i \in DOMAIN all |-> IF all[i] \in K THEN <<all[i]>> ELSE << >>]
           g == [i \in DOMAIN all |-> IF all[i].name = name THEN <<all[i]>> ELSE << >>]
<1>1. DOMAIN all = 1 .. Len(all) /\ \A i \in 1 .. Len(all) : all[i] \in Entry
  BY LenProperties, ElementOfSeq
<1>2. \A e \in ToSet(all) : e \in Entry
  BY <1>1 DEF ToSet
<1>3. Those(all, LAMBDA l : l.name = name) = FlattenSeq(g)
  BY Zenon DEF Those
<1>4. f = g
  BY <1>1
<1>5. /\ FlattenSeq(f) \in Seq(Entry)
      /\ \A e : e \in ToSet(FlattenSeq(f)) <=> e \in ToSet(all) /\ e \in K
  BY KeptElements, Zenon
<1> HIDE DEF f, g
<1> QED
  BY <1>2, <1>3, <1>4, <1>5

(* What --iface chooses by address, before it takes the first. *)
LEMMA ThoseOfAddress ==
    ASSUME NEW all \in Seq(Entry), NEW ip
    PROVE  LET those == Those(all, LAMBDA l : l.ip = ip)
           IN  /\ those \in Seq(Entry)
               /\ \A e : e \in ToSet(those) <=> e \in ToSet(all) /\ e.ip = ip
<1> DEFINE K == {l \in Entry : l.ip = ip}
           f == [i \in DOMAIN all |-> IF all[i] \in K THEN <<all[i]>> ELSE << >>]
           g == [i \in DOMAIN all |-> IF all[i].ip = ip THEN <<all[i]>> ELSE << >>]
<1>1. DOMAIN all = 1 .. Len(all) /\ \A i \in 1 .. Len(all) : all[i] \in Entry
  BY LenProperties, ElementOfSeq
<1>2. \A e \in ToSet(all) : e \in Entry
  BY <1>1 DEF ToSet
<1>3. Those(all, LAMBDA l : l.ip = ip) = FlattenSeq(g)
  BY Zenon DEF Those
<1>4. f = g
  BY <1>1
<1>5. /\ FlattenSeq(f) \in Seq(Entry)
      /\ \A e : e \in ToSet(FlattenSeq(f)) <=> e \in ToSet(all) /\ e \in K
  BY KeptElements, Zenon
<1> HIDE DEF f, g
<1> QED
  BY <1>2, <1>3, <1>4, <1>5

(* What set prefers. *)
LEMMA ThoseOfSubnet ==
    ASSUME NEW all \in Seq(Entry), NEW ip
    PROVE  LET those == Those(all, LAMBDA l : InPrefix(ip, l.ip, l.bits))
           IN  /\ those \in Seq(Entry)
               /\ \A e : e \in ToSet(those) <=> e \in ToSet(all) /\ InPrefix(ip, e.ip, e.bits)
<1> DEFINE K == {l \in Entry : InPrefix(ip, l.ip, l.bits)}
           f == [i \in DOMAIN all |-> IF all[i] \in K THEN <<all[i]>> ELSE << >>]
           g == [i \in DOMAIN all |-> IF InPrefix(ip, all[i].ip, all[i].bits)
                                      THEN <<all[i]>> ELSE << >>]
<1>1. DOMAIN all = 1 .. Len(all) /\ \A i \in 1 .. Len(all) : all[i] \in Entry
  BY LenProperties, ElementOfSeq
<1>2. \A e \in ToSet(all) : e \in Entry
  BY <1>1 DEF ToSet
<1>3. Those(all, LAMBDA l : InPrefix(ip, l.ip, l.bits)) = FlattenSeq(g)
  BY Zenon DEF Those
<1>4. f = g
  BY <1>1
<1>5. /\ FlattenSeq(f) \in Seq(Entry)
      /\ \A e : e \in ToSet(FlattenSeq(f)) <=> e \in ToSet(all) /\ e \in K
  BY KeptElements, Zenon
<1> HIDE DEF f, g
<1> QED
  BY <1>2, <1>3, <1>4, <1>5

(* A list is empty if and only if nothing is in it, and its first is in it. *)
LEMMA FirstOf ==
    ASSUME NEW all \in Seq(Entry)
    PROVE  /\ all = << >> <=> ToSet(all) = {}
           /\ all # << >> => /\ all[1] \in ToSet(all)
                             /\ <<all[1]>> \in Seq(Entry) /\ ToSet(<<all[1]>>) = {all[1]}
<1>1. Len(all) \in Nat /\ DOMAIN all = 1 .. Len(all) /\ \A i \in 1 .. Len(all) : all[i] \in Entry
  BY LenProperties, ElementOfSeq
<1>2. ToSet(all) = {all[i] : i \in 1 .. Len(all)}
  BY <1>1 DEF ToSet
<1>3. all = << >> <=> Len(all) = 0
  BY EmptySeq
<1>4. CASE all = << >>
  BY <1>2, <1>3, <1>4
<1>5. CASE all # << >>
  <2>1. 1 \in 1 .. Len(all)
    BY <1>1, <1>3, <1>5
  <2>2. all[1] \in Entry /\ all[1] \in ToSet(all)
    BY <1>1, <1>2, <2>1
  <2> DEFINE e == all[1]
  <2> HIDE DEF e
  <2>3. <<e>> \in Seq(Entry) /\ ToSet(<<e>>) = {e}
    BY <2>2 DEF ToSet, e
  <2> QED
    BY <1>5, <2>2, <2>3 DEF e
<1> QED
  BY <1>4, <1>5

(* What --iface with a name, with an address, and a set without it choose. *)
LEMMA ChooseName ==
    ASSUME NEW os \in Seq(Interface), NEW name, name # Empty, name[1] # "addr", NEW ip
    PROVE  /\ Choose(os, name, ip) \in Seq(Entry)
           /\ \A e : e \in ToSet(Choose(os, name, ip)) <=> IsEntry(os, e) /\ e.name = name
<1>1. ParseAddr(name) = Nil
  BY DEF ParseAddr
<1>2. Choose(os, name, ip) = Those(Interfaces(os), LAMBDA l : l.name = name)
  BY <1>1, Zenon DEF Choose, ByArgument
<1> DEFINE all == Interfaces(os)
<1>3. all \in Seq(Entry) /\ \A e : e \in ToSet(all) <=> IsEntry(os, e)
  BY InterfacesElements
<1> HIDE DEF all
<1>4. /\ Those(all, LAMBDA l : l.name = name) \in Seq(Entry)
      /\ \A e : e \in ToSet(Those(all, LAMBDA l : l.name = name)) <=> e \in ToSet(all) /\ e.name = name
  BY <1>3, ThoseOfName, Zenon
<1> QED
  BY <1>2, <1>3, <1>4, Zenon DEF all

(* By an address, Choose finds one that has it, if there is one. *)
LEMMA ChooseAddress ==
    ASSUME NEW os \in Seq(Interface), NEW a, a # Nil, NEW ip
    PROVE  /\ Choose(os, <<"addr", a>>, ip) \in Seq(Entry)
           /\ \A e : e \in ToSet(Choose(os, <<"addr", a>>, ip)) => IsEntry(os, e) /\ e.ip = a
           /\ (\E e : IsEntry(os, e) /\ e.ip = a) =>
                  \E e : e \in ToSet(Choose(os, <<"addr", a>>, ip))
<1> DEFINE arg == <<"addr", a>>
           all == Interfaces(os)
           sel == Those(all, LAMBDA l : l.ip = a)
<1>1. ParseAddr(arg) = a /\ arg # Empty
  BY DEF ParseAddr, Empty
<1> HIDE DEF arg
<1>2. Choose(os, arg, ip) =
         LET s == Those(all, LAMBDA l : l.ip = ParseAddr(arg))
         IN  IF s = << >> THEN s ELSE <<s[1]>>
  BY <1>1, Zenon DEF Choose, ByArgument
<1>3. Choose(os, arg, ip) = IF sel = << >> THEN sel ELSE <<sel[1]>>
  BY <1>1, <1>2
<1>4. all \in Seq(Entry) /\ \A e : e \in ToSet(all) <=> IsEntry(os, e)
  BY InterfacesElements
<1> HIDE DEF all
<1>5. sel \in Seq(Entry) /\ \A e : e \in ToSet(sel) <=> e \in ToSet(all) /\ e.ip = a
  BY <1>4, ThoseOfAddress, Zenon
<1> HIDE DEF sel
<1>6. /\ sel = << >> <=> ToSet(sel) = {}
      /\ sel # << >> => /\ sel[1] \in ToSet(sel)
                        /\ <<sel[1]>> \in Seq(Entry) /\ ToSet(<<sel[1]>>) = {sel[1]}
  BY <1>5, FirstOf
<1> DEFINE c == Choose(os, arg, ip)
           first == <<sel[1]>>
<1>7. c \in Seq(Entry) /\ ToSet(c) \subseteq ToSet(sel) /\ (ToSet(sel) # {} => ToSet(c) # {})
  <2>1. c = sel \/ (sel # << >> /\ c = first)
    BY <1>3
  <2>2. sel # << >> => first \in Seq(Entry) /\ ToSet(first) = {sel[1]} /\ sel[1] \in ToSet(sel)
    BY <1>6
  <2> HIDE DEF c, first
  <2>3. CASE c = sel
    BY ONLY <1>5, <2>3
  <2>4. CASE sel # << >> /\ c = first
    BY ONLY <2>2, <2>4
  <2> QED
    BY <2>1, <2>3, <2>4
<1> HIDE DEF c
<1>8. /\ \A e : e \in ToSet(c) => IsEntry(os, e) /\ e.ip = a
      /\ (\E e : IsEntry(os, e) /\ e.ip = a) => \E e : e \in ToSet(c)
  BY <1>4, <1>5, <1>7
<1> QED
  BY <1>7, <1>8 DEF arg, c

(* Without --iface, all are chosen, or those whose subnet holds the address. *)
LEMMA ChooseAny ==
    ASSUME NEW os \in Seq(Interface), NEW ip
    PROVE  LET c == Choose(os, Empty, ip)
           IN  /\ c \in Seq(Entry)
               /\ \A e : e \in ToSet(c) => IsEntry(os, e)
               /\ \A e : IsEntry(os, e) =>
                      \/ e \in ToSet(c)
                      \/ /\ ~ InPrefix(ip, e.ip, e.bits)
                         /\ \E k \in ToSet(c) : InPrefix(ip, k.ip, k.bits)
<1> DEFINE all == Interfaces(os)
           sel == Those(all, LAMBDA l : InPrefix(ip, l.ip, l.bits))
           c == Choose(os, Empty, ip)
<1>1. c = all \/ (sel # << >> /\ c = sel)
  BY DEF Choose, Preferred
<1> HIDE DEF c
<1>2. all \in Seq(Entry) /\ \A e : e \in ToSet(all) <=> IsEntry(os, e)
  BY InterfacesElements
<1> HIDE DEF all
<1>3. sel \in Seq(Entry)
      /\ \A e : e \in ToSet(sel) <=> e \in ToSet(all) /\ InPrefix(ip, e.ip, e.bits)
  BY <1>2, ThoseOfSubnet, Zenon
<1> HIDE DEF sel
<1>4. sel = << >> <=> ToSet(sel) = {}
  BY <1>3, FirstOf
<1>5. c \in Seq(Entry) /\ \A e : e \in ToSet(c) => IsEntry(os, e)
  BY <1>1, <1>2, <1>3
<1>6. CASE c = all
  BY <1>2, <1>5, <1>6 DEF c
<1>7. CASE sel # << >> /\ c = sel
  <2>1. PICK k : k \in ToSet(sel)
    BY <1>4, <1>7
  <2>2. k \in ToSet(c) /\ InPrefix(ip, k.ip, k.bits)
    BY <1>3, <1>7, <2>1
  <2>3. \A e : IsEntry(os, e) => \/ e \in ToSet(c)
                                 \/ ~ InPrefix(ip, e.ip, e.bits)
    BY <1>2, <1>3, <1>7
  <2> QED
    BY <1>5, <2>2, <2>3 DEF c
<1> QED
  BY <1>1, <1>6, <1>7

(* Whatever Choose returns are entries of the machine. *)
LEMMA ChooseType ==
    ASSUME NEW os \in Seq(Interface), NEW arg \in Text, NEW ip
    PROVE  /\ Choose(os, arg, ip) \in Seq(Entry)
           /\ \A e : e \in ToSet(Choose(os, arg, ip)) => IsEntry(os, e)
<1>1. CASE arg = Empty
  BY <1>1, ChooseAny
<1>2. CASE arg # Empty /\ arg[1] # "addr"
  BY <1>2, ChooseName
<1>3. CASE arg # Empty /\ arg[1] = "addr" /\ arg[2] = Nil
  <2>1. ParseAddr(arg) = Nil
    BY <1>3 DEF ParseAddr
  <2> DEFINE all == Interfaces(os)
  <2>2. Choose(os, arg, ip) = Those(all, LAMBDA l : l.name = arg)
    BY <1>3, <2>1, Zenon DEF Choose, ByArgument
  <2>3. all \in Seq(Entry) /\ \A e : e \in ToSet(all) <=> IsEntry(os, e)
    BY InterfacesElements
  <2> HIDE DEF all
  <2>4. /\ Those(all, LAMBDA l : l.name = arg) \in Seq(Entry)
        /\ \A e : e \in ToSet(Those(all, LAMBDA l : l.name = arg)) <=> e \in ToSet(all) /\ e.name = arg
    BY <2>3, ThoseOfName, Zenon
  <2> QED
    BY <2>2, <2>3, <2>4, Zenon
<1>4. CASE arg[1] = "addr" /\ arg[2] # Nil
  <2>1. arg = <<"addr", arg[2]>>
    BY <1>4 DEF Text
  <2> DEFINE a == arg[2]
  <2> HIDE DEF a
  <2>2. /\ Choose(os, <<"addr", a>>, ip) \in Seq(Entry)
        /\ \A e : e \in ToSet(Choose(os, <<"addr", a>>, ip)) => IsEntry(os, e) /\ e.ip = a
    BY <1>4, ChooseAddress DEF a
  <2> QED
    BY <2>1, <2>2, Zenon DEF a
<1> QED
  BY <1>1, <1>2, <1>3, <1>4

(* What `interfaces` lists is what --iface takes, and what a set without it
   uses but for those another is better than.                                *)
LEMMA ListedIsAccepted ==
    ASSUME NEW os \in Seq(Interface), NEW ip,
           \A i \in DOMAIN os : os[i].name[1] = "other" /\ os[i].name # Empty
    PROVE  LET listed == ToSet(Interfaces(os))
               addrs  == UNION {{a.ip : a \in ToSet(in.addrs)} : in \in ToSet(os)}
               holds(l, x) == InPrefix(x, l.ip, l.bits)
           IN  /\ \A in \in ToSet(os) :
                    ToSet(Choose(os, in.name, Nil)) = {l \in listed : l.name = in.name}
               /\ \A a \in addrs :
                    {l.ip : l \in ToSet(Choose(os, <<"addr", a>>, Nil))}
                        = {l.ip : l \in listed} \cap {a}
               /\ \A x \in addrs \cup {ip} : \A l \in listed :
                    LET used == ToSet(Choose(os, Empty, x))
                    IN  l \in used \/ (~ holds(l, x) /\ \E k \in used : holds(k, x))
<1> DEFINE listed == ToSet(Interfaces(os))
           addrs  == UNION {{a.ip : a \in ToSet(in.addrs)} : in \in ToSet(os)}
<1>1. \A e : e \in listed <=> IsEntry(os, e)
  BY InterfacesElements
<1>2. \A in \in ToSet(os) : in.name # Empty /\ in.name[1] = "other"
  BY DEF ToSet
<1>3. \A e : IsEntry(os, e) => Is4(e.ip) /\ e.name[1] = "other"
  BY InterfaceTypes DEF IsEntry, EntryOf
<1> HIDE DEF listed, addrs
<1>4. ASSUME NEW in \in ToSet(os)
      PROVE  ToSet(Choose(os, in.name, Nil)) = {l \in listed : l.name = in.name}
  <2> DEFINE name == in.name
  <2>1. name # Empty /\ name[1] # "addr"
    BY <1>2
  <2> HIDE DEF name
  <2>2. \A e : e \in ToSet(Choose(os, name, Nil)) <=> IsEntry(os, e) /\ e.name = name
    BY <2>1, ChooseName
  <2> QED
    BY <1>1, <2>2 DEF name
<1>5. ASSUME NEW a
      PROVE  {l.ip : l \in ToSet(Choose(os, <<"addr", a>>, Nil))} = {l.ip : l \in listed} \cap {a}
  <2> DEFINE arg == <<"addr", a>>
             c == ToSet(Choose(os, arg, Nil))
  <2>1. CASE a # Nil
    <3>1. /\ \A e : e \in c => IsEntry(os, e) /\ e.ip = a
          /\ (\E e : IsEntry(os, e) /\ e.ip = a) => \E e : e \in c
      BY <2>1, ChooseAddress
    <3> HIDE DEF c
    <3>2. {l.ip : l \in c} = {l.ip : l \in listed} \cap {a}
      BY <1>1, <3>1
    <3> QED
      BY <3>2 DEF c
  <2>2. CASE a = Nil
    <3>1. ParseAddr(arg) = Nil /\ arg # Empty /\ arg[1] = "addr"
      BY <2>2 DEF ParseAddr, Empty
    <3> HIDE DEF arg
    <3> DEFINE all == Interfaces(os)
    <3>2. Choose(os, arg, Nil) = Those(all, LAMBDA l : l.name = arg)
      BY <3>1, Zenon DEF Choose, ByArgument
    <3>3. all \in Seq(Entry) /\ \A e : e \in ToSet(all) <=> IsEntry(os, e)
      BY InterfacesElements
    <3> HIDE DEF all
    <3>4. \A e : e \in ToSet(Those(all, LAMBDA l : l.name = arg)) <=> e \in ToSet(all) /\ e.name = arg
      BY <3>3, ThoseOfName, Zenon
    <3>5. c = {}
      BY <1>3, <3>1, <3>2, <3>3, <3>4
    <3> HIDE DEF c
    <3>6. \A l \in listed : l.ip # a
      BY <1>1, <1>3, <2>2 DEF Is4, Nil
    <3>7. {l.ip : l \in c} = {l.ip : l \in listed} \cap {a}
      BY <3>5, <3>6
    <3> QED
      BY <3>7 DEF c, arg
  <2> QED
    BY <2>1, <2>2
<1>6. ASSUME NEW x, NEW l \in listed
      PROVE  LET used == ToSet(Choose(os, Empty, x))
             IN  l \in used \/ (~ InPrefix(x, l.ip, l.bits) /\ \E k \in used : InPrefix(x, k.ip, k.bits))
  BY <1>1, ChooseAny
<1> QED
  BY <1>4, <1>5, <1>6 DEF listed, addrs

(* Given an address, an interface that only lacks one is chosen. *)
LEMMA ReasonIsRight ==
    ASSUME NEW os \in Seq(Interface), NEW i \in DOMAIN os,
           \A k \in DOMAIN os : os[k].name[1] = "other" /\ os[k].name # Empty,
           \A k, m \in DOMAIN os : os[k].name = os[m].name => k = m,
           whyUnusable(os, os[i].name) = "no address"
    PROVE  Choose([os EXCEPT ![i].addrs = <<[ip |-> <<10, 9, 8, 7>>, bits |-> 24]>>],
                  os[i].name, Nil) # << >>
<1> DEFINE a == [ip |-> <<10, 9, 8, 7>>, bits |-> 24]
           in == os[i]
           new == [in EXCEPT !.addrs = <<a>>]
           fixed == [os EXCEPT ![i] = new]
<1>1. in \in Interface /\ i \in 1 .. Len(os) /\ Len(os) \in Nat
  BY InterfaceTypes
<1>2. a \in [ip : Bytes, bits : Nat] /\ Is4(a.ip)
  <2>1. <<10, 9, 8, 7>> \in Bytes
    BY ONLY TRUE DEF Bytes, Byte
  <2>2. Is4(<<10, 9, 8, 7>>)
    BY DEF Is4
  <2> QED
    BY <2>1, <2>2
<1>3. Carries(in)
  <2>1. \E k \in ToSet(os) : k.name = in.name
    BY DEF ToSet
  <2> DEFINE it == CHOOSE k \in ToSet(os) : k.name = in.name
  <2>2. it \in ToSet(os) /\ it.name = in.name
    BY <2>1
  <2>3. it = in
    BY <2>2 DEF ToSet
  <2>4. whyUnusable(os, in.name) =
          CASE \A k \in ToSet(os) : k.name # in.name -> "unknown"
            [] ~ it.up                            -> "down"
            [] it.up /\ it.loopback               -> "loopback"
            [] it.up /\ ~ it.loopback /\ (~ it.multicast \/ it.tunnel) -> "tunnel"
            [] OTHER                              -> "no address"
    BY Zenon DEF whyUnusable
  <2> HIDE DEF it
  <2>5. in.up \in BOOLEAN /\ in.loopback \in BOOLEAN /\ in.multicast \in BOOLEAN /\ in.tunnel \in BOOLEAN
    BY <1>1 DEF Interface
  <2> HIDE DEF in
  <2> QED
    BY <2>1, <2>3, <2>4, <2>5 DEF Carries, in
<1> HIDE DEF a
<1>4. /\ new \in Interface /\ new.name = in.name /\ Carries(new)
      /\ new.addrs = <<a>> /\ Len(new.addrs) = 1 /\ new.addrs[1] = a
  <2> DEFINE A == [ip : Bytes, bits : Nat]
  <2>0. a \in A
    BY <1>2
  <2> HIDE DEF A
  <2>1. <<a>> \in Seq(A)
    BY ONLY <2>0
  <2>2. in = [name |-> in.name, up |-> in.up, loopback |-> in.loopback,
              multicast |-> in.multicast, tunnel |-> in.tunnel, addrs |-> in.addrs]
    BY <1>1 DEF Interface
  <2> HIDE DEF in
  <2> QED
    BY <1>1, <1>3, <2>1, <2>2 DEF Interface, Carries, A
<1>5. fixed = [os EXCEPT ![i].addrs = <<a>>]
  OBVIOUS
<1>6. fixed \in Seq(Interface) /\ Len(fixed) = Len(os) /\ fixed[i] = new
  <2> HIDE DEF new, in
  <2> QED
    BY ONLY <1>1, <1>4, os \in Seq(Interface), ExceptSeq
<1> HIDE DEF new, fixed, in
<1>7. IsEntry(fixed, EntryOf(new, a))
  <2>1. i \in 1 .. Len(fixed) /\ 1 \in 1 .. Len(fixed[i].addrs)
        /\ Carries(fixed[i]) /\ Is4(fixed[i].addrs[1].ip)
        /\ EntryOf(new, a) = EntryOf(fixed[i], fixed[i].addrs[1])
    <3>1. fixed[i].addrs[1] = a /\ Len(fixed[i].addrs) = 1
      BY ONLY <1>4, <1>6
    <3>2. i \in 1 .. Len(fixed) /\ 1 \in 1 .. Len(fixed[i].addrs)
      BY ONLY <1>1, <1>6, <3>1
    <3> QED
      BY ONLY <1>2, <1>4, <1>6, <3>1, <3>2
  <2> QED
    BY <2>1, Zenon DEF IsEntry
<1> DEFINE name == in.name
<1>8. name # Empty /\ name[1] # "addr"
  BY DEF in
<1> HIDE DEF name
<1> DEFINE c == Choose(fixed, name, Nil)
<1>9. c \in Seq(Entry) /\ \A e : e \in ToSet(c) <=> IsEntry(fixed, e) /\ e.name = name
  BY ONLY <1>6, <1>8, ChooseName, Zenon DEF c
<1> HIDE DEF c
<1>10. EntryOf(new, a) \in ToSet(c)
  BY <1>4, <1>7, <1>9 DEF EntryOf, name
<1>11. c # << >>
  BY <1>9, <1>10, FirstOf
<1> QED
  BY <1>5, <1>11 DEF c, a, in, name

-----------------------------------------------------------------------------
(* ipcprobe *)

(* The packet for a request: none, or one with its fields. *)
LEMMA BuildSet ==
    ASSUME NEW r \in Request, NEW pw \in Bytes
    PROVE  LET p == BuildSetNetwork(r, pw)
           IN  \/ p = Nil
               \/ p = SetPacket(r, pw) /\ Complete(r) /\ PasswordFits(pw)
<1>1. CASE /\ Len(r.mac) = 6
           /\ \A a \in {r.ip, r.mask, r.gw, r.dns1, r.dns2} : Is4(a)
           /\ PasswordFits(pw)
  <2>1. Complete(r)
    BY <1>1 DEF Complete, Is4
  <2>2. BuildSetNetwork(r, pw) = SetPacket(r, pw)
    BY <1>1, Zenon DEF BuildSetNetwork
  <2> QED
    BY <1>1, <2>1, <2>2
<1>2. CASE ~ (/\ Len(r.mac) = 6
              /\ \A a \in {r.ip, r.mask, r.gw, r.dns1, r.dns2} : Is4(a)
              /\ PasswordFits(pw))
  BY <1>2, Zenon DEF BuildSetNetwork
<1> QED
  BY <1>1, <1>2

(* What is read of the input, and what is left of it. *)
LEMMA PrefixBytes ==
    ASSUME NEW s \in Bytes, NEW n \in 1 .. Len(s)
    PROVE  SubSeq(s, 1, n) \in Bytes /\ (\A k : k = n - 1 => SubSeq(s, 1, k) \in Bytes)
<1>1. Len(s) \in Nat /\ \A i \in 1 .. Len(s) : s[i] \in Byte
  BY LenProperties, ElementOfSeq DEF Bytes
<1>2. (\A i \in 1 .. n : s[i] \in Byte) /\ (\A i \in 1 .. n - 1 : s[i] \in Byte)
  BY <1>1
<1>3. SubSeq(s, 1, n) \in Seq(Byte) /\ SubSeq(s, 1, n - 1) \in Seq(Byte)
  BY <1>1, <1>2, SubSeqProperties
<1> QED
  BY <1>3 DEF Bytes

(* A line of the input, and what is left of it without its end, are bytes. *)
LEMMA LineBytes ==
    ASSUME NEW s \in Bytes
    PROVE  Line(s) \in Bytes /\ TrimRight(s) \in Bytes
<1>1. Len(s) \in Nat /\ DOMAIN s = 1 .. Len(s)
  BY LenProperties DEF Bytes
<1>2. Line(s) \in Bytes
  <2> DEFINE n == CHOOSE i \in DOMAIN s : s[i] = 10 /\ \A j \in 1..i-1 : s[j] # 10
  <2>1. CASE \A i \in DOMAIN s : s[i] # 10
    BY <2>1 DEF Line
  <2>2. CASE \E i \in DOMAIN s : s[i] = 10
    <3> DEFINE S == {n0 \in 1 .. Len(s) : s[n0] = 10}
    <3>1. PICK i \in S : \A j \in S : i <= j
      <4>1. S \subseteq Nat /\ S # {}
        BY <1>1, <2>2
      <4> HIDE DEF S
      <4> QED
        BY <4>1, LeastOf
    <3>2. i \in DOMAIN s /\ s[i] = 10 /\ \A j \in 1 .. i - 1 : s[j] # 10
      BY <1>1, <3>1
    <3>3. n \in DOMAIN s
      BY <3>2, Zenon
    <3>4. Line(s) = SubSeq(s, 1, n)
      BY <2>2, Zenon DEF Line
    <3> HIDE DEF n
    <3> QED
      BY <1>1, <3>3, <3>4, PrefixBytes
  <2> QED
    BY <2>1, <2>2
<1>3. TrimRight(s) \in Bytes
  <2> DEFINE kept == {i \in DOMAIN s : s[i] \notin {10, 13}}
             n == Max(kept)
  <2>1. CASE kept = {}
    <3>1. TrimRight(s) = << >>
      BY <2>1 DEF TrimRight, Nil
    <3> QED
      BY <3>1 DEF Bytes
  <2>2. CASE kept # {}
    <3>1. TrimRight(s) = SubSeq(s, 1, n)
      BY <2>2, Zenon DEF TrimRight
    <3>2. kept \in SUBSET (1 .. Len(s))
      BY <1>1
    <3>3. n \in kept
      <4> HIDE DEF kept
      <4> QED
        BY <1>1, <2>2, <3>2, MaxIn
    <3> HIDE DEF n
    <3>4. n \in 1 .. Len(s)
      BY <3>2, <3>3
    <3> QED
      BY <3>1, <3>4, PrefixBytes
  <2> QED
    BY <2>1, <2>2
<1> QED
  BY <1>2, <1>3

-----------------------------------------------------------------------------

(* Where ipcprobe may be. *)
Stages == {"run", "prompt", "read", "restore", "encode", "choose", "build", "sent",
           "exit", "interrupted"}

(* What each variable holds, and when.  sent is the packet for what the flags
   ask for, complete and with a password that fits.                          *)
CliInv ==
    /\ given \in Runs
    /\ stage \in Stages
    /\ flags \in Flags
    /\ password \in Bytes
    /\ echo \in BOOLEAN
    /\ chosen \in Seq(Entry) /\ \A e : e \in ToSet(chosen) => IsEntry(given.os, e)
    /\ stage \in {"build", "sent"} => chosen # << >>
    /\ IF stage = "sent"
       THEN /\ Complete(Asked(flags)) /\ PasswordFits(password)
            /\ sent = SetPacket(Asked(flags), password)
       ELSE sent = Nil
    /\ code \in {-1, 0, 1, 2}
    /\ stage = "exit" => code # -1
    /\ code # -1 => stage \in {"exit", "restore", "encode"}

(* The terminal shows what is typed but between disabling that and restoring
   it, or when nothing could restore it.                                     *)
EchoInv ==
    /\ EchoIsBack
    /\ ~ echo => given.tty
    /\ stage = "prompt" => given.tty

(* What `interfaces` has chosen when it succeeds. *)
ListInv ==
    given.verb = "interfaces" =>
        /\ stage \in {"run", "exit"}
        /\ stage = "exit" /\ code = 0 => chosen = Interfaces(given.os)

(* A set that gets past its arguments has parsed them; its password is the one
   they give, or what was typed once that is read.                           *)
MeantInv ==
    stage \notin {"run", "exit"} =>
        /\ given.verb = "set"
        /\ flags = parseFlags(Args(given), switches) /\ FlagsOK(flags)
        /\ stage \in {"prompt", "read"} => ~ has(flags, "password")
        /\ stage \in {"restore", "encode", "choose", "build", "sent"} =>
              password = IF has(flags, "password") THEN str(flags, "password")[2]
                         ELSE TrimRight(Line(given.stdin))

(* The types of what ipcprobe is started with. *)
LEMMA GivenTypes ==
    ASSUME NEW r \in Runs
    PROVE  /\ r.settings \in Seq(Seq(Argument)) /\ r.rest \in Seq(Argument)
           /\ Args(r) \in Seq(Argument) /\ r.stdin \in Bytes /\ r.tty \in BOOLEAN
           /\ r.stty \in BOOLEAN /\ r.os \in Seq(Interface)
           /\ r.want \in Request /\ r.pw \in Bytes
           /\ OneNameEach(r.os)
<1>1. r \in Run /\ OneNameEach(r.os)
  BY RunsAssumption
<1>2. /\ r.settings \in Seq(Seq(Argument)) /\ r.rest \in Seq(Argument)
      /\ r.stdin \in Bytes /\ r.tty \in BOOLEAN
      /\ r.stty \in BOOLEAN /\ r.os \in Seq(Interface)
      /\ r.want \in Request /\ r.pw \in Bytes
  BY <1>1 DEF Run
<1>3. FlattenSeq(r.settings) \in Seq(Argument)
  BY <1>2, FlattenElements
<1>4. Args(r) \in Seq(Argument)
  BY <1>2, <1>3, ConcatProperties DEF Args
<1> QED
  BY <1>1, <1>2, <1>4

(* A command line that set takes says what its settings say. *)
LEMMA ArgsParsed ==
    ASSUME NEW r \in Runs, FlagsOK(parseFlags(Args(r), switches))
    PROVE  ToldBy(parseFlags(Args(r), switches), r.settings)
<1> DEFINE s == FlattenSeq(r.settings)
<1>1. r.settings \in Seq(Seq(Argument)) /\ r.rest \in Seq(Argument)
  BY GivenTypes
<1>2. (\A i \in DOMAIN r.settings : IsSetting(r.settings[i])) /\ IsRest(r.rest)
  BY RunsAssumption
<1>3. s \in Seq(Argument)
  BY <1>1, FlattenElements
<1>4. ToldBy(parseFlags(s, switches), r.settings)
  BY <1>1, <1>2, SettingsParsed
<1> HIDE DEF s
<1>5. Args(r) = s \o r.rest
  BY DEF Args, s
<1>6. r.rest = << >>
  BY <1>1, <1>2, <1>3, <1>4, <1>5, RestRefused DEF ToldBy
<1>7. s \o << >> = s
  BY <1>3
<1> QED
  BY <1>4, <1>5, <1>6, <1>7

(* What was typed is what is left of the line that was read. *)
LEMMA TypedIs ==
    ASSUME NEW s \in Bytes, NEW pw \in Bytes, Typed(pw, s)
    PROVE  TrimRight(Line(s)) = pw
<1>0. PICK n \in Nat : n = Len(pw)
  BY LenProperties DEF Bytes
<1>1. /\ Len(s) \in Nat /\ DOMAIN s = 1 .. Len(s) /\ n \in Nat /\ DOMAIN pw = 1 .. n
      /\ n <= Len(s) /\ \A i \in 1 .. n : s[i] = pw[i] /\ pw[i] # 10
      /\ n > 0 => pw[n] # 13
  BY <1>0, LenProperties, EmptySeq DEF Bytes, Typed, Nil
<1>2. PICK m \in n .. Len(s) : /\ \A i \in n + 1 .. m : s[i] = 13
                               /\ m < Len(s) => s[m + 1] = 10
  BY <1>0 DEF Typed
<1>3. m \in Nat /\ n <= m /\ m <= Len(s) /\ \A i \in 1 .. m : s[i] # 10
  <2>1. m \in Nat /\ n <= m /\ m <= Len(s)
    BY <1>1
  <2>2. ASSUME NEW i \in 1 .. m
        PROVE  s[i] # 10
    <3>1. CASE i \in 1 .. n
      BY <1>1, <3>1
    <3>2. CASE i \in n + 1 .. m
      BY <1>2, <3>2
    <3> QED
      BY <1>1, <2>1, <3>1, <3>2
  <2> QED
    BY <2>1, <2>2
<1>4. PICK k \in m .. Len(s) : /\ Line(s) = SubSeq(s, 1, k)
                               /\ \A i \in m + 1 .. k : s[i] = 10
  <2>1. CASE m = Len(s)
    <3>1. Line(s) = s
      BY <1>1, <1>3, <2>1 DEF Line
    <3>2. SubSeq(s, 1, Len(s)) = s
      BY <1>1, SubSeqFull DEF Bytes
    <3>3. Len(s) \in m .. Len(s) /\ \A i \in m + 1 .. Len(s) : s[i] = 10
      BY <1>1, <1>3, <2>1
    <3> QED
      BY <3>1, <3>2, <3>3
  <2>2. CASE m < Len(s)
    <3> DEFINE P(i) == s[i] = 10 /\ \A j \in 1 .. i - 1 : s[j] # 10
    <3>0. m + 1 - 1 = m /\ m + 1 \in DOMAIN s
      BY <1>1, <1>3, <2>2
    <3>1. m + 1 \in DOMAIN s /\ s[m + 1] = 10 /\ P(m + 1)
      BY <1>2, <1>3, <2>2, <3>0
    <3>2. \A i \in DOMAIN s : P(i) => i = m + 1
      BY <1>1, <1>3, <3>1
    <3>3. (CHOOSE i \in DOMAIN s : P(i)) = m + 1
      <4> HIDE DEF P
      <4> QED
        BY <3>1, <3>2
    <3>4. Line(s) = SubSeq(s, 1, m + 1)
      BY <3>1, <3>3, Zenon DEF Line
    <3>5. m + 1 \in m .. Len(s) /\ \A i \in m + 1 .. m + 1 : s[i] = 10
      BY <1>1, <1>3, <2>2, <3>1
    <3> QED
      BY <3>4, <3>5
  <2>3. m = Len(s) \/ m < Len(s)
    <3>1. m \in Nat /\ Len(s) \in Nat /\ m <= Len(s)
      BY <1>1, <1>3
    <3> QED
      BY <3>1
  <2> QED
    BY <2>1, <2>2, <2>3
<1> DEFINE line == SubSeq(s, 1, k)
           kept == {i \in DOMAIN line : line[i] \notin {10, 13}}
<1>5. Len(line) = k /\ DOMAIN line = 1 .. k /\ \A i \in 1 .. k : line[i] = s[i]
  <2>1. \A i \in 1 .. k : s[i] \in Byte
    BY <1>1, <1>2, ElementOfSeq DEF Bytes
  <2> QED
    BY <1>1, <1>2, <2>1, SubSeqProperties
<1>6. TrimRight(Line(s)) = IF kept = {} THEN Nil ELSE SubSeq(line, 1, Max(kept))
  BY <1>4, Zenon DEF TrimRight
<1> HIDE DEF line
<1>7. kept \subseteq 1 .. n /\ (n > 0 => n \in kept)
  <2>0. k \in Nat /\ m <= k
    BY <1>1, <1>3
  <2>1. ASSUME NEW i \in 1 .. k, i \notin 1 .. n
        PROVE  s[i] \in {10, 13}
    <3>1. CASE i \in n + 1 .. m
      BY <1>2, <3>1
    <3>2. CASE i \in m + 1 .. k
      BY <1>4, <3>2
    <3> QED
      BY <1>1, <1>3, <2>0, <2>1, <3>1, <3>2
  <2>2. kept \subseteq 1 .. n
    BY <1>5, <2>1
  <2>3. ASSUME n > 0
        PROVE  n \in 1 .. k /\ s[n] \notin {10, 13}
    BY <1>1, <1>3, <2>0, <2>3
  <2> QED
    BY <1>5, <2>2, <2>3
<1>8. CASE n = 0
  <2>1. kept = {} /\ pw = << >>
    <3> HIDE DEF kept
    <3> QED
      BY <1>0, <1>1, <1>7, <1>8, EmptySeq DEF Bytes
  <2> QED
    BY <1>6, <2>1 DEF Nil
<1>9. CASE n > 0
  <2> HIDE DEF kept
  <2>1. n \in kept /\ \A i \in kept : i \in Nat /\ i <= n
    BY <1>1, <1>7, <1>9
  <2>2. Max(kept) = n
    <3>1. \A x \in kept : (\A y \in kept : x >= y) <=> x = n
      BY <1>1, <2>1
    <3> QED
      BY <2>1, <3>1, Zenon DEF Max
  <2>3. TrimRight(Line(s)) = SubSeq(line, 1, n)
    BY <1>6, <1>7, <1>9, <2>2
  <2>4. line \in Bytes
    <3>1. Line(s) \in Bytes
      BY LineBytes
    <3> QED
      BY <1>4, <3>1 DEF line
  <2>5. n \in 1 .. Len(line) /\ \A i \in 1 .. n : line[i] = pw[i]
    BY <1>1, <1>3, <1>5, <1>9
  <2>6. SubSeq(line, 1, n) \in Bytes
    BY <2>4, <2>5, PrefixBytes
  <2>7. Len(SubSeq(line, 1, n)) = n /\ \A i \in 1 .. n : SubSeq(line, 1, n)[i] = line[i]
    BY <2>4, <2>5, LenProperties, ElementOfSeq, SubSeqProperties DEF Bytes
  <2> DEFINE t == SubSeq(line, 1, n)
  <2>8. Len(t) = Len(pw) /\ \A i \in 1 .. Len(t) : t[i] = pw[i]
    BY <1>0, <2>5, <2>7
  <2> HIDE DEF t
  <2>9. t = pw
    BY <2>6, <2>8, SameBytes DEF t
  <2> QED
    BY <2>3, <2>9 DEF t
<1> QED
  BY <1>1, <1>8, <1>9

(* The invariants of ipcprobe hold at its start. *)
LEMMA CliInitial ==
    ASSUME CliInit
    PROVE  CliInv /\ EchoInv /\ ListInv /\ MeantInv
<1>1. parseFlags(<< >>, {}) \in Flags
  <2> DEFINE A == Argument
  <2> HIDE DEF A
  <2>1. << >> \in Seq(A)
    OBVIOUS
  <2> QED
    BY <2>1, FlagsType DEF A
<1>2. << >> \in Bytes /\ << >> \in Seq(Entry) /\ ToSet(<< >>) = {}
  BY DEF Bytes, ToSet
<1>3. CliInv
  BY <1>1, <1>2 DEF CliInit, CliInv, Nil, Stages
<1> QED
  BY <1>3 DEF CliInit, EchoInv, EchoIsBack, ListInv, MeantInv

(* Every step of ipcprobe keeps its variables what they are. *)
LEMMA CliTypes ==
    ASSUME CliInv, CliStep
    PROVE  CliInv'
<1> USE DEF CliInv
<1>1. given \in Runs /\ given' = given
  BY DEF CliStep, Inquire, UnknownCommand, ListInterfaces, CheckArguments, DisableEcho,
         ReadLine, Interrupt, RestoreEcho, CheckPassword, ChooseInterfaces, BuildPacket
<1>2. /\ Args(given) \in Seq(Argument) /\ given.stdin \in Bytes /\ given.tty \in BOOLEAN
      /\ given.stty \in BOOLEAN /\ given.os \in Seq(Interface)
  BY <1>1, GivenTypes
<1>3. CASE Inquire \/ UnknownCommand
  BY <1>3 DEF Inquire, UnknownCommand, Exit, Stages
<1>4. CASE ListInterfaces
  <2> DEFINE all == Interfaces(given.os)
  <2>1. all \in Seq(Entry) /\ \A e : e \in ToSet(all) => IsEntry(given.os, e)
    BY <1>2, InterfacesElements
  <2> HIDE DEF all
  <2>2. chosen' \in {chosen, all} /\ stage' = "exit" /\ code' \in {0, 1, 2}
        /\ UNCHANGED <<given, flags, password, echo, sent>> /\ stage = "run"
    BY <1>4 DEF ListInterfaces, Exit, all
  <2> QED
    BY <2>1, <2>2 DEF Stages
<1>5. CASE CheckArguments
  <2>1. flags' \in Flags
    BY <1>2, <1>5, FlagsType DEF CheckArguments
  <2>2. str(flags', "password") \in Text
    BY <2>1, AskedType
  <2>3. str(flags', "password")[2] \in Bytes
    BY <2>2 DEF Text
  <2>4. password' \in Bytes
    BY <1>5, <2>3 DEF CheckArguments
  <2> QED
    BY <1>5, <2>1, <2>4 DEF CheckArguments, Exit, Stages
<1>6. CASE DisableEcho
  BY <1>2, <1>6 DEF DisableEcho, Stages
<1>7. CASE ReadLine
  <2>1. TrimRight(Line(given.stdin)) \in Bytes
    BY <1>2, LineBytes
  <2> QED
    BY <1>7, <2>1 DEF ReadLine, Stages
<1>8. CASE Interrupt
  BY <1>8 DEF Interrupt, Stages
<1>9. CASE RestoreEcho
  BY <1>9 DEF RestoreEcho, Stages
<1>10. CASE CheckPassword
  BY <1>10 DEF CheckPassword, Exit, Stages
<1>11. CASE ChooseInterfaces
  <2> DEFINE c == Choose(given.os, str(flags, "iface"), Asked(flags).ip)
  <2>1. str(flags, "iface") \in Text
    BY AskedType
  <2>2. c \in Seq(Entry) /\ \A e : e \in ToSet(c) => IsEntry(given.os, e)
    BY <1>2, <2>1, ChooseType
  <2> HIDE DEF c
  <2>3. /\ stage = "choose" /\ chosen' \in {chosen, c}
        /\ \/ stage' = "exit" /\ code' = 1
           \/ stage' = "build" /\ code' = code /\ chosen' = c /\ c # << >>
        /\ UNCHANGED <<given, flags, password, echo, sent>>
    BY <1>11 DEF ChooseInterfaces, Exit, c
  <2> QED
    BY <2>2, <2>3 DEF Stages
<1>12. CASE BuildPacket
  <2> DEFINE r == Asked(flags)
             p == BuildSetNetwork(r, password)
  <2>1. r \in Request
    BY AskedType
  <2>2. p = Nil \/ (p = SetPacket(r, password) /\ Complete(r) /\ PasswordFits(password))
    BY <2>1, BuildSet
  <2>3. /\ stage = "build" /\ sent' = p
        /\ (IF p = Nil THEN stage' = "exit" /\ code' = 1 ELSE stage' = "sent" /\ code' = code)
        /\ UNCHANGED <<given, flags, password, echo, chosen>>
    BY <1>12 DEF BuildPacket, Exit
  <2> HIDE DEF p
  <2>4. Asked(flags') = r
    BY <2>3
  <2> HIDE DEF r
  <2> QED
    BY <2>2, <2>3, <2>4 DEF Stages
<1> QED
  BY <1>3, <1>4, <1>5, <1>6, <1>7, <1>8, <1>9, <1>10, <1>11, <1>12 DEF CliStep

(* Every step keeps the terminal's echo, or what will restore it. *)
LEMMA EchoKept ==
    ASSUME CliInv, EchoInv, CliStep
    PROVE  EchoInv'
<1> USE DEF EchoInv, EchoIsBack
<1>1. given \in Runs /\ given.tty \in BOOLEAN /\ given.stty \in BOOLEAN /\ echo \in BOOLEAN
  BY GivenTypes DEF CliInv
<1>2. CASE Inquire \/ UnknownCommand
  BY <1>2 DEF Inquire, UnknownCommand, Exit
<1>3. CASE ListInterfaces
  BY <1>3 DEF ListInterfaces, Exit
<1>4. CASE CheckArguments
  BY <1>4 DEF CheckArguments, Exit
<1>5. CASE DisableEcho
  <2>1. given.tty
    BY <1>5 DEF DisableEcho
  <2> QED
    BY <1>1, <1>5, <2>1 DEF DisableEcho
<1>6. CASE ReadLine
  BY <1>6 DEF ReadLine
<1>7. CASE Interrupt
  BY <1>7 DEF Interrupt
<1>8. CASE RestoreEcho
  BY <1>8 DEF RestoreEcho
<1>9. CASE CheckPassword
  BY <1>9 DEF CheckPassword, Exit
<1>10. CASE ChooseInterfaces
  BY <1>10 DEF ChooseInterfaces, Exit
<1>11. CASE BuildPacket
  BY <1>11 DEF BuildPacket, Exit
<1> QED
  BY <1>2, <1>3, <1>4, <1>5, <1>6, <1>7, <1>8, <1>9, <1>10, <1>11 DEF CliStep

(* `interfaces` does one step, and lists what Interfaces returns. *)
LEMMA ListKept ==
    ASSUME ListInv, CliStep
    PROVE  ListInv'
<1> USE DEF ListInv
<1>1. CASE Inquire \/ UnknownCommand
  BY <1>1 DEF Inquire, inquiries, UnknownCommand, Exit
<1>2. CASE ListInterfaces
  BY <1>2 DEF ListInterfaces, Exit
<1>3. CASE CheckArguments
  BY <1>3 DEF CheckArguments
<1>4. CASE \/ DisableEcho \/ ReadLine \/ Interrupt \/ RestoreEcho \/ CheckPassword
           \/ ChooseInterfaces \/ BuildPacket
  BY <1>4 DEF DisableEcho, ReadLine, Interrupt, RestoreEcho, CheckPassword,
              ChooseInterfaces, BuildPacket
<1> QED
  BY <1>1, <1>2, <1>3, <1>4 DEF CliStep

(* Every step keeps what was parsed and read. *)
LEMMA MeantKept ==
    ASSUME MeantInv, CliStep
    PROVE  MeantInv'
<1> USE DEF MeantInv
<1>1. CASE Inquire \/ UnknownCommand
  BY <1>1 DEF Inquire, inquiries, UnknownCommand, Exit
<1>2. CASE ListInterfaces
  BY <1>2 DEF ListInterfaces, Exit
<1>3. CASE CheckArguments
  <2>1. given' = given /\ given.verb = "set" /\ flags' = parseFlags(Args(given), switches)
    BY <1>3 DEF CheckArguments
  <2>2. \/ stage' = "exit"
        \/ /\ FlagsOK(flags') /\ password' = str(flags', "password")[2]
           /\ stage' = IF has(flags', "password") THEN "encode"
                       ELSE IF given.tty THEN "prompt" ELSE "read"
    BY <1>3 DEF CheckArguments, Exit
  <2>3. flags' = parseFlags(Args(given'), switches)
    BY <2>1
  <2> DEFINE w == has(flags', "password")
             k == str(flags', "password")
  <2>4. has(flags, "password")' = w /\ str(flags, "password")' = k
        /\ FlagsOK(flags)' = FlagsOK(flags')
    BY DEF has, str, FlagsOK
  <2> HIDE DEF w, k
  <2> QED
    BY <2>1, <2>2, <2>3, <2>4 DEF w, k
<1>4. CASE ReadLine
  BY <1>4 DEF ReadLine, has, str
<1>5. CASE \/ DisableEcho \/ Interrupt \/ RestoreEcho \/ CheckPassword
           \/ ChooseInterfaces \/ BuildPacket
  BY <1>5 DEF DisableEcho, Interrupt, RestoreEcho, CheckPassword,
              ChooseInterfaces, BuildPacket, Exit
<1> QED
  BY <1>1, <1>2, <1>3, <1>4, <1>5 DEF CliStep

(* The packet that is sent is the one that was meant. *)
LEMMA MeantIsSent ==
    ASSUME CliInv, MeantInv
    PROVE  SaysWhatWasMeant
<1>1. SUFFICES ASSUME stage = "sent"
               PROVE  sent = BuildSetNetwork(given.want, given.pw)
  BY DEF SaysWhatWasMeant, CliInv
<1> DEFINE r == given.want
           told(k) == Told(given.settings, k)
<1>2. /\ given \in Runs /\ flags \in Flags /\ password \in Bytes
      /\ Complete(Asked(flags)) /\ PasswordFits(password)
      /\ sent = SetPacket(Asked(flags), password)
  BY <1>1 DEF CliInv
<1>3. /\ given.verb = "set" /\ flags = parseFlags(Args(given), switches) /\ FlagsOK(flags)
      /\ password = IF has(flags, "password") THEN str(flags, "password")[2]
                    ELSE TrimRight(Line(given.stdin))
  BY <1>1 DEF MeantInv
<1>4. ToldBy(flags, given.settings)
  BY <1>2, <1>3, ArgsParsed
<1>5. MeansWhatIsSaid(given)
  BY <1>2, <1>3, RunsAssumption
<1>6. r \in Request /\ given.pw \in Bytes /\ given.stdin \in Bytes
  BY <1>2, GivenTypes
<1>7. \A k : str(flags, k) = told(k) /\ (has(flags, k) <=> Said(given.settings, k) # {})
  BY <1>4 DEF ToldBy
<1>8. password = given.pw
  <2>1. CASE has(flags, "password")
    BY <1>3, <1>5, <1>7, <2>1 DEF MeansWhatIsSaid
  <2>2. CASE ~ has(flags, "password")
    <3>1. Typed(given.pw, given.stdin)
      BY <1>5, <1>7, <2>2 DEF MeansWhatIsSaid
    <3> QED
      BY <1>3, <1>6, <2>2, <3>1, TypedIs
  <2> QED
    BY <2>1, <2>2
<1>9. \A t : /\ Len(ParseAddr(t)) = 4 => t[1] = "addr" /\ ParseAddr(t) = t[2]
             /\ Len(ParseMAC(t)) = 6 => t[1] = "mac" /\ ParseMAC(t) = t[2]
  <2>1. Len(Nil) = 0
    BY DEF Nil
  <2> QED
    BY <2>1 DEF ParseAddr, ParseMAC
<1> DEFINE q == Asked(flags)
<1>10. /\ q.mac = ParseMAC(told("mac")) /\ q.ip = ParseAddr(told("ip"))
       /\ q.mask = ParseAddr(told("mask")) /\ q.gw = ParseAddr(told("gw"))
       /\ q.dns1 = IF Said(given.settings, "dns1") # {} THEN ParseAddr(told("dns1")) ELSE q.gw
       /\ q.dns2 = IF Said(given.settings, "dns2") # {} THEN ParseAddr(told("dns2"))
                   ELSE <<8, 8, 8, 8>>
  <2> HIDE DEF told
  <2> QED
    BY <1>7 DEF Asked
<1>11. /\ told("mac")[1] = "mac" => r.mac = told("mac")[2]
       /\ told("ip")[1] = "addr" => r.ip = told("ip")[2]
       /\ told("mask")[1] = "addr" => r.mask = told("mask")[2]
       /\ told("gw")[1] = "addr" => r.gw = told("gw")[2]
       /\ told("dns1")[1] = "addr" => r.dns1 = told("dns1")[2]
       /\ told("dns2")[1] = "addr" => r.dns2 = told("dns2")[2]
       /\ Said(given.settings, "dns1") = {} => r.dns1 = r.gw
       /\ Said(given.settings, "dns2") = {} => r.dns2 = <<8, 8, 8, 8>>
  BY <1>5 DEF MeansWhatIsSaid
<1>12. /\ q \in Request /\ Len(q.mac) = 6 /\ Len(q.ip) = 4 /\ Len(q.mask) = 4
       /\ Len(q.gw) = 4 /\ Len(q.dns1) = 4 /\ Len(q.dns2) = 4
  BY <1>2 DEF Complete
<1> HIDE DEF q, r, told
<1>13. r.gw = q.gw
  BY <1>9, <1>10, <1>11, <1>12
<1>14. r.mac = q.mac /\ r.ip = q.ip /\ r.mask = q.mask
  BY <1>9, <1>10, <1>11, <1>12
<1>15. r.dns1 = q.dns1 /\ r.dns2 = q.dns2
  BY <1>9, <1>10, <1>11, <1>12, <1>13
<1>16. r = q
  BY <1>6, <1>12, <1>13, <1>14, <1>15 DEF Request, r
<1>17. BuildSetNetwork(q, password) = SetPacket(q, password)
  BY <1>2, <1>12, Zenon DEF BuildSetNetwork, Is4
<1> QED
  BY <1>2, <1>8, <1>16, <1>17 DEF q, r

(* What the invariants say of the properties of CommandLine. *)
LEMMA ListedThenAccepted ==
    ASSUME CliInv, ListInv
    PROVE  ListsWhatItAccepts
<1>1. given \in Runs
  BY DEF CliInv
<1>2. given.os \in Seq(Interface)
  BY <1>1, GivenTypes
<1>3. SUFFICES ASSUME stage = "exit", given.verb = "interfaces", code = 0
              PROVE ListsWhatItAccepts
  BY DEF ListsWhatItAccepts
<1>4. chosen = Interfaces(given.os)
  BY <1>3 DEF ListInv
<1>5. \A i \in DOMAIN given.os : given.os[i].name[1] = "other" /\ given.os[i].name # Empty
  BY <1>1, GivenTypes DEF OneNameEach
<1> QED
  BY <1>2, <1>4, <1>5, ListedIsAccepted, Zenon DEF ListsWhatItAccepts

(* An interface that "has no address" is chosen once it has one. *)
LEMMA ReasonExplained ==
    ASSUME CliInv
    PROVE  ReasonExplains
<1>1. given \in Runs
  BY DEF CliInv
<1>2. given.os \in Seq(Interface) /\ OneNameEach(given.os)
  BY <1>1, GivenTypes
<1>3. /\ \A k \in DOMAIN given.os : given.os[k].name[1] = "other" /\ given.os[k].name # Empty
      /\ \A k, m \in DOMAIN given.os : given.os[k].name = given.os[m].name => k = m
  BY <1>2 DEF OneNameEach
<1> QED
  BY <1>2, <1>3, ReasonIsRight, Zenon DEF ReasonExplains

-----------------------------------------------------------------------------
(* The way of a request *)

(* A camera that takes a request over can announce what it then is. *)
LEMMA TakesOver ==
    ASSUME NEW d, Announceable(d), NEW r, Complete(r), NEW pw \in Bytes, PasswordFits(pw)
    PROVE  /\ Announceable(Reconfigured(d, SetPacket(r, pw)))
           /\ Reconfigured(d, SetPacket(r, pw)) =
                [d EXCEPT !.ip = r.ip, !.mask = r.mask, !.gw = r.gw, !.dns1 = r.dns1,
                          !.dns2 = r.dns2]
<1> DEFINE p == SetPacket(r, pw)
           c == [d EXCEPT !.ip = r.ip, !.mask = r.mask, !.gw = r.gw, !.dns1 = r.dns1,
                          !.dns2 = r.dns2]
<1>1. /\ Field(p, 40, 4) = r.ip /\ Field(p, 44, 4) = r.mask /\ Field(p, 48, 4) = r.gw
      /\ Field(p, 112, 4) = r.dns1 /\ Field(p, 116, 4) = r.dns2
  BY SetPacketFields
<1> HIDE DEF p
<1>2. Reconfigured(d, p) = c
  BY <1>1 DEF Reconfigured
<1>3. /\ d \in Device
      /\ r.ip \in Bytes /\ r.mask \in Bytes /\ r.gw \in Bytes /\ r.dns1 \in Bytes
      /\ r.dns2 \in Bytes
      /\ Len(r.ip) = 4 /\ Len(r.mask) = 4 /\ Len(r.gw) = 4 /\ Len(r.dns1) = 4
      /\ Len(r.dns2) = 4
  BY DEF Announceable, Complete, Request
<1>4. c \in Device
  BY <1>3 DEF Device
<1>5. /\ c.mac = d.mac /\ c.name = d.name /\ c.serial = d.serial /\ c.firmware = d.firmware
      /\ c.model = d.model /\ c.vendor = d.vendor /\ c.build = d.build
      /\ c.ip = r.ip /\ c.mask = r.mask /\ c.gw = r.gw /\ c.dns1 = r.dns1 /\ c.dns2 = r.dns2
  BY <1>3 DEF Device
<1> HIDE DEF c
<1>6. Announceable(c)
  BY <1>3, <1>4, <1>5 DEF Announceable
<1> QED
  BY <1>2, <1>6 DEF c, p

(* Outside the field it puts, ++ changes nothing. *)
LEMMA PutElsewhere ==
    ASSUME NEW p, NEW off, NEW s, NEW i \in DOMAIN p, ~ (off < i /\ i <= off + Len(s))
    PROVE  DOMAIN (p ++ <<off, s>>) = DOMAIN p /\ (p ++ <<off, s>>)[i] = p[i]
<1> DEFINE f == <<off, s>>
<1>1. f[1] = off /\ f[2] = s
  OBVIOUS
<1> HIDE DEF f
<1>2. DOMAIN (p ++ f) = DOMAIN p /\ (p ++ f)[i] = p[i]
  BY <1>1, PutIs
<1> QED
  BY <1>2 DEF f

(* Packets that agree somewhere still do after the same field is put in both. *)
LEMMA PutAgrees ==
    ASSUME NEW p, NEW q, NEW f, NEW i, DOMAIN p = DOMAIN q, i \in DOMAIN p, p[i] = q[i]
    PROVE  /\ DOMAIN (p ++ f) = DOMAIN p /\ DOMAIN (q ++ f) = DOMAIN q
           /\ (p ++ f)[i] = (q ++ f)[i]
<1> DEFINE g == [k \in DOMAIN p |-> IF f[1] < k /\ k <= f[1] + Len(f[2])
                                   THEN f[2][k - f[1]] ELSE p[k]]
           h == [k \in DOMAIN q |-> IF f[1] < k /\ k <= f[1] + Len(f[2])
                                   THEN f[2][k - f[1]] ELSE q[k]]
<1>1. p ++ f = g /\ q ++ f = h
  BY PutIs
<1>2. DOMAIN g = DOMAIN p /\ DOMAIN h = DOMAIN q /\ g[i] = h[i]
  OBVIOUS
<1> QED
  BY <1>1, <1>2

(* Packets for the same request differ in the password's field only. *)
LEMMA SameButPassword ==
    ASSUME NEW r, Complete(r), NEW pw \in Bytes, PasswordFits(pw), NEW qw \in Bytes,
           PasswordFits(qw), NEW i \in (1 .. 140) \ (85 .. 112)
    PROVE  SetPacket(r, pw)[i] = SetPacket(r, qw)[i]
<1> DEFINE z == Zeros(lenTX)
           s1 == <<0, header(9, CmdSetNet)>>
           s2 == <<32, r.mac>>
           s3 == <<40, r.ip>>
           s4 == <<44, r.mask>>
           s5 == <<48, r.gw>>
           s == z ++ s1 ++ s2 ++ s3 ++ s4 ++ s5
           ep == EncodePassword(pw)
           eq == EncodePassword(qw)
           a == s ++ <<84, ep>>
           b == s ++ <<84, eq>>
           f == <<112, r.dns1>>
           g == <<116, r.dns2>>
           a1 == a ++ f
           b1 == b ++ f
<1>1. SetPacket(r, pw) = a1 ++ g /\ SetPacket(r, qw) = b1 ++ g
  BY Zenon DEF SetPacket
<1>2. DOMAIN s = 1 .. 140
  <2>1. DOMAIN z = 1 .. 140
    BY DEF Zeros, lenTX
  <2> HIDE DEF z, s1, s2, s3, s4, s5
  <2>2. \A p, x : DOMAIN (p ++ x) = DOMAIN p
    BY PutIs
  <2>3. DOMAIN (z ++ s1 ++ s2 ++ s3 ++ s4 ++ s5) = DOMAIN z
    BY ONLY <2>2, SMT
  <2> QED
    BY <2>1, <2>3
<1>3. Len(ep) = 28 /\ Len(eq) = 28
  BY PasswordField
<1> HIDE DEF s, ep, eq
<1>4. DOMAIN a = 1 .. 140 /\ DOMAIN b = 1 .. 140 /\ a[i] = b[i]
  <2>1. i \in DOMAIN s /\ ~ (84 < i /\ i <= 84 + 28)
    BY <1>2
  <2>2. ~ (84 < i /\ i <= 84 + Len(ep)) /\ ~ (84 < i /\ i <= 84 + Len(eq))
    BY ONLY <1>3, <2>1
  <2> DEFINE o == 84
  <2>3. /\ a = s ++ <<o, ep>> /\ b = s ++ <<o, eq>>
        /\ ~ (o < i /\ i <= o + Len(ep)) /\ ~ (o < i /\ i <= o + Len(eq))
    BY <2>2
  <2> HIDE DEF a, b, o
  <2>4. DOMAIN a = DOMAIN s /\ a[i] = s[i]
    BY ONLY <2>1, <2>3, PutElsewhere
  <2>5. DOMAIN b = DOMAIN s /\ b[i] = s[i]
    BY ONLY <2>1, <2>3, PutElsewhere
  <2> QED
    BY <1>2, <2>4, <2>5
<1>5. i \in DOMAIN a
  BY <1>4
<1> HIDE DEF a, b, f, g
<1>6. DOMAIN a1 = DOMAIN a /\ DOMAIN b1 = DOMAIN b /\ a1[i] = b1[i]
  BY <1>4, <1>5, PutAgrees
<1>7. DOMAIN a1 = DOMAIN b1 /\ i \in DOMAIN a1
  BY <1>4, <1>5, <1>6
<1> HIDE DEF a1, b1
<1> QED
  BY <1>1, <1>6, <1>7, PutAgrees

(* What diff finds is whether the packet is, but for the password, ours. *)
LEMMA DiffIsMask ==
    ASSUME NEW r, Complete(r), NEW pw \in Bytes, PasswordFits(pw), NEW qw \in Bytes,
           PasswordFits(qw), NEW p, NEW n \in Int, DOMAIN p = 1 .. n
    PROVE  Differ(p, SetPacket(r, qw)) = {} <=> dumpMasked(p) = dumpMasked(SetPacket(r, pw))
<1> DEFINE q == SetPacket(r, qw)
           s == SetPacket(r, pw)
<1>1. DOMAIN q = 1 .. 140 /\ DOMAIN s = 1 .. 140
  BY SetPacketFields, LenProperties DEF Bytes
<1>2. \A i \in (1 .. 140) \ (85 .. 112) : q[i] = s[i]
  BY SameButPassword
<1> HIDE DEF q, s
<1> DEFINE O == 85 .. 112
<1>3. 140 \notin O /\ (\A m \in Int : m > 140 => m \notin O) /\ 140 \in DOMAIN q
  BY <1>1
<1>4. \A i \in 1 .. 140 : i \notin O => q[i] = s[i]
  BY <1>2
<1> HIDE DEF O
<1>5. ASSUME Differ(p, q) = {}
      PROVE  dumpMasked(p) = dumpMasked(s)
  <2>1. \A i : i \in DOMAIN p \/ i \in DOMAIN q =>
                i \in O \/ (i \in DOMAIN p /\ i \in DOMAIN q /\ p[i] = q[i])
    BY <1>5 DEF Differ, O
  <2>2. n = 140
    <3>1. 140 \in DOMAIN p
      BY <1>3, <2>1
    <3>2. n \in DOMAIN p /\ n >= 140
      BY <3>1
    <3>3. n \notin O
      BY <1>3, <3>2
    <3>4. n \in DOMAIN q
      BY <2>1, <3>2, <3>3
    <3> QED
      BY <1>1, <3>2, <3>4
  <2>3. DOMAIN p = DOMAIN s
    BY <1>1, <2>2
  <2>4. \A i \in DOMAIN p : i \notin O => p[i] = s[i]
    <3> SUFFICES ASSUME NEW i \in DOMAIN p, i \notin O
                 PROVE  p[i] = s[i]
      OBVIOUS
    <3>1. p[i] = q[i]
      BY <2>1
    <3>2. i \in 1 .. 140
      BY <1>1, <2>3
    <3> QED
      BY <1>4, <3>1, <3>2
  <2> QED
    BY <2>3, <2>4 DEF dumpMasked, O
<1>6. ASSUME dumpMasked(p) = dumpMasked(s)
      PROVE  Differ(p, q) = {}
  <2>1. DOMAIN p = DOMAIN s
    BY <1>6 DEF dumpMasked
  <2>2. \A i \in DOMAIN p : i \notin O => p[i] = s[i]
    <3> SUFFICES ASSUME NEW i \in DOMAIN p, i \notin O
                 PROVE  p[i] = s[i]
      OBVIOUS
    <3>1. dumpMasked(p)[i] = dumpMasked(s)[i]
      BY <1>6
    <3> QED
      BY <2>1, <3>1 DEF dumpMasked, O
  <2>3. \A i : i \in DOMAIN p \/ i \in DOMAIN q =>
                i \in O \/ (i \in DOMAIN q /\ i \in DOMAIN p /\ p[i] = q[i])
    <3> SUFFICES ASSUME NEW i, i \in DOMAIN p \/ i \in DOMAIN q, i \notin O
                 PROVE  i \in DOMAIN q /\ i \in DOMAIN p /\ p[i] = q[i]
      OBVIOUS
    <3>1. i \in 1 .. 140 /\ i \in DOMAIN p
      BY <1>1, <2>1
    <3> QED
      BY <1>1, <1>4, <2>2, <3>1
  <2>4. Differ(p, q) = {i \in (DOMAIN p \cup DOMAIN q) \ O :
                            i \in DOMAIN p \cap DOMAIN q => p[i] # q[i]}
    BY Zenon DEF Differ, O
  <2> QED
    BY <2>3, <2>4
<1> QED
  BY <1>5, <1>6 DEF q, s

(* A frame's payload is as long as its UDP header says. *)
LEMMA FoundFrame ==
    ASSUME NEW no, found(no)
    PROVE  \E n \in Int : DOMAIN find(no).payload = 1 .. n
<1> DEFINE f == find(no)
<1>1. f \in frames
  <2>1. \E g \in frames : g.no = no
    BY Zenon DEF found
  <2> QED
    BY <2>1, Zenon DEF find
<1>2. PICK i \in DOMAIN raw :
          UdpFrame(raw[i]) /\ f = [no |-> i, payload |-> Payload(IpOf(raw[i]))]
  BY <1>1 DEF frames
<1> DEFINE ip == IpOf(raw[i])
<1>3. f.payload = Payload(ip) /\ HoldsUdp(ip)
  BY <1>2 DEF UdpFrame
<1> DEFINE k == Uint16be(UdpOf(ip), 4)
<1>4. k \in Int
  <2>1. k \in 8 .. Len(UdpOf(ip))
    BY <1>3 DEF HoldsUdp
  <2> HIDE DEF k
  <2> QED
    BY <2>1
<1>5. f.payload = SubSeq(UdpOf(ip), 9, k)
  BY <1>3 DEF Payload
<1> HIDE DEF f, ip, k
<1>6. DOMAIN f.payload = 1 .. (1 + k - 9)
  BY <1>5 DEF SubSeq
<1> QED
  BY <1>4, <1>6 DEF f

(* The empty password fits. *)
LEMMA NoPasswordFits == Nil \in Bytes /\ PasswordFits(Nil)
<1>1. Nil \in Bytes /\ Len(Nil) = 0
  BY DEF Bytes, Nil
<1>2. Len(Base64(Nil)) = 4 * ((Len(Nil) + 2) \div 3)
  BY <1>1, Base64At
<1>3. (Len(Nil) + 2) \div 3 = 0
  BY ONLY <1>1, SMT
<1>4. Len(Base64(Nil)) <= 28
  BY <1>2, <1>3
<1> QED
  BY <1>1, <1>4 DEF PasswordFits, lenPassword

-----------------------------------------------------------------------------

(* What a camera has made of the packet: its record, its answers, and nothing
   captured before there are any.                                            *)
CameraInv ==
    \/ camera = None /\ ack = Nil /\ announce = Nil /\ reader = "idle"
    \/ /\ stage = "sent" /\ camera # None
       /\ camera \in Cameras /\ Announceable(camera.dev)
       /\ ack = IF IsSetNetwork(sent, camera.dev.mac) THEN BuildSetAck(chosen[1].ip, Port)
                ELSE Nil
       /\ device = IF IsSetNetwork(sent, camera.dev.mac) /\ RightPassword(sent, camera.pw)
                   THEN Reconfigured(camera.dev, sent) ELSE camera.dev
       /\ announce = BuildAnnounce(device)

(* What the reader holds. *)
CaptureInv ==
    /\ reader \in {"idle", "reading", "done", "corrupt", "panic"}
    /\ order \in {"little", "big"}
    /\ linktypes \in Seq(Nat)
    /\ raw \in Seq(Nat \X Bytes)
    /\ IF reader = "idle" THEN pos = 0 ELSE file \in File
    /\ file.blocks = << >> \/ file.blocks \in Seq(BlockSet)
    /\ pos \in 0 .. Len(file.blocks)
    /\ reader = "reading" /\ file.format = "pcap" => Len(linktypes) > 0

(* What show and diff have said of a frame is still so: the reader is done. *)
ShownInv ==
    IF shown.verb = "none" THEN shown.is = "nothing"
    ELSE /\ reader = "done"
         /\ shown.is \in {"set", "match", "mismatch"} =>
            /\ found(shown.frame)
            /\ LET p == find(shown.frame).payload
                   d == Differ(p, BuildSetNetwork(decodeSet(p), Nil))
               IN  /\ shown.is = "set" => shown.says = decodeSet(p)
                   /\ shown.is = "match" => d = {}
                   /\ shown.is = "mismatch" => d # {}

-----------------------------------------------------------------------------
(* The reader, block by block (readPcapng, readPcap) *)

(* What the reader holds of interfaces when it has read i blocks. *)
NumberedAs(f, i, ls) ==
    /\ Len(ls) = Cardinality(Declared(f, i))
    /\ \A j \in Declared(f, i) : /\ Index(f, i, j) \in 0 .. Len(ls) - 1
                                /\ ls[Index(f, i, j) + 1] = f.blocks[j].link
    /\ \A n \in 0 .. Len(ls) - 1 : \E j \in Declared(f, i) : Index(f, i, j) = n

(* What it holds of packets: all of them, in their order, with their link. *)
KeptAs(f, i, ps) ==
    /\ Len(ps) = Number(f, i)
    /\ \A j \in 1 .. i :
        /\ f.blocks[j].size = "ok"
        /\ IsPacket(f.blocks[j]) =>
            /\ Number(f, j) \in 1 .. Len(ps)
            /\ ps[Number(f, j)] = <<LinkType(f, j), f.blocks[j].data>>
    /\ \A m \in 1 .. Len(ps) : \E j \in 1 .. i : IsPacket(f.blocks[j]) /\ Number(f, j) = m

(* How far it is, in a file that keeps to its format. *)
FileInv ==
    IF reader = "idle" THEN raw = << >>
    ELSE Truthful(file) =>
        /\ KeptAs(file, pos, raw)
        /\ IF file.format = "pcap" THEN linktypes = <<file.link>>
           ELSE NumberedAs(file, pos, linktypes)
        /\ reader = "done" =>
              \A i \in pos + 1 .. Len(file.blocks) : file.blocks[i].size # "ok"

(* The interfaces of a section, one block on. *)
LEMMA DeclaredNext ==
    ASSUME NEW f, NEW i \in Nat
    PROVE  LET type == f.blocks[i + 1].type
               D == Declared(f, i)
           IN  /\ D \subseteq 1 .. i /\ IsFiniteSet(D) /\ Cardinality(D) \in Nat
               /\ type = "section" => Declared(f, i + 1) = {}
               /\ type = "interface" => Declared(f, i + 1) = D \cup {i + 1}
               /\ type \notin {"section", "interface"} => Declared(f, i + 1) = D
<1> DEFINE type == f.blocks[i + 1].type
           D == Declared(f, i)
           Open(j, n) == \A k \in j .. n : f.blocks[k].type # "section"
<1>1. D \subseteq 1 .. i
  BY DEF Declared
<1>2. IsFiniteSet(D) /\ Cardinality(D) \in Nat
  <2>1. IsFiniteSet(1 .. i)
    BY FS_Interval
  <2> HIDE DEF D
  <2>2. IsFiniteSet(D)
    BY <1>1, <2>1, FS_Subset
  <2> QED
    BY <2>2, FS_CardinalityType
<1>3. Declared(f, i + 1) = {j \in 1 .. i + 1 : f.blocks[j].type = "interface" /\ Open(j, i + 1)}
  BY DEF Declared
<1>4. D = {j \in 1 .. i : f.blocks[j].type = "interface" /\ Open(j, i)}
  BY DEF Declared
<1>5. ASSUME NEW j \in 1 .. i + 1
      PROVE  Open(j, i + 1) <=> Open(j, i) /\ type # "section"
  <2>1. j .. i + 1 = (j .. i) \cup {i + 1}
    OBVIOUS
  <2> QED
    BY <2>1
<1>6. Open(i + 1, i)
  OBVIOUS
<1>7. 1 .. i + 1 = (1 .. i) \cup {i + 1}
  OBVIOUS
<1> HIDE DEF Open, D
<1>8. type = "section" => Declared(f, i + 1) = {}
  BY <1>3, <1>5
<1>9. type = "interface" => Declared(f, i + 1) = D \cup {i + 1}
  BY <1>3, <1>4, <1>5, <1>6, <1>7
<1>10. type \notin {"section", "interface"} => Declared(f, i + 1) = D
  BY <1>3, <1>4, <1>5, <1>7
<1> QED
  BY <1>1, <1>2, <1>8, <1>9, <1>10 DEF D

(* An interface keeps its number, and the next one has the next. *)
LEMMA IndexNext ==
    ASSUME NEW f, NEW i \in Nat, f.blocks[i + 1].type # "section"
    PROVE  /\ \A j \in Declared(f, i) : Index(f, i + 1, j) = Index(f, i, j)
           /\ f.blocks[i + 1].type = "interface"
                => Index(f, i + 1, i + 1) = Cardinality(Declared(f, i))
<1> DEFINE D == Declared(f, i)
           E == Declared(f, i + 1)
<1>1. D \subseteq 1 .. i /\ (E = D \cup {i + 1} \/ E = D)
      /\ (f.blocks[i + 1].type = "interface" => E = D \cup {i + 1})
  BY DeclaredNext
<1>2. /\ \A j \in D : Index(f, i + 1, j) = Cardinality({k \in E : k < j})
      /\ \A j \in D : Index(f, i, j) = Cardinality({k \in D : k < j})
      /\ Index(f, i + 1, i + 1) = Cardinality({k \in E : k < i + 1})
  BY DEF Index
<1> HIDE DEF D, E
<1>3. ASSUME NEW j \in D
      PROVE  {k \in E : k < j} = {k \in D : k < j}
  BY <1>1
<1>4. E = D \cup {i + 1} => {k \in E : k < i + 1} = D
  <2>1. (\A k \in D : k < i + 1) /\ ~ (i + 1 < i + 1)
    BY <1>1
  <2> QED
    BY <2>1
<1> QED
  BY <1>1, <1>2, <1>3, <1>4 DEF D

(* The packets are counted one by one. *)
LEMMA NumberNext ==
    ASSUME NEW f, NEW i \in Nat
    PROVE  /\ Number(f, i) \in Nat /\ Number(f, 0) = 0
           /\ Number(f, i + 1) = IF IsPacket(f.blocks[i + 1]) THEN Number(f, i) + 1
                                 ELSE Number(f, i)
<1> DEFINE P(n) == {k \in 1 .. n : IsPacket(f.blocks[k])}
<1>1. \A n : Number(f, n) = Cardinality(P(n))
  BY DEF Number
<1>2. P(i + 1) = IF IsPacket(f.blocks[i + 1]) THEN P(i) \cup {i + 1} ELSE P(i)
  <2>1. 1 .. i + 1 = (1 .. i) \cup {i + 1}
    OBVIOUS
  <2> QED
    BY <2>1
<1>3. i + 1 \notin P(i) /\ P(0) = {} /\ P(i) \in SUBSET (1 .. i)
  OBVIOUS
<1>4. IsFiniteSet(P(i))
  <2>1. IsFiniteSet(1 .. i)
    BY FS_Interval
  <2> HIDE DEF P
  <2> QED
    BY <1>3, <2>1, FS_Subset
<1> HIDE DEF P
<1>5. Cardinality(P(i)) \in Nat /\ Cardinality(P(i) \cup {i + 1}) = Cardinality(P(i)) + 1
  BY <1>3, <1>4, FS_CardinalityType, FS_AddElement
<1>6. Cardinality(P(0)) = 0
  BY <1>3, FS_EmptySet
<1> QED
  BY <1>1, <1>2, <1>5, <1>6

(* What the reader holds of interfaces, one block on. *)
LEMMA NumberedNext ==
    ASSUME NEW f, NEW i \in Nat, NEW N, NEW ls \in Seq(N), NEW ms \in Seq(N),
           LET b == f.blocks[i + 1]
           IN  \/ b.type = "section" /\ ms = << >>
               \/ b.type = "interface" /\ b.link \in N /\ ms = Append(ls, b.link)
               \/ b.type \notin {"section", "interface"} /\ ms = ls,
           f.blocks[i + 1].type = "section" \/ NumberedAs(f, i, ls)
    PROVE  NumberedAs(f, i + 1, ms)
<1> DEFINE type == f.blocks[i + 1].type
           link == f.blocks[i + 1].link
           D == Declared(f, i)
           E == Declared(f, i + 1)
           n == Len(ls)
<1>1. n \in Nat /\ DOMAIN ls = 1 .. n
  BY LenProperties
<1>2. CASE type = "section"
  <2>1. E = {} /\ ms = << >>
    BY <1>2, DeclaredNext
  <2>2. Len(ms) = 0 /\ Cardinality(E) = 0
    BY <2>1, FS_EmptySet
  <2> HIDE DEF E
  <2> QED
    BY <2>1, <2>2 DEF NumberedAs, E
<1>3. CASE type # "section"
  <2>1. /\ n = Cardinality(D)
        /\ \A j \in D : Index(f, i, j) \in 0 .. n - 1 /\ ls[Index(f, i, j) + 1] = f.blocks[j].link
        /\ \A m \in 0 .. n - 1 : \E j \in D : Index(f, i, j) = m
    BY <1>3 DEF NumberedAs
  <2>2. \A j \in D : Index(f, i + 1, j) = Index(f, i, j)
    BY <1>3, IndexNext
  <2>3. CASE type = "interface"
    <3>1. /\ E = D \cup {i + 1} /\ D \subseteq 1 .. i /\ IsFiniteSet(D)
          /\ Index(f, i + 1, i + 1) = n
      BY <1>3, <2>1, <2>3, DeclaredNext, IndexNext
    <3>2. /\ ms = Append(ls, link) /\ Len(ms) = n + 1 /\ ms[n + 1] = link
          /\ \A m \in 1 .. n : ms[m] = ls[m]
      BY <1>1, <2>3, AppendProperties
    <3>6. n \in Nat /\ Len(ms) - 1 = n
      <4>1. Len(ms) = n + 1
        BY <3>2
      <4> HIDE DEF n
      <4>2. n \in Nat
        BY <1>1
      <4> QED
        BY ONLY <4>1, <4>2
    <3>3. Cardinality(E) = n + 1
      <4>1. i + 1 \notin D
        BY <3>1
      <4> HIDE DEF D, E
      <4> QED
        BY <2>1, <3>1, <4>1, FS_AddElement
    <3> HIDE DEF D, E, n
    <3>4. ASSUME NEW j \in E
          PROVE  /\ Index(f, i + 1, j) \in 0 .. Len(ms) - 1
                 /\ ms[Index(f, i + 1, j) + 1] = f.blocks[j].link
      <4>1. CASE j \in D
        <5>1. Index(f, i + 1, j) \in 0 .. n - 1 /\ ls[Index(f, i + 1, j) + 1] = f.blocks[j].link
          BY <2>1, <2>2, <4>1
        <5>2. Index(f, i + 1, j) + 1 \in 1 .. n /\ Index(f, i + 1, j) \in 0 .. n
          BY <1>1, <5>1
        <5>3. ms[Index(f, i + 1, j) + 1] = ls[Index(f, i + 1, j) + 1]
          BY <3>2, <5>2
        <5> QED
          BY ONLY <3>6, <5>1, <5>2, <5>3
      <4>2. CASE j = i + 1
        BY <1>1, <3>1, <3>2, <4>2
      <4> QED
        BY <3>1, <4>1, <4>2
    <3>5. ASSUME NEW m \in 0 .. Len(ms) - 1
          PROVE  \E j \in E : Index(f, i + 1, j) = m
      <4>1. CASE m = n
        BY <3>1, <4>1
      <4>2. CASE m # n
        <5>1. m \in 0 .. n - 1
          BY <1>1, <3>2, <4>2
        <5> QED
          BY <2>1, <2>2, <3>1, <5>1
      <4> QED
        BY <4>1, <4>2
    <3> QED
      BY <3>2, <3>3, <3>4, <3>5 DEF NumberedAs, E
  <2>4. CASE type # "interface"
    <3>1. E = D /\ ms = ls
      BY <1>3, <2>4, DeclaredNext
    <3> HIDE DEF D, E, n
    <3> QED
      BY <2>1, <2>2, <3>1 DEF NumberedAs, E, n
  <2> QED
    BY <2>3, <2>4
<1> QED
  BY <1>2, <1>3

(* The reader takes for a packet the link of the interface that it names. *)
LEMMA LinkFound ==
    ASSUME NEW f, f.format # "pcap", NEW i \in Nat, NEW ls, ls = linktypes,
           NumberedAs(f, i, ls), IsPacket(f.blocks[i + 1]), f.blocks[i + 1].iface \in Nat
    PROVE  LET b == f.blocks[i + 1]
           IN  LinkOf(IF b.type = "simple" THEN 0 ELSE b.iface) = LinkType(f, i + 1)
<1> DEFINE b == f.blocks[i + 1]
           q == IF b.type = "simple" THEN 0 ELSE b.iface
           D == Declared(f, i)
           n == Len(ls)
           of == {j \in Declared(f, i + 1) : IsOf(f, i + 1, j)}
<1>1. b.type \notin {"section", "interface"} /\ q \in Nat
  BY DEF IsPacket
<1>2. Declared(f, i + 1) = D /\ Cardinality(D) \in Nat
  BY <1>1, DeclaredNext
<1>3. \A j \in D : IsOf(f, i + 1, j) <=> Index(f, i, j) = q
  <2>1. \A j \in D : Index(f, i + 1, j) = Index(f, i, j)
    BY <1>1, IndexNext
  <2> QED
    BY <2>1 DEF IsOf
<1>4. of = {j \in D : Index(f, i, j) = q}
  BY <1>2, <1>3
<1>5. LinkType(f, i + 1) = IF of = {} THEN 1 ELSE f.blocks[CHOOSE j \in of : TRUE].link
  BY Zenon DEF LinkType
<1>6. /\ n = Cardinality(D)
      /\ \A j \in D : Index(f, i, j) \in 0 .. n - 1 /\ ls[Index(f, i, j) + 1] = f.blocks[j].link
      /\ \A m \in 0 .. n - 1 : \E j \in D : Index(f, i, j) = m
  BY DEF NumberedAs
<1>7. LinkOf(q) = IF q < n THEN ls[q + 1] ELSE 1
  BY DEF LinkOf
<1> HIDE DEF of, q, D, n
<1>8. CASE of = {}
  <2>1. ~ (q < n)
    BY <1>1, <1>2, <1>4, <1>6, <1>8
  <2> QED
    BY <1>5, <1>7, <1>8, <2>1 DEF q
<1>9. CASE of # {}
  <2> DEFINE j == CHOOSE j \in of : TRUE
  <2>1. j \in of
    BY <1>9
  <2>2. LinkType(f, i + 1) = f.blocks[j].link
    BY <1>5, <1>9
  <2> HIDE DEF j
  <2>3. q \in 0 .. n - 1 /\ ls[q + 1] = f.blocks[j].link
    BY <1>4, <1>6, <2>1
  <2>4. q < n
    BY <1>1, <1>2, <1>6, <2>3
  <2> QED
    BY <1>7, <2>2, <2>3, <2>4 DEF q
<1> QED
  BY <1>8, <1>9

(* What the reader holds of packets, one block on. *)
LEMMA KeptNext ==
    ASSUME NEW f, NEW i \in Nat, NEW P, NEW ps \in Seq(P), KeptAs(f, i, ps),
           f.blocks[i + 1].size = "ok", NEW qs,
           LET b == f.blocks[i + 1]
           IN  IF IsPacket(b)
               THEN qs = Append(ps, <<LinkType(f, i + 1), b.data>>)
                    /\ <<LinkType(f, i + 1), b.data>> \in P
               ELSE qs = ps
    PROVE  KeptAs(f, i + 1, qs)
<1> DEFINE b == f.blocks[i + 1]
           n == Len(ps)
           r == <<LinkType(f, i + 1), b.data>>
<1>1. n \in Nat
  BY LenProperties
<1>2. /\ n = Number(f, i)
      /\ \A j \in 1 .. i :
            /\ f.blocks[j].size = "ok"
            /\ IsPacket(f.blocks[j]) =>
                Number(f, j) \in 1 .. n /\ ps[Number(f, j)] = <<LinkType(f, j), f.blocks[j].data>>
      /\ \A m \in 1 .. n : \E j \in 1 .. i : IsPacket(f.blocks[j]) /\ Number(f, j) = m
  BY DEF KeptAs
<1>3. 1 .. i + 1 = (1 .. i) \cup {i + 1}
  OBVIOUS
<1>4. CASE ~ IsPacket(b)
  <2>1. qs = ps /\ Number(f, i + 1) = n
    BY <1>2, <1>4, NumberNext
  <2>2. Len(qs) = Number(f, i + 1)
    BY <2>1
  <2>3. ASSUME NEW j \in 1 .. i + 1
        PROVE  /\ f.blocks[j].size = "ok"
               /\ IsPacket(f.blocks[j]) =>
                    Number(f, j) \in 1 .. Len(qs)
                    /\ qs[Number(f, j)] = <<LinkType(f, j), f.blocks[j].data>>
    BY <1>2, <1>3, <1>4, <2>1
  <2>4. ASSUME NEW m \in 1 .. Len(qs)
        PROVE  \E j \in 1 .. i + 1 : IsPacket(f.blocks[j]) /\ Number(f, j) = m
    BY <1>2, <1>3, <2>1
  <2> QED
    BY <2>2, <2>3, <2>4 DEF KeptAs
<1>5. CASE IsPacket(b)
  <2>1. Number(f, i + 1) = n + 1
    BY <1>2, <1>5, NumberNext
  <2>2. qs = Append(ps, r) /\ r \in P
    BY <1>5
  <2> HIDE DEF r
  <2>3. Len(qs) = n + 1 /\ qs[n + 1] = r /\ \A m \in 1 .. n : qs[m] = ps[m]
    BY <1>1, <2>2, AppendProperties
  <2> HIDE DEF n
  <2>4. ASSUME NEW j \in 1 .. i + 1
        PROVE  /\ f.blocks[j].size = "ok"
               /\ IsPacket(f.blocks[j]) =>
                    Number(f, j) \in 1 .. Len(qs)
                    /\ qs[Number(f, j)] = <<LinkType(f, j), f.blocks[j].data>>
    <3>1. CASE j \in 1 .. i
      <4>1. 1 .. n \subseteq 1 .. n + 1
        BY <1>1
      <4> QED
        BY <1>2, <2>3, <3>1, <4>1
    <3>2. CASE j = i + 1
      BY <1>1, <2>1, <2>3, <3>2 DEF r
    <3> QED
      BY <1>3, <3>1, <3>2
  <2>5. ASSUME NEW m \in 1 .. Len(qs)
        PROVE  \E j \in 1 .. i + 1 : IsPacket(f.blocks[j]) /\ Number(f, j) = m
    <3>1. m \in 1 .. n \/ m = n + 1
      BY <1>1, <2>3
    <3> QED
      BY <1>2, <1>3, <1>5, <2>1, <3>1
  <2> QED
    BY <2>1, <2>3, <2>4, <2>5 DEF KeptAs
<1> QED
  BY <1>4, <1>5

(* All of it. *)
PathInv ==
    /\ CliInv /\ EchoInv /\ ListInv /\ MeantInv
    /\ CameraInv /\ CaptureInv /\ FileInv /\ ShownInv

(* The invariant holds at the start. *)
LEMMA PathInitial ==
    ASSUME Init
    PROVE  PathInv
<1>1. CliInv /\ EchoInv /\ ListInv /\ MeantInv
  BY CliInitial DEF Init
<1>2. CameraInv
  BY DEF Init, CaptureInit, CameraInv
<1>3. CaptureInv
  <2> DEFINE N == Nat
             P == Nat \X Bytes
  <2> HIDE DEF N, P
  <2>1. << >> \in Seq(N) /\ << >> \in Seq(P)
    OBVIOUS
  <2> QED
    BY <2>1 DEF Init, CaptureInit, CaptureInv, NoFile, N, P
<1>4. ShownInv /\ FileInv
  BY DEF Init, CaptureInit, ShownInv, Nothing, FileInv
<1> QED
  BY <1>1, <1>2, <1>3, <1>4 DEF PathInv

(* Only a record whose addresses are there and whose texts fit is announced. *)
LEMMA AnnouncedFits ==
    ASSUME NEW d \in Device, BuildAnnounce(d) # Nil
    PROVE  Announceable(d)
<1>1. /\ Len(d.mac) = 6
      /\ \A a \in {d.ip, d.mask, d.gw, d.dns1, d.dns2} : Is4(a)
      /\ Fits(d.name, 20)
      /\ \A s \in {d.serial, d.firmware, d.model, d.vendor} : Fits(s, 16)
      /\ Len(d.build) \in {0, 3}
  BY Zenon DEF BuildAnnounce
<1>2. /\ Len(d.name) \in Nat /\ Len(d.serial) \in Nat /\ Len(d.firmware) \in Nat
      /\ Len(d.model) \in Nat /\ Len(d.vendor) \in Nat
  BY LenProperties DEF Device, Chars
<1> QED
  BY <1>1, <1>2 DEF Announceable, Is4, Fits

(* A camera's answer, and everything else that happens on the way. *)
LEMMA CameraKept ==
    ASSUME CliInv, CameraInv, Next
    PROVE  CameraInv'
<1>1. ASSUME CliStep, UNCHANGED <<cameraVars, captureVars>>
      PROVE  CameraInv'
  <2>1. stage # "sent"
    BY <1>1 DEF CliStep, Inquire, UnknownCommand, ListInterfaces, CheckArguments, DisableEcho,
                ReadLine, Interrupt, RestoreEcho, CheckPassword, ChooseInterfaces, BuildPacket
  <2> QED
    BY <1>1, <2>1 DEF CameraInv, cameraVars, captureVars
<1>2. ASSUME NEW c \in Cameras, Answer(c)
      PROVE  CameraInv'
  <2>1. Announceable(c.dev)
    BY <1>2, PathAssumption, AnnouncedFits DEF Answer
  <2>2. c # None
    <3>1. c.dev # << >>
      <4>1. "mac" \in DOMAIN c.dev
        BY <2>1 DEF Announceable, Device
      <4> QED
        BY <4>1
    <3> QED
      BY <3>1 DEF None
  <2> QED
    BY <1>2, <2>1, <2>2, Zenon DEF Answer, CameraInv, cliVars
<1>3. CASE Captured
  BY <1>3 DEF Captured, CameraInv, cliVars, cameraVars
<1>4. CASE Read
  BY <1>4 DEF Read, ReadStep, CorruptBlock, NextBlock, SectionHeader, InterfaceDescription,
              EnhancedPacket, SimplePacket, OtherBlock, PcapRecord, EndOfFile, Reading,
              CameraInv, cliVars, cameraVars
<1>5. CASE Show
  BY <1>5 DEF Show, Inspect, CameraInv, cliVars, cameraVars
<1> QED
  BY <1>1, <1>2, <1>3, <1>4, <1>5 DEF Next

(* A slice of a packet is bytes of it. *)
LEMMA SliceAt ==
    ASSUME NEW s \in Bytes, NEW a \in Nat, NEW b \in Nat, a <= b, b <= Len(s)
    PROVE  LET t == SubSeq(s, a + 1, b)
           IN  t \in Bytes /\ Len(t) = b - a /\ \A i \in 1 .. b - a : t[i] = s[a + i]
<1> DEFINE t == SubSeq(s, a + 1, b)
<1>1. Len(s) \in Nat /\ \A i \in 1 .. Len(s) : s[i] \in Byte
  BY LenProperties, ElementOfSeq DEF Bytes
<1>2. a + 1 \in 1 .. b + 1 /\ \A i \in a + 1 .. b : s[i] \in Byte
  BY <1>1
<1>3. t \in Seq(Byte)
  BY <1>2, SubSeqProperties
<1>4. Len(t) = b - a
  BY <1>1, <1>2, SubSeqProperties
<1>5. ASSUME NEW i \in 1 .. b - a
      PROVE  t[i] = s[a + i]
  BY <1>1, <1>2, SubSeqProperties
<1> QED
  BY <1>3, <1>4, <1>5 DEF Bytes

(* Two bytes, the high one first. *)
LEMMA Uint16beIs ==
    ASSUME NEW s \in Bytes, NEW off \in Nat, off + 2 <= Len(s)
    PROVE  /\ Uint16be(s, off) = 256 * s[off + 1] + s[off + 2] /\ Uint16be(s, off) \in Nat
           /\ \A x \in Byte, y \in Byte :
                Field(s, off, 2) = <<x, y>> <=> Uint16be(s, off) = 256 * x + y
<1>1. Len(s) \in Nat /\ \A i \in 1 .. Len(s) : s[i] \in Byte
  BY LenProperties, ElementOfSeq DEF Bytes
<1>2. s[off + 1] \in Byte /\ s[off + 2] \in Byte
  BY <1>1
<1>3. Field(s, off, 2) \in Seq(Byte) /\ Len(Field(s, off, 2)) = 2
      /\ Field(s, off, 2)[1] = s[off + 1] /\ Field(s, off, 2)[2] = s[off + 2]
  <2>1. off + 2 - off = 2
    OBVIOUS
  <2> QED
    BY <1>1, <2>1, SliceAt DEF Field, Bytes
<1>4. ASSUME NEW x \in Byte, NEW y \in Byte
      PROVE  Field(s, off, 2) = <<x, y>> <=> Uint16be(s, off) = 256 * x + y
  <2>1. Field(s, off, 2) = <<x, y>> <=> s[off + 1] = x /\ s[off + 2] = y
    <3>1. <<x, y>> \in Seq(Byte) /\ Len(<<x, y>>) = 2
      OBVIOUS
    <3> QED
      BY <1>3, <3>1, SeqEqual
  <2>2. \A a, b \in 0 .. 255 : a = x /\ b = y <=> 256 * a + b = 256 * x + y
    BY DEF Byte
  <2>3. s[off + 1] = x /\ s[off + 2] = y <=> Uint16be(s, off) = 256 * x + y
    BY <1>2, <2>2, Zenon DEF Uint16be, Byte
  <2> QED
    BY <2>1, <2>3
<1>5. \A a, b \in 0 .. 255 : 256 * a + b \in Nat
  OBVIOUS
<1>6. Uint16be(s, off) \in Nat
  BY <1>2, <1>5, Zenon DEF Uint16be, Byte
<1>7. Uint16be(s, off) = 256 * s[off + 1] + s[off + 2]
  BY DEF Uint16be
<1> QED
  BY <1>4, <1>6, <1>7

(* udpFrame looks for the IPv4 header where it is. *)
LEMMA HeaderFound ==
    ASSUME NEW link \in Nat, NEW pkt \in Bytes, NEW n \in Nat, n + 20 <= Len(pkt)
    PROVE  LinkHeader(link, pkt) = n <=> Framed(link, pkt, n)
<1>1. Len(pkt) \in Nat
  BY LenProperties DEF Bytes
<1>2. CASE link # 1
  BY <1>2 DEF LinkHeader, Framed, NoIp
<1>3. CASE link = 1 /\ Len(pkt) >= 20
  <2>1. /\ Field(pkt, 12, 2) = <<8, 0>> <=> Uint16be(pkt, 12) = 2048
        /\ Field(pkt, 12, 2) = <<129, 0>> <=> Uint16be(pkt, 12) = 33024
        /\ Field(pkt, 16, 2) = <<8, 0>> <=> Uint16be(pkt, 16) = 2048
    <3>1. 8 \in Byte /\ 0 \in Byte /\ 129 \in Byte /\ 12 + 2 <= Len(pkt) /\ 16 + 2 <= Len(pkt)
      BY <1>1, <1>3 DEF Byte
    <3>2. \A x \in Byte, y \in Byte :
            /\ Field(pkt, 12, 2) = <<x, y>> <=> Uint16be(pkt, 12) = 256 * x + y
            /\ Field(pkt, 16, 2) = <<x, y>> <=> Uint16be(pkt, 16) = 256 * x + y
      BY <3>1, Uint16beIs
    <3>3. 256 * 8 + 0 = 2048 /\ 256 * 129 + 0 = 33024
      OBVIOUS
    <3> QED
      BY <3>1, <3>2, <3>3
  <2>2. /\ 14 <= Len(pkt) /\ 18 <= Len(pkt) /\ 2048 # 33024
    BY <1>1, <1>3
  <2> DEFINE F == Field(pkt, 12, 2) = <<8, 0>>
             V == Field(pkt, 12, 2) = <<129, 0>>
             G == Field(pkt, 16, 2) = <<8, 0>>
  <2>3. LinkHeader(link, pkt) = IF F THEN 14 ELSE IF V /\ G THEN 18 ELSE NoIp
    BY <1>3, <2>1, <2>2 DEF LinkHeader
  <2>4. ~ (F /\ V)
    BY <2>1, <2>2
  <2>5. Framed(link, pkt, n) <=> (F /\ n = 14) \/ (V /\ G /\ n = 18)
    BY <1>3 DEF Framed
  <2> HIDE DEF F, V, G
  <2> QED
    BY <2>3, <2>4, <2>5 DEF NoIp
<1> QED
  BY <1>1, <1>2, <1>3

(* An IPv4 packet with a header of w words holds k bytes of UDP payload. *)
Datagram(ip, w, k) ==
    /\ ip[10] = 17
    /\ 4 * w + 8 + k <= Uint16be(ip, 2) /\ Uint16be(ip, 2) <= Len(ip)
    /\ Uint16be(ip, 4 * w + 4) = 8 + k

(* udpFrame takes what is in the datagram, not what is behind it. *)
LEMMA DatagramRead ==
    ASSUME NEW ip \in Bytes, Len(ip) >= 20, NEW w \in 0 .. 15, ip[1] = 64 + w
    PROVE  /\ HoldsUdp(ip) <=> \E k \in Nat : Datagram(ip, w, k)
           /\ \A k \in Nat : Datagram(ip, w, k) => Payload(ip) = Field(ip, 4 * w + 8, k)
<1> DEFINE t == Uint16be(ip, 2)
           udp == SubSeq(ip, 4 * w + 1, t)
           u == Uint16be(udp, 4)
           Fit == 4 * w + 8 <= t /\ t <= Len(ip)
<1>1. Len(ip) \in Nat /\ t \in Nat
  <2>1. 2 \in Nat /\ 2 + 2 <= Len(ip) /\ Len(ip) \in Nat
    BY LenProperties DEF Bytes
  <2> QED
    BY <2>1, Uint16beIs
<1>2. ip[1] \div 16 = 4 /\ ip[1] % 16 = w
  <2>1. \A x \in 0 .. 15 : (64 + x) \div 16 = 4 /\ (64 + x) % 16 = x
    OBVIOUS
  <2> QED
    BY <2>1
<1>3. UdpOf(ip) = udp
  BY <1>2 DEF UdpOf
<1> HIDE DEF t
<1>4. ASSUME Fit
      PROVE  /\ udp \in Bytes /\ Len(udp) = t - 4 * w
             /\ \A i \in 1 .. t - 4 * w : udp[i] = ip[4 * w + i]
             /\ u = Uint16be(ip, 4 * w + 4) /\ u \in Nat
  <2>1. 4 * w \in Nat /\ 4 * w <= t /\ t <= Len(ip) /\ 8 <= t - 4 * w
    BY <1>1, <1>4
  <2>2. /\ udp \in Bytes /\ Len(udp) = t - 4 * w
        /\ \A i \in 1 .. t - 4 * w : udp[i] = ip[4 * w + i]
    BY <1>1, <2>1, SliceAt
  <2> HIDE DEF udp
  <2>3. 4 \in Nat /\ 4 + 2 <= Len(udp) /\ 5 \in 1 .. t - 4 * w /\ 6 \in 1 .. t - 4 * w
    BY <1>1, <2>1, <2>2
  <2>4. u \in Nat /\ u = 256 * udp[4 + 1] + udp[4 + 2]
    <3>1. Uint16be(udp, 4) \in Nat
      BY <2>2, <2>3, Uint16beIs
    <3> QED
      BY <3>1 DEF Uint16be
  <2>5. udp[4 + 1] = ip[4 * w + 5] /\ udp[4 + 2] = ip[4 * w + 6]
    BY <2>2, <2>3
  <2>6. Uint16be(ip, 4 * w + 4) = 256 * ip[4 * w + 5] + ip[4 * w + 6]
    <3>1. 4 * w + 4 + 1 = 4 * w + 5 /\ 4 * w + 4 + 2 = 4 * w + 6
      OBVIOUS
    <3> QED
      BY <3>1 DEF Uint16be
  <2> QED
    BY <2>2, <2>4, <2>5, <2>6
<1>5. HoldsUdp(ip) <=> ip[10] = 17 /\ Fit /\ u \in 8 .. Len(udp)
  BY <1>2, <1>3 DEF HoldsUdp, t
<1> HIDE DEF udp, u
<1>6. ASSUME NEW k \in Nat, Datagram(ip, w, k)
      PROVE  HoldsUdp(ip) /\ u = 8 + k /\ Fit
  <2>1. Fit
    BY <1>1, <1>6 DEF Datagram, t
  <2>2. u = 8 + k /\ ip[10] = 17 /\ 4 * w + 8 + k <= t
    BY <1>4, <1>6, <2>1 DEF Datagram, t
  <2>3. u \in 8 .. Len(udp)
    BY <1>1, <1>4, <2>1, <2>2
  <2> QED
    BY <1>5, <2>1, <2>2, <2>3
<1>7. ASSUME HoldsUdp(ip)
      PROVE  \E k \in Nat : Datagram(ip, w, k)
  <2>1. ip[10] = 17 /\ Fit /\ u \in 8 .. Len(udp)
    BY <1>5, <1>7
  <2>2. u - 8 \in Nat /\ 8 + (u - 8) = u /\ 4 * w + 8 + (u - 8) <= t
    BY <1>1, <1>4, <2>1
  <2>3. Datagram(ip, w, u - 8)
    BY <1>4, <2>1, <2>2 DEF Datagram, t
  <2> QED
    BY <2>2, <2>3
<1>8. ASSUME NEW k \in Nat, Datagram(ip, w, k)
      PROVE  Payload(ip) = Field(ip, 4 * w + 8, k)
  <2>1. u = 8 + k /\ Fit /\ 4 * w + 8 + k <= t
    BY <1>6, <1>8 DEF Datagram, t
  <2>2. udp \in Bytes /\ Len(udp) = t - 4 * w /\ \A i \in 1 .. t - 4 * w : udp[i] = ip[4 * w + i]
    BY <1>4, <2>1
  <2> DEFINE p == SubSeq(udp, 9, u)
             q == Field(ip, 4 * w + 8, k)
  <2>3. Payload(ip) = p
    BY <1>3 DEF Payload, u
  <2>4. 8 \in Nat /\ u \in Nat /\ 8 <= u /\ u <= Len(udp) /\ u - 8 = k /\ 8 + 1 = 9
    BY <1>1, <2>1, <2>2
  <2>5. p \in Bytes /\ Len(p) = k /\ \A i \in 1 .. k : p[i] = udp[8 + i]
    <3>1. /\ SubSeq(udp, 8 + 1, u) \in Bytes /\ Len(SubSeq(udp, 8 + 1, u)) = u - 8
          /\ \A i \in 1 .. u - 8 : SubSeq(udp, 8 + 1, u)[i] = udp[8 + i]
      BY <2>2, <2>4, SliceAt
    <3>2. p = SubSeq(udp, 8 + 1, u)
      OBVIOUS
    <3> HIDE DEF p
    <3> QED
      BY <2>4, <3>1, <3>2
  <2>6. 4 * w + 8 \in Nat /\ 4 * w + 8 + k <= Len(ip)
    BY <1>1, <2>1
  <2>7. q \in Bytes /\ Len(q) = k /\ \A i \in 1 .. k : q[i] = ip[4 * w + 8 + i]
    BY <2>6, FieldBytes
  <2> HIDE DEF p, q
  <2>8. ASSUME NEW i \in 1 .. k
        PROVE  p[i] = q[i]
    <3>1. 8 + i \in 1 .. t - 4 * w /\ 4 * w + (8 + i) = 4 * w + 8 + i
      BY <1>1, <2>1
    <3> QED
      BY <2>2, <2>5, <2>7, <3>1
  <2>9. p = q
    BY <2>5, <2>7, <2>8, SameBytes
  <2> QED
    BY <2>3, <2>9 DEF q
<1> QED
  BY <1>6, <1>7, <1>8

(* udpFrame finds in a packet the payload that is whole in it, and no other. *)
LEMMA CarriedIs ==
    ASSUME NEW link \in Nat, NEW pkt \in Bytes, Headed(link, pkt), NEW p
    PROVE  p \in Carried(link, pkt)
              <=> UdpFrame(<<link, pkt>>) /\ p = Payload(IpOf(<<link, pkt>>))
<1> DEFINE r == <<link, pkt>>
<1>1. Len(pkt) \in Nat /\ \A i \in 1 .. Len(pkt) : pkt[i] \in Byte
  BY LenProperties, ElementOfSeq DEF Bytes
<1>2. ASSUME NEW n \in {0, 4, 14, 18}, n + 20 <= Len(pkt), LinkHeader(link, pkt) = n
      PROVE  LET ip == IpOf(r)
             IN  /\ ip \in Bytes /\ Len(ip) = Len(pkt) - n
                 /\ \A i \in 1 .. Len(pkt) - n : ip[i] = pkt[n + i]
  <2>1. n \in Nat /\ n <= Len(pkt)
    BY <1>1, <1>2
  <2> DEFINE ip == SubSeq(pkt, n + 1, Len(pkt))
  <2>2. IpOf(r) = ip
    BY <1>2 DEF IpOf
  <2>3. ip \in Bytes /\ Len(ip) = Len(pkt) - n /\ \A i \in 1 .. Len(pkt) - n : ip[i] = pkt[n + i]
    BY <1>1, <2>1, SliceAt
  <2> HIDE DEF ip
  <2> QED
    BY <2>2, <2>3
<1>3. ASSUME NEW n \in {0, 4, 14, 18}, n + 20 <= Len(pkt), LinkHeader(link, pkt) = n,
             NEW w \in 0 .. 15, NEW k \in Nat, 4 * w + 8 + k <= Len(pkt) - n
      PROVE  LET ip == IpOf(r)
             IN  /\ Whole(link, pkt, n, w, k) <=> ip[1] = 64 + w /\ Datagram(ip, w, k)
                 /\ Field(ip, 4 * w + 8, k) = Field(pkt, n + 4 * w + 8, k)
  <2> DEFINE ip == IpOf(r)
  <2>1. /\ ip \in Bytes /\ Len(ip) = Len(pkt) - n
        /\ \A i \in 1 .. Len(pkt) - n : ip[i] = pkt[n + i]
    BY <1>2, <1>3
  <2> HIDE DEF ip
  <2>2. Framed(link, pkt, n)
    <3>1. n \in Nat
      OBVIOUS
    <3> QED
      BY <1>3, <3>1, HeaderFound
  <2>3. /\ 1 \in 1 .. Len(pkt) - n /\ 10 \in 1 .. Len(pkt) - n
        /\ 3 \in 1 .. Len(pkt) - n /\ 4 \in 1 .. Len(pkt) - n
        /\ 4 * w + 5 \in 1 .. Len(pkt) - n /\ 4 * w + 6 \in 1 .. Len(pkt) - n
    BY <1>1, <1>3
  <2>4. /\ ip[1] = pkt[n + 1] /\ ip[10] = pkt[n + 10]
        /\ Uint16be(ip, 2) = 256 * pkt[n + 2 + 1] + pkt[n + 2 + 2]
        /\ Uint16be(ip, 4 * w + 4) = 256 * pkt[n + (4 * w + 4) + 1] + pkt[n + (4 * w + 4) + 2]
    <3>1. /\ n + 3 = n + 2 + 1 /\ n + 4 = n + 2 + 2
          /\ n + (4 * w + 5) = n + (4 * w + 4) + 1 /\ n + (4 * w + 6) = n + (4 * w + 4) + 2
          /\ 2 + 1 = 3 /\ 2 + 2 = 4 /\ 4 * w + 4 + 1 = 4 * w + 5 /\ 4 * w + 4 + 2 = 4 * w + 6
      OBVIOUS
    <3>2. /\ ip[3] = pkt[n + 3] /\ ip[4] = pkt[n + 4] /\ ip[1] = pkt[n + 1]
          /\ ip[10] = pkt[n + 10] /\ ip[4 * w + 5] = pkt[n + (4 * w + 5)]
          /\ ip[4 * w + 6] = pkt[n + (4 * w + 6)]
      BY <2>1, <2>3
    <3> QED
      BY <3>1, <3>2 DEF Uint16be
  <2>5. n + 4 * w + 8 + k <= Len(pkt)
    BY <1>1, <1>3
  <2>6. Uint16be(ip, 2) \in Nat
    <3>1. 2 \in Nat /\ 2 + 2 <= Len(ip)
      BY <1>1, <1>3, <2>1
    <3> QED
      BY <2>1, <3>1, Uint16beIs
  <2>7. Whole(link, pkt, n, w, k) <=> ip[1] = 64 + w /\ Datagram(ip, w, k)
    <3> DEFINE t == Uint16be(ip, 2)
               v == Uint16be(ip, 4 * w + 4)
    <3>1. Whole(link, pkt, n, w, k) <=>
            /\ ip[1] = 64 + w /\ ip[10] = 17
            /\ t \in 4 * w + 8 + k .. Len(pkt) - n /\ v = 8 + k
      BY <2>2, <2>4, <2>5, Zenon DEF Whole
    <3> HIDE DEF t
    <3>2. t \in 4 * w + 8 + k .. Len(pkt) - n <=> 4 * w + 8 + k <= t /\ t <= Len(ip)
      BY <1>1, <1>3, <2>1, <2>6 DEF t
    <3> QED
      BY <3>1, <3>2 DEF Datagram, t
  <2>8. Field(ip, 4 * w + 8, k) = Field(pkt, n + 4 * w + 8, k)
    <3> DEFINE f == Field(ip, 4 * w + 8, k)
               g == Field(pkt, n + 4 * w + 8, k)
    <3>1. 4 * w + 8 \in Nat /\ 4 * w + 8 + k <= Len(ip) /\ n + 4 * w + 8 \in Nat
      BY <1>1, <1>3, <2>1
    <3>2. f \in Bytes /\ Len(f) = k /\ \A i \in 1 .. k : f[i] = ip[4 * w + 8 + i]
      BY <2>1, <3>1, FieldBytes
    <3>3. g \in Bytes /\ Len(g) = k /\ \A i \in 1 .. k : g[i] = pkt[n + 4 * w + 8 + i]
      BY <2>5, <3>1, FieldBytes
    <3> HIDE DEF f, g
    <3>4. ASSUME NEW i \in 1 .. k
          PROVE  f[i] = g[i]
      <4>1. 4 * w + 8 + i \in 1 .. Len(pkt) - n /\ n + (4 * w + 8 + i) = n + 4 * w + 8 + i
        BY <1>1, <1>3
      <4> QED
        BY <2>1, <3>2, <3>3, <4>1
    <3>5. f = g
      BY <3>2, <3>3, <3>4, SameBytes
    <3> QED
      BY <3>5 DEF f, g
  <2> QED
    BY <2>7, <2>8 DEF ip
<1>4. ASSUME p \in Carried(link, pkt)
      PROVE  UdpFrame(r) /\ p = Payload(IpOf(r))
  <2>1. PICK n \in {0, 4, 14, 18}, w \in 5 .. 15, k \in 0 .. Len(pkt) :
            Whole(link, pkt, n, w, k) /\ p = Field(pkt, n + 4 * w + 8, k)
    BY <1>4 DEF Carried
  <2>2. n + 4 * w + 8 + k <= Len(pkt) /\ Framed(link, pkt, n)
    BY <2>1 DEF Whole
  <2>3. /\ n \in Nat /\ n + 20 <= Len(pkt) /\ 4 * w + 8 + k <= Len(pkt) - n
        /\ w \in 0 .. 15 /\ k \in Nat
    BY <1>1, <2>2
  <2>4. LinkHeader(link, pkt) = n
    BY <2>2, <2>3, HeaderFound
  <2> DEFINE ip == IpOf(r)
  <2>5. ip \in Bytes /\ Len(ip) >= 20
    BY <1>1, <1>2, <2>3, <2>4
  <2>6. /\ ip[1] = 64 + w /\ Datagram(ip, w, k)
        /\ Field(ip, 4 * w + 8, k) = Field(pkt, n + 4 * w + 8, k)
    BY <1>3, <2>1, <2>3, <2>4
  <2> HIDE DEF ip
  <2>7. HoldsUdp(ip) /\ Payload(ip) = Field(ip, 4 * w + 8, k)
    BY <2>3, <2>5, <2>6, DatagramRead
  <2>8. LinkHeader(link, pkt) # NoIp
    BY <2>3, <2>4 DEF NoIp
  <2> QED
    BY <2>1, <2>6, <2>7, <2>8 DEF UdpFrame, ip
<1>5. ASSUME UdpFrame(r), p = Payload(IpOf(r))
      PROVE  p \in Carried(link, pkt)
  <2> DEFINE n == LinkHeader(link, pkt)
             ip == IpOf(r)
  <2>1. n \in {0, 4, 14, 18} /\ HoldsUdp(ip)
    BY <1>5 DEF UdpFrame, LinkHeader, NoIp
  <2>2. ip = SubSeq(pkt, n + 1, Len(pkt))
    BY DEF IpOf
  <2>3. Len(ip) >= 20 /\ ip[1] \div 16 = 4
    BY <2>1 DEF HoldsUdp
  <2> HIDE DEF n, ip
  <2>4. n + 20 <= Len(pkt)
    <3>1. CASE n <= Len(pkt)
      <4>1. Len(ip) = Len(pkt) - n
        BY <1>1, <2>1, <2>2, <3>1, SliceAt
      <4> QED
        BY <1>1, <2>1, <2>3, <4>1
    <3>2. CASE n > Len(pkt)
      <4>1. Len(ip) = 0
        <5>1. ~ (n + 1 <= Len(pkt)) /\ \A i \in n + 1 .. Len(pkt) : pkt[i] \in Byte
          BY <1>1, <2>1, <3>2
        <5> QED
          BY <1>1, <2>1, <2>2, <5>1, SubSeqProperties
      <4> QED
        BY <2>3, <4>1
    <3> QED
      BY <1>1, <2>1, <3>1, <3>2
  <2>5. LinkHeader(link, pkt) = n
    BY DEF n
  <2>6. /\ ip \in Bytes /\ Len(ip) = Len(pkt) - n
        /\ \A i \in 1 .. Len(pkt) - n : ip[i] = pkt[n + i]
    BY <1>2, <2>1, <2>4, <2>5 DEF ip
  <2> DEFINE w == ip[1] % 16
  <2>7. ip[1] = 64 + w /\ w \in 0 .. 15
    <3>1. ip[1] \in Byte
      BY <2>3, <2>6, LenProperties, ElementOfSeq DEF Bytes
    <3>2. \A x \in 0 .. 255 : x \div 16 = 4 => x = 64 + (x % 16) /\ x % 16 \in 0 .. 15
      OBVIOUS
    <3> QED
      BY <2>3, <3>1, <3>2 DEF Byte
  <2>8. w \in 5 .. 15
    <3>1. Framed(link, pkt, n)
      <4>1. n \in Nat
        BY <2>1
      <4> QED
        BY <2>4, <2>5, <4>1, HeaderFound
    <3>2. pkt[n + 1] \notin 64 .. 68
      BY <2>1, <2>4, <3>1 DEF Headed
    <3>3. pkt[n + 1] = 64 + w
      <4>1. 1 \in 1 .. Len(pkt) - n
        BY <1>1, <2>1, <2>4
      <4> QED
        BY <2>6, <2>7, <4>1
    <3> HIDE DEF w
    <3> QED
      BY <2>7, <3>2, <3>3
  <2> HIDE DEF w
  <2>9. PICK k \in Nat : Datagram(ip, w, k)
    BY <2>1, <2>3, <2>6, <2>7, DatagramRead
  <2>10. Payload(ip) = Field(ip, 4 * w + 8, k)
    BY <2>3, <2>6, <2>7, <2>9, DatagramRead
  <2>11. 4 * w + 8 + k <= Len(pkt) - n /\ k \in 0 .. Len(pkt)
    <3>1. Uint16be(ip, 2) \in Nat
      <4>1. 2 \in Nat /\ 2 + 2 <= Len(ip)
        BY <1>1, <2>1, <2>4, <2>6
      <4> QED
        BY <2>6, <4>1, Uint16beIs
    <3> QED
      BY <1>1, <2>1, <2>6, <2>7, <2>9, <3>1 DEF Datagram
  <2>12. Whole(link, pkt, n, w, k) /\ Payload(ip) = Field(pkt, n + 4 * w + 8, k)
    BY <1>3, <2>1, <2>4, <2>5, <2>7, <2>9, <2>10, <2>11 DEF ip
  <2>13. \E x \in {0, 4, 14, 18} \X (5 .. 15) \X (0 .. Len(pkt)) :
            /\ Whole(link, pkt, x[1], x[2], x[3])
            /\ p = Field(pkt, x[1] + 4 * x[2] + 8, x[3])
    <3>1. <<n, w, k>> \in {0, 4, 14, 18} \X (5 .. 15) \X (0 .. Len(pkt))
      BY <2>1, <2>8, <2>11
    <3> QED
      BY <1>5, <2>12, <3>1 DEF ip
  <2> QED
    BY <2>13 DEF Carried
<1> QED
  BY <1>4, <1>5

(* A packet that claims more than its block holds is still bytes. *)
LEMMA SliceBytes ==
    ASSUME NEW b \in BlockSet
    PROVE  Slice(b) \in Bytes
<1>1. b.data \in Bytes /\ b.claims \in Nat
  BY DEF BlockSet
<1>2. Len(b.data) \in Nat /\ \A i \in 1 .. Len(b.data) : b.data[i] \in Byte
  BY <1>1, LenProperties, ElementOfSeq DEF Bytes
<1>3. CASE b.claims <= Len(b.data)
  <2>1. \A i \in 1 .. b.claims : b.data[i] \in Byte
    BY <1>1, <1>2, <1>3
  <2>2. SubSeq(b.data, 1, b.claims) \in Seq(Byte)
    BY <1>1, <1>2, <1>3, <2>1, SubSeqProperties
  <2> QED
    BY <1>3, <2>2 DEF Slice, Bytes
<1>4. CASE b.claims > Len(b.data)
  <2> DEFINE n == b.claims - Len(b.data)
             t == [i \in 1 .. n |-> 238]
  <2>1. n \in Nat /\ 238 \in Byte
    BY <1>1, <1>2, <1>4 DEF Byte
  <2>2. t \in Seq(Byte)
    <3> HIDE DEF n
    <3> QED
      BY <2>1
  <2>3. ~ (b.claims <= Len(b.data))
    BY ONLY <1>1, <1>2, <1>4, SMT
  <2>4. Slice(b) = b.data \o t
    BY ONLY <2>3, Zenon DEF Slice
  <2> HIDE DEF t
  <2> QED
    BY <1>1, <2>2, <2>4 DEF Bytes
<1> QED
  BY <1>1, <1>2, <1>3, <1>4

(* The reader never reads on behind the last block. *)
LEMMA ReadKept ==
    ASSUME CaptureInv, ReadStep
    PROVE  CaptureInv'
<1> DEFINE N == Nat
           P == Nat \X Bytes
<1> USE DEF CaptureInv
<1>1. reader = "reading" /\ file' = file /\ file \in File
  BY DEF ReadStep, CorruptBlock, NextBlock, SectionHeader, InterfaceDescription,
         EnhancedPacket, SimplePacket, OtherBlock, PcapRecord, EndOfFile, Reading
<1>2. file.blocks \in Seq(BlockSet) /\ Len(file.blocks) \in Nat
  BY <1>1, LenProperties DEF File
<1>3. linktypes \in Seq(N) /\ raw \in Seq(P) /\ Len(linktypes) \in Nat /\ Len(raw) \in Nat
      /\ \A i \in 1 .. Len(linktypes) : linktypes[i] \in N
  BY LenProperties, ElementOfSeq
<1>4. ASSUME pos < Len(file.blocks)
      PROVE  /\ Block \in BlockSet /\ pos + 1 \in 0 .. Len(file.blocks)
             /\ Slice(Block) \in Bytes /\ Block.data \in Bytes /\ Block.link \in Nat
             /\ Block.order \in {"little", "big"} /\ Block.iface \in Nat
  <2>1. Block \in BlockSet
    BY <1>2, <1>4, ElementOfSeq DEF Block
  <2>2. pos + 1 \in 0 .. Len(file.blocks)
    BY <1>2, <1>4
  <2>3. Slice(Block) \in Bytes
    BY <2>1, SliceBytes
  <2> DEFINE b == Block
  <2> HIDE DEF b
  <2>4. b \in BlockSet
    BY <2>1 DEF b
  <2>5. /\ b.data \in Bytes /\ b.link \in Nat
        /\ b.order \in {"little", "big"} /\ b.iface \in Nat
    BY <2>4 DEF BlockSet
  <2> QED
    BY <2>1, <2>2, <2>3, <2>5 DEF b
<1>5. \A i \in Nat : LinkOf(i) \in Nat
  BY <1>3 DEF LinkOf
<1>6. ASSUME NEW link \in Nat, pos < Len(file.blocks), KeepPacket(link)
      PROVE  /\ raw' \in Seq(P)
             /\ reader' \in {"reading", "panic"}
  <2>1. <<link, Slice(Block)>> \in P
    BY <1>4, <1>6
  <2> HIDE DEF P
  <2>2. Append(raw, <<link, Slice(Block)>>) \in Seq(P)
    BY <1>3, <2>1, AppendProperties
  <2> QED
    BY <1>1, <1>3, <1>6, <2>2 DEF KeepPacket
<1>7. CASE CorruptBlock
  BY <1>1, <1>7 DEF CorruptBlock
<1>8. CASE SectionHeader
  <2>1. << >> \in Seq(N)
    <3> HIDE DEF N
    <3> QED
      OBVIOUS
  <2> QED
    BY <1>1, <1>4, <1>8, <2>1 DEF SectionHeader, NextBlock, Reading
<1>9. CASE InterfaceDescription
  <2>1. Append(linktypes, Block.link) \in Seq(N)
    <3>1. Block.link \in N
      BY <1>4, <1>9 DEF InterfaceDescription, NextBlock
    <3> HIDE DEF N
    <3> QED
      BY <1>3, <3>1, AppendProperties
  <2> QED
    BY <1>1, <1>4, <1>9, <2>1 DEF InterfaceDescription, NextBlock, Reading
<1>10. CASE EnhancedPacket
  <2>1. pos < Len(file.blocks) /\ LinkOf(Block.iface) \in Nat
    BY <1>4, <1>5, <1>10 DEF EnhancedPacket, NextBlock
  <2>2. raw' \in Seq(P) /\ reader' \in {"reading", "panic"}
    BY <1>6, <1>10, <2>1 DEF EnhancedPacket
  <2> QED
    BY <1>1, <1>4, <1>10, <2>2 DEF EnhancedPacket, NextBlock, Reading
<1>11. CASE SimplePacket
  <2>1. pos < Len(file.blocks) /\ LinkOf(0) \in Nat
    BY <1>5, <1>11 DEF SimplePacket, NextBlock
  <2>2. raw' \in Seq(P) /\ reader' \in {"reading", "panic"}
    BY <1>6, <1>11, <2>1 DEF SimplePacket
  <2> QED
    BY <1>1, <1>4, <1>11, <2>2 DEF SimplePacket, NextBlock, Reading
<1>12. CASE OtherBlock
  BY <1>1, <1>4, <1>12 DEF OtherBlock, NextBlock, Reading
<1>13. CASE PcapRecord
  <2>1. pos < Len(file.blocks) /\ Len(linktypes) > 0
    BY <1>1, <1>13 DEF PcapRecord, Reading
  <2>2. <<linktypes[1], Block.data>> \in P
    BY <1>3, <1>4, <2>1
  <2>3. Append(raw, <<linktypes[1], Block.data>>) \in Seq(P)
    <3> HIDE DEF P
    <3> QED
      BY <1>3, <2>2, AppendProperties
  <2> QED
    BY <1>1, <1>4, <1>13, <2>1, <2>3 DEF PcapRecord
<1>14. CASE EndOfFile
  BY <1>1, <1>14 DEF EndOfFile
<1> QED
  BY <1>7, <1>8, <1>9, <1>10, <1>11, <1>12, <1>13, <1>14 DEF ReadStep

(* Only the reader changes what it holds. *)
LEMMA CaptureKept ==
    ASSUME CaptureInv, Next
    PROVE  CaptureInv'
<1>1. ASSUME UNCHANGED <<file, reader, pos, order, linktypes, raw>>
      PROVE  CaptureInv'
  BY <1>1 DEF CaptureInv
<1>2. ASSUME CliStep, UNCHANGED <<cameraVars, captureVars>>
      PROVE  CaptureInv'
  BY <1>1, <1>2 DEF captureVars
<1>3. ASSUME NEW c \in Cameras, Answer(c)
      PROVE  CaptureInv'
  BY <1>1, <1>3 DEF Answer, captureVars
<1>4. CASE Captured
  <2>1. PICK f \in File : OpenFile(f)
    BY <1>4 DEF Captured
  <2> DEFINE N == Nat
  <2>2. f.link \in N /\ f.blocks \in Seq(BlockSet)
    BY DEF File
  <2> HIDE DEF N
  <2>3. << >> \in Seq(N) /\ <<f.link>> \in Seq(N) /\ Len(<<f.link>>) = 1
    BY <2>2
  <2>4. Len(f.blocks) \in Nat
    BY <2>2, LenProperties
  <2> QED
    BY <2>1, <2>2, <2>3, <2>4 DEF OpenFile, CaptureInv, N
<1>5. CASE Read
  BY <1>5, ReadKept DEF Read
<1>6. CASE Show
  BY <1>1, <1>6 DEF Show, Inspect
<1> QED
  BY <1>2, <1>3, <1>4, <1>5, <1>6 DEF Next

(* A file of which nothing is read. *)
LEMMA NothingRead ==
    ASSUME NEW f
    PROVE  KeptAs(f, 0, << >>) /\ NumberedAs(f, 0, << >>)
<1>1. Number(f, 0) = 0
  BY NumberNext
<1>2. Declared(f, 0) = {} /\ Cardinality({}) = 0
  BY FS_EmptySet DEF Declared
<1>3. Len(<< >>) = 0 /\ 1 .. 0 = {} /\ 0 .. 0 - 1 = {}
  OBVIOUS
<1> DEFINE none == << >>
<1>4. Len(none) = 0
  BY <1>3
<1> HIDE DEF none
<1>5. KeptAs(f, 0, none)
  BY <1>1, <1>3, <1>4 DEF KeptAs
<1>6. NumberedAs(f, 0, none)
  BY <1>2, <1>3, <1>4 DEF NumberedAs
<1> QED
  BY <1>5, <1>6 DEF none

(* Of a block that is whole, the packet is all of its data. *)
LEMMA SliceWhole ==
    ASSUME NEW b \in BlockSet, b.claims = Len(b.data)
    PROVE  Slice(b) = b.data /\ ~ (b.claims > Len(b.data) + b.tail)
<1>1. b.data \in Bytes /\ b.claims \in Nat /\ b.tail \in Nat
  BY DEF BlockSet
<1>2. SubSeq(b.data, 1, Len(b.data)) = b.data
  BY <1>1, SubSeqFull DEF Bytes
<1> QED
  BY <1>1, <1>2 DEF Slice

(* The reader takes one block after the other, none twice and all of them. *)
LEMMA FileKept ==
    ASSUME CaptureInv, FileInv, ReadStep
    PROVE  FileInv'
<1> DEFINE N == Nat
           P == Nat \X Bytes
<1>1. reader = "reading" /\ file' = file /\ file \in File /\ reader' # "idle"
  BY DEF ReadStep, CorruptBlock, NextBlock, SectionHeader, InterfaceDescription,
         EnhancedPacket, SimplePacket, OtherBlock, PcapRecord, EndOfFile, Reading,
         KeepPacket, CaptureInv
<1> SUFFICES ASSUME Truthful(file)
             PROVE  /\ KeptAs(file, pos', raw')
                    /\ IF file.format = "pcap" THEN linktypes' = <<file.link>>
                       ELSE NumberedAs(file, pos', linktypes')
                    /\ reader' = "done" =>
                         \A i \in pos' + 1 .. Len(file.blocks) : file.blocks[i].size # "ok"
  BY <1>1 DEF FileInv
<1>2. file.blocks \in Seq(BlockSet) /\ Len(file.blocks) \in Nat
      /\ DOMAIN file.blocks = 1 .. Len(file.blocks)
  BY <1>1, LenProperties DEF File
<1>3. /\ linktypes \in Seq(N) /\ raw \in Seq(P) /\ linktypes' \in Seq(N) /\ raw' \in Seq(P)
      /\ pos \in 0 .. Len(file.blocks) /\ pos \in Nat
  <2>1. CaptureInv'
    BY ReadKept
  <2> QED
    BY <1>2, <2>1 DEF CaptureInv
<1>4. /\ KeptAs(file, pos, raw)
      /\ IF file.format = "pcap" THEN linktypes = <<file.link>>
         ELSE NumberedAs(file, pos, linktypes)
  BY <1>1 DEF FileInv
<1>5. ASSUME pos < Len(file.blocks)
      PROVE  /\ Block = file.blocks[pos + 1] /\ Block \in BlockSet /\ Block.link \in Nat
             /\ Block.iface \in Nat
             /\ file.format = "pcap" <=> Block.type = "record"
             /\ file.format = "pcap" => Block.size = "ok" \/ pos + 1 = Len(file.blocks)
             /\ IsPacket(Block) => /\ Block.claims = Len(Block.data)
                                  /\ Slice(Block) = Block.data
                                  /\ ~ (Block.claims > Len(Block.data) + Block.tail)
  <2>1. pos + 1 \in 1 .. Len(file.blocks)
    BY <1>2, <1>3, <1>5
  <2>2. Block = file.blocks[pos + 1]
    BY DEF Block
  <2> DEFINE b == file.blocks[pos + 1]
  <2>3. b \in BlockSet
    BY <1>2, <2>1, ElementOfSeq
  <2>4. /\ file.format = "pcap" <=> b.type = "record"
        /\ file.format = "pcap" => b.size = "ok" \/ pos + 1 = Len(file.blocks)
        /\ IsPacket(b) => b.claims = Len(b.data)
    BY <1>2, <2>1, Zenon DEF Truthful
  <2> HIDE DEF b
  <2>5. b.link \in Nat /\ b.iface \in Nat
    BY <2>3 DEF BlockSet
  <2>6. IsPacket(b) => Slice(b) = b.data /\ ~ (b.claims > Len(b.data) + b.tail)
    BY <2>3, <2>4, SliceWhole
  <2>7. Block = b
    BY <2>2 DEF b
  <2> HIDE DEF Block
  <2> QED
    BY <2>2, <2>3, <2>4, <2>5, <2>6, <2>7
<1>6. CASE CorruptBlock
  BY <1>4, <1>6 DEF CorruptBlock
<1>7. CASE EndOfFile
  <2>1. pos' = pos /\ raw' = raw /\ linktypes' = linktypes
    BY <1>7 DEF EndOfFile
  <2>2. ASSUME NEW i \in pos + 1 .. Len(file.blocks)
        PROVE  file.blocks[i].size # "ok"
    <3>1. pos < Len(file.blocks)
      BY <1>2, <1>3
    <3>2. file.format = "pcap" /\ Block.size # "ok" /\ pos + 1 = Len(file.blocks)
      BY <1>5, <1>7, <3>1 DEF EndOfFile
    <3>3. i = pos + 1
      BY <1>2, <1>3, <3>2
    <3> QED
      BY <1>5, <3>1, <3>2, <3>3
  <2> QED
    BY <1>4, <2>1, <2>2
<1>8. CASE PcapRecord
  <2>1. /\ file.format = "pcap" /\ pos < Len(file.blocks) /\ Block.size = "ok" /\ pos' = pos + 1
        /\ raw' = Append(raw, <<linktypes[1], Block.data>>) /\ linktypes' = linktypes
        /\ reader' = reader
    BY <1>8 DEF PcapRecord, Reading
  <2>2. Block = file.blocks[pos + 1] /\ IsPacket(Block) /\ Block \in BlockSet
    BY <1>5, <2>1 DEF IsPacket
  <2>3. linktypes[1] = file.link /\ LinkType(file, pos + 1) = file.link
    BY <1>4, <2>1 DEF LinkType
  <2>4. <<file.link, Block.data>> \in P
    <3> DEFINE b == Block
    <3> HIDE DEF b
    <3>1. b \in BlockSet
      BY <2>2 DEF b
    <3>2. b.data \in Bytes
      BY <3>1 DEF BlockSet
    <3> QED
      BY <1>1, <3>2 DEF File, b
  <2> HIDE DEF P, Block
  <2>5. KeptAs(file, pos + 1, raw')
    BY <1>3, <1>4, <2>1, <2>2, <2>3, <2>4, KeptNext
  <2> QED
    BY <1>1, <1>4, <2>1, <2>5
<1>9. ASSUME NextBlock
      PROVE  /\ pos < Len(file.blocks) /\ pos' = pos + 1 /\ file.format # "pcap"
             /\ Block.size = "ok" /\ NumberedAs(file, pos, linktypes)
  <2>1. file.format = "pcapng" /\ pos < Len(file.blocks) /\ Legible /\ pos' = pos + 1
    BY <1>9 DEF NextBlock, Reading
  <2> QED
    BY <1>4, <2>1 DEF Legible
<1>10. ASSUME NextBlock, Block.type \notin {"enhanced", "simple"}, raw' = raw
       PROVE  KeptAs(file, pos', raw')
  <2>1. pos < Len(file.blocks) /\ file.format # "pcap" /\ Block.size = "ok" /\ pos' = pos + 1
    BY <1>9, <1>10
  <2>2. Block = file.blocks[pos + 1] /\ ~ IsPacket(Block)
    BY <1>5, <1>10, <2>1 DEF IsPacket
  <2> HIDE DEF P, Block
  <2> QED
    BY <1>3, <1>4, <1>10, <2>1, <2>2, KeptNext
<1>11. CASE SectionHeader
  <2>1. NextBlock /\ Block.type = "section" /\ linktypes' = << >> /\ raw' = raw /\ reader' = reader
    BY <1>11 DEF SectionHeader
  <2>2. NumberedAs(file, pos + 1, linktypes')
    <3>1. Block = file.blocks[pos + 1]
      BY DEF Block
    <3> HIDE DEF N, Block
    <3> QED
      BY <1>3, <2>1, <3>1, NumberedNext
  <2> QED
    BY <1>1, <1>9, <1>10, <2>1, <2>2
<1>12. CASE InterfaceDescription
  <2>1. NextBlock /\ Block.type = "interface" /\ linktypes' = Append(linktypes, Block.link)
        /\ raw' = raw /\ reader' = reader
    BY <1>12 DEF InterfaceDescription
  <2>2. NumberedAs(file, pos, linktypes) /\ Block.link \in N
    BY <1>5, <1>9, <2>1
  <2>3. NumberedAs(file, pos + 1, linktypes')
    <3>1. Block = file.blocks[pos + 1]
      BY DEF Block
    <3> HIDE DEF N, Block
    <3> QED
      BY <1>3, <2>1, <2>2, <3>1, NumberedNext
  <2> QED
    BY <1>1, <1>9, <1>10, <2>1, <2>3
<1>13. CASE OtherBlock
  <2>1. NextBlock /\ Block.type = "other" /\ linktypes' = linktypes
        /\ raw' = raw /\ reader' = reader
    BY <1>13 DEF OtherBlock
  <2>2. NumberedAs(file, pos, linktypes)
    BY <1>9, <2>1
  <2>3. NumberedAs(file, pos + 1, linktypes')
    <3>1. Block = file.blocks[pos + 1]
      BY DEF Block
    <3> HIDE DEF N, Block
    <3> QED
      BY <1>3, <2>1, <2>2, <3>1, NumberedNext
  <2> QED
    BY <1>1, <1>9, <1>10, <2>1, <2>3
<1>14. CASE EnhancedPacket \/ SimplePacket
  <2> DEFINE q == IF Block.type = "simple" THEN 0 ELSE Block.iface
  <2>1. /\ NextBlock /\ Block.type \in {"enhanced", "simple"}
        /\ KeepPacket(LinkOf(q)) /\ linktypes' = linktypes
    BY <1>14 DEF EnhancedPacket, SimplePacket
  <2>2. /\ pos < Len(file.blocks) /\ pos' = pos + 1 /\ file.format # "pcap"
        /\ Block.size = "ok" /\ NumberedAs(file, pos, linktypes)
    BY <1>9, <2>1
  <2>3. /\ Block = file.blocks[pos + 1] /\ IsPacket(Block) /\ Block \in BlockSet
        /\ Block.iface \in Nat /\ Slice(Block) = Block.data
        /\ ~ (Block.claims > Len(Block.data) + Block.tail)
    BY <1>5, <2>1, <2>2 DEF IsPacket
  <2>4. raw' = Append(raw, <<LinkOf(q), Block.data>>) /\ reader' = reader
    BY <2>1, <2>3 DEF KeepPacket
  <2> HIDE DEF Block
  <2>5. LinkOf(q) = LinkType(file, pos + 1)
    BY <1>3, <2>2, <2>3, LinkFound
  <2> HIDE DEF q
  <2>6. <<LinkType(file, pos + 1), Block.data>> \in P
    <3>1. LinkOf(q) \in Nat
      <4>1. \A i \in 1 .. Len(linktypes) : linktypes[i] \in Nat
        BY <1>3, LenProperties, ElementOfSeq
      <4>2. q \in Nat /\ Len(linktypes) \in Nat
        BY <1>3, <2>3, LenProperties DEF q
      <4> QED
        BY <4>1, <4>2 DEF LinkOf
    <3> DEFINE b == Block
    <3>2. b \in BlockSet
      BY <2>3
    <3> HIDE DEF b
    <3>3. b.data \in Bytes
      BY <3>2 DEF BlockSet
    <3> QED
      BY <2>5, <3>1, <3>3 DEF b
  <2>7. KeptAs(file, pos + 1, raw')
    <3> HIDE DEF P
    <3> QED
      BY <1>3, <1>4, <2>2, <2>3, <2>4, <2>5, <2>6, KeptNext
  <2>8. NumberedAs(file, pos + 1, linktypes')
    <3>1. Block.type \notin {"section", "interface"}
      BY <2>1
    <3> HIDE DEF N
    <3> QED
      BY <1>3, <2>1, <2>2, <2>3, <3>1, NumberedNext
  <2> QED
    BY <1>1, <2>2, <2>4, <2>7, <2>8
<1> QED
  BY <1>6, <1>7, <1>8, <1>11, <1>12, <1>13, <1>14 DEF ReadStep

(* So whatever happens, it holds what it has read. *)
LEMMA FileNext ==
    ASSUME CaptureInv, FileInv, Next
    PROVE  FileInv'
<1>1. ASSUME UNCHANGED <<file, reader, pos, linktypes, raw>>
      PROVE  FileInv'
  BY <1>1 DEF FileInv
<1>2. ASSUME CliStep, UNCHANGED <<cameraVars, captureVars>>
      PROVE  FileInv'
  BY <1>1, <1>2 DEF captureVars
<1>3. ASSUME NEW c \in Cameras, Answer(c)
      PROVE  FileInv'
  BY <1>1, <1>3 DEF Answer, captureVars
<1>4. CASE Captured
  <2>1. PICK f \in File : OpenFile(f)
    BY <1>4 DEF Captured
  <2>2. /\ file' = f /\ reader' \in {"reading", "corrupt"} /\ pos' = 0 /\ raw' = << >>
        /\ linktypes' = IF f.format = "pcap" THEN <<f.link>> ELSE << >>
    BY <2>1 DEF OpenFile, CaptureInv, FileInv
  <2>3. KeptAs(f, 0, << >>) /\ NumberedAs(f, 0, << >>)
    BY NothingRead
  <2> QED
    BY <2>2, <2>3 DEF FileInv
<1>5. CASE Read
  BY <1>5, FileKept DEF Read
<1>6. CASE Show
  BY <1>1, <1>6 DEF Show, Inspect
<1> QED
  BY <1>2, <1>3, <1>4, <1>5, <1>6 DEF Next

(* The frames of a file that keeps to its format. *)
LEMMA FramesFound ==
    ASSUME CaptureInv, FileInv, Truthful(file), reader = "done"
    PROVE  FramesAreThePackets
<1> DEFINE P == Nat \X Bytes
           there == {i \in DOMAIN file.blocks :
                       IsPacket(file.blocks[i]) /\ file.blocks[i].size = "ok"}
           of(i) == {[no |-> Number(file, i), payload |-> p] : p \in file.blocks[i].carries}
           frame(m) == [no |-> m, payload |-> Payload(IpOf(raw[m]))]
<1>1. /\ DOMAIN file.blocks = 1 .. Len(file.blocks) /\ Len(file.blocks) \in Nat
      /\ pos \in 0 .. Len(file.blocks)
  <2>1. file.blocks \in Seq(BlockSet)
    BY DEF CaptureInv, File
  <2> QED
    BY <2>1, LenProperties DEF CaptureInv
<1>2. DOMAIN raw = 1 .. Len(raw) /\ \A m \in 1 .. Len(raw) : raw[m] \in P
  <2>1. raw \in Seq(P)
    BY DEF CaptureInv
  <2> HIDE DEF P
  <2> QED
    BY <2>1, LenProperties, ElementOfSeq
<1>3. /\ KeptAs(file, pos, raw)
      /\ \A i \in pos + 1 .. Len(file.blocks) : file.blocks[i].size # "ok"
  BY DEF FileInv
<1>4. ASSUME NEW i \in 1 .. pos, IsPacket(file.blocks[i])
      PROVE  /\ i \in there /\ Number(file, i) \in DOMAIN raw
             /\ \A p : p \in file.blocks[i].carries
                         <=> /\ UdpFrame(raw[Number(file, i)])
                             /\ p = Payload(IpOf(raw[Number(file, i)]))
  <2> DEFINE link == LinkType(file, i)
             pkt == file.blocks[i].data
             m == Number(file, i)
  <2>1. i \in DOMAIN file.blocks
    BY <1>1
  <2>2. /\ file.blocks[i].size = "ok" /\ m \in 1 .. Len(raw) /\ raw[m] = <<link, pkt>>
    BY <1>3, <1>4 DEF KeptAs
  <2>3. Headed(link, pkt) /\ file.blocks[i].carries = Carried(link, pkt)
    BY <1>4, <2>1, Zenon DEF Truthful
  <2> HIDE DEF link, pkt, m
  <2>4. link \in Nat /\ pkt \in Bytes
    <3>1. <<link, pkt>> \in P
      BY <1>2, <2>2
    <3> QED
      BY <3>1
  <2>5. \A p : p \in Carried(link, pkt)
                 <=> UdpFrame(<<link, pkt>>) /\ p = Payload(IpOf(<<link, pkt>>))
    BY <2>3, <2>4, CarriedIs
  <2>6. \A p : p \in file.blocks[i].carries <=> UdpFrame(raw[m]) /\ p = Payload(IpOf(raw[m]))
    BY <2>2, <2>3, <2>5
  <2>7. i \in there /\ m \in DOMAIN raw
    BY <1>2, <1>4, <2>1, <2>2
  <2> QED
    BY <2>6, <2>7 DEF m
<1>5. ASSUME NEW i \in there
      PROVE  i \in 1 .. pos /\ IsPacket(file.blocks[i])
  <2>1. i \in 1 .. Len(file.blocks) /\ file.blocks[i].size = "ok" /\ IsPacket(file.blocks[i])
    BY <1>1
  <2>2. i \notin pos + 1 .. Len(file.blocks)
    BY <1>3, <2>1
  <2> QED
    BY <1>1, <2>1, <2>2
<1>6. \A m \in DOMAIN raw : \E i \in 1 .. pos : IsPacket(file.blocks[i]) /\ Number(file, i) = m
  BY <1>2, <1>3 DEF KeptAs
<1>7. ASSUME NEW m \in DOMAIN raw, UdpFrame(raw[m])
      PROVE  \E i \in there : frame(m) \in of(i)
  <2>1. PICK i \in 1 .. pos : IsPacket(file.blocks[i]) /\ Number(file, i) = m
    BY <1>6, <1>7
  <2>2. i \in there /\ Payload(IpOf(raw[m])) \in file.blocks[i].carries
    BY <1>4, <1>7, <2>1
  <2> HIDE DEF there
  <2>3. frame(m) \in of(i)
    BY <2>1, <2>2
  <2> QED
    BY <2>2, <2>3
<1>8. ASSUME NEW i \in there, NEW x \in of(i)
      PROVE  \E m \in DOMAIN raw : UdpFrame(raw[m]) /\ x = frame(m)
  <2>1. i \in 1 .. pos /\ IsPacket(file.blocks[i])
    BY <1>5, <1>8
  <2> DEFINE m == Number(file, i)
  <2>2. PICK p \in file.blocks[i].carries : x = [no |-> m, payload |-> p]
    BY <1>8
  <2>3. m \in DOMAIN raw /\ UdpFrame(raw[m]) /\ p = Payload(IpOf(raw[m]))
    BY <1>4, <2>1, <2>2
  <2> HIDE DEF m
  <2> QED
    BY <2>2, <2>3
<1>9. frames = {frame(m) : m \in {m \in DOMAIN raw : UdpFrame(raw[m])}}
  BY DEF frames
<1>10. frames = UNION {of(i) : i \in there}
  <2> HIDE DEF there, of, frame
  <2> QED
    BY <1>7, <1>8, <1>9
<1> QED
  BY <1>10 DEF FramesAreThePackets

(* What show makes of a frame. *)
LEMMA ShowSays ==
    ASSUME NEW n, NEW p
    PROVE  LET s == cmdShow(n, p)
           IN  /\ s.verb = "show" /\ s.frame = n /\ s.is \notin {"match", "mismatch"}
               /\ s.is = "set" => s.says = decodeSet(p)
  BY DEF cmdShow

(* What diff makes of a frame. *)
LEMMA DiffSays ==
    ASSUME NEW n, NEW p
    PROVE  LET s == cmdDiff(n, p)
               d == Differ(p, BuildSetNetwork(decodeSet(p), Nil))
           IN  /\ s.verb = "diff" /\ s.frame = n /\ s.is # "set"
               /\ s.is = "match" => d = {}
               /\ s.is = "mismatch" => d # {}
  BY DEF cmdDiff

(* What was said of a frame stays true of it: nothing is read after. *)
LEMMA ShownKept ==
    ASSUME CameraInv, ShownInv, Next
    PROVE  ShownInv'
<1>1. ASSUME UNCHANGED <<raw, shown>>, reader' = "done"
      PROVE  ShownInv'
  <2>1. frames' = frames
    BY <1>1 DEF frames, UdpFrame, IpOf
  <2> QED
    BY <1>1, <2>1 DEF ShownInv, found, find
<1>2. ASSUME UNCHANGED shown, shown.verb = "none"
      PROVE  ShownInv'
  BY <1>2 DEF ShownInv
<1>3. shown.verb # "none" => reader = "done"
  BY DEF ShownInv
<1>4. ASSUME CliStep, UNCHANGED <<cameraVars, captureVars>>
      PROVE  ShownInv'
  BY <1>1, <1>2, <1>3, <1>4 DEF captureVars
<1>5. ASSUME NEW c \in Cameras, Answer(c)
      PROVE  ShownInv'
  BY <1>1, <1>2, <1>3, <1>5 DEF Answer, captureVars
<1>6. CASE Captured
  BY <1>2, <1>3, <1>6 DEF Captured, OpenFile
<1>7. CASE Read
  <2>1. reader = "reading" /\ shown' = shown
    BY <1>7 DEF Read, ReadStep, CorruptBlock, NextBlock, SectionHeader, InterfaceDescription,
                EnhancedPacket, SimplePacket, OtherBlock, PcapRecord, EndOfFile, Reading
  <2> QED
    BY <1>2, <1>3, <2>1
<1>8. CASE Show
  <2>1. PICK verb \in {"list", "show", "diff"}, n \in 0 .. Len(raw) + 1 : Inspect(verb, n)
    BY <1>8 DEF Show
  <2>2. reader' = "done" /\ raw' = raw
    BY <2>1 DEF Inspect
  <2>3. frames' = frames
    BY <2>2 DEF frames, UdpFrame, IpOf
  <2>4. CASE verb = "list"
    BY <2>1, <2>2, <2>4 DEF Inspect, cmdList, ShownInv
  <2>5. CASE verb # "list" /\ ~ found(n)
    <3>1. shown' = [Nothing EXCEPT !.verb = verb, !.frame = n, !.is = "no such frame"]
      BY <2>1, <2>5 DEF Inspect
    <3> QED
      BY <2>1, <2>2, <2>5, <3>1 DEF ShownInv, Nothing
  <2>6. CASE verb = "show" /\ found(n)
    <3>1. shown' = cmdShow(n, find(n).payload)
      BY <2>1, <2>6 DEF Inspect
    <3> DEFINE p == find(n).payload
               d == Differ(p, BuildSetNetwork(decodeSet(p), Nil))
    <3>2. /\ shown'.verb = "show" /\ shown'.frame = n
          /\ shown'.is = "set" => shown'.says = decodeSet(p)
          /\ shown'.is = "match" => d = {}
          /\ shown'.is = "mismatch" => d # {}
      BY <3>1, ShowSays
    <3>3. found(shown.frame)' /\ find(shown.frame)' = find(n)
      BY <2>3, <2>6, <3>2 DEF found, find
    <3> QED
      BY <2>2, <3>2, <3>3 DEF ShownInv
  <2>7. CASE verb = "diff" /\ found(n)
    <3>1. shown' = cmdDiff(n, find(n).payload)
      BY <2>1, <2>7 DEF Inspect
    <3> DEFINE p == find(n).payload
               d == Differ(p, BuildSetNetwork(decodeSet(p), Nil))
    <3>2. /\ shown'.verb = "diff" /\ shown'.frame = n
          /\ shown'.is = "set" => shown'.says = decodeSet(p)
          /\ shown'.is = "match" => d = {}
          /\ shown'.is = "mismatch" => d # {}
      BY <3>1, DiffSays
    <3>3. found(shown.frame)' /\ find(shown.frame)' = find(n)
      BY <2>3, <2>7, <3>2 DEF found, find
    <3> QED
      BY <2>2, <3>2, <3>3 DEF ShownInv
  <2> QED
    BY <2>1, <2>4, <2>5, <2>6, <2>7
<1> QED
  BY <1>4, <1>5, <1>6, <1>7, <1>8 DEF Next

(* Every step keeps the invariant. *)
LEMMA PathNext ==
    ASSUME PathInv, [Next]_vars
    PROVE  PathInv'
<1> USE DEF PathInv
<1>1. ASSUME UNCHANGED cliVars
      PROVE  CliInv' /\ EchoInv' /\ ListInv' /\ MeantInv'
  BY <1>1 DEF cliVars, CliInv, EchoInv, EchoIsBack, ListInv, MeantInv, FlagsOK, Asked, str, has
<1>2. CASE UNCHANGED vars
  <2>1. UNCHANGED cliVars /\ UNCHANGED cameraVars /\ UNCHANGED captureVars
    BY <1>2 DEF vars
  <2>2. CameraInv'
    BY <2>1 DEF cliVars, cameraVars, captureVars, CameraInv
  <2>3. CaptureInv'
    BY <2>1 DEF captureVars, CaptureInv
  <2>4. frames' = frames
    BY <2>1 DEF captureVars, frames, UdpFrame, IpOf
  <2>5. ShownInv'
    BY <2>1, <2>4 DEF captureVars, ShownInv, found, find
  <2>6. FileInv'
    BY <2>1 DEF captureVars, FileInv
  <2> QED
    BY <1>1, <2>1, <2>2, <2>3, <2>5, <2>6
<1>3. CASE Next
  <2>1. CliInv' /\ EchoInv' /\ ListInv' /\ MeantInv'
    <3>1. CASE CliStep
      BY <3>1, CliTypes, EchoKept, ListKept, MeantKept
    <3>2. CASE UNCHANGED cliVars
      BY <1>1, <3>2
    <3> QED
      BY <1>3, <3>1, <3>2 DEF Next, Answer, Captured, Read, Show
  <2> QED
    BY <1>3, <2>1, CameraKept, CaptureKept, FileNext, ShownKept
<1> QED
  BY <1>2, <1>3

(* The invariant: ipcprobe's variables, its echo, what it lists, the camera's
   answers as made from the packet, the reader's place in the file and what it
   holds of it, and what show and diff said.                                *)
THEOREM PathInductive == Spec => []PathInv
<1>1. Init => PathInv
  BY PathInitial
<1>2. PathInv /\ [Next]_vars => PathInv'
  BY PathNext
<1> QED
  BY <1>1, <1>2, PTL DEF Spec

-----------------------------------------------------------------------------

(* The answers once a camera has given them. *)
LEMMA Answered ==
    ASSUME CliInv, CameraInv, camera # None
    PROVE  /\ Announceable(device) /\ announce = BuildAnnounce(device)
           /\ sent = SetPacket(Asked(flags), password) /\ Complete(Asked(flags))
           /\ PasswordFits(password) /\ password \in Bytes
           /\ chosen[1].ip \in Bytes /\ Is4(chosen[1].ip)
<1>1. /\ stage = "sent" /\ Announceable(camera.dev) /\ announce = BuildAnnounce(device)
      /\ device = IF IsSetNetwork(sent, camera.dev.mac) /\ RightPassword(sent, camera.pw)
                  THEN Reconfigured(camera.dev, sent) ELSE camera.dev
  BY DEF CameraInv
<1>2. /\ sent = SetPacket(Asked(flags), password) /\ Complete(Asked(flags))
      /\ PasswordFits(password) /\ password \in Bytes
  BY <1>1 DEF CliInv
<1>3. Announceable(Reconfigured(camera.dev, sent))
  BY <1>1, <1>2, TakesOver
<1>4. Announceable(device)
  BY <1>1, <1>3
<1>5. chosen[1] \in Entry /\ IsEntry(given.os, chosen[1])
  <2>1. chosen \in Seq(Entry) /\ chosen # << >> /\ \A e : e \in ToSet(chosen) => IsEntry(given.os, e)
    BY <1>1 DEF CliInv
  <2>2. chosen[1] \in ToSet(chosen)
    BY <2>1, FirstOf
  <2> QED
    BY <2>1, <2>2, LenProperties, ElementOfSeq DEF ToSet
<1>6. chosen[1].ip \in Bytes /\ Is4(chosen[1].ip)
  BY <1>5 DEF IsEntry, EntryOf, Entry
<1> QED
  BY <1>1, <1>2, <1>4, <1>6

(* The answers are those of a record that could be announced. *)
LEMMA AnswersAre ==
    ASSUME PathInv
    PROVE  AnswersSurvive
<1>1. CASE camera = None
  <2>1. announce = Nil /\ ack = Nil
    BY <1>1, PathAssumption DEF PathInv, CameraInv
  <2> QED
    BY <2>1 DEF AnswersSurvive
<1>2. CASE camera # None
  <2> USE <1>2
  <2>1. /\ Announceable(device) /\ announce = BuildAnnounce(device)
        /\ chosen[1].ip \in Bytes /\ Is4(chosen[1].ip)
    BY Answered DEF PathInv
  <2>2. ack = Nil \/ ack = BuildSetAck(chosen[1].ip, Port)
    BY DEF PathInv, CameraInv
  <2>3. ack # Nil => /\ IsSetAck(ack) /\ ~ IsAnnounce(ack)
                     /\ ParseSetAck(ack) = [ip |-> chosen[1].ip, port |-> Port]
    BY <2>1, <2>2, AckSurvives, PathAssumption
  <2>4. LET heard == ParseAnnounce(announce)
            b == device.build
        IN  /\ IsAnnounce(announce) /\ ~ IsSetAck(announce)
            /\ heard = [device EXCEPT !.build = IF Readable(b) THEN b ELSE Nil]
            /\ Readable(b) => BuildAnnounce(heard) = announce
    BY <2>1, AnnouncementSurvives
  <2> QED
    BY <2>3, <2>4, ZenonT(60) DEF AnswersSurvive, Readable
<1> QED
  BY <1>1, <1>2

(* A packet is not the empty sequence. *)
LEMMA NotEmpty ==
    ASSUME NEW p, Len(p) = 140
    PROVE  p # Nil
<1>1. Len(Nil) = 0 /\ 0 # 140
  BY DEF Nil
<1> QED
  BY <1>1, Zenon

(* The bytes of a packet, one by one. *)
LEMMA BytesAt ==
    ASSUME NEW p \in Bytes
    PROVE  \A i \in DOMAIN p : p[i] \in Byte
  BY LenProperties, ElementOfSeq DEF Bytes

(* The packet says for whom it is, and what, and with which password. *)
LEMMA AddresseeIs ==
    ASSUME PathInv
    PROVE  OnlyTheAddressee
<1> SUFFICES ASSUME camera # None
             PROVE  OnlyTheAddressee
  BY DEF OnlyTheAddressee
<1> DEFINE r == given.want
           d == camera.dev
           meant == d.mac = r.mac
<1>1. /\ stage = "sent" /\ camera \in Cameras /\ Announceable(d)
      /\ ack = IF IsSetNetwork(sent, d.mac) THEN BuildSetAck(chosen[1].ip, Port) ELSE Nil
      /\ device = IF IsSetNetwork(sent, d.mac) /\ RightPassword(sent, camera.pw)
                  THEN Reconfigured(d, sent) ELSE d
  BY DEF PathInv, CameraInv
<1>2. r \in Request /\ given.pw \in Bytes /\ camera.pw \in Bytes
  BY <1>1, GivenTypes, PathAssumption DEF PathInv, CliInv
<1>3. sent # Nil
  <2>1. /\ sent = SetPacket(Asked(flags), password) /\ Complete(Asked(flags))
        /\ PasswordFits(password) /\ password \in Bytes
    BY Answered DEF PathInv
  <2>2. Len(sent) = 140
    BY <2>1, SetPacketFields
  <2> QED
    BY <2>2, NotEmpty
<1>4. sent = SetPacket(r, given.pw) /\ Complete(r) /\ PasswordFits(given.pw)
  <2>1. sent = BuildSetNetwork(r, given.pw)
    BY <1>3, MeantIsSent DEF PathInv, SaysWhatWasMeant
  <2> QED
    BY <1>2, <1>3, <2>1, BuildSet
<1>5. /\ Len(sent) = 140 /\ Command(sent) = CmdSetNet /\ Field(sent, 32, 6) = r.mac
      /\ Cstr(Field(sent, 84, 28)) = Base64(given.pw)
  BY <1>2, <1>4, SetPacketFields
<1>6. IsSetNetwork(sent, d.mac) <=> meant
  BY <1>5 DEF IsSetNetwork
<1>7. RightPassword(sent, camera.pw) <=> camera.pw = given.pw
  BY <1>2, <1>5, Base64Injective DEF RightPassword
<1>8. Reconfigured(d, sent) = [k \in DOMAIN d |->
          IF k \in {"ip", "mask", "gw", "dns1", "dns2"} THEN r[k] ELSE d[k]]
  <2>1. Reconfigured(d, sent) = [d EXCEPT !.ip = r.ip, !.mask = r.mask, !.gw = r.gw,
                                          !.dns1 = r.dns1, !.dns2 = r.dns2]
    BY <1>1, <1>2, <1>4, TakesOver
  <2> DEFINE e == d
  <2> HIDE DEF e
  <2>2. e \in Device
    BY <1>1 DEF Announceable, e
  <2>3. [e EXCEPT !.ip = r.ip, !.mask = r.mask, !.gw = r.gw, !.dns1 = r.dns1,
                  !.dns2 = r.dns2]
            = [k \in DOMAIN e |->
                   IF k \in {"ip", "mask", "gw", "dns1", "dns2"} THEN r[k] ELSE e[k]]
    BY <2>2 DEF Device
  <2> QED
    BY <2>1, <2>3 DEF e
<1>9. meant <=> ack # Nil
  <2>1. BuildSetAck(chosen[1].ip, Port) # Nil
    <3>1. chosen[1].ip \in Bytes /\ Is4(chosen[1].ip)
      BY Answered DEF PathInv
    <3>2. Len(BuildSetAck(chosen[1].ip, Port)) = lenTX
      BY <3>1, AckSurvives, PathAssumption
    <3> QED
      BY <3>2, NotEmpty DEF lenTX
  <2> QED
    BY <1>1, <1>6, <2>1
<1>10. device = IF meant /\ camera.pw = given.pw THEN Reconfigured(d, sent) ELSE d
  BY <1>1, <1>6, <1>7
<1> QED
  BY <1>8, <1>9, <1>10, Zenon DEF OnlyTheAddressee

(* What the commands of mhedpcap say of the packet. *)
LEMMA MatchIs ==
    ASSUME PathInv
    PROVE  MatchIsOurs
<1> DEFINE p == find(shown.frame).payload
           r == given.want
<1> SUFFICES ASSUME shown.is \in {"set", "match", "mismatch"}, decodeSet(p) = r
             PROVE  /\ shown.is = "match" => dumpMasked(p) = dumpMasked(sent)
                    /\ shown.is = "mismatch" => dumpMasked(p) # dumpMasked(sent)
                    /\ shown.is = "set" => shown.says = r
  BY Zenon DEF MatchIsOurs
<1>1. /\ reader = "done" /\ found(shown.frame)
      /\ shown.is = "set" => shown.says = r
      /\ shown.is = "match" => Differ(p, BuildSetNetwork(r, Nil)) = {}
      /\ shown.is = "mismatch" => Differ(p, BuildSetNetwork(r, Nil)) # {}
  BY DEF PathInv, ShownInv
<1>2. camera # None
  BY <1>1 DEF PathInv, CameraInv
<1>3. r \in Request /\ given.pw \in Bytes
  BY GivenTypes DEF PathInv, CliInv
<1>4. sent # Nil
  <2>1. /\ sent = SetPacket(Asked(flags), password) /\ Complete(Asked(flags))
        /\ PasswordFits(password) /\ password \in Bytes
    BY <1>2, Answered DEF PathInv
  <2>2. Len(sent) = 140
    BY <2>1, SetPacketFields
  <2> QED
    BY <2>2, NotEmpty
<1>5. sent = SetPacket(r, given.pw) /\ Complete(r) /\ PasswordFits(given.pw)
  <2>1. sent = BuildSetNetwork(r, given.pw)
    BY <1>4, MeantIsSent DEF PathInv, SaysWhatWasMeant
  <2> QED
    BY <1>3, <1>4, <2>1, BuildSet
<1>6. BuildSetNetwork(r, Nil) = SetPacket(r, Nil)
  BY <1>5, NoPasswordFits, Zenon DEF BuildSetNetwork, Complete, Is4
<1>7. PICK n \in Int : DOMAIN p = 1 .. n
  BY <1>1, FoundFrame
<1>8. Differ(p, SetPacket(r, Nil)) = {} <=> dumpMasked(p) = dumpMasked(sent)
  <2> HIDE DEF p, r
  <2> QED
    BY <1>3, <1>5, <1>7, NoPasswordFits, DiffIsMask
<1> QED
  BY <1>1, <1>6, <1>8

(* The types. *)
LEMMA TypesAre ==
    ASSUME PathInv
    PROVE  PathTypeOK
<1>1. CliTypeOK
  <2>1. \A i \in DOMAIN password : password[i] \in Byte
    BY BytesAt DEF PathInv, CliInv
  <2>2. Len(sent) \in {0, lenTX} /\ \A i \in DOMAIN sent : sent[i] \in Byte
    <3>1. CASE stage = "sent"
      <4>1. sent \in Bytes /\ Len(sent) = 140
        BY <3>1, SetPacketFields DEF PathInv, CliInv
      <4>2. \A i \in DOMAIN sent : sent[i] \in Byte
        BY <4>1, BytesAt
      <4> QED
        BY <4>1, <4>2 DEF lenTX
    <3>2. CASE stage # "sent"
      <4>1. sent = << >>
        BY <3>2 DEF PathInv, CliInv, Nil
      <4> QED
        BY <4>1
    <3> QED
      BY <3>1, <3>2
  <2> QED
    BY <2>1, <2>2 DEF PathInv, CliInv, CliTypeOK, Stages
<1>2. /\ Len(ack) \in {0, lenTX} /\ Len(announce) \in {0, lenAnnounce}
      /\ \A i \in DOMAIN announce : announce[i] \in Byte
  <2>1. CASE camera = None
    <3>1. ack = << >> /\ announce = << >>
      BY <2>1 DEF PathInv, CameraInv, Nil
    <3> QED
      BY <3>1
  <2>2. CASE camera # None
    <3>1. /\ Announceable(device) /\ announce = BuildAnnounce(device)
          /\ chosen[1].ip \in Bytes /\ Is4(chosen[1].ip)
      BY <2>2, Answered DEF PathInv
    <3>2. announce \in Bytes /\ Len(announce) = lenAnnounce
      BY <3>1, AnnouncementSurvives
    <3>3. ack = Nil \/ ack = BuildSetAck(chosen[1].ip, Port)
      BY DEF PathInv, CameraInv
    <3>4. Len(ack) \in {0, lenTX}
      BY <3>1, <3>3, AckSurvives, PathAssumption DEF Nil
    <3> QED
      BY <3>2, <3>4, BytesAt
  <2> QED
    BY <2>1, <2>2
<1>3. \A i \in DOMAIN raw : \A k \in DOMAIN raw[i][2] : raw[i][2][k] \in Byte
  <2> DEFINE P == Nat \X Bytes
  <2>1. \A x \in P : x[2] \in Bytes
    OBVIOUS
  <2>2. raw \in Seq(P)
    BY DEF PathInv, CaptureInv
  <2> HIDE DEF P
  <2>3. \A i \in DOMAIN raw : raw[i][2] \in Bytes
    BY <2>1, <2>2, LenProperties, ElementOfSeq
  <2> QED
    BY <2>3, BytesAt
<1> QED
  BY <1>1, <1>2, <1>3 DEF PathInv, CaptureInv, PathTypeOK

(* The types: of the command line, of the packets sent and answered, and of
   the capture as far as it is read; the reader never reads a block that is not
   there (readPcapng, readPcap), and exit codes are decided where they are. *)
THEOREM PathTypes == Spec => []PathTypeOK
  BY PathInductive, TypesAre, PTL

(* readPassword: unless it was interrupted, ipcprobe leaves no terminal without
   echo, also when stty failed or the input ended at once.                  *)
THEOREM EchoBack == Spec => []EchoIsBack
<1>1. PathInv => EchoIsBack
  BY DEF PathInv, EchoInv
<1> QED
  BY <1>1, PathInductive, PTL

(* "The same set --iface accepts" (main.go:353), for any interfaces with names
   of their own: by name, by address, and for a set that names none.        *)
THEOREM ListsTheSame == Spec => []ListsWhatItAccepts
<1>1. PathInv => ListsWhatItAccepts
  BY ListedThenAccepted DEF PathInv
<1> QED
  BY <1>1, PathInductive, PTL

(* whyUnusable: told that it only lacks an address, an interface is used once
   it has one.                                                              *)
THEOREM ReasonTrue == Spec => []ReasonExplains
<1>1. PathInv => ReasonExplains
  BY ReasonExplained DEF PathInv
<1> QED
  BY <1>1, PathInductive, PTL

(* BuildAnnounce and ParseAnnounce, BuildSetAck and ParseSetAck, for any record
   a camera may start with and any request it takes over: what was put in comes
   out, and building again what was parsed gives the packet.                *)
THEOREM AnswersIntact == Spec => []AnswersSurvive
  BY PathInductive, AnswersAre, PTL

(* parseFlags, cmdSet and readPassword, for any command line that is settings
   and a rest: whatever is sent is the packet for what the operator meant, each
   flag spelled either way and given any number of times, and the password
   given, or typed up to the end of the line or of the input.                *)
THEOREM MeantAsSaid == Spec => []SaysWhatWasMeant
<1>1. PathInv => SaysWhatWasMeant
  BY MeantIsSent DEF PathInv
<1> QED
  BY <1>1, PathInductive, PTL

(* IsSetNetwork and the password's comparison (commandLoop): the camera that has
   the MAC that was meant and the password, and no other, takes over exactly
   the request; only the one that has its MAC answers.  No two passwords are
   encoded the same.                                                         *)
THEOREM AddresseeAlone == Spec => []OnlyTheAddressee
  BY PathInductive, AddresseeIs, PTL

(* cmdDiff: of frames with the request that was meant diff matches those, and
   only those, that are ours outside what --dump hides, though it does not know
   the password; show says the request.                                      *)
THEOREM MatchesAreOurs == Spec => []MatchIsOurs
  BY PathInductive, MatchIs, PTL

(* readCapture and udpFrame: whatever was captured, in a file that keeps to its
   format the frames are exactly the packets with a whole UDP payload, each by
   its number among all packets.  udpFrame does not refuse an IPv4 header of
   fewer than five words; such a file does not keep to its format.           *)
THEOREM FramesAreRight == Spec => [](Truthful(file) => FramesAreThePackets)
<1>1. PathInv => (Truthful(file) => FramesAreThePackets)
  <2>1. CASE reader = "done"
    BY <2>1, FramesFound DEF PathInv
  <2>2. CASE reader # "done"
    BY <2>2 DEF FramesAreThePackets
  <2> QED
    BY <2>1, <2>2
<1> QED
  BY <1>1, PathInductive, PTL

-----------------------------------------------------------------------------
(* Netmasks, bit by bit (main.go) *)

(* Two to the x, within a byte. *)
Power(x) == <<1, 2, 4, 8, 16, 32, 64, 128, 256>>[x + 1]

(* It is what ^ says, which no prover here computes for a variable. *)
LEMMA Powers ==
    ASSUME NEW x \in 0 .. 8
    PROVE  2^x = Power(x)
<1> DEFINE P(k) == 2^k
<1>1. P(0) = 1 /\ P(1) = 2 /\ P(2) = 4 /\ P(3) = 8 /\ P(4) = 16
  OBVIOUS
<1>2. P(5) = 32 /\ P(6) = 64 /\ P(7) = 128 /\ P(8) = 256
  OBVIOUS
<1>3. x = 0 \/ x = 1 \/ x = 2 \/ x = 3 \/ x = 4 \/ x = 5 \/ x = 6 \/ x = 7 \/ x = 8
  OBVIOUS
<1>4. P(x) = Power(x)
  <2> HIDE DEF P
  <2> QED
    BY <1>1, <1>2, <1>3 DEF Power
<1> QED
  BY <1>4

(* The j-th bit of a byte, from the lowest. *)
BitOf(x, j) == (x \div 2^j) % 2

(* The bits of a byte, each by its power. *)
LEMMA BitsOf ==
    ASSUME NEW x \in Byte
    PROVE  /\ BitOf(x, 0) = x % 2          /\ BitOf(x, 1) = (x \div 2) % 2
           /\ BitOf(x, 2) = (x \div 4) % 2  /\ BitOf(x, 3) = (x \div 8) % 2
           /\ BitOf(x, 4) = (x \div 16) % 2 /\ BitOf(x, 5) = (x \div 32) % 2
           /\ BitOf(x, 6) = (x \div 64) % 2 /\ BitOf(x, 7) = (x \div 128) % 2
<1>1. x \in 0 .. 255
  BY DEF Byte
<1>2. /\ 2^0 = 1 /\ 2^1 = 2 /\ 2^2 = 4 /\ 2^3 = 8
      /\ 2^4 = 16 /\ 2^5 = 32 /\ 2^6 = 64 /\ 2^7 = 128
  OBVIOUS
<1>3. x \div 1 = x
  BY <1>1
<1> QED
  BY <1>1, <1>3 DEF BitOf

(* A byte and its bits. *)
LEMMA ByteSum ==
    ASSUME NEW x \in Byte
    PROVE  /\ \A j \in 0 .. 7 : BitOf(x, j) \in {0, 1}
           /\ x = BitOf(x, 0) + 2 * BitOf(x, 1) + 4 * BitOf(x, 2) + 8 * BitOf(x, 3)
                  + 16 * BitOf(x, 4) + 32 * BitOf(x, 5) + 64 * BitOf(x, 6) + 128 * BitOf(x, 7)
<1>1. x \in 0 .. 255
  BY DEF Byte
<1>2. /\ x % 2 \in {0, 1} /\ (x \div 2) % 2 \in {0, 1}
      /\ (x \div 4) % 2 \in {0, 1} /\ (x \div 8) % 2 \in {0, 1}
      /\ (x \div 16) % 2 \in {0, 1} /\ (x \div 32) % 2 \in {0, 1}
      /\ (x \div 64) % 2 \in {0, 1} /\ (x \div 128) % 2 \in {0, 1}
  BY <1>1
<1>3. x = (x % 2) + 2 * ((x \div 2) % 2) + 4 * ((x \div 4) % 2) + 8 * ((x \div 8) % 2)
          + 16 * ((x \div 16) % 2) + 32 * ((x \div 32) % 2) + 64 * ((x \div 64) % 2)
          + 128 * ((x \div 128) % 2)
  BY <1>1, SMTT(30)
<1>4. \A j \in 0 .. 7 : j = 0 \/ j = 1 \/ j = 2 \/ j = 3 \/ j = 4 \/ j = 5 \/ j = 6 \/ j = 7
  OBVIOUS
<1> QED
  BY <1>2, <1>3, <1>4, BitsOf

(* The c lowest bits of a byte are all 0, or all 1, only if so is what they
   are worth.                                                               *)
LEMMA LowBits ==
    ASSUME NEW x \in Byte, NEW c \in 0 .. 8
    PROVE  /\ (\A j \in 0 .. 7 : j < c => BitOf(x, j) = 0) => x % Power(c) = 0
           /\ (\A j \in 0 .. 7 : j < c => BitOf(x, j) = 1) => x % Power(c) = Power(c) - 1
<1> DEFINE b(j) == BitOf(x, j)
<1>1. \A j \in 0 .. 7 : b(j) \in {0, 1}
  BY ByteSum
<1>2. /\ b(0) \in {0, 1} /\ b(1) \in {0, 1} /\ b(2) \in {0, 1} /\ b(3) \in {0, 1}
      /\ b(4) \in {0, 1} /\ b(5) \in {0, 1} /\ b(6) \in {0, 1} /\ b(7) \in {0, 1}
  <2> HIDE DEF b
  <2> QED
    BY <1>1
<1>3. x = b(0) + 2 * b(1) + 4 * b(2) + 8 * b(3) + 16 * b(4) + 32 * b(5) + 64 * b(6) + 128 * b(7)
  BY ByteSum
<1>11. /\ b(0) \in Nat /\ b(1) \in Nat /\ b(2) \in Nat /\ b(3) \in Nat
       /\ b(4) \in Nat /\ b(5) \in Nat /\ b(6) \in Nat /\ b(7) \in Nat
  BY <1>2
<1>4. c = 0 \/ c = 1 \/ c = 2 \/ c = 3 \/ c = 4 \/ c = 5 \/ c = 6 \/ c = 7 \/ c = 8
  OBVIOUS
<1>5. x \in 0 .. 255
  BY DEF Byte
<1> HIDE DEF b
<1>6. ASSUME NEW v \in {0, 1}, \A j \in 0 .. 7 : j < c => b(j) = v
      PROVE  x % Power(c) = IF v = 0 THEN 0 ELSE Power(c) - 1
  <2>1. /\ 0 < c => b(0) = v
        /\ 1 < c => b(1) = v
        /\ 2 < c => b(2) = v
        /\ 3 < c => b(3) = v
        /\ 4 < c => b(4) = v
        /\ 5 < c => b(5) = v
        /\ 6 < c => b(6) = v
        /\ 7 < c => b(7) = v
    BY <1>6
  <2>2. CASE c = 0
    BY <1>5, <2>2 DEF Power
  <2>3. CASE c = 1
    <3> DEFINE q == b(1) + 2 * b(2) + 4 * b(3) + 8 * b(4) + 16 * b(5) + 32 * b(6) + 64 * b(7)
    <3>1. b(0) = v
      BY <2>1, <2>3
    <3>2. q \in Nat
      BY <1>11
    <3>6. x = 2 * q + 1 * v
      BY ONLY <1>3, <1>11, <3>1, SMT
    <3>3. Power(c) = 2
      BY <2>3 DEF Power
    <3> HIDE DEF q
    <3>4. CASE v = 0
      <4>1. x = 2 * q
        BY <3>2, <3>4, <3>6, <1>5
      <4>2. x % 2 = 0
        BY ONLY <3>2, <4>1, SMT
      <4> QED
        BY <3>3, <3>4, <4>2
    <3>5. CASE v = 1
      <4>1. x = 2 * q + 1
        BY <3>2, <3>5, <3>6, <1>5
      <4>2. x % 2 = 1
        BY ONLY <3>2, <4>1, SMT
      <4> QED
        BY <3>3, <3>5, <4>2
    <3> QED
      BY <3>4, <3>5
  <2>4. CASE c = 2
    <3> DEFINE q == b(2) + 2 * b(3) + 4 * b(4) + 8 * b(5) + 16 * b(6) + 32 * b(7)
    <3>1. b(0) = v /\ b(1) = v
      BY <2>1, <2>4
    <3>2. q \in Nat
      BY <1>11
    <3>6. x = 4 * q + 3 * v
      BY ONLY <1>3, <1>11, <3>1, SMT
    <3>3. Power(c) = 4
      BY <2>4 DEF Power
    <3> HIDE DEF q
    <3>4. CASE v = 0
      <4>1. x = 4 * q
        BY <3>2, <3>4, <3>6, <1>5
      <4>2. x % 4 = 0
        BY ONLY <3>2, <4>1, SMT
      <4> QED
        BY <3>3, <3>4, <4>2
    <3>5. CASE v = 1
      <4>1. x = 4 * q + 3
        BY <3>2, <3>5, <3>6, <1>5
      <4>2. x % 4 = 3
        BY ONLY <3>2, <4>1, SMT
      <4> QED
        BY <3>3, <3>5, <4>2
    <3> QED
      BY <3>4, <3>5
  <2>5. CASE c = 3
    <3> DEFINE q == b(3) + 2 * b(4) + 4 * b(5) + 8 * b(6) + 16 * b(7)
    <3>1. b(0) = v /\ b(1) = v /\ b(2) = v
      BY <2>1, <2>5
    <3>2. q \in Nat
      BY <1>11
    <3>6. x = 8 * q + 7 * v
      BY ONLY <1>3, <1>11, <3>1, SMT
    <3>3. Power(c) = 8
      BY <2>5 DEF Power
    <3> HIDE DEF q
    <3>4. CASE v = 0
      <4>1. x = 8 * q
        BY <3>2, <3>4, <3>6, <1>5
      <4>2. x % 8 = 0
        BY ONLY <3>2, <4>1, SMT
      <4> QED
        BY <3>3, <3>4, <4>2
    <3>5. CASE v = 1
      <4>1. x = 8 * q + 7
        BY <3>2, <3>5, <3>6, <1>5
      <4>2. x % 8 = 7
        BY ONLY <3>2, <4>1, SMT
      <4> QED
        BY <3>3, <3>5, <4>2
    <3> QED
      BY <3>4, <3>5
  <2>6. CASE c = 4
    <3> DEFINE q == b(4) + 2 * b(5) + 4 * b(6) + 8 * b(7)
    <3>1. b(0) = v /\ b(1) = v /\ b(2) = v /\ b(3) = v
      BY <2>1, <2>6
    <3>2. q \in Nat
      BY <1>11
    <3>6. x = 16 * q + 15 * v
      BY ONLY <1>3, <1>11, <3>1, SMT
    <3>3. Power(c) = 16
      BY <2>6 DEF Power
    <3> HIDE DEF q
    <3>4. CASE v = 0
      <4>1. x = 16 * q
        BY <3>2, <3>4, <3>6, <1>5
      <4>2. x % 16 = 0
        BY ONLY <3>2, <4>1, SMT
      <4> QED
        BY <3>3, <3>4, <4>2
    <3>5. CASE v = 1
      <4>1. x = 16 * q + 15
        BY <3>2, <3>5, <3>6, <1>5
      <4>2. x % 16 = 15
        BY ONLY <3>2, <4>1, SMT
      <4> QED
        BY <3>3, <3>5, <4>2
    <3> QED
      BY <3>4, <3>5
  <2>7. CASE c = 5
    <3> DEFINE q == b(5) + 2 * b(6) + 4 * b(7)
    <3>1. b(0) = v /\ b(1) = v /\ b(2) = v /\ b(3) = v /\ b(4) = v
      BY <2>1, <2>7
    <3>2. q \in Nat
      BY <1>11
    <3>6. x = 32 * q + 31 * v
      BY ONLY <1>3, <1>11, <3>1, SMT
    <3>3. Power(c) = 32
      BY <2>7 DEF Power
    <3> HIDE DEF q
    <3>4. CASE v = 0
      <4>1. x = 32 * q
        BY <3>2, <3>4, <3>6, <1>5
      <4>2. x % 32 = 0
        BY ONLY <3>2, <4>1, SMT
      <4> QED
        BY <3>3, <3>4, <4>2
    <3>5. CASE v = 1
      <4>1. x = 32 * q + 31
        BY <3>2, <3>5, <3>6, <1>5
      <4>2. x % 32 = 31
        BY ONLY <3>2, <4>1, SMT
      <4> QED
        BY <3>3, <3>5, <4>2
    <3> QED
      BY <3>4, <3>5
  <2>8. CASE c = 6
    <3> DEFINE q == b(6) + 2 * b(7)
    <3>1. b(0) = v /\ b(1) = v /\ b(2) = v /\ b(3) = v /\ b(4) = v /\ b(5) = v
      BY <2>1, <2>8
    <3>2. q \in Nat
      BY <1>11
    <3>6. x = 64 * q + 63 * v
      BY ONLY <1>3, <1>11, <3>1, SMT
    <3>3. Power(c) = 64
      BY <2>8 DEF Power
    <3> HIDE DEF q
    <3>4. CASE v = 0
      <4>1. x = 64 * q
        BY <3>2, <3>4, <3>6, <1>5
      <4>2. x % 64 = 0
        BY ONLY <3>2, <4>1, SMT
      <4> QED
        BY <3>3, <3>4, <4>2
    <3>5. CASE v = 1
      <4>1. x = 64 * q + 63
        BY <3>2, <3>5, <3>6, <1>5
      <4>2. x % 64 = 63
        BY ONLY <3>2, <4>1, SMT
      <4> QED
        BY <3>3, <3>5, <4>2
    <3> QED
      BY <3>4, <3>5
  <2>9. CASE c = 7
    <3> DEFINE q == b(7)
    <3>1. b(0) = v /\ b(1) = v /\ b(2) = v /\ b(3) = v /\ b(4) = v /\ b(5) = v /\ b(6) = v
      BY <2>1, <2>9
    <3>2. q \in Nat
      BY <1>11
    <3>6. x = 128 * q + 127 * v
      BY ONLY <1>3, <1>11, <3>1, SMT
    <3>3. Power(c) = 128
      BY <2>9 DEF Power
    <3> HIDE DEF q
    <3>4. CASE v = 0
      <4>1. x = 128 * q
        BY <3>2, <3>4, <3>6, <1>5
      <4>2. x % 128 = 0
        BY ONLY <3>2, <4>1, SMT
      <4> QED
        BY <3>3, <3>4, <4>2
    <3>5. CASE v = 1
      <4>1. x = 128 * q + 127
        BY <3>2, <3>5, <3>6, <1>5
      <4>2. x % 128 = 127
        BY ONLY <3>2, <4>1, SMT
      <4> QED
        BY <3>3, <3>5, <4>2
    <3> QED
      BY <3>4, <3>5
  <2>10. CASE c = 8
    <3> DEFINE q == 0
    <3>1. b(0) = v /\ b(1) = v /\ b(2) = v /\ b(3) = v /\ b(4) = v /\ b(5) = v /\ b(6) = v /\ b(7) = v
      BY <2>1, <2>10
    <3>2. q \in Nat
      BY <1>11
    <3>6. x = 256 * q + 255 * v
      BY ONLY <1>3, <1>11, <3>1, SMT
    <3>3. Power(c) = 256
      BY <2>10 DEF Power
    <3> HIDE DEF q
    <3>4. CASE v = 0
      <4>1. x = 256 * q
        BY <3>2, <3>4, <3>6, <1>5
      <4>2. x % 256 = 0
        BY ONLY <3>2, <4>1, SMT
      <4> QED
        BY <3>3, <3>4, <4>2
    <3>5. CASE v = 1
      <4>1. x = 256 * q + 255
        BY <3>2, <3>5, <3>6, <1>5
      <4>2. x % 256 = 255
        BY ONLY <3>2, <4>1, SMT
      <4> QED
        BY <3>3, <3>5, <4>2
    <3> QED
      BY <3>4, <3>5
  <2> QED
    BY <1>4, <2>2, <2>3, <2>4, <2>5, <2>6, <2>7, <2>8, <2>9, <2>10
<1>7. Power(c) \in Nat
  BY <1>4 DEF Power
<1>8. (\A j \in 0 .. 7 : j < c => b(j) = 0) => x % Power(c) = 0
  BY <1>6, <1>7
<1>9. (\A j \in 0 .. 7 : j < c => b(j) = 1) => x % Power(c) = Power(c) - 1
  BY <1>6, <1>7
<1> QED
  BY <1>8, <1>9 DEF b

(* The host bits of the k-th byte, where a mask has n bits. *)
HostBits(n, k) == IF 8 * k <= n THEN 0 ELSE IF 8 * k >= n + 8 THEN 8 ELSE 8 * k - n

(* A byte of a mask: its host bits are 0. *)
LEMMA HighIs ==
    ASSUME NEW n \in 0 .. 32, NEW k \in 1 .. 4
    PROVE  /\ HostBits(n, k) \in 0 .. 8
           /\ High(n - 8 * (k - 1)) = 256 - Power(HostBits(n, k))
<1> DEFINE h == n - 8 * (k - 1)
           c == HostBits(n, k)
<1>1. c \in 0 .. 8
  BY DEF HostBits
<1>2. CASE h <= 0
  <2>1. c = 8
    BY <1>2 DEF HostBits
  <2> QED
    BY <1>1, <1>2, <2>1 DEF High, Power
<1>3. CASE h >= 8
  <2>1. c = 0
    BY <1>3 DEF HostBits
  <2> QED
    BY <1>1, <1>3, <2>1 DEF High, Power
<1>4. CASE 0 < h /\ h < 8
  <2>1. c = 8 - h
    BY <1>4 DEF HostBits
  <2>2. 2^c = Power(c)
    BY <1>1, Powers
  <2>3. High(h) = 256 - 2^(8 - h)
    BY <1>4 DEF High
  <2>4. High(h) = 256 - 2^c
    BY <2>1, <2>3
  <2> QED
    BY <1>1, <2>2, <2>4
<1> QED
  BY <1>1, <1>2, <1>3, <1>4

(* The host bits of a byte of a mask are 0, its other bits are 1. *)
LEMMA HighBits ==
    ASSUME NEW c \in 0 .. 8, NEW j \in 0 .. 7
    PROVE  BitOf(256 - Power(c), j) = IF j < c THEN 0 ELSE 1
<1>1. c = 0 \/ c = 1 \/ c = 2 \/ c = 3 \/ c = 4 \/ c = 5 \/ c = 6 \/ c = 7 \/ c = 8
  OBVIOUS
<1>2. j = 0 \/ j = 1 \/ j = 2 \/ j = 3 \/ j = 4 \/ j = 5 \/ j = 6 \/ j = 7
  OBVIOUS
<1> DEFINE B(m) == /\ BitOf(m, 0) = m % 2          /\ BitOf(m, 1) = (m \div 2) % 2
                   /\ BitOf(m, 2) = (m \div 4) % 2  /\ BitOf(m, 3) = (m \div 8) % 2
                   /\ BitOf(m, 4) = (m \div 16) % 2 /\ BitOf(m, 5) = (m \div 32) % 2
                   /\ BitOf(m, 6) = (m \div 64) % 2 /\ BitOf(m, 7) = (m \div 128) % 2
           m == 256 - Power(c)
<1>3. m \in {0, 128, 192, 224, 240, 248, 252, 254, 255}
  BY <1>1 DEF Power
<1>4. m \in Byte
  BY <1>3 DEF Byte
<1>5. B(m)
  BY <1>4, BitsOf
<1>6. CASE c = 0
  <2>1. m = 255
    BY <1>6 DEF Power
  <2> HIDE DEF m
  <2>2. /\ BitOf(m, 0) = 1
        /\ BitOf(m, 1) = 1
        /\ BitOf(m, 2) = 1
        /\ BitOf(m, 3) = 1
        /\ BitOf(m, 4) = 1
        /\ BitOf(m, 5) = 1
        /\ BitOf(m, 6) = 1
        /\ BitOf(m, 7) = 1
    BY <1>5, <2>1
  <2>3. BitOf(m, j) = IF j < c THEN 0 ELSE 1
    BY <1>2, <1>6, <2>2
  <2> QED
    BY <2>3 DEF m
<1>7. CASE c = 1
  <2>1. m = 254
    BY <1>7 DEF Power
  <2> HIDE DEF m
  <2>2. /\ BitOf(m, 0) = 0
        /\ BitOf(m, 1) = 1
        /\ BitOf(m, 2) = 1
        /\ BitOf(m, 3) = 1
        /\ BitOf(m, 4) = 1
        /\ BitOf(m, 5) = 1
        /\ BitOf(m, 6) = 1
        /\ BitOf(m, 7) = 1
    BY <1>5, <2>1
  <2>3. BitOf(m, j) = IF j < c THEN 0 ELSE 1
    BY <1>2, <1>7, <2>2
  <2> QED
    BY <2>3 DEF m
<1>8. CASE c = 2
  <2>1. m = 252
    BY <1>8 DEF Power
  <2> HIDE DEF m
  <2>2. /\ BitOf(m, 0) = 0
        /\ BitOf(m, 1) = 0
        /\ BitOf(m, 2) = 1
        /\ BitOf(m, 3) = 1
        /\ BitOf(m, 4) = 1
        /\ BitOf(m, 5) = 1
        /\ BitOf(m, 6) = 1
        /\ BitOf(m, 7) = 1
    BY <1>5, <2>1
  <2>3. BitOf(m, j) = IF j < c THEN 0 ELSE 1
    BY <1>2, <1>8, <2>2
  <2> QED
    BY <2>3 DEF m
<1>9. CASE c = 3
  <2>1. m = 248
    BY <1>9 DEF Power
  <2> HIDE DEF m
  <2>2. /\ BitOf(m, 0) = 0
        /\ BitOf(m, 1) = 0
        /\ BitOf(m, 2) = 0
        /\ BitOf(m, 3) = 1
        /\ BitOf(m, 4) = 1
        /\ BitOf(m, 5) = 1
        /\ BitOf(m, 6) = 1
        /\ BitOf(m, 7) = 1
    BY <1>5, <2>1
  <2>3. BitOf(m, j) = IF j < c THEN 0 ELSE 1
    BY <1>2, <1>9, <2>2
  <2> QED
    BY <2>3 DEF m
<1>10. CASE c = 4
  <2>1. m = 240
    BY <1>10 DEF Power
  <2> HIDE DEF m
  <2>2. /\ BitOf(m, 0) = 0
        /\ BitOf(m, 1) = 0
        /\ BitOf(m, 2) = 0
        /\ BitOf(m, 3) = 0
        /\ BitOf(m, 4) = 1
        /\ BitOf(m, 5) = 1
        /\ BitOf(m, 6) = 1
        /\ BitOf(m, 7) = 1
    BY <1>5, <2>1
  <2>3. BitOf(m, j) = IF j < c THEN 0 ELSE 1
    BY <1>2, <1>10, <2>2
  <2> QED
    BY <2>3 DEF m
<1>11. CASE c = 5
  <2>1. m = 224
    BY <1>11 DEF Power
  <2> HIDE DEF m
  <2>2. /\ BitOf(m, 0) = 0
        /\ BitOf(m, 1) = 0
        /\ BitOf(m, 2) = 0
        /\ BitOf(m, 3) = 0
        /\ BitOf(m, 4) = 0
        /\ BitOf(m, 5) = 1
        /\ BitOf(m, 6) = 1
        /\ BitOf(m, 7) = 1
    BY <1>5, <2>1
  <2>3. BitOf(m, j) = IF j < c THEN 0 ELSE 1
    BY <1>2, <1>11, <2>2
  <2> QED
    BY <2>3 DEF m
<1>12. CASE c = 6
  <2>1. m = 192
    BY <1>12 DEF Power
  <2> HIDE DEF m
  <2>2. /\ BitOf(m, 0) = 0
        /\ BitOf(m, 1) = 0
        /\ BitOf(m, 2) = 0
        /\ BitOf(m, 3) = 0
        /\ BitOf(m, 4) = 0
        /\ BitOf(m, 5) = 0
        /\ BitOf(m, 6) = 1
        /\ BitOf(m, 7) = 1
    BY <1>5, <2>1
  <2>3. BitOf(m, j) = IF j < c THEN 0 ELSE 1
    BY <1>2, <1>12, <2>2
  <2> QED
    BY <2>3 DEF m
<1>13. CASE c = 7
  <2>1. m = 128
    BY <1>13 DEF Power
  <2> HIDE DEF m
  <2>2. /\ BitOf(m, 0) = 0
        /\ BitOf(m, 1) = 0
        /\ BitOf(m, 2) = 0
        /\ BitOf(m, 3) = 0
        /\ BitOf(m, 4) = 0
        /\ BitOf(m, 5) = 0
        /\ BitOf(m, 6) = 0
        /\ BitOf(m, 7) = 1
    BY <1>5, <2>1
  <2>3. BitOf(m, j) = IF j < c THEN 0 ELSE 1
    BY <1>2, <1>13, <2>2
  <2> QED
    BY <2>3 DEF m
<1>14. CASE c = 8
  <2>1. m = 0
    BY <1>14 DEF Power
  <2> HIDE DEF m
  <2>2. /\ BitOf(m, 0) = 0
        /\ BitOf(m, 1) = 0
        /\ BitOf(m, 2) = 0
        /\ BitOf(m, 3) = 0
        /\ BitOf(m, 4) = 0
        /\ BitOf(m, 5) = 0
        /\ BitOf(m, 6) = 0
        /\ BitOf(m, 7) = 0
    BY <1>5, <2>1
  <2>3. BitOf(m, j) = IF j < c THEN 0 ELSE 1
    BY <1>2, <1>14, <2>2
  <2> QED
    BY <2>3 DEF m
<1> QED
  BY <1>1, <1>6, <1>7, <1>8, <1>9, <1>10, <1>11, <1>12, <1>13, <1>14

(* The bits of four bytes, from the highest. *)
LEMMA BitIs ==
    ASSUME NEW a, NEW i \in 0 .. 31
    PROVE  /\ i \div 8 + 1 \in 1 .. 4 /\ 7 - (i % 8) \in 0 .. 7
           /\ Bit(a, i) = BitOf(a[i \div 8 + 1], 7 - (i % 8))
<1>1. i \div 8 + 1 \in 1 .. 4 /\ 7 - (i % 8) \in 0 .. 7
  OBVIOUS
<1>2. Bit(a, i) = BitOf(a[i \div 8 + 1], 7 - (i % 8))
  BY Zenon DEF Bit, BitOf
<1> QED
  BY <1>1, <1>2

(* A mask of n bits has them first. *)
LEMMA MaskBit ==
    ASSUME NEW n \in 0 .. 32, NEW i \in 0 .. 31
    PROVE  Bit(MaskOf(n), i) = IF i < n THEN 1 ELSE 0
<1> DEFINE k == i \div 8 + 1
           j == 7 - (i % 8)
           c == HostBits(n, k)
<1>1. k \in 1 .. 4 /\ j \in 0 .. 7 /\ i = 8 * k - 1 - j
  OBVIOUS
<1>2. Bit(MaskOf(n), i) = BitOf(MaskOf(n)[k], j)
  BY BitIs
<1> HIDE DEF k, j
<1>3. MaskOf(n)[k] = 256 - Power(c) /\ c \in 0 .. 8
  BY <1>1, HighIs DEF MaskOf
<1>4. BitOf(MaskOf(n)[k], j) = IF j < c THEN 0 ELSE 1
  BY <1>1, <1>3, HighBits
<1>5. j < c <=> ~ i < n
  BY <1>1 DEF HostBits
<1> QED
  BY <1>2, <1>4, <1>5

(* The lowest address of a subnet, byte for byte. *)
LEMMA MaskedIs ==
    ASSUME NEW ip \in [1 .. 4 -> Byte], NEW n \in 0 .. 32
    PROVE  /\ Masked(ip, n) \in [1 .. 4 -> Int]
           /\ \A k \in 1 .. 4 : Masked(ip, n)[k] = ip[k] - (ip[k] % Power(HostBits(n, k)))
<1>1. \A k \in 1 .. 4 : 256 - High(n - 8 * (k - 1)) = Power(HostBits(n, k))
  <2> SUFFICES ASSUME NEW k \in 1 .. 4
               PROVE  256 - High(n - 8 * (k - 1)) = Power(HostBits(n, k))
    OBVIOUS
  <2>1. /\ HostBits(n, k) \in 0 .. 8
        /\ High(n - 8 * (k - 1)) = 256 - Power(HostBits(n, k))
    BY HighIs
  <2>2. Power(HostBits(n, k)) \in Int
    BY <2>1 DEF Power
  <2> QED
    BY <2>1, <2>2
<1> DEFINE p(k) == Power(HostBits(n, k))
<1>2. \A k \in 1 .. 4 : p(k) \in Nat \ {0}
  <2> SUFFICES ASSUME NEW k \in 1 .. 4
               PROVE  p(k) \in Nat \ {0}
    OBVIOUS
  <2>1. HostBits(n, k) \in 0 .. 8
    BY HighIs
  <2> QED
    BY <2>1 DEF Power
<1>3. Masked(ip, n) = [k \in 1 .. 4 |-> ip[k] - (ip[k] % p(k))]
  BY <1>1, Zenon DEF Masked
<1> HIDE DEF p
<1>4. ASSUME NEW k \in 1 .. 4
      PROVE  ip[k] - (ip[k] % p(k)) \in Int
  <2>1. ip[k] \in Int /\ p(k) \in Nat \ {0}
    BY <1>2 DEF Byte
  <2>2. ip[k] % p(k) \in Int
    BY <2>1
  <2> QED
    BY ONLY <2>1, <2>2, SMT
<1>5. Masked(ip, n) \in [1 .. 4 -> Int]
  BY <1>3, <1>4
<1>6. \A k \in 1 .. 4 : Masked(ip, n)[k] = ip[k] - (ip[k] % p(k))
  BY <1>3
<1> QED
  BY <1>5, <1>6 DEF p

(* The worth of the c lowest bits of a byte, for any number c. *)
Low(c) == Power(IF c <= 0 THEN 0 ELSE IF c >= 8 THEN 8 ELSE c) - 1

(* One more bit is worth its power, in the byte it is in. *)
LEMMA LowNext ==
    ASSUME NEW i \in 0 .. 31, NEW k \in 1 .. 4
    PROVE  /\ Low(i - 8 * (4 - k)) \in Int /\ Low(0 - 8 * (4 - k)) = 0
           /\ 4 - (i \div 8) \in 1 .. 4 /\ 2^(i % 8) \in Int
           /\ Low(i + 1 - 8 * (4 - k)) =
                  Low(i - 8 * (4 - k)) + IF k = 4 - (i \div 8) THEN 2^(i % 8) ELSE 0
<1> DEFINE b == i \div 8
           r == i % 8
           c == i - 8 * (4 - k)
<1>1. b \in 0 .. 3 /\ r \in 0 .. 7 /\ i = 8 * b + r
  OBVIOUS
<1> HIDE DEF b, r
<1>2. 2^r = Power(r)
  <2>1. r \in 0 .. 8
    BY <1>1
  <2> QED
    BY ONLY <2>1, Powers, Zenon
<1>3. r = 0 \/ r = 1 \/ r = 2 \/ r = 3 \/ r = 4 \/ r = 5 \/ r = 6 \/ r = 7
  BY <1>1
<1>4. c \in Int /\ c + 1 = i + 1 - 8 * (4 - k)
  OBVIOUS
<1>5. ASSUME k = 4 - b
      PROVE  Low(c + 1) = Low(c) + 2^r
  <2>1. c = r
    BY <1>1, <1>5
  <2>2. Low(r) = Power(r) - 1 /\ Low(r + 1) = Power(r + 1) - 1
    BY <1>1 DEF Low
  <2>3. Power(r + 1) = 2 * Power(r) /\ Power(r) \in Int
    BY <1>3 DEF Power
  <2>4. Low(r + 1) = Low(r) + Power(r)
    BY <2>2, <2>3
  <2> QED
    BY <1>2, <2>1, <2>4
<1>6. ASSUME k # 4 - b
      PROVE  Low(c + 1) = Low(c)
  <2>1. \/ c >= 8
        \/ c + 1 <= 0
    BY <1>1, <1>6
  <2> QED
    BY <1>4, <2>1 DEF Low, Power
<1>7. Low(c) \in Int
  BY <1>4 DEF Low, Power
<1>8. Low(0 - 8 * (4 - k)) = 0
  BY DEF Low, Power
<1>9. 2^r \in Int
  BY <1>2, <1>3 DEF Power
<1>10. 4 - b \in 1 .. 4
  BY <1>1
<1>11. Low(c + 1) = Low(c) + IF k = 4 - b THEN 2^r ELSE 0
  BY <1>5, <1>6, <1>7
<1> HIDE DEF c
<1>12. /\ Low(c) \in Int /\ Low(0 - 8 * (4 - k)) = 0
       /\ 4 - b \in 1 .. 4 /\ 2^r \in Int
       /\ Low(i + 1 - 8 * (4 - k)) = Low(c) + IF k = 4 - b THEN 2^r ELSE 0
  BY <1>4, <1>7, <1>8, <1>9, <1>10, <1>11, Zenon
<1> QED
  BY <1>12, Zenon DEF b, r, c

(* The highest address of a subnet, byte for byte: the fold over its host bits
   sets all of them.                                                        *)
LEMMA BroadcastIs ==
    ASSUME NEW ip \in [1 .. 4 -> Byte], NEW n \in 0 .. 32
    PROVE  /\ broadcast(ip, n) \in [1 .. 4 -> Int]
           /\ \A k \in 1 .. 4 :
                  broadcast(ip, n)[k] = Masked(ip, n)[k] + Power(HostBits(n, k)) - 1
<1> DEFINE base == Masked(ip, n)
           X == [1 .. 4 -> Int]
           T == 0 .. 31
           Set(a, i) == [a EXCEPT ![4 - (i \div 8)] = @ + 2^(i % 8)]
           step == [p \in X \X T |-> Set(p[1], p[2])]
           bits == [i \in 1 .. 32 - n |-> i - 1]
           S == SUBSET (1 .. 32 - n)
           Is(g) == g = [s \in S |-> IF s = {} THEN base
                                     ELSE Set(g[s \ {Max(s)}], bits[Max(s)])]
           fold == CHOOSE g : Is(g)
           L == 32 - n
<1>1. /\ L \in Nat /\ bits \in Seq(T) /\ Len(bits) = L /\ DOMAIN bits = 1 .. L
      /\ \A i \in 1 .. L : bits[i] \in T
  OBVIOUS
<1>2. base \in X
  BY MaskedIs
<1>3. \A a \in X, i \in T : Set(a, i) \in X
  <2> SUFFICES ASSUME NEW a \in X, NEW i \in T
               PROVE  Set(a, i) \in X
    OBVIOUS
  <2>1. 2^(i % 8) \in Int
    BY LowNext
  <2> QED
    BY <2>1
<1>4. step \in [X \X T -> X] /\ \A a \in X, i \in T : step[<<a, i>>] = Set(a, i)
  BY <1>3
<1>5. broadcast(ip, n) = fold[1 .. L]
  <2> HIDE DEF base
  <2> QED
    BY <1>1, Zenon DEF broadcast, FoldLeft, MapThenFoldSet, base
<1> HIDE DEF base, step
<1>6. \A s \in S : s # {} => Max(s) \in s /\ Max(s) \in 1 .. L
  BY <1>1, MaxIn
<1>7. \E g \in [S -> X] : Is(g)
  <2>1. PICK g \in [S -> X] : IsSetFold(g, L, base, step, bits)
    <3>1. Len(bits) = 32 - n
      BY <1>1
    <3>2. step \in [X \X T -> X] /\ bits \in Seq(T)
      BY <1>1, <1>4
    <3> HIDE DEF bits, T, X
    <3>3. \E g \in [SUBSET (1 .. Len(bits)) -> X] : IsSetFold(g, Len(bits), base, step, bits)
      BY ONLY <1>2, <3>2, SetFoldExists
    <3> QED
      BY <3>1, <3>3, Zenon
  <2> HIDE DEF Set, bits, X
  <2>2. \A s \in S : g[s] = IF s = {} THEN base ELSE step[<<g[s \ {Max(s)}], bits[Max(s)]>>]
    BY <2>1, Zenon DEF IsSetFold
  <2>3. \A s \in S : s # {} =>
           step[<<g[s \ {Max(s)}], bits[Max(s)]>>] = Set(g[s \ {Max(s)}], bits[Max(s)])
    <3> SUFFICES ASSUME NEW s \in S, s # {}
                 PROVE  step[<<g[s \ {Max(s)}], bits[Max(s)]>>]
                          = Set(g[s \ {Max(s)}], bits[Max(s)])
      OBVIOUS
    <3>1. g[s \ {Max(s)}] \in X /\ bits[Max(s)] \in T
      BY <1>1, <1>6
    <3> QED
      BY <1>4, <3>1
  <2>4. g = [s \in S |-> g[s]]
    OBVIOUS
  <2>5. Is(g)
    BY <2>2, <2>3, <2>4, Zenon
  <2> HIDE DEF Is
  <2> QED
    BY <2>5
<1>8. Is(fold)
  <2> HIDE DEF Is
  <2> QED
    BY <1>7
<1>9. \A s \in S : fold[s] = IF s = {} THEN base
                             ELSE Set(fold[s \ {Max(s)}], bits[Max(s)])
  <2> HIDE DEF Set, fold, bits
  <2> QED
    BY <1>8, Zenon
<1> HIDE DEF fold, bits, X
<1> DEFINE Done(i) == /\ fold[1 .. i] \in X
                      /\ \A k \in 1 .. 4 : fold[1 .. i][k] = base[k] + Low(i - 8 * (4 - k))
           G == {i \in Nat : i <= L => Done(i)}
<1>10. 0 \in G
  <2>1. 1 .. 0 = {} /\ {} \in S
    OBVIOUS
  <2>2. fold[1 .. 0] = base
    BY <1>9, <2>1
  <2>3. \A k \in 1 .. 4 : base[k] = base[k] + Low(0 - 8 * (4 - k))
    <3>1. ASSUME NEW k \in 1 .. 4
          PROVE  Low(0 - 8 * (4 - k)) = 0 /\ base[k] \in Int
      <4>1. 0 \in 0 .. 31
        OBVIOUS
      <4>2. Low(0 - 8 * (4 - k)) = 0
        BY ONLY <4>1, k \in 1 .. 4, LowNext, Zenon
      <4> QED
        BY <1>2, <4>2 DEF X
    <3> QED
      BY <3>1
  <2>4. Done(0)
    BY <1>2, <2>2, <2>3
  <2> HIDE DEF Done
  <2> QED
    BY <2>4
<1>11. ASSUME NEW i \in Nat, i \in G
       PROVE  i + 1 \in G
  <2> SUFFICES ASSUME i + 1 <= L
               PROVE  Done(i + 1)
    <3> HIDE DEF Done
    <3> QED
      OBVIOUS
  <2>1. Done(i) /\ i \in 0 .. 31
    <3> HIDE DEF Done
    <3> QED
      BY <1>1, <1>11
  <2>2. /\ 1 .. i + 1 \in S /\ 1 .. i + 1 # {}
        /\ (1 .. i + 1) \ {i + 1} = 1 .. i
        /\ Max(1 .. i + 1) = i + 1
    <3>1. 1 .. i + 1 \in SUBSET (1 .. i + 1) /\ i + 1 \in 1 .. i + 1
      OBVIOUS
    <3>2. Max(1 .. i + 1) = i + 1
      BY <3>1, MaxOf
    <3>3. 1 .. i + 1 \in S
      BY <1>1, <2>1
    <3>4. (1 .. i + 1) \ {i + 1} = 1 .. i
      BY <2>1
    <3> QED
      BY <3>1, <3>2, <3>3, <3>4
  <2>3. bits[i + 1] = i
    BY <2>1 DEF bits
  <2>4. fold[1 .. i + 1] = Set(fold[1 .. i], i)
    <3> HIDE DEF Set, S
    <3> QED
      BY ONLY <1>9, <2>2, <2>3, Zenon
  <2> DEFINE a == fold[1 .. i]
             b == fold[1 .. i + 1]
             j == 4 - (i \div 8)
             w == 2^(i % 8)
  <2>5. a \in X /\ b \in X
    <3> HIDE DEF Set
    <3> QED
      BY <1>3, <2>1, <2>4
  <2>6. ASSUME NEW k \in 1 .. 4
        PROVE  b[k] = base[k] + Low(i + 1 - 8 * (4 - k))
    <3>1. /\ a[k] = base[k] + Low(i - 8 * (4 - k)) /\ base[k] \in Int
          /\ Low(i - 8 * (4 - k)) \in Int /\ w \in Int /\ j \in 1 .. 4
          /\ Low(i + 1 - 8 * (4 - k)) = Low(i - 8 * (4 - k)) + IF k = j THEN w ELSE 0
      BY <1>2, <2>1, LowNext DEF X
    <3>2. b = [a EXCEPT ![j] = a[j] + w]
      BY <2>4
    <3> HIDE DEF a, b, j, w
    <3>3. b[k] = a[k] + IF k = j THEN w ELSE 0
      BY <2>5, <3>1, <3>2 DEF X
    <3> QED
      BY <3>1, <3>3
  <2> QED
    BY <2>5, <2>6
<1>12. \A i \in Nat : i \in G
  <2> HIDE DEF G
  <2> QED
    BY <1>10, <1>11, NatInductionSet
<1>13. Done(L)
  <2> HIDE DEF Done
  <2> QED
    BY <1>1, <1>12
<1>14. ASSUME NEW k \in 1 .. 4
       PROVE  Low(L - 8 * (4 - k)) = Power(HostBits(n, k)) - 1
  BY DEF Low, HostBits
<1>15. \A k \in 1 .. 4 : Power(HostBits(n, k)) \in Int /\ base[k] \in Int
  <2>1. \A k \in 1 .. 4 : HostBits(n, k) \in 0 .. 8
    BY HighIs
  <2>2. \A k \in 1 .. 4 : Power(HostBits(n, k)) \in Int
    BY <2>1 DEF Power
  <2> QED
    BY <1>2, <2>2 DEF X
<1>16. \A k \in 1 .. 4 : fold[1 .. L][k] = base[k] + Power(HostBits(n, k)) - 1
  BY <1>13, <1>14, <1>15
<1> QED
  BY <1>5, <1>13, <1>16 DEF base, X

(* The bits of the k-th byte, from its lowest, among those of all four. *)
LEMMA BitOfByte ==
    ASSUME NEW a, NEW n \in 0 .. 32, NEW k \in 1 .. 4, NEW j \in 0 .. 7, j < HostBits(n, k)
    PROVE  \E i \in n .. 31 : i \in 0 .. 31 /\ BitOf(a[k], j) = Bit(a, i)
<1> DEFINE i == 8 * k - 1 - j
<1>1. i \in n .. 31 /\ i \in 0 .. 31 /\ i \div 8 + 1 = k /\ 7 - (i % 8) = j
  BY DEF HostBits
<1>2. Bit(a, i) = BitOf(a[i \div 8 + 1], 7 - (i % 8))
  BY <1>1, BitIs
<1> HIDE DEF i
<1>3. BitOf(a[k], j) = Bit(a, i)
  BY <1>1, <1>2
<1> QED
  BY <1>1, <1>3

(* An address that is not the lowest of its subnet has a host bit that is 1;
   one that is not the highest has one that is 0.                            *)
LEMMA HostBoth ==
    ASSUME NEW ip \in [1 .. 4 -> Byte], NEW n \in 0 .. 32
    PROVE  /\ ip # Masked(ip, n) => \E i \in n .. 31 : Bit(ip, i) = 1
           /\ ip # broadcast(ip, n) => \E i \in n .. 31 : Bit(ip, i) = 0
           /\ \A i \in 0 .. 31 : Bit(ip, i) \in {0, 1}
<1>1. \A i \in 0 .. 31 : Bit(ip, i) \in {0, 1}
  <2> SUFFICES ASSUME NEW i \in 0 .. 31
               PROVE  Bit(ip, i) \in {0, 1}
    OBVIOUS
  <2> DEFINE k == i \div 8 + 1
             j == 7 - (i % 8)
  <2>1. k \in 1 .. 4 /\ j \in 0 .. 7 /\ Bit(ip, i) = BitOf(ip[k], j)
    BY BitIs
  <2> HIDE DEF k, j
  <2> QED
    BY <2>1, ByteSum
<1>2. \A k \in 1 .. 4 : /\ HostBits(n, k) \in 0 .. 8
                        /\ Power(HostBits(n, k)) \in Nat
                        /\ ip[k] \in Byte /\ ip[k] \in Int
  <2>1. \A k \in 1 .. 4 : HostBits(n, k) \in 0 .. 8
    BY HighIs
  <2> QED
    BY <2>1 DEF Power, Byte
<1>3. ASSUME \A i \in n .. 31 : Bit(ip, i) # 1
      PROVE  ip = Masked(ip, n)
  <2>1. ASSUME NEW k \in 1 .. 4
        PROVE  Masked(ip, n)[k] = ip[k]
    <3>1. ASSUME NEW j \in 0 .. 7, j < HostBits(n, k)
          PROVE  BitOf(ip[k], j) = 0
      <4>1. PICK i \in n .. 31 : i \in 0 .. 31 /\ BitOf(ip[k], j) = Bit(ip, i)
        BY <3>1, BitOfByte
      <4> QED
        BY <1>1, <1>3, <4>1
    <3>2. ip[k] % Power(HostBits(n, k)) = 0
      BY <1>2, <3>1, LowBits
    <3>3. Masked(ip, n)[k] = ip[k] - (ip[k] % Power(HostBits(n, k)))
      BY MaskedIs
    <3>4. Masked(ip, n)[k] = ip[k] - 0
      BY <3>2, <3>3, Zenon
    <3> QED
      BY ONLY <1>2, <3>4
  <2>2. /\ Masked(ip, n) = [k \in 1 .. 4 |-> Masked(ip, n)[k]]
        /\ ip = [k \in 1 .. 4 |-> ip[k]]
    BY MaskedIs
  <2> QED
    BY ONLY <2>1, <2>2, Zenon
<1>4. ASSUME \A i \in n .. 31 : Bit(ip, i) # 0
      PROVE  ip = broadcast(ip, n)
  <2>1. ASSUME NEW k \in 1 .. 4
        PROVE  broadcast(ip, n)[k] = ip[k]
    <3>1. ASSUME NEW j \in 0 .. 7, j < HostBits(n, k)
          PROVE  BitOf(ip[k], j) = 1
      <4>1. PICK i \in n .. 31 : i \in 0 .. 31 /\ BitOf(ip[k], j) = Bit(ip, i)
        BY <3>1, BitOfByte
      <4> QED
        BY <1>1, <1>4, <4>1
    <3>2. ip[k] % Power(HostBits(n, k)) = Power(HostBits(n, k)) - 1
      BY <1>2, <3>1, LowBits
    <3>3. Masked(ip, n)[k] = ip[k] - (Power(HostBits(n, k)) - 1)
      BY <3>2, MaskedIs
    <3>4. broadcast(ip, n)[k] = Masked(ip, n)[k] + Power(HostBits(n, k)) - 1
      BY BroadcastIs
    <3> QED
      BY <1>2, <3>3, <3>4
  <2>2. /\ broadcast(ip, n) = [k \in 1 .. 4 |-> broadcast(ip, n)[k]]
        /\ ip = [k \in 1 .. 4 |-> ip[k]]
    BY BroadcastIs
  <2> QED
    BY ONLY <2>1, <2>2, Zenon
<1> QED
  BY <1>1, <1>3, <1>4

(* What cmdSet asks for once its checks are passed. *)
HostInv == stage \notin {"run", "exit"} => Valid(Asked(flags))

(* No step after the checks changes the flags. *)
LEMMA HostKept ==
    ASSUME HostInv, [Next]_vars
    PROVE  HostInv'
<1>1. ASSUME UNCHANGED flags
      PROVE  Asked(flags)' = Asked(flags) /\ Valid(Asked(flags))' = Valid(Asked(flags))
  <2>1. Asked(flags)' = Asked(flags)
    BY <1>1, Zenon DEF Asked, str, has
  <2> QED
    BY <2>1, Zenon DEF Valid
<1>2. ASSUME UNCHANGED cliVars
      PROVE  HostInv'
  BY <1>1, <1>2 DEF cliVars, HostInv
<1>3. ASSUME stage \notin {"run", "exit"}, UNCHANGED flags
      PROVE  HostInv'
  BY <1>1, <1>3 DEF HostInv
<1>4. CASE CheckArguments
  <2>1. CASE ~ FlagsOK(flags') \/ ~ Valid(Asked(flags'))
    BY <1>4, <2>1 DEF CheckArguments, Exit, HostInv
  <2>2. CASE Valid(Asked(flags'))
    <3>1. Valid(Asked(flags))'
      BY <2>2, Zenon DEF Valid, Asked, str, has
    <3> QED
      BY <3>1 DEF HostInv
  <2> QED
    BY <2>1, <2>2
<1>5. CASE Inquire \/ UnknownCommand \/ ListInterfaces
  BY <1>5 DEF Inquire, UnknownCommand, ListInterfaces, Exit, HostInv
<1>6. CASE \/ DisableEcho \/ ReadLine \/ Interrupt \/ RestoreEcho
           \/ CheckPassword \/ ChooseInterfaces \/ BuildPacket
  BY <1>3, <1>6 DEF DisableEcho, ReadLine, Interrupt, RestoreEcho, CheckPassword,
                    ChooseInterfaces, BuildPacket
<1>7. CASE CliStep
  BY <1>4, <1>5, <1>6, <1>7 DEF CliStep
<1> QED
  BY <1>2, <1>7 DEF Next, Answer, Captured, Read, Show, vars

(* A packet of a request that has passed the checks asks for a host. *)
LEMMA HostAsked ==
    ASSUME NEW r, NEW pw \in Bytes, Complete(r), Valid(r),
           sent = SetPacket(r, pw), PasswordFits(pw)
    PROVE  OnlyHostsAreAsked
<1> DEFINE n == MaskBits(r.mask)
           host == {i \in 0 .. 31 : Bit(r.mask, i) = 0}
<1>1. Field(sent, 40, 4) = r.ip /\ Field(sent, 44, 4) = r.mask
  BY SetPacketFields
<1>2. n \in 0 .. 32 /\ r.mask = MaskOf(n)
  BY DEF Valid, IsMask, MaskBits
<1>3. n < 31 => r.ip # Masked(r.ip, n) /\ r.ip # broadcast(r.ip, n)
  BY DEF Valid, IsHost
<1>4. r.ip \in [1 .. 4 -> Byte]
  BY LenProperties, ElementOfSeq DEF Complete, Request, Bytes
<1> HIDE DEF n
<1>5. \A i \in 0 .. 31 : i \in host <=> n <= i
  <2> SUFFICES ASSUME NEW i \in 0 .. 31
               PROVE  i \in host <=> n <= i
    OBVIOUS
  <2>1. Bit(r.mask, i) = IF i < n THEN 1 ELSE 0
    BY <1>2, MaskBit
  <2> QED
    BY <1>2, <2>1
<1>6. \A i \in host : \A j \in i .. 31 : j \in host
  BY <1>2, <1>5
<1>7. ASSUME Cardinality(host) > 1
      PROVE  n < 31
  <2> SUFFICES ASSUME n \in {31, 32}
               PROVE  FALSE
    BY <1>2
  <2>1. host = {} \/ host = {31}
    BY <1>5
  <2>2. Cardinality(host) \in {0, 1}
    BY <2>1, FS_EmptySet, FS_Singleton
  <2> QED
    BY <1>7, <2>2
<1>8. ASSUME n < 31
      PROVE  {Bit(r.ip, i) : i \in host} = {0, 1}
  <2>1. /\ \E i \in n .. 31 : Bit(r.ip, i) = 1
        /\ \E i \in n .. 31 : Bit(r.ip, i) = 0
        /\ \A i \in 0 .. 31 : Bit(r.ip, i) \in {0, 1}
    BY <1>2, <1>3, <1>4, <1>8, HostBoth
  <2>2. \A i \in n .. 31 : i \in host
    BY <1>2, <1>5
  <2>3. \A i \in host : i \in 0 .. 31
    OBVIOUS
  <2> HIDE DEF host
  <2> QED
    BY <2>1, <2>2, <2>3
<1>9. /\ \A i \in host : \A j \in i .. 31 : j \in host
      /\ Cardinality(host) > 1 => {Bit(r.ip, i) : i \in host} = {0, 1}
  BY <1>6, <1>7, <1>8
<1> DEFINE Zero(mask) == {i \in 0 .. 31 : Bit(mask, i) = 0}
           Says(ip, mask) ==
               /\ \A i \in Zero(mask) : \A j \in i .. 31 : j \in Zero(mask)
               /\ Cardinality(Zero(mask)) > 1 => {Bit(ip, i) : i \in Zero(mask)} = {0, 1}
<1>10. Says(r.ip, r.mask)
  BY ONLY <1>9
<1>11. Says(Field(sent, 40, 4), Field(sent, 44, 4))
  <2> HIDE DEF Says
  <2> QED
    BY ONLY <1>1, <1>10
<1> QED
  BY ONLY <1>11 DEF OnlyHostsAreAsked

(* maskToPrefix, broadcast and the checks of cmdSet: for any mask of any length
   and any address, what is sent is a contiguous mask and, where there is room
   for hosts, the address of one.                                           *)
THEOREM HostsAlone == Spec => []OnlyHostsAreAsked
<1>1. Init => HostInv
  BY DEF Init, CliInit, HostInv
<1>2. HostInv /\ [Next]_vars => HostInv'
  BY HostKept
<1>3. PathInv /\ HostInv => OnlyHostsAreAsked
  <2> SUFFICES ASSUME PathInv, HostInv, sent # Nil
               PROVE  OnlyHostsAreAsked
    BY DEF OnlyHostsAreAsked
  <2>1. /\ stage = "sent" /\ sent = SetPacket(Asked(flags), password)
        /\ Complete(Asked(flags)) /\ PasswordFits(password) /\ password \in Bytes
    BY DEF PathInv, CliInv
  <2>2. Valid(Asked(flags))
    BY <2>1 DEF HostInv
  <2> QED
    BY <2>1, <2>2, HostAsked
<1> QED
  BY <1>1, <1>2, <1>3, PathInductive, PTL DEF Spec
==============================================================================
