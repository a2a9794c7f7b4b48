--------------------------- MODULE FramingProofs ----------------------------
(***************************************************************************)
(* Proofs of Intact and RefusedForAReason of Framing, for any messages of  *)
(* any threads: as long as messages are not mixed, decode takes from the   *)
(* stream what encode has put into it.                                     *)
(***************************************************************************)
EXTENDS Framing, FormatProofs

-----------------------------------------------------------------------------
(* Calls of write joined to bytes.                                         *)

\* Nothing, put before or behind.
LEMMA CatNothing == \A S : \A s \in Seq(S) : Cat(<< >>, s) = s /\ Cat(s, << >>) = s
BY ConcatEmptySeq DEF Cat

\* One call.
LEMMA FlattenOne ==
    \A X : \A x \in Seq(X) : <<x>> \in Seq(Seq(X)) /\ FlattenSeq(<<x>>) = x
<1> SUFFICES ASSUME NEW X, NEW x \in Seq(X)
             PROVE  <<x>> \in Seq(Seq(X)) /\ FlattenSeq(<<x>>) = x
  OBVIOUS
<1> DEFINE s == <<x>>
<1>1. s \in [1 .. 1 -> Seq(X)] /\ Len(s) = 1 /\ s[1] = x /\ s \in Seq(Seq(X))
  OBVIOUS
<1> HIDE DEF s
<1>2. 1 \in Nat \ {0}
  OBVIOUS
<1>3. PICK f \in [1 .. 1 -> Seq(X)] : Joins(f, s, 1) /\ FlattenSeq(s) = f[1]
  BY <1>1, <1>2, FlattenJoins
<1>4. FlattenSeq(s) = x
  BY <1>1, <1>3 DEF Joins
<1> QED
  BY <1>1, <1>4 DEF s

\* What FlattenSeq makes of calls are bytes.
LEMMA FlattenType == \A X : \A s \in Seq(Seq(X)) : FlattenSeq(s) \in Seq(X)
<1> SUFFICES ASSUME NEW X, NEW s \in Seq(Seq(X)) PROVE FlattenSeq(s) \in Seq(X)
  OBVIOUS
<1> DEFINE n == Len(s)
<1>1. n \in Nat /\ s \in [1 .. n -> Seq(X)]
  OBVIOUS
<1> HIDE DEF n
<1>2. CASE n = 0
  <2>1. s = << >>
    BY <1>2, EmptySeq DEF n
  <2>2. FlattenSeq(s) = s
    BY <1>2, FlattenNothing DEF n
  <2>3. << >> \in Seq(X)
    OBVIOUS
  <2> QED
    BY <2>1, <2>2, <2>3, Zenon
<1>3. CASE n # 0
  <2>1. PICK f \in [1 .. n -> Seq(X)] : Joins(f, s, n) /\ FlattenSeq(s) = f[n]
    BY <1>1, <1>3, FlattenJoins DEF n
  <2>2. f[n] \in Seq(X)
    <3>1. n \in 1 .. n
      BY <1>1, <1>3
    <3> QED
      BY <3>1
  <2> QED
    BY <2>1, <2>2
<1> QED
  BY <1>2, <1>3

\* A call more.
LEMMA FlattenMore ==
    \A X : \A s \in Seq(Seq(X)) : \A x \in Seq(X) :
        FlattenSeq(Append(s, x)) = Cat(FlattenSeq(s), x)
<1> SUFFICES ASSUME NEW X, NEW s \in Seq(Seq(X)), NEW x \in Seq(X)
             PROVE  FlattenSeq(Append(s, x)) = Cat(FlattenSeq(s), x)
  OBVIOUS
<1> DEFINE n == Len(s)
           t == Append(s, x)
           k == n + 1
<1>1. /\ n \in Nat /\ s \in [1 .. n -> Seq(X)]
      /\ t \in [1 .. n + 1 -> Seq(X)] /\ Len(t) = n + 1 /\ t[n + 1] = x
      /\ \A i \in 1 .. n : t[i] = s[i]
  <2>1. n \in Nat /\ s \in [1 .. n -> Seq(X)]
    OBVIOUS
  <2>2. t \in Seq(Seq(X)) /\ Len(t) = n + 1 /\ t[n + 1] = x /\ \A i \in 1 .. n : t[i] = s[i]
    BY AppendProperties
  <2>3. t \in [1 .. n + 1 -> Seq(X)]
    <3> HIDE DEF t, n
    <3> QED
      BY <2>1, <2>2
  <2> QED
    BY <2>1, <2>2, <2>3
<1> HIDE DEF t, n
<1>2. k \in Nat \ {0} /\ k = n + 1 /\ k \in 1 .. k
  BY <1>1
<1> HIDE DEF k
<1>3. PICK g \in [1 .. k -> Seq(X)] : Joins(g, t, k) /\ FlattenSeq(t) = g[k]
  BY <1>1, <1>2, FlattenJoins, SMTT(30)
<1>4. CASE n = 0
  <2>1. k = 1 /\ t[1] = x
    BY <1>1, <1>2, <1>4
  <2>2. g[k] = x
    BY <1>3, <2>1 DEF Joins
  <2>3. s = << >>
    BY <1>4, EmptySeq DEF n
  <2>4. FlattenSeq(s) = << >>
    BY <1>4, <2>3, FlattenNothing DEF n
  <2> QED
    BY <1>3, <2>2, <2>4, CatNothing DEF t
<1>5. CASE n # 0
  <2>1. n \in Nat \ {0} /\ Len(s) = n
    BY <1>1, <1>5 DEF n
  <2>2. PICK f \in [1 .. n -> Seq(X)] : Joins(f, s, n) /\ FlattenSeq(s) = f[n]
    <3>1. s \in [1 .. n -> Seq(X)]
      BY <1>1
    <3> QED
      BY <2>1, <3>1, FlattenJoins
  <2>3. Joins(g, s, n)
    <3>1. g[1] = s[1]
      BY <1>1, <1>3, <2>1 DEF Joins
    <3>2. ASSUME NEW i \in 2 .. n PROVE g[i] = g[i - 1] \o s[i]
      <4>1. i \in 2 .. k /\ t[i] = s[i]
        BY <1>1, <1>2
      <4> QED
        BY <1>3, <4>1 DEF Joins
    <3> QED
      BY <3>1, <3>2 DEF Joins
  <2>4. g[n] = f[n]
    BY <2>1, <2>2, <2>3, Unique
  <2>5. g[k] = g[n] \o x
    <3>1. k \in 2 .. k /\ k - 1 = n /\ t[k] = x
      BY <1>1, <1>2, <2>1
    <3> QED
      BY <1>3, <3>1 DEF Joins
  <2> QED
    BY <1>3, <2>2, <2>4, <2>5 DEF Cat, t
<1> QED
  BY <1>4, <1>5

\* The first k of a sequence.
LEMMA FirstOnes ==
    \A X : \A t \in Seq(X) : \A k \in 1 .. Len(t) :
        /\ t[k] \in X /\ SubSeq(t, 1, k - 1) \in Seq(X)
        /\ SubSeq(t, 1, k) = SubSeq(t, 1, k - 1) \o <<t[k]>>
        /\ SubSeq(t, 1, k) = Append(SubSeq(t, 1, k - 1), t[k])
<1> SUFFICES ASSUME NEW X, NEW t \in Seq(X), NEW k \in 1 .. Len(t)
             PROVE
        /\ t[k] \in X /\ SubSeq(t, 1, k - 1) \in Seq(X)
        /\ SubSeq(t, 1, k) = SubSeq(t, 1, k - 1) \o <<t[k]>>
        /\ SubSeq(t, 1, k) = Append(SubSeq(t, 1, k - 1), t[k])
  OBVIOUS
<1> DEFINE p == SubSeq(t, 1, k - 1)
<1>1. p \in Seq(X) /\ t[k] \in X
  OBVIOUS
<1>2. SubSeq(t, 1, k) = Append(p, t[k])
  OBVIOUS
<1> HIDE DEF p
<1>3. Append(p, t[k]) = p \o <<t[k]>>
  BY <1>1, AppendIsConcat
<1> QED
  BY <1>1, <1>2, <1>3 DEF p

\* The calls of two parts.
LEMMA FlattenParts ==
    \A X : \A s, t \in Seq(Seq(X)) :
        s \o t \in Seq(Seq(X)) /\ FlattenSeq(s \o t) = Cat(FlattenSeq(s), FlattenSeq(t))
<1> SUFFICES ASSUME NEW X, NEW s \in Seq(Seq(X)), NEW t \in Seq(Seq(X))
             PROVE  /\ s \o t \in Seq(Seq(X))
                    /\ FlattenSeq(s \o t) = Cat(FlattenSeq(s), FlattenSeq(t))
  OBVIOUS
<1> DEFINE B == Seq(X)
           n == Len(t)
           a == FlattenSeq(s)
           Part(k) == SubSeq(t, 1, k)
           Is(k) == FlattenSeq(s \o Part(k)) = Cat(a, FlattenSeq(Part(k)))
           wrong == {k \in 0 .. n : ~Is(k)}
<1>1. n \in Nat
  OBVIOUS
<1>2. \A k \in 0 .. n : Part(k) \in Seq(B)
  OBVIOUS
<1>3. Part(n) = t
  OBVIOUS
<1>4. Is(0)
  <2>1. Part(0) = << >>
    OBVIOUS
  <2>2. s \o << >> = s /\ FlattenSeq(<< >>) = << >>
    BY ConcatEmptySeq, FlattenNothing
  <2>3. a \in Seq(X)
    BY FlattenType
  <2> QED
    BY <2>1, <2>2, <2>3, CatNothing
<1>5. ASSUME NEW k \in 1 .. n, Is(k - 1) PROVE Is(k)
  <2> DEFINE p == Part(k - 1)
             x == t[k]
  <2>1. p \in Seq(B) /\ x \in B /\ Part(k) = Append(p, x)
    BY FirstOnes
  <2>2. s \o p \in Seq(B) /\ s \o Append(p, x) = Append(s \o p, x)
    <3>1. p \in Seq(B) /\ x \in B
      BY <2>1
    <3> HIDE DEF p, x
    <3> QED
      BY <3>1, SMTT(30)
  <2>3. FlattenSeq(s \o p) = Cat(a, FlattenSeq(p))
    BY <1>5
  <2> HIDE DEF p, x, Part, a
  <2>4. FlattenSeq(s \o Part(k)) = Cat(Cat(a, FlattenSeq(p)), x)
    <3> DEFINE y == s \o p
    <3>1. y \in Seq(B) /\ x \in B /\ s \o Part(k) = Append(y, x)
      BY <2>1, <2>2
    <3>2. FlattenSeq(y) = Cat(a, FlattenSeq(p))
      BY <2>3
    <3> HIDE DEF y
    <3>3. FlattenSeq(Append(y, x)) = Cat(FlattenSeq(y), x)
      BY <3>1, FlattenMore
    <3> QED
      BY <3>1, <3>2, <3>3
  <2>5. FlattenSeq(Part(k)) = Cat(FlattenSeq(p), x)
    BY <2>1, FlattenMore
  <2>6. a \in Seq(X) /\ FlattenSeq(p) \in Seq(X)
    BY <2>1, FlattenType DEF a
  <2>7. Cat(a, Cat(FlattenSeq(p), x)) = Cat(Cat(a, FlattenSeq(p)), x)
    BY <2>1, <2>6, CatRegroup
  <2> QED
    BY <2>4, <2>5, <2>7
<1>6. ASSUME wrong # {} PROVE FALSE
  <2>1. PICK m \in wrong : \A k \in wrong : m <= k
    <3>1. wrong \subseteq Nat
      OBVIOUS
    <3> HIDE DEF wrong
    <3> QED
      BY <1>6, <3>1, Least
  <2>2. m \in 0 .. n /\ ~Is(m)
    OBVIOUS
  <2> HIDE DEF Is
  <2>3. m \in 1 .. n /\ m - 1 \in 0 .. n /\ ~(m <= m - 1)
    BY <1>1, <1>4, <2>2
  <2>4. Is(m - 1)
    BY <2>1, <2>3
  <2> QED
    BY <1>5, <2>2, <2>3, <2>4
<1>7. Is(n)
  <2> HIDE DEF Is
  <2>1. n \in 0 .. n
    BY <1>1
  <2> QED
    BY <1>6, <2>1
<1>8. s \o t \in Seq(B)
  OBVIOUS
<1> HIDE DEF Part, n
<1> QED
  BY <1>3, <1>7, <1>8 DEF a

\* The calls a write the bytes x.
Makes(a, x) == a \in Seq(Seq(Byte)) /\ FlattenSeq(a) = x /\ x \in Seq(Byte)

\* The last of the calls a writes something.
Ends(a) == Len(a) > 0 /\ a[Len(a)] # << >>

\* Calls after calls.
LEMMA MakesParts ==
    \A a, x : Makes(a, x) => \A b, y : Makes(b, y) =>
        Makes(a \o b, Cat(x, y)) /\ (Ends(b) => Ends(a \o b))
<1> SUFFICES ASSUME NEW a, NEW x, Makes(a, x), NEW b, NEW y, Makes(b, y)
             PROVE  Makes(a \o b, Cat(x, y)) /\ (Ends(b) => Ends(a \o b))
  OBVIOUS
<1> DEFINE c == a \o b
           B == Seq(Byte)
<1>1. a \in Seq(B) /\ b \in Seq(B) /\ FlattenSeq(a) = x /\ FlattenSeq(b) = y
      /\ x \in Seq(Byte) /\ y \in Seq(Byte)
  BY DEF Makes
<1>2. c \in Seq(B) /\ FlattenSeq(c) = Cat(x, y)
  BY <1>1, FlattenParts
<1>3. Cat(x, y) \in Seq(Byte)
  BY <1>1, CatType
<1>4. Ends(b) => Ends(c)
  <2> SUFFICES ASSUME Ends(b) PROVE Ends(c)
    OBVIOUS
  <2>1. Len(c) = Len(a) + Len(b) /\ Len(a) \in Nat /\ Len(b) \in Nat /\ Len(b) > 0
    BY <1>1 DEF Ends
  <2>2. c[Len(a) + Len(b)] = b[Len(b)]
    <3>1. \A i \in 1 .. Len(a) + Len(b) : c[i] = IF i <= Len(a) THEN a[i] ELSE b[i - Len(a)]
      BY <1>1, ConcatProperties
    <3> HIDE DEF c
    <3>2. /\ Len(a) + Len(b) \in 1 .. Len(a) + Len(b) /\ ~(Len(a) + Len(b) <= Len(a))
          /\ (Len(a) + Len(b)) - Len(a) = Len(b)
      BY <2>1
    <3> QED
      BY <3>1, <3>2
  <2>3. b[Len(b)] # << >>
    BY DEF Ends
  <2> HIDE DEF c
  <2> QED
    BY <2>1, <2>2, <2>3 DEF Ends
<1> HIDE DEF c
<1>5. Makes(c, Cat(x, y))
  BY <1>2, <1>3 DEF Makes
<1> QED
  BY <1>4, <1>5 DEF c

\* One call.
LEMMA MakesOne == \A x \in Seq(Byte) : Makes(<<x>>, x) /\ (x # << >> => Ends(<<x>>))
<1> SUFFICES ASSUME NEW x \in Seq(Byte) PROVE Makes(<<x>>, x) /\ (x # << >> => Ends(<<x>>))
  OBVIOUS
<1>1. Makes(<<x>>, x)
  BY FlattenOne DEF Makes
<1>2. Len(<<x>>) = 1 /\ <<x>>[1] = x
  OBVIOUS
<1> QED
  BY <1>1, <1>2 DEF Ends

\* No call.
LEMMA MakesNone == Makes(<< >>, << >>)
<1>1. << >> \in Seq(Seq(Byte)) /\ << >> \in Seq(Byte) /\ FlattenSeq(<< >>) = << >>
  BY FlattenNothing
<1> QED
  BY <1>1 DEF Makes

\* writeInt writes the bytes of encodeInt, one by one.
LEMMA MakesInt == \A n \in Int : Makes(writeInt(n), encodeInt(n)) /\ Ends(writeInt(n))
<1> SUFFICES ASSUME NEW n \in Int PROVE Makes(writeInt(n), encodeInt(n)) /\ Ends(writeInt(n))
  OBVIOUS
<1> DEFINE e == encodeInt(n)
           w == writeInt(n)
           x1 == <<e[1]>>
           x2 == <<e[2]>>
           x3 == <<e[3]>>
           x4 == <<e[4]>>
<1>1. e \in Seq(Byte) /\ Len(e) = 4
  BY IntBytes DEF INT_SIZE
<1>2. w = [i \in 1 .. 4 |-> <<e[i]>>]
  BY DEF writeInt, INT_SIZE
<1> HIDE DEF e, w
<1>3. /\ x1 \in Seq(Byte) /\ x2 \in Seq(Byte) /\ x3 \in Seq(Byte) /\ x4 \in Seq(Byte)
      /\ \A i \in 1 .. 4 : <<e[i]>> \in Seq(Byte)
  <2>1. \A i \in 1 .. 4 : e[i] \in Byte
    BY <1>1, SMTT(30)
  <2>2. \A z \in Byte : <<z>> \in Seq(Byte)
    OBVIOUS
  <2>3. \A i \in 1 .. 4 : <<e[i]>> \in Seq(Byte)
    BY <2>1, <2>2
  <2> QED
    BY <2>3
<1>4. w \in [1 .. 4 -> Seq(Byte)] /\ Len(w) = 4 /\ w \in Seq(Seq(Byte))
      /\ w[1] = x1 /\ w[2] = x2 /\ w[3] = x3 /\ w[4] = x4
  <2>1. w \in [1 .. 4 -> Seq(Byte)]
    BY <1>2, <1>3
  <2>2. \A k \in Nat : [1 .. k -> Seq(Byte)] \subseteq Seq(Seq(Byte))
    OBVIOUS
  <2>3. w \in Seq(Seq(Byte))
    BY <2>1, <2>2
  <2>4. Len(w) = 4
    BY <2>1, <2>3
  <2> QED
    BY <1>2, <2>1, <2>3, <2>4
<1>5. PICK f \in [1 .. 4 -> Seq(Byte)] : Joins(f, w, 4) /\ FlattenSeq(w) = f[4]
  <2>1. 4 \in Nat \ {0}
    OBVIOUS
  <2>2. \A k \in Nat \ {0} : \A seqs \in [1 .. k -> Seq(Byte)] :
          Len(seqs) = k
            => \E f \in [1 .. k -> Seq(Byte)] : Joins(f, seqs, k) /\ FlattenSeq(seqs) = f[k]
    BY FlattenJoins
  <2> QED
    BY <1>4, <2>1, <2>2
<1>6. f[1] = w[1] /\ f[2] = f[1] \o w[2] /\ f[3] = f[2] \o w[3] /\ f[4] = f[3] \o w[4]
  <2>1. f[1] = w[1] /\ \A i \in 2 .. 4 : f[i] = f[i - 1] \o w[i]
    BY <1>5 DEF Joins
  <2>2. 2 \in 2 .. 4 /\ 3 \in 2 .. 4 /\ 4 \in 2 .. 4 /\ 2 - 1 = 1 /\ 3 - 1 = 2 /\ 4 - 1 = 3
    OBVIOUS
  <2> QED
    BY <2>1, <2>2
<1>7. ASSUME NEW j \in 1 .. 4
      PROVE  e[j] \in Byte /\ SubSeq(e, 1, j) = SubSeq(e, 1, j - 1) \o <<e[j]>>
  <2>1. j \in 1 .. Len(e)
    BY <1>1
  <2> QED
    BY <1>1, <2>1, FirstOnes
<1>8. f[1] = SubSeq(e, 1, 1)
  BY <1>1, <1>4, <1>6
<1>9. f[2] = SubSeq(e, 1, 2)
  <2>1. SubSeq(e, 1, 2) = SubSeq(e, 1, 2 - 1) \o <<e[2]>>
    BY <1>7
  <2> QED
    BY <1>4, <1>6, <1>8, <2>1
<1>10. f[3] = SubSeq(e, 1, 3)
  <2>1. SubSeq(e, 1, 3) = SubSeq(e, 1, 3 - 1) \o <<e[3]>>
    BY <1>7
  <2> QED
    BY <1>4, <1>6, <1>9, <2>1
<1>13. f[4] = e
  <2>1. SubSeq(e, 1, 4) = SubSeq(e, 1, 4 - 1) \o <<e[4]>>
    BY <1>7
  <2>2. SubSeq(e, 1, Len(e)) = e
    BY <1>1
  <2>3. f[4] = SubSeq(e, 1, 4)
    BY <1>4, <1>6, <1>10, <2>1
  <2> QED
    BY <1>1, <2>2, <2>3
<1>11. Makes(w, e)
  BY <1>1, <1>4, <1>5, <1>13 DEF Makes
<1>12. Ends(w)
  <2>1. x4 # << >>
    OBVIOUS
  <2> QED
    BY <1>4, <2>1 DEF Ends
<1> QED
  BY <1>11, <1>12 DEF e, w

\* A string: its length and its bytes.
LEMMA MakesStr == \A s \in Seq(Byte) : Makes(writeStr(s), encodeString(s))
<1> SUFFICES ASSUME NEW s \in Seq(Byte) PROVE Makes(writeStr(s), encodeString(s))
  OBVIOUS
<1>1. Makes(writeInt(Len(s)), encodeInt(Len(s))) /\ Makes(<<s>>, s)
  BY MakesInt, MakesOne
<1>2. Makes(writeInt(Len(s)) \o <<s>>, Cat(encodeInt(Len(s)), s))
  BY <1>1, MakesParts
<1> QED
  BY <1>2 DEF writeStr, encodeString, Cat

\* A text: seven fields.
LEMMA MakesText ==
    \A v : /\ v[1] \in Seq(Byte) /\ v[2] \in Seq(Byte) /\ v[3] \in Seq(Byte)
           /\ v[4] \in Seq(Byte) /\ v[5] \in Int /\ v[6] \in Int
           /\ v[7] \in Seq(Byte) /\ v[7] # << >>
        => /\ Makes(MsgWrites(v),
                    encodeString(v[1]) \o encodeString(v[2]) \o encodeString(v[3]) \o v[4]
                      \o encodeInt(v[5]) \o encodeInt(v[6]) \o v[7])
           /\ Ends(MsgWrites(v))
<1> SUFFICES ASSUME NEW v, v[1] \in Seq(Byte), v[2] \in Seq(Byte), v[3] \in Seq(Byte),
                    v[4] \in Seq(Byte), v[5] \in Int, v[6] \in Int,
                    v[7] \in Seq(Byte), v[7] # << >>
             PROVE
           /\ Makes(MsgWrites(v),
                    encodeString(v[1]) \o encodeString(v[2]) \o encodeString(v[3]) \o v[4]
                      \o encodeInt(v[5]) \o encodeInt(v[6]) \o v[7])
           /\ Ends(MsgWrites(v))
  OBVIOUS
<1> DEFINE a1 == writeStr(v[1])
           a2 == a1 \o writeStr(v[2])
           a3 == a2 \o writeStr(v[3])
           a4 == a3 \o <<v[4]>>
           a5 == a4 \o writeInt(v[5])
           a6 == a5 \o writeInt(v[6])
           a7 == a6 \o <<v[7]>>
           x1 == encodeString(v[1])
           x2 == Cat(x1, encodeString(v[2]))
           x3 == Cat(x2, encodeString(v[3]))
           x4 == Cat(x3, v[4])
           x5 == Cat(x4, encodeInt(v[5]))
           x6 == Cat(x5, encodeInt(v[6]))
           x7 == Cat(x6, v[7])
<1>1. Makes(a1, x1)
  BY MakesStr
<1> HIDE DEF a1, x1
<1>2. Makes(a2, x2)
  BY <1>1, MakesStr, MakesParts
<1> HIDE DEF a2, x2
<1>3. Makes(a3, x3)
  BY <1>2, MakesStr, MakesParts
<1> HIDE DEF a3, x3
<1>4. Makes(a4, x4)
  BY <1>3, MakesOne, MakesParts
<1> HIDE DEF a4, x4
<1>5. Makes(a5, x5)
  BY <1>4, MakesInt, MakesParts
<1> HIDE DEF a5, x5
<1>6. Makes(a6, x6)
  BY <1>5, MakesInt, MakesParts
<1> HIDE DEF a6, x6
<1>7. Makes(a7, x7) /\ Ends(a7)
  <2>1. Makes(<<v[7]>>, v[7]) /\ Ends(<<v[7]>>)
    BY MakesOne
  <2> QED
    BY <1>6, <2>1, MakesParts
<1>8. MsgWrites(v) = a7
  BY DEF MsgWrites, a1, a2, a3, a4, a5, a6, a7
<1>9. x7 = encodeString(v[1]) \o encodeString(v[2]) \o encodeString(v[3]) \o v[4]
             \o encodeInt(v[5]) \o encodeInt(v[6]) \o v[7]
  BY DEF x1, x2, x3, x4, x5, x6, x7, Cat
<1> HIDE DEF a7, x7
<1> QED
  BY <1>7, <1>8, <1>9

\* Some calls and the calls after them.
LEMMA MakesAll ==
    \A k \in Nat : \A A \in [1 .. k -> Seq(Seq(Byte))] : \A E \in [1 .. k -> Seq(Byte)] :
        /\ Len(A) = k /\ Len(E) = k
        /\ \A j \in 1 .. k : Makes(A[j], E[j]) /\ Ends(A[j])
        => Makes(FlattenSeq(A), FlattenSeq(E)) /\ (k > 0 => Ends(FlattenSeq(A)))
<1> SUFFICES ASSUME NEW k \in Nat, NEW A \in [1 .. k -> Seq(Seq(Byte))],
                    NEW E \in [1 .. k -> Seq(Byte)], Len(A) = k, Len(E) = k,
                    \A j \in 1 .. k : Makes(A[j], E[j]) /\ Ends(A[j])
             PROVE  Makes(FlattenSeq(A), FlattenSeq(E)) /\ (k > 0 => Ends(FlattenSeq(A)))
  OBVIOUS
<1>1. CASE k = 0
  <2>1. A = << >> /\ E = << >>
    <3>1. \A S : \A s \in [1 .. 0 -> S] : s = << >>
      OBVIOUS
    <3> QED
      BY <1>1, <3>1
  <2>2. FlattenSeq(A) = << >> /\ FlattenSeq(E) = << >>
    BY <2>1, FlattenNothing
  <2> QED
    BY <1>1, <2>2, MakesNone
<1>2. CASE k # 0
  <2>1. k \in Nat \ {0}
    BY <1>2
  <2>2. PICK f \in [1 .. k -> Seq(Seq(Byte))] : Joins(f, A, k) /\ FlattenSeq(A) = f[k]
    BY <2>1, FlattenJoins
  <2>3. PICK g \in [1 .. k -> Seq(Byte)] : Joins(g, E, k) /\ FlattenSeq(E) = g[k]
    BY <2>1, FlattenJoins
  <2> DEFINE Is(j) == Makes(f[j], g[j]) /\ Ends(f[j])
             wrong == {j \in 1 .. k : ~Is(j)}
  <2>4. Is(1)
    <3>1. f[1] = A[1] /\ g[1] = E[1] /\ 1 \in 1 .. k
      BY <2>1, <2>2, <2>3 DEF Joins
    <3> QED
      BY <3>1
  <2>5. ASSUME NEW j \in 2 .. k, Is(j - 1) PROVE Is(j)
    <3>1. f[j] = f[j - 1] \o A[j] /\ g[j] = Cat(g[j - 1], E[j]) /\ j \in 1 .. k
      <4>1. f[j] = f[j - 1] \o A[j]
        BY <2>2 DEF Joins
      <4>2. g[j] = g[j - 1] \o E[j]
        BY <2>3 DEF Joins
      <4> QED
        BY <4>1, <4>2 DEF Cat
    <3>2. Makes(A[j], E[j]) /\ Ends(A[j])
      BY <3>1
    <3>3. Makes(f[j - 1], g[j - 1])
      BY <2>5
    <3> QED
      BY <3>1, <3>2, <3>3, MakesParts
  <2>6. ASSUME wrong # {} PROVE FALSE
    <3>1. PICK i \in wrong : \A j \in wrong : i <= j
      <4>1. wrong \subseteq Nat
        OBVIOUS
      <4> HIDE DEF wrong
      <4> QED
        BY <2>6, <4>1, Least
    <3>2. i \in 1 .. k /\ ~Is(i)
      OBVIOUS
    <3> HIDE DEF Is
    <3>3. i \in 2 .. k /\ i - 1 \in 1 .. k /\ ~(i <= i - 1)
      BY <2>4, <3>2
    <3>4. Is(i - 1)
      BY <3>1, <3>3
    <3> QED
      BY <2>5, <3>2, <3>3, <3>4
  <2>7. Is(k)
    <3> HIDE DEF Is
    <3>1. k \in 1 .. k
      BY <2>1
    <3> QED
      BY <2>6, <3>1
  <2> QED
    BY <2>2, <2>3, <2>7
<1> QED
  BY <1>1, <1>2

\* A client sends no challenges and no acknowledgements.
LEMMA ClientKinds ==
    \A m : ClientMessage(m) => \A c \in 1 .. Len(m.vals) :
        Kinds(m)[c] \in Kind \ {"challenge", "ack"}
<1> SUFFICES ASSUME NEW m, ClientMessage(m), NEW c \in 1 .. Len(m.vals)
             PROVE  Kinds(m)[c] \in Kind \ {"challenge", "ack"}
  OBVIOUS
<1>1. Complete(m) /\ m.type \in {"Login", "Response", "Poll", "PollResponse"}
  BY DEF ClientMessage
<1>2. Kinds(m)[c] \in Kind
  BY <1>1, KindOf
<1>3. CASE ~(c <= First(m))
  <2>1. PICK j \in 1 .. Count(m), x \in 1 .. 7 : c = (4 + 7 * (j - 1)) + x
    BY <1>1, <1>3, TextOf
  <2>2. Kinds(m)[c] = MsgFormat[x]
    BY <1>1, <2>1, TextAt
  <2>3. MsgFormat[x] \in {"string", "name", "int", "count", "time", "length"}
    BY MsgKinds
  <2> QED
    BY <1>2, <2>2, <2>3
<1>4. CASE c <= First(m)
  <2>1. First(m) \in 1 .. 4
    BY <1>1, Codes6
  <2>2. c \in 1 .. First(m)
    BY <1>4, <2>1
  <2>3. CASE m.type = "Login"
    <3>1. First(m) = 2 /\ Kinds(m)[1] = "name" /\ Kinds(m)[2] = "key"
      BY <1>1, <2>3, FirstKinds
    <3>2. c = 1 \/ c = 2
      BY <2>2, <3>1
    <3> QED
      BY <1>2, <3>1, <3>2
  <2>4. CASE m.type = "Response"
    <3>1. /\ First(m) = 3 /\ Kinds(m)[1] = "name" /\ Kinds(m)[2] = "string"
          /\ Kinds(m)[3] = "nonce"
      BY <1>1, <2>4, FirstKinds
    <3>2. c = 1 \/ c = 2 \/ c = 3
      BY <2>2, <3>1
    <3> QED
      BY <1>2, <3>1, <3>2
  <2>5. CASE m.type = "Poll"
    <3>1. First(m) = 2 /\ Kinds(m)[1] = "name" /\ Kinds(m)[2] = "long"
      BY <1>1, <2>5, FirstKinds
    <3>2. c = 1 \/ c = 2
      BY <2>2, <3>1
    <3> QED
      BY <1>2, <3>1, <3>2
  <2>6. CASE m.type = "PollResponse"
    <3>1. /\ First(m) = 4 /\ Kinds(m)[1] = "name" /\ Kinds(m)[2] = "count"
          /\ Kinds(m)[3] = "count" /\ Kinds(m)[4] = "int"
      BY <1>1, <2>6, FirstKinds
    <3>2. c = 1 \/ c = 2 \/ c = 3 \/ c = 4
      BY <2>2, <3>1
    <3> QED
      BY <1>2, <3>1, <3>2
  <2> QED
    BY <1>1, <2>3, <2>4, <2>5, <2>6
<1> QED
  BY <1>3, <1>4

\* What the client has for a field is what the constructor takes.
LEMMA SendableFits ==
    \A v : \A kind \in Kind \ {"challenge", "ack"} : Sendable(v, kind) => v \in Values(kind)
<1> SUFFICES ASSUME NEW v, NEW kind \in Kind \ {"challenge", "ack"}, Sendable(v, kind)
             PROVE  v \in Values(kind)
  OBVIOUS
<1>1. CASE kind = "string"
  BY <1>1 DEF Sendable, Values
<1>2. CASE kind = "name"
  BY <1>2 DEF Sendable, Values
<1>3. CASE kind = "int"
  BY <1>3 DEF Sendable, Values
<1>4. CASE kind = "count"
  BY <1>4 DEF Sendable, Values
<1>5. CASE kind \in {"long", "nonce"}
  <2>1. v \in Seq(Byte) /\ Len(v) = LONG_SIZE
    BY <1>5 DEF Sendable
  <2> QED
    BY <1>5, <2>1 DEF Values, Octets
<1>6. CASE kind = "time"
  BY <1>6 DEF Sendable, Values, Octets
<1>7. CASE kind = "length"
  BY <1>7 DEF Sendable, Values, Octets
<1>8. CASE kind = "key"
  BY <1>8 DEF Sendable, Values
<1> QED
  BY <1>1, <1>2, <1>3, <1>4, <1>5, <1>6, <1>7, <1>8 DEF Kind

\* So the messages of the client can be read back.
LEMMA ClientFits ==
    \A m : ClientMessage(m) =>
        /\ Fitting(m, m.vals)
        /\ \A c \in 1 .. Len(m.vals) : m.vals[c] \in Values(Kinds(m)[c])
<1> SUFFICES ASSUME NEW m, ClientMessage(m)
             PROVE  /\ Fitting(m, m.vals)
                    /\ \A c \in 1 .. Len(m.vals) : m.vals[c] \in Values(Kinds(m)[c])
  OBVIOUS
<1> DEFINE V == m.vals
           n == Len(V)
<1>1. Complete(m) /\ \A i \in DOMAIN V : Sendable(V[i], Kinds(m)[i])
  BY DEF ClientMessage
<1>2. DOMAIN V = 1 .. n /\ V \in Seq(ValsOf(m))
  BY <1>1, ValsAre
<1>3. \A c \in 1 .. n : V[c] \in Values(Kinds(m)[c])
  BY <1>1, <1>2, ClientKinds, SendableFits
<1>4. CanBeRead(V, Kinds(m))
  BY <1>1, <1>2, <1>3, KindOf DEF CanBeRead
<1>5. V \in Seq({V[i] : i \in DOMAIN V})
  BY <1>2 DEF ValsOf
<1> QED
  BY <1>1, <1>2, <1>3, <1>4, <1>5 DEF Fitting

\* The pieces of a message of the client.
LEMMA SentPieces ==
    \A m : Complete(m) => \A c \in 1 .. Len(m.vals) : \A kind, v :
        kind = Kinds(m)[c] /\ v = m.vals[c] =>
        /\ kind \in {"string", "name"} => Pieces(m.vals, Kinds(m))[c] = encodeString(v)
        /\ kind \in {"int", "count"} => Pieces(m.vals, Kinds(m))[c] = encodeInt(v)
        /\ kind \in {"long", "length", "time", "nonce", "key"} => Pieces(m.vals, Kinds(m))[c] = v
<1> SUFFICES ASSUME NEW m, Complete(m), NEW c \in 1 .. Len(m.vals), NEW kind, NEW v,
                    kind = Kinds(m)[c], v = m.vals[c]
             PROVE
        /\ kind \in {"string", "name"} => Pieces(m.vals, Kinds(m))[c] = encodeString(v)
        /\ kind \in {"int", "count"} => Pieces(m.vals, Kinds(m))[c] = encodeInt(v)
        /\ kind \in {"long", "length", "time", "nonce", "key"} => Pieces(m.vals, Kinds(m))[c] = v
  OBVIOUS
<1> DEFINE x == Pieces(m.vals, Kinds(m))[c]
<1>1. c \in DOMAIN m.vals
  BY ValsAre
<1>2. x = Wire(v, kind)
  BY <1>1 DEF Pieces
<1> HIDE DEF x
<1>3. kind \in {"string", "name"} => x = encodeString(v)
  BY <1>2 DEF Wire
<1>4. kind \in {"int", "count"} => x = encodeInt(v)
  BY <1>2 DEF Wire
<1>5. kind \in {"long", "length", "time", "nonce", "key"} => x = v
  BY <1>2 DEF Wire
<1> QED
  BY <1>3, <1>4, <1>5 DEF x

\* What is known of each kind of field.
LEMMA ValueBytes ==
    \A kind : \A v \in Values(kind) :
        /\ kind \in {"string", "name", "key"} => v \in Seq(Byte)
        /\ kind \in {"long", "nonce", "time", "length"} => v \in Seq(Byte) /\ Len(v) = 8
        /\ kind \in {"int", "count"} => v \in Int
        /\ kind = "key" => /\ v # << >> /\ setKey(v[1], Tail(v)) /\ (v[1] = 0 => Len(v) = 1)
<1> SUFFICES ASSUME NEW kind, NEW v \in Values(kind)
             PROVE
        /\ kind \in {"string", "name", "key"} => v \in Seq(Byte)
        /\ kind \in {"long", "nonce", "time", "length"} => v \in Seq(Byte) /\ Len(v) = 8
        /\ kind \in {"int", "count"} => v \in Int
        /\ kind = "key" => /\ v # << >> /\ setKey(v[1], Tail(v)) /\ (v[1] = 0 => Len(v) = 1)
  OBVIOUS
<1>1. kind \in {"string", "name"} => v \in Seq(Byte)
  BY DEF Values
<1>2. kind \in {"long", "nonce"} => v \in Octets(LONG_SIZE)
  BY DEF Values
<1>3. kind = "time" => v \in Octets(LONG_SIZE)
  BY DEF Values
<1>4. kind = "length" => v \in Octets(LONG_SIZE)
  BY DEF Values
<1>5. kind = "int" => v \in Int32
  BY DEF Values
<1>6. kind = "count" => v \in Int32
  BY DEF Values
<1>7. kind = "key" => /\ v \in Seq(Byte) /\ v # << >> /\ setKey(v[1], Tail(v))
                      /\ (v[1] = 0 => Len(v) = 1)
  BY DEF Values
<1>8. kind \in {"long", "nonce", "time", "length"} => v \in Seq(Byte) /\ Len(v) = 8
  BY <1>2, <1>3, <1>4 DEF Octets, LONG_SIZE
<1>9. kind \in {"int", "count"} => v \in Int
  BY <1>5, <1>6, SmallInt
<1> QED
  BY <1>1, <1>7, <1>8, <1>9

\* encode of a message writes its fields, and as many bytes as the constructor
\* has announced.
Announced(m) ==
    /\ Makes(Payload(m), PayloadOf(m, m.vals)) /\ Ends(Payload(m))
    /\ Len(PayloadOf(m, m.vals)) = messageLen(m)

\* The values of the fields.
LEMMA ClientValue ==
    \A m : ClientMessage(m) => \A c \in 1 .. Len(m.vals) : \A kind :
        kind = Kinds(m)[c] => m.vals[c] \in Values(kind)
BY ClientFits

\* What has a length is not empty.
LEMMA NotNone == \A x : Len(x) > 0 => x # << >>
<1>1. Len(<< >>) = 0
  OBVIOUS
<1> QED
  BY <1>1

\* Login
LEMMA LoginAnnounced ==
    ASSUME NEW m, ClientMessage(m), m.type = "Login"
    PROVE  Announced(m)
<1> DEFINE C == Pieces(m.vals, Kinds(m))
           v == m.vals
           name == v[1]
           key == v[2]
           k1 == SubSeq(key, 1, 1)
           s == encodeString(name)
           b == PayloadOf(m, m.vals)
<1>1. Complete(m)
  BY DEF ClientMessage
<1>2. First(m) = 2 /\ Kinds(m)[1] = "name" /\ Kinds(m)[2] = "key" /\ Count(m) = 0
  BY <1>1, FirstKinds DEF Count
<1>3. 1 \in 1 .. Len(v) /\ 2 \in 1 .. Len(v)
  <2>1. Len(v) = First(m) + 7 * Count(m)
    BY <1>1, Codes6
  <2> HIDE DEF v
  <2>2. Len(v) = 2
    BY <1>2, <2>1
  <2> QED
    BY <2>2
<1>4. C[1] = s /\ C[2] = key
  <2>1. C[1] = s
    BY <1>1, <1>2, <1>3, SentPieces
  <2>2. C[2] = key
    BY <1>1, <1>2, <1>3, SentPieces
  <2> QED
    BY <2>1, <2>2
<1>5. name \in Seq(Byte) /\ key \in Seq(Byte) /\ key # << >>
  <2>1. name \in Values("name") /\ key \in Values("key")
    BY <1>2, <1>3, ClientValue
  <2>2. name \in Seq(Byte)
    BY <2>1, ValueBytes
  <2>3. key \in Seq(Byte) /\ key # << >>
    BY <2>1, ValueBytes
  <2> QED
    BY <2>2, <2>3
<1>6. b = Cat(s, key)
  BY <1>2, <1>4 DEF PayloadOf, Middle, Heads
<1>7. Payload(m) = writeStr(name) \o <<k1>>
                     \o (IF Len(key) > 1 THEN <<Tail(key)>> ELSE << >>)
  BY DEF Payload
<1>8. messageLen(m) = 4 + Len(name) + Len(key)
  BY DEF messageLen, INT_SIZE
<1> HIDE DEF name, key, C
<1>9. k1 \in Seq(Byte) /\ k1 # << >> /\ Len(key) \in Nat /\ Len(name) \in Nat
  <2>1. Len(key) \in Nat /\ Len(key) >= 1 /\ Len(name) \in Nat
    BY <1>5
  <2>2. k1 \in Seq(Byte) /\ Len(k1) = 1
    BY <1>5, <2>1
  <2> HIDE DEF k1
  <2>3. k1 # << >>
    BY <2>2
  <2> QED
    BY <2>1, <2>2, <2>3
<1>10. key = Cat(k1, Tail(key)) /\ Tail(key) \in Seq(Byte)
       /\ (Len(key) > 1 => Tail(key) # << >>) /\ (~(Len(key) > 1) => key = k1)
  <2>1. key = k1 \o Tail(key)
    <3> DEFINE t == Tail(key)
               z == k1 \o t
    <3>1. k1 \in Seq(Byte) /\ Len(k1) = 1 /\ k1[1] = key[1] /\ Len(key) \in Nat /\ Len(key) >= 1
      <4>1. Len(key) \in Nat /\ Len(key) >= 1
        BY <1>5
      <4> QED
        BY <1>5, <4>1
    <3>2. t \in Seq(Byte) /\ Len(t) = Len(key) - 1 /\ \A i \in 1 .. Len(t) : t[i] = key[i + 1]
      BY <1>5
    <3> HIDE DEF k1, t
    <3>3. z \in Seq(Byte) /\ Len(z) = Len(k1) + Len(t)
          /\ \A i \in 1 .. Len(k1) + Len(t) : z[i] = IF i <= Len(k1) THEN k1[i] ELSE t[i - Len(k1)]
      <4>1. k1 \in Seq(Byte) /\ t \in Seq(Byte)
        BY <3>1, <3>2
      <4> QED
        BY ONLY <4>1, ConcatProperties, SMTT(20)
    <3> HIDE DEF z
    <3>4. Len(z) = Len(key)
      BY <3>1, <3>2, <3>3
    <3>5. ASSUME NEW i \in 1 .. Len(key) PROVE z[i] = key[i]
      <4>1. z[i] = IF i <= 1 THEN k1[i] ELSE t[i - 1]
        BY <3>1, <3>2, <3>3
      <4>2. i = 1 \/ (i > 1 /\ i - 1 \in 1 .. Len(t) /\ (i - 1) + 1 = i)
        BY <3>1, <3>2
      <4> QED
        BY <3>1, <3>2, <4>1, <4>2
    <3>6. z = key
      BY <1>5, <3>3, <3>4, <3>5, SeqEqual
    <3> QED
      BY <3>6 DEF z, t
  <2>2. Tail(key) \in Seq(Byte) /\ Len(Tail(key)) = Len(key) - 1 /\ Len(key) \in Nat /\ Len(key) >= 1
    <3>1. Len(key) \in Nat /\ Len(key) >= 1
      BY <1>5
    <3> QED
      BY <1>5, <3>1
  <2>3. Len(key) > 1 => Tail(key) # << >>
    BY <2>2
  <2>4. ~(Len(key) > 1) => key = k1
    <3> SUFFICES ASSUME ~(Len(key) > 1) PROVE key = k1
      OBVIOUS
    <3>1. Len(key) = 1
      BY <2>2
    <3>2. SubSeq(key, 1, Len(key)) = key
      BY <1>5
    <3> QED
      BY <3>1, <3>2
  <2> QED
    BY <2>1, <2>2, <2>3, <2>4 DEF Cat
<1>11. s \in Seq(Byte) /\ Len(s) = 4 + Len(name)
  BY <1>5, StringLength DEF INT_SIZE
<1>12. Makes(writeStr(name), s)
  BY <1>5, MakesStr
<1> HIDE DEF s, k1, b
<1>13. Makes(<<k1>>, k1) /\ Ends(<<k1>>)
  BY <1>9, MakesOne
<1>14. Makes(writeStr(name) \o <<k1>>, Cat(s, k1)) /\ Ends(writeStr(name) \o <<k1>>)
  BY <1>12, <1>13, MakesParts
<1>15. Makes(Payload(m), b) /\ Ends(Payload(m))
  <2>1. CASE Len(key) > 1
    <3> DEFINE w == writeStr(name) \o <<k1>>
               t == Tail(key)
    <3>1. Makes(<<t>>, t) /\ Ends(<<t>>)
      BY <1>10, <2>1, MakesOne
    <3>2. Makes(w, Cat(s, k1))
      BY <1>14
    <3>3. Payload(m) = w \o <<t>>
      BY <1>7, <2>1
    <3>6. t \in Seq(Byte) /\ key = Cat(k1, t)
      BY <1>10
    <3> HIDE DEF w, t
    <3>4. Cat(Cat(s, k1), t) = b
      <4>1. Cat(s, Cat(k1, t)) = Cat(Cat(s, k1), t)
        BY <1>9, <1>11, <3>6, CatRegroup
      <4> QED
        BY <1>6, <3>6, <4>1
    <3>5. Makes(w \o <<t>>, Cat(Cat(s, k1), t)) /\ Ends(w \o <<t>>)
      BY <3>1, <3>2, MakesParts
    <3> QED
      BY <3>3, <3>4, <3>5
  <2>2. CASE ~(Len(key) > 1)
    <3> DEFINE w == writeStr(name) \o <<k1>>
    <3>1. Makes(w, b) /\ Ends(w)
      BY <1>6, <1>10, <1>14, <2>2
    <3>2. Payload(m) = w \o << >>
      BY <1>7, <2>2
    <3>3. w \in Seq(Seq(Byte))
      BY <3>1 DEF Makes
    <3> HIDE DEF w
    <3>4. w \o << >> = w
      BY <3>3, ConcatEmptySeq
    <3> QED
      BY <3>1, <3>2, <3>4
  <2> QED
    BY <2>1, <2>2
<1>16. Len(b) = messageLen(m)
  <2>1. Len(b) = Len(s) + Len(key)
    BY <1>5, <1>6, <1>11, CatLength
  <2> QED
    BY <1>8, <1>9, <1>11, <2>1
<1> QED
  BY <1>15, <1>16 DEF Announced, b

\* Poll
LEMMA PollAnnounced ==
    ASSUME NEW m, ClientMessage(m), m.type = "Poll"
    PROVE  Announced(m)
<1> DEFINE C == Pieces(m.vals, Kinds(m))
           v == m.vals
           name == v[1]
           time == v[2]
           s == encodeString(name)
           b == PayloadOf(m, m.vals)
<1>1. Complete(m)
  BY DEF ClientMessage
<1>2. First(m) = 2 /\ Kinds(m)[1] = "name" /\ Kinds(m)[2] = "long" /\ Count(m) = 0
  BY <1>1, FirstKinds DEF Count
<1>3. 1 \in 1 .. Len(v) /\ 2 \in 1 .. Len(v)
  <2>1. Len(v) = First(m) + 7 * Count(m)
    BY <1>1, Codes6
  <2> HIDE DEF v
  <2>2. Len(v) = 2
    BY <1>2, <2>1
  <2> QED
    BY <2>2
<1>4. C[1] = s
  BY <1>1, <1>2, <1>3, SentPieces
<1>5. C[2] = time
  BY <1>1, <1>2, <1>3, SentPieces
<1>6. name \in Seq(Byte) /\ time \in Seq(Byte) /\ Len(time) = 8
  <2>1. name \in Values("name") /\ time \in Values("long")
    BY <1>2, <1>3, ClientValue
  <2>2. name \in Seq(Byte)
    BY <2>1, ValueBytes
  <2>3. time \in Seq(Byte) /\ Len(time) = 8
    BY <2>1, ValueBytes
  <2> QED
    BY <2>2, <2>3
<1>7. b = Cat(s, time)
  BY <1>2, <1>4, <1>5 DEF PayloadOf, Middle, Heads
<1>8. Payload(m) = writeStr(name) \o <<time>>
  BY DEF Payload
<1>9. messageLen(m) = 4 + Len(name) + 8
  BY DEF messageLen, INT_SIZE, LONG_SIZE
<1> HIDE DEF name, time, C
<1>10. s \in Seq(Byte) /\ Len(s) = 4 + Len(name) /\ Len(name) \in Nat
  <2>1. Len(name) \in Nat
    BY <1>6
  <2> QED
    BY <1>6, <2>1, StringLength DEF INT_SIZE
<1>11. Makes(writeStr(name), s)
  BY <1>6, MakesStr
<1> HIDE DEF s, b
<1>12. time # << >>
  <2>1. Len(time) > 0
    BY <1>6
  <2> QED
    BY <2>1, NotNone
<1>13. Makes(<<time>>, time) /\ Ends(<<time>>)
  BY <1>6, <1>12, MakesOne
<1>14. Makes(Payload(m), b) /\ Ends(Payload(m))
  BY <1>7, <1>8, <1>11, <1>13, MakesParts
<1>15. Len(b) = messageLen(m)
  <2>1. Len(b) = Len(s) + Len(time)
    BY <1>6, <1>7, <1>10, CatLength
  <2> QED
    BY <1>6, <1>9, <1>10, <2>1
<1> QED
  BY <1>14, <1>15 DEF Announced, b

\* Response
LEMMA ResponseAnnounced ==
    ASSUME NEW m, ClientMessage(m), m.type = "Response"
    PROVE  Announced(m)
<1> DEFINE C == Pieces(m.vals, Kinds(m))
           v == m.vals
           name == v[1]
           hash == v[2]
           nonce == v[3]
           s == encodeString(name)
           t == encodeString(hash)
           b == PayloadOf(m, m.vals)
<1>1. Complete(m)
  BY DEF ClientMessage
<1>2. /\ First(m) = 3 /\ Kinds(m)[1] = "name" /\ Kinds(m)[2] = "string"
      /\ Kinds(m)[3] = "nonce" /\ Count(m) = 0
  BY <1>1, FirstKinds DEF Count
<1>3. 1 \in 1 .. Len(v) /\ 2 \in 1 .. Len(v) /\ 3 \in 1 .. Len(v)
  <2>1. Len(v) = First(m) + 7 * Count(m)
    BY <1>1, Codes6
  <2> HIDE DEF v
  <2>2. Len(v) = 3
    BY <1>2, <2>1
  <2> QED
    BY <2>2
<1>4. C[1] = s
  BY <1>1, <1>2, <1>3, SentPieces
<1>5. C[2] = t
  BY <1>1, <1>2, <1>3, SentPieces
<1>6. C[3] = nonce
  BY <1>1, <1>2, <1>3, SentPieces
<1>7. name \in Seq(Byte) /\ hash \in Seq(Byte) /\ nonce \in Seq(Byte) /\ Len(nonce) = 8
  <2>1. name \in Values("name") /\ hash \in Values("string") /\ nonce \in Values("nonce")
    BY <1>2, <1>3, ClientValue
  <2>2. name \in Seq(Byte)
    BY <2>1, ValueBytes
  <2>3. hash \in Seq(Byte)
    BY <2>1, ValueBytes
  <2>4. nonce \in Seq(Byte) /\ Len(nonce) = 8
    BY <2>1, ValueBytes
  <2> QED
    BY <2>2, <2>3, <2>4
<1>8. b = Cat(Cat(s, t), nonce)
  BY <1>2, <1>4, <1>5, <1>6 DEF PayloadOf, Middle, Heads
<1>9. Payload(m) = writeStr(name) \o writeStr(hash) \o <<nonce>>
  BY DEF Payload
<1>10. messageLen(m) = 4 * 2 + Len(name) + Len(hash) + 8
  BY DEF messageLen, INT_SIZE, LONG_SIZE
<1> HIDE DEF name, hash, nonce, C
<1>11. s \in Seq(Byte) /\ Len(s) = 4 + Len(name) /\ Len(name) \in Nat
  <2>1. Len(name) \in Nat
    BY <1>7
  <2> QED
    BY <1>7, <2>1, StringLength DEF INT_SIZE
<1>12. t \in Seq(Byte) /\ Len(t) = 4 + Len(hash) /\ Len(hash) \in Nat
  <2>1. Len(hash) \in Nat
    BY <1>7
  <2> QED
    BY <1>7, <2>1, StringLength DEF INT_SIZE
<1>13. Makes(writeStr(name), s)
  BY <1>7, MakesStr
<1>14. Makes(writeStr(hash), t)
  BY <1>7, MakesStr
<1> HIDE DEF s, t, b
<1>15. Makes(<<nonce>>, nonce) /\ Ends(<<nonce>>)
  <2>1. nonce # << >>
    <3>1. Len(nonce) > 0
      BY <1>7
    <3> QED
      BY <3>1, NotNone
  <2> QED
    BY <1>7, <2>1, MakesOne
<1>16. Makes(Payload(m), b) /\ Ends(Payload(m))
  <2> DEFINE w == writeStr(name) \o writeStr(hash)
  <2>1. Makes(w, Cat(s, t))
    BY <1>13, <1>14, MakesParts
  <2>2. Payload(m) = w \o <<nonce>>
    BY <1>9
  <2> HIDE DEF w
  <2> QED
    BY <1>8, <1>15, <2>1, <2>2, MakesParts
<1>17. Len(b) = messageLen(m)
  <2>1. Cat(s, t) \in Seq(Byte) /\ Len(Cat(s, t)) = Len(s) + Len(t)
    BY <1>11, <1>12, CatLength
  <2>2. Len(b) = Len(Cat(s, t)) + Len(nonce)
    BY <1>7, <1>8, <2>1, CatLength
  <2> QED
    BY <1>7, <1>10, <1>11, <1>12, <2>1, <2>2
<1> QED
  BY <1>16, <1>17 DEF Announced, b

\* The bytes of a text are as many as getLen says.
LEMMA MadeLength ==
    \A v : /\ v[1] \in Seq(Byte) /\ v[2] \in Seq(Byte) /\ v[3] \in Seq(Byte)
           /\ v[4] \in Seq(Byte) /\ Len(v[4]) = 8 /\ v[5] \in Int /\ v[6] \in Int
           /\ v[7] \in Seq(Byte) /\ Len(v[7]) = 8
        => Len(encodeString(v[1]) \o encodeString(v[2]) \o encodeString(v[3]) \o v[4]
                 \o encodeInt(v[5]) \o encodeInt(v[6]) \o v[7]) = getLen(v)
<1> SUFFICES ASSUME NEW v, v[1] \in Seq(Byte), v[2] \in Seq(Byte), v[3] \in Seq(Byte),
                    v[4] \in Seq(Byte), Len(v[4]) = 8, v[5] \in Int, v[6] \in Int,
                    v[7] \in Seq(Byte), Len(v[7]) = 8
             PROVE  Len(encodeString(v[1]) \o encodeString(v[2]) \o encodeString(v[3]) \o v[4]
                          \o encodeInt(v[5]) \o encodeInt(v[6]) \o v[7]) = getLen(v)
  OBVIOUS
<1> DEFINE s1 == encodeString(v[1])
           s2 == encodeString(v[2])
           s3 == encodeString(v[3])
           s4 == v[4]
           s5 == encodeInt(v[5])
           s6 == encodeInt(v[6])
           s7 == v[7]
           n1 == Len(v[1])
           n2 == Len(v[2])
           n3 == Len(v[3])
           x2 == Cat(s1, s2)
           x3 == Cat(x2, s3)
           x4 == Cat(x3, s4)
           x5 == Cat(x4, s5)
           x6 == Cat(x5, s6)
           x7 == Cat(x6, s7)
<1>1. /\ s1 \in Seq(Byte) /\ s2 \in Seq(Byte) /\ s3 \in Seq(Byte) /\ s4 \in Seq(Byte)
      /\ s5 \in Seq(Byte) /\ s6 \in Seq(Byte) /\ s7 \in Seq(Byte)
      /\ Len(s5) = 4 /\ Len(s6) = 4
      /\ Len(s1) = 4 + n1 /\ Len(s2) = 4 + n2 /\ Len(s3) = 4 + n3
  <2>1. /\ s1 \in Seq(Byte) /\ s2 \in Seq(Byte) /\ s3 \in Seq(Byte)
        /\ Len(s1) = 4 + n1 /\ Len(s2) = 4 + n2 /\ Len(s3) = 4 + n3
    BY StringLength DEF INT_SIZE
  <2>2. s5 \in Seq(Byte) /\ Len(s5) = 4
    BY IntBytes DEF INT_SIZE
  <2>3. s6 \in Seq(Byte) /\ Len(s6) = 4
    BY IntBytes DEF INT_SIZE
  <2> QED
    BY <2>1, <2>2, <2>3
<1>2. n1 \in Nat /\ n2 \in Nat /\ n3 \in Nat /\ Len(s4) = 8 /\ Len(s7) = 8
  BY SMTT(30)
<1>3. getLen(v) = n1 + n2 + n3 + 8 * 2 + 4 * 5
  BY DEF getLen, INT_SIZE, LONG_SIZE
<1>4. encodeString(v[1]) \o encodeString(v[2]) \o encodeString(v[3]) \o v[4]
        \o encodeInt(v[5]) \o encodeInt(v[6]) \o v[7] = x7
  BY DEF Cat
<1> HIDE DEF s1, s2, s3, s4, s5, s6, s7, n1, n2, n3
<1>5. x2 \in Seq(Byte) /\ Len(x2) = Len(s1) + Len(s2)
  BY <1>1, CatLength
<1> HIDE DEF x2
<1>6. x3 \in Seq(Byte) /\ Len(x3) = Len(x2) + Len(s3)
  BY <1>1, <1>5, CatLength
<1> HIDE DEF x3
<1>7. x4 \in Seq(Byte) /\ Len(x4) = Len(x3) + Len(s4)
  BY <1>1, <1>6, CatLength
<1> HIDE DEF x4
<1>8. x5 \in Seq(Byte) /\ Len(x5) = Len(x4) + Len(s5)
  BY <1>1, <1>7, CatLength
<1> HIDE DEF x5
<1>9. x6 \in Seq(Byte) /\ Len(x6) = Len(x5) + Len(s6)
  BY <1>1, <1>8, CatLength
<1> HIDE DEF x6
<1>10. Len(x7) = Len(x6) + Len(s7)
  BY <1>1, <1>9, CatLength
<1> HIDE DEF x7
<1>11. Len(x7) = n1 + n2 + n3 + 8 * 2 + 4 * 5
  BY <1>1, <1>2, <1>5, <1>6, <1>7, <1>8, <1>9, <1>10
<1> QED
  BY <1>3, <1>4, <1>11

\* The texts of a PollResponse.
LEMMA TextsMade ==
    \A m : ClientMessage(m) => \A j \in 1 .. Count(m) :
        /\ Makes(MsgWrites(Msgs(m)[j]), Seven(Pieces(m.vals, Kinds(m)), 4 + 7 * (j - 1)))
        /\ Ends(MsgWrites(Msgs(m)[j]))
        /\ Len(Seven(Pieces(m.vals, Kinds(m)), 4 + 7 * (j - 1))) = getLen(Msgs(m)[j])
<1> SUFFICES ASSUME NEW m, ClientMessage(m), NEW j \in 1 .. Count(m)
             PROVE
        /\ Makes(MsgWrites(Msgs(m)[j]), Seven(Pieces(m.vals, Kinds(m)), 4 + 7 * (j - 1)))
        /\ Ends(MsgWrites(Msgs(m)[j]))
        /\ Len(Seven(Pieces(m.vals, Kinds(m)), 4 + 7 * (j - 1))) = getLen(Msgs(m)[j])
  OBVIOUS
<1> DEFINE C == Pieces(m.vals, Kinds(m))
           u == Msgs(m)[j]
           w == 4 + 7 * (j - 1)
<1>1. Complete(m)
  BY DEF ClientMessage
<1>2. ASSUME NEW x \in 1 .. 7
      PROVE  /\ u[x] = m.vals[w + x] /\ Kinds(m)[w + x] = MsgFormat[x]
             /\ w + x \in 1 .. Len(m.vals)
  BY <1>1, TextAt
<1> HIDE DEF u, w, C
<1>3. ASSUME NEW x \in 1 .. 7 PROVE u[x] \in Values(MsgFormat[x])
  <2> DEFINE c == w + x
  <2>1. c \in 1 .. Len(m.vals) /\ u[x] = m.vals[c] /\ MsgFormat[x] = Kinds(m)[c]
    BY <1>2
  <2> HIDE DEF c
  <2> QED
    BY <2>1, ClientValue
<1>4. /\ MsgFormat[1] = "name" /\ MsgFormat[2] = "name" /\ MsgFormat[3] = "string"
      /\ MsgFormat[4] = "length" /\ MsgFormat[5] = "int" /\ MsgFormat[6] = "count"
      /\ MsgFormat[7] = "time"
  BY DEF MsgFormat
<1>5. ASSUME NEW x \in 1 .. 7
      PROVE  /\ MsgFormat[x] \in {"string", "name"} => C[w + x] = encodeString(u[x])
             /\ MsgFormat[x] \in {"int", "count"} => C[w + x] = encodeInt(u[x])
             /\ MsgFormat[x] \in {"length", "time"} => C[w + x] = u[x]
  <2> DEFINE c == w + x
             kind == MsgFormat[x]
             y == u[x]
  <2>1. c \in 1 .. Len(m.vals) /\ kind = Kinds(m)[c] /\ y = m.vals[c]
    BY <1>2
  <2> HIDE DEF c, kind, y
  <2>2. /\ kind \in {"string", "name"} => C[c] = encodeString(y)
        /\ kind \in {"int", "count"} => C[c] = encodeInt(y)
        /\ kind \in {"long", "length", "time", "nonce", "key"} => C[c] = y
    BY <1>1, <2>1, SentPieces DEF C
  <2>3. kind \in {"length", "time"} => C[c] = y
    BY <2>2
  <2> QED
    BY <2>2, <2>3 DEF c, kind, y
<1>6. /\ C[w + 1] = encodeString(u[1]) /\ C[w + 2] = encodeString(u[2])
      /\ C[w + 3] = encodeString(u[3]) /\ C[w + 4] = u[4]
      /\ C[w + 5] = encodeInt(u[5]) /\ C[w + 6] = encodeInt(u[6])
      /\ C[w + 7] = u[7]
  <2>1. C[w + 1] = encodeString(u[1])
    BY <1>4, <1>5
  <2>2. C[w + 2] = encodeString(u[2])
    BY <1>4, <1>5
  <2>3. C[w + 3] = encodeString(u[3])
    BY <1>4, <1>5
  <2>4. C[w + 4] = u[4]
    BY <1>4, <1>5
  <2>5. C[w + 5] = encodeInt(u[5])
    BY <1>4, <1>5
  <2>6. C[w + 6] = encodeInt(u[6])
    BY <1>4, <1>5
  <2>7. C[w + 7] = u[7]
    BY <1>4, <1>5
  <2> QED
    BY <2>1, <2>2, <2>3, <2>4, <2>5, <2>6, <2>7
<1>7. Seven(C, w) = encodeString(u[1]) \o encodeString(u[2]) \o encodeString(u[3]) \o u[4]
                      \o encodeInt(u[5]) \o encodeInt(u[6]) \o u[7]
  BY <1>6 DEF Seven
<1>8. /\ u[1] \in Seq(Byte) /\ u[2] \in Seq(Byte) /\ u[3] \in Seq(Byte)
      /\ u[4] \in Seq(Byte) /\ Len(u[4]) = 8 /\ u[5] \in Int /\ u[6] \in Int
      /\ u[7] \in Seq(Byte) /\ Len(u[7]) = 8
  <2>1. u[1] \in Values("name") /\ u[2] \in Values("name") /\ u[3] \in Values("string")
    BY <1>3, <1>4
  <2>2. u[4] \in Values("length") /\ u[7] \in Values("time")
    BY <1>3, <1>4
  <2>3. u[5] \in Values("int") /\ u[6] \in Values("count")
    BY <1>3, <1>4
  <2>4. u[1] \in Seq(Byte) /\ u[2] \in Seq(Byte)
    BY <2>1, ValueBytes
  <2>5. u[3] \in Seq(Byte)
    BY <2>1, ValueBytes
  <2>6. u[4] \in Seq(Byte) /\ Len(u[4]) = 8
    BY <2>2, ValueBytes
  <2>7. u[7] \in Seq(Byte) /\ Len(u[7]) = 8
    BY <2>2, ValueBytes
  <2>8. u[5] \in Int
    BY <2>3, ValueBytes
  <2>9. u[6] \in Int
    BY <2>3, ValueBytes
  <2> QED
    BY <2>4, <2>5, <2>6, <2>7, <2>8, <2>9
<1>9. u[7] # << >>
  <2>1. Len(u[7]) > 0
    BY <1>8
  <2> QED
    BY <2>1, NotNone
<1>10. Makes(MsgWrites(u), Seven(C, w)) /\ Ends(MsgWrites(u))
  BY <1>7, <1>8, <1>9, MakesText
<1>11. Len(Seven(C, w)) = getLen(u)
  BY <1>7, <1>8, MadeLength
<1> QED
  BY <1>10, <1>11 DEF u, w, C

\* PollResponse
LEMMA PollResponseAnnounced ==
    ASSUME NEW m, ClientMessage(m), m.type = "PollResponse"
    PROVE  Announced(m)
<1> DEFINE C == Pieces(m.vals, Kinds(m))
           v == m.vals
           k == Count(m)
           A == [i \in DOMAIN Msgs(m) |-> MsgWrites(Msgs(m)[i])]
           E == Texts7(C, k)
           lengths == [i \in DOMAIN Msgs(m) |-> getLen(Msgs(m)[i])]
           F == FlattenSeq(E)
           name == v[1]
           s1 == encodeString(name)
           s2 == encodeInt(v[2])
           s3 == encodeInt(v[3])
           s4 == encodeInt(v[4])
           b == PayloadOf(m, m.vals)
<1>1. Complete(m)
  BY DEF ClientMessage
<1>2. /\ First(m) = 4 /\ Kinds(m)[1] = "name" /\ Kinds(m)[2] = "count"
      /\ Kinds(m)[3] = "count" /\ Kinds(m)[4] = "int"
  BY <1>1, FirstKinds
<1>3. k \in Nat /\ Len(Msgs(m)) = k /\ DOMAIN Msgs(m) = 1 .. k
  <2>1. k \in Nat
    BY <1>1, Codes6
  <2>2. Len(Msgs(m)) = k /\ DOMAIN Msgs(m) = 1 .. k
    BY <1>1, TextsAre
  <2> QED
    BY <2>1, <2>2
<1>4. 1 \in 1 .. Len(v) /\ 2 \in 1 .. Len(v) /\ 3 \in 1 .. Len(v) /\ 4 \in 1 .. Len(v)
  <2>1. Len(v) = First(m) + 7 * k
    BY <1>1, Codes6
  <2> HIDE DEF v, k
  <2>2. Len(v) = 4 + 7 * k
    BY <1>2, <2>1
  <2> QED
    BY <1>3, <2>2
<1>5. C[1] = s1 /\ C[2] = s2 /\ C[3] = s3 /\ C[4] = s4
  <2>1. C[1] = s1
    BY <1>1, <1>2, <1>4, SentPieces
  <2>2. C[2] = s2
    BY <1>1, <1>2, <1>4, SentPieces
  <2>3. C[3] = s3
    BY <1>1, <1>2, <1>4, SentPieces
  <2>4. C[4] = s4
    BY <1>1, <1>2, <1>4, SentPieces
  <2> QED
    BY <2>1, <2>2, <2>3, <2>4
<1>6. name \in Seq(Byte) /\ v[2] \in Int /\ v[3] \in Int /\ v[4] \in Int
  <2>1. name \in Values("name") /\ v[2] \in Values("count") /\ v[3] \in Values("count")
        /\ v[4] \in Values("int")
    BY <1>2, <1>4, ClientValue
  <2>2. name \in Seq(Byte)
    BY <2>1, ValueBytes
  <2>3. v[2] \in Int
    BY <2>1, ValueBytes
  <2>4. v[3] \in Int
    BY <2>1, ValueBytes
  <2>5. v[4] \in Int
    BY <2>1, ValueBytes
  <2> QED
    BY <2>2, <2>3, <2>4, <2>5
<1>7. /\ s1 \in Seq(Byte) /\ Len(s1) = 4 + Len(name) /\ Len(name) \in Nat
      /\ s2 \in Seq(Byte) /\ Len(s2) = 4 /\ s3 \in Seq(Byte) /\ Len(s3) = 4
      /\ s4 \in Seq(Byte) /\ Len(s4) = 4
  <2>1. /\ s2 \in Seq(Byte) /\ Len(s2) = 4 /\ s3 \in Seq(Byte) /\ Len(s3) = 4
        /\ s4 \in Seq(Byte) /\ Len(s4) = 4
    BY <1>6, IntBytes DEF INT_SIZE
  <2>2. s1 \in Seq(Byte) /\ Len(s1) = INT_SIZE + Len(name)
    BY <1>6, StringLength
  <2>3. Len(name) \in Nat
    BY <1>6
  <2> QED
    BY <2>1, <2>2, <2>3 DEF INT_SIZE
<1>8. ASSUME NEW j \in 1 .. k
      PROVE  /\ Makes(A[j], E[j]) /\ Ends(A[j]) /\ A[j] \in Seq(Seq(Byte))
             /\ E[j] \in Seq(Byte) /\ lengths[j] = Len(E[j])
  <2>1. A[j] = MsgWrites(Msgs(m)[j]) /\ lengths[j] = getLen(Msgs(m)[j])
    BY <1>3
  <2>2. E[j] = Seven(C, 4 + 7 * (j - 1))
    BY DEF Texts7
  <2>3. Makes(A[j], E[j]) /\ Ends(A[j]) /\ lengths[j] = Len(E[j])
    BY <2>1, <2>2, TextsMade
  <2> QED
    BY <2>3 DEF Makes
<1>9. /\ A \in [1 .. k -> Seq(Seq(Byte))] /\ E \in [1 .. k -> Seq(Byte)]
      /\ Len(A) = k /\ Len(E) = k /\ Len(lengths) = k
  <2>1. /\ A = [j \in 1 .. k |-> A[j]] /\ lengths = [j \in 1 .. k |-> lengths[j]]
        /\ E = [j \in 1 .. k |-> E[j]]
    BY <1>3 DEF Texts7
  <2> HIDE DEF A, E, lengths, k, C
  <2>2. A \in [1 .. k -> Seq(Seq(Byte))]
    BY <1>8, <2>1
  <2>3. E \in [1 .. k -> Seq(Byte)]
    BY <1>8, <2>1
  <2>4. Len(A) = k /\ Len(E) = k /\ Len(lengths) = k
    BY <1>3, <2>1
  <2> QED
    BY <2>2, <2>3, <2>4
<1>10. Payload(m) = writeStr(name) \o writeInt(v[2]) \o writeInt(v[3]) \o writeInt(v[4])
                      \o FlattenSeq(A)
  BY DEF Payload
<1>11. messageLen(m) = 4 * 4 + Len(name) + Total(lengths)
  BY DEF messageLen, INT_SIZE
<1>12. b = Cat(Cat(Cat(Cat(C[1], C[2]), C[3]), C[4]), F)
  <2>1. b = Cat(Heads(C, 4), F)
    BY <1>2 DEF PayloadOf, Middle
  <2>2. Heads(C, 4) = Cat(Cat(Cat(C[1], C[2]), C[3]), C[4])
    BY DEF Heads
  <2> QED
    BY <2>1, <2>2
<1> HIDE DEF A, E, lengths, C, k
<1>13. F \in Seq(Byte) /\ Total(lengths) = Len(F)
  <2>1. \A i \in 1 .. k : lengths[i] = Len(E[i])
    BY <1>8
  <2>2. k \in Nat /\ E \in [1 .. k -> Seq(Byte)] /\ Len(E) = k /\ Len(lengths) = k
    BY <1>3, <1>9
  <2>3. FlattenSeq(E) \in Seq(Byte) /\ Total(lengths) = Len(FlattenSeq(E))
    BY <2>1, <2>2, TotalLength
  <2> QED
    BY <2>3
<1>14. Makes(FlattenSeq(A), F) /\ (k > 0 => Ends(FlattenSeq(A)))
  <2>1. \A j \in 1 .. k : Makes(A[j], E[j]) /\ Ends(A[j])
    BY <1>8
  <2> QED
    BY <1>3, <1>9, <2>1, MakesAll
<1>15. k = 0 => FlattenSeq(A) = << >>
  <2> SUFFICES ASSUME k = 0 PROVE FlattenSeq(A) = << >>
    OBVIOUS
  <2>1. A = << >>
    <3>1. \A S : \A s \in [1 .. 0 -> S] : s = << >>
      OBVIOUS
    <3> QED
      BY <1>9, <3>1
  <2> QED
    BY <2>1, FlattenNothing
<1> DEFINE w1 == writeStr(name)
           w2 == w1 \o writeInt(v[2])
           w3 == w2 \o writeInt(v[3])
           w4 == w3 \o writeInt(v[4])
           c2 == Cat(s1, s2)
           c3 == Cat(c2, s3)
           c4 == Cat(c3, s4)
           c5 == Cat(c4, F)
           n == Len(name)
<1>16. Makes(w1, s1)
  BY <1>6, MakesStr
<1>17. Makes(writeInt(v[2]), s2)
  BY <1>6, MakesInt
<1>18. Makes(writeInt(v[3]), s3)
  BY <1>6, MakesInt
<1>19. Makes(writeInt(v[4]), s4) /\ Ends(writeInt(v[4]))
  BY <1>6, MakesInt
<1>20. Payload(m) = w4 \o FlattenSeq(A) /\ b = c5
  BY <1>5, <1>10, <1>12
<1> HIDE DEF s1, s2, s3, s4, F, w1, name, v, b
<1>21. Makes(w2, c2)
  BY <1>16, <1>17, MakesParts
<1> HIDE DEF w2
<1>22. Makes(w3, c3)
  BY <1>18, <1>21, MakesParts
<1> HIDE DEF w3
<1>23. Makes(w4, c4) /\ Ends(w4)
  BY <1>19, <1>22, MakesParts
<1> HIDE DEF w4
<1>24. Makes(Payload(m), b) /\ Ends(Payload(m))
  <2>1. Makes(w4 \o FlattenSeq(A), Cat(c4, F))
        /\ (Ends(FlattenSeq(A)) => Ends(w4 \o FlattenSeq(A)))
    <3> HIDE DEF c4
    <3> QED
      BY <1>14, <1>23, MakesParts
  <2>2. CASE k = 0
    <3>1. w4 \in Seq(Seq(Byte))
      BY <1>23 DEF Makes
    <3>2. Payload(m) = w4
      BY <1>15, <1>20, <2>2, <3>1, ConcatEmptySeq
    <3> QED
      BY <1>20, <1>23, <2>1, <3>2
  <2>3. CASE k # 0
    <3>1. k > 0
      BY <1>3, <2>3
    <3> QED
      BY <1>14, <1>20, <2>1, <3>1
  <2> QED
    BY <2>2, <2>3
<1>25. Len(b) = messageLen(m)
  <2>1. c2 \in Seq(Byte) /\ Len(c2) = Len(s1) + Len(s2)
    BY <1>7, CatLength
  <2> HIDE DEF c2
  <2>2. c3 \in Seq(Byte) /\ Len(c3) = Len(c2) + Len(s3)
    BY <1>7, <2>1, CatLength
  <2> HIDE DEF c3
  <2>3. c4 \in Seq(Byte) /\ Len(c4) = Len(c3) + Len(s4)
    BY <1>7, <2>2, CatLength
  <2> HIDE DEF c4
  <2>4. Len(c5) = Len(c4) + Len(F)
    BY <1>13, <2>3, CatLength
  <2>5. Len(F) \in Nat
    BY <1>13
  <2> HIDE DEF c5, n
  <2>6. Len(c5) = (((4 + n) + 4 + 4) + 4) + Len(F)
    BY <1>7, <2>1, <2>2, <2>3, <2>4 DEF n
  <2>7. (((4 + n) + 4 + 4) + 4) + Len(F) = 4 * 4 + n + Len(F)
    BY <1>7, <2>5 DEF n
  <2> QED
    BY <1>11, <1>13, <1>20, <2>6, <2>7 DEF n
<1> QED
  BY <1>24, <1>25 DEF Announced, b

\* So for every message of the client.
LEMMA AllAnnounced == \A m : ClientMessage(m) => Announced(m)
<1> SUFFICES ASSUME NEW m, ClientMessage(m) PROVE Announced(m)
  OBVIOUS
<1>1. m.type \in {"Login", "Response", "Poll", "PollResponse"}
  BY DEF ClientMessage
<1> QED
  BY <1>1, LoginAnnounced, ResponseAnnounced, PollAnnounced, PollResponseAnnounced

-----------------------------------------------------------------------------
(* A message on the wire, and the header in front of it.                   *)

\* The length in a header, and the header itself.
LengthBytes(n) == encodeLong(Long(n))
HeaderOf(m)    == Cat(Cat(HEADER, <<TypeCode(m.type)>>), LengthBytes(messageLen(m)))

\* encodeInt of 0.
LEMMA NoughtBytes == encodeInt(0) = <<0, 0, 0, 0>>
<1>1. 0 \div 256 = 0 /\ 0 % 256 = 0
  BY SMTT(20)
<1> QED
  BY <1>1, ZenonT(30) DEF encodeInt

\* The length is found again, and is not beyond the stack.
LengthFound(n) ==
    /\ LengthBytes(n) \in Octets(8)
    /\ IntAt(LengthBytes(n), 5) = n
    /\ LengthBytes(n)[1] < 128
    /\ ~Over(LengthBytes(n), StackSize)

\* A length of at most StackSize is read as it was written, and is not wild.
LEMMA LengthReadBack ==
    ASSUME NEW n \in Nat, n <= StackSize
    PROVE  LengthFound(n)
<1> DEFINE x == LengthBytes(n)
           i == encodeInt(0)
           j == encodeInt(n)
<1>1. n \in Int32 /\ n \in Int /\ n >= 0 /\ n <= StackSize /\ StackSize \in Nat /\ 0 \in Int32
  BY SMTT(20) DEF Int32, StackSize
<1>2. x = Cat(i, j)
  BY DEF LengthBytes, encodeLong, Long, Cat
<1>3. i \in Seq(Byte) /\ Len(i) = 4 /\ j \in Seq(Byte) /\ Len(j) = 4
  BY <1>1, IntBytes DEF INT_SIZE
<1>4. x \in Octets(8) /\ x[1] < 128
  <2> DEFINE v == Long(n)
  <2>1. v[1] = 0 /\ v[2] = n
    BY DEF Long
  <2> HIDE DEF v
  <2>2. v[1] \in Int32 /\ v[2] \in Int32 /\ v[1] >= 0
    BY <1>1, <2>1
  <2>3. encodeLong(v) \in Octets(LONG_SIZE) /\ encodeLong(v)[1] < 128
    BY <2>2, LongBytes
  <2> QED
    BY <2>3 DEF v, LengthBytes, LONG_SIZE
<1>5. x \in Seq(Byte) /\ Len(x) = 8
  BY <1>4 DEF Octets
<1> HIDE DEF x, j
<1>6. i = <<0, 0, 0, 0>>
  BY NoughtBytes
<1> HIDE DEF i
<1>7. Held(x, 1, i) /\ Held(x, 5, j)
  <2>1. Held(x, 1, Cat(i, j)) /\ 5 = 1 + Len(i) /\ 1 \in Nat \ {0} /\ 5 \in Nat \ {0}
    BY <1>2, <1>3, <1>5, HeldSelf
  <2>2. \A p, e \in Nat \ {0} :
          Held(x, p, Cat(i, j)) /\ e = p + Len(i) => Held(x, p, i) /\ Held(x, e, j)
    BY <1>3, <1>5, PartsAt
  <2> QED
    BY <2>1, <2>2
<1>8. SubSeq(x, 1, 4) = <<0, 0, 0, 0>>
  <2>1. \A p \in Nat \ {0} : \A e : Held(x, p, i) /\ e = p - 1 + Len(i) => SubSeq(x, p, e) = i
    BY <1>3, <1>5, IsAt
  <2>2. 4 = 1 - 1 + Len(i) /\ 1 \in Nat \ {0}
    BY <1>3
  <2>3. SubSeq(x, 1, 4) = i
    BY <1>7, <2>1, <2>2
  <2> QED
    BY <1>6, <2>3
<1>9. IntAt(x, 5) = n
  <2>1. Held(x, 5, encodeInt(n)) /\ 5 \in Nat \ {0}
    BY <1>7 DEF j
  <2> QED
    BY <1>1, <2>1, IntBack
<1>10. x[5] \in 0 .. 255 /\ x[5] < 128
  <2>1. 5 \in 1 .. Len(x) /\ 6 \in 1 .. Len(x) /\ 7 \in 1 .. Len(x) /\ 8 \in 1 .. Len(x)
    BY <1>5
  <2> DEFINE b5 == x[5]
             b6 == x[6]
             b7 == x[7]
             b8 == x[8]
             a  == b5 % 128
             up == a * 256 + b6
             mid == up * 256 + b7
             low == mid * 256 + b8
  <2>2. b5 \in Byte /\ b6 \in Byte /\ b7 \in Byte /\ b8 \in Byte
    BY <1>5, <2>1, ElementOfSeq
  <2>3. ~(b5 < 128) => IntAt(x, 5) = low - 2^30 - 2^30
    <3>1. 5 + 1 = 6 /\ 5 + 2 = 7 /\ 5 + 3 = 8
      OBVIOUS
    <3> QED
      BY <3>1 DEF IntAt
  <2> HIDE DEF b5, b6, b7, b8
  <2>4. b5 \in 0 .. 255 /\ b6 \in 0 .. 255 /\ b7 \in 0 .. 255 /\ b8 \in 0 .. 255
    BY <2>2 DEF Byte
  <2>5. a \in 0 .. 127
    BY <2>4
  <2> HIDE DEF a
  <2>6. up \in Int /\ up <= 127 * 256 + 255
    BY <2>4, <2>5
  <2> HIDE DEF up
  <2>7. mid \in Int /\ mid <= (127 * 256 + 255) * 256 + 255
    BY <2>4, <2>6
  <2> HIDE DEF mid
  <2>8. low \in Int /\ low <= ((127 * 256 + 255) * 256 + 255) * 256 + 255
    BY <2>4, <2>7
  <2> HIDE DEF low
  <2>9. low - 2^30 - 2^30 < 0
    <3> DEFINE top == 2^30
    <3>1. top = (64 * 256) * 256 * 256
      BY SMTT(20)
    <3> HIDE DEF top
    <3>2. low - top - top < 0
      BY <2>8, <3>1, SMTT(30)
    <3> QED
      BY <3>2 DEF top
  <2>10. b5 < 128
    BY <1>1, <1>9, <2>3, <2>9
  <2> QED
    BY <2>4, <2>10 DEF b5
<1>11. ~Over(x, StackSize)
  <2>1. ~(IntAt(x, 5) > StackSize)
    BY <1>1, <1>9
  <2>2. ~(x[5] >= 128)
    <3> DEFINE b5 == x[5]
    <3>1. b5 \in 0 .. 255 /\ b5 < 128
      BY <1>10
    <3> HIDE DEF b5
    <3>2. ~(b5 >= 128)
      BY <3>1
    <3> QED
      BY <3>2 DEF b5
  <2> QED
    BY <1>8, <2>1, <2>2 DEF Over
<1>12. LengthFound(n)
  BY <1>4, <1>9, <1>11 DEF x, LengthFound
<1> QED
  BY <1>12

\* What decodeHeader finds in the header of a message.
LEMMA HeaderRead ==
    \A m : ClientMessage(m) =>
        /\ HeaderOf(m) \in Seq(Byte) /\ Len(HeaderOf(m)) = 19
        /\ GoodHeader(HeaderOf(m)) /\ HeaderType(HeaderOf(m)) = TypeCode(m.type)
        /\ LengthOf(HeaderOf(m)) = LengthBytes(messageLen(m))
<1> SUFFICES ASSUME NEW m, ClientMessage(m)
             PROVE
        /\ HeaderOf(m) \in Seq(Byte) /\ Len(HeaderOf(m)) = 19
        /\ GoodHeader(HeaderOf(m)) /\ HeaderType(HeaderOf(m)) = TypeCode(m.type)
        /\ LengthOf(HeaderOf(m)) = LengthBytes(messageLen(m))
  OBVIOUS
<1> DEFINE type == TypeCode(m.type)
           x == LengthBytes(messageLen(m))
           h == Cat(Cat(HEADER, <<type>>), x)
           none == << >>
<1>1. Complete(m)
  BY DEF ClientMessage
<1>2. type \in Codes
  BY <1>1, Codes6
<1>3. x \in Octets(8)
  <2> DEFINE n == messageLen(m)
  <2>1. n \in Nat /\ n <= StackSize
    <3>1. Len(PayloadOf(m, m.vals)) = n /\ n <= StackSize
      BY AllAnnounced DEF Announced, ClientMessage
    <3>2. PayloadOf(m, m.vals) \in Seq(Byte)
      BY ClientFits, ReadBack
    <3> HIDE DEF n
    <3> QED
      BY <3>1, <3>2
  <2> HIDE DEF n
  <2>3. LengthBytes(n) \in Octets(8)
    BY <2>1, LengthReadBack DEF LengthFound
  <2> QED
    BY <2>3 DEF n
<1>4. none \in Seq(Byte) /\ Len(none) = 0
  OBVIOUS
<1>5. h = HeaderOf(m)
  BY DEF HeaderOf
<1> HIDE DEF type, x, none
<1>6. \A x1 \in Octets(8) : \A M1 \in Seq(Byte) : \A b1 :
        b1 = Cat(Cat(Cat(HEADER, <<type>>), x1), M1) =>
          /\ b1 \in Seq(Byte) /\ Len(b1) = 19 + Len(M1)
          /\ GoodHeader(b1) /\ HeaderType(b1) = type /\ LengthOf(b1) = x1
          /\ SubSeq(b1, 20, Len(b1)) = M1
          /\ Len(Cat(Cat(HEADER, <<type>>), x1)) = 19 /\ Cat(Cat(HEADER, <<type>>), x1) \in Seq(Byte)
  BY <1>2, HeaderBack, Zenon
<1>11. \A M1 \in Seq(Byte) : \A b1 :
        b1 = Cat(Cat(Cat(HEADER, <<type>>), x), M1) =>
          /\ b1 \in Seq(Byte) /\ Len(b1) = 19 + Len(M1)
          /\ GoodHeader(b1) /\ HeaderType(b1) = type /\ LengthOf(b1) = x
          /\ SubSeq(b1, 20, Len(b1)) = M1
          /\ Len(Cat(Cat(HEADER, <<type>>), x)) = 19 /\ Cat(Cat(HEADER, <<type>>), x) \in Seq(Byte)
  BY <1>3, <1>6, Zenon
<1>12. \A b1 :
        b1 = Cat(h, none) =>
          /\ b1 \in Seq(Byte) /\ Len(b1) = 19 + Len(none)
          /\ GoodHeader(b1) /\ HeaderType(b1) = type /\ LengthOf(b1) = x
          /\ SubSeq(b1, 20, Len(b1)) = none
          /\ Len(h) = 19 /\ h \in Seq(Byte)
  BY <1>4, <1>11, Zenon
<1> HIDE DEF h
<1>7. \A b1 :
        b1 = Cat(h, none) =>
          /\ GoodHeader(b1) /\ HeaderType(b1) = type /\ LengthOf(b1) = x
          /\ Len(h) = 19 /\ h \in Seq(Byte)
  BY <1>12, Zenon
<1>8. Len(h) = 19 /\ h \in Seq(Byte)
  BY <1>7, Zenon
<1>9. Cat(h, none) = h
  BY <1>8, CatNothing DEF none
<1>10. GoodHeader(h) /\ HeaderType(h) = type /\ LengthOf(h) = x
  BY <1>7, <1>9, Zenon
<1> QED
  BY <1>5, <1>8, <1>10 DEF type, x

\* The bytes of a message, and of the first k calls that write it.
OnWire(m)   == FlattenSeq(Writes(m))
Opening(a, k) == FlattenSeq(SubSeq(a, 1, k))

\* A call more makes its bytes more.
LEMMA OpeningMore ==
    \A a \in Seq(Seq(Byte)) :
        /\ Opening(a, 0) = << >> /\ Opening(a, Len(a)) = FlattenSeq(a)
        /\ \A k \in 0 .. Len(a) : Opening(a, k) \in Seq(Byte)
        /\ \A k \in 1 .. Len(a) : Opening(a, k) = Cat(Opening(a, k - 1), a[k]) /\ a[k] \in Seq(Byte)
<1> SUFFICES ASSUME NEW a \in Seq(Seq(Byte))
             PROVE
        /\ Opening(a, 0) = << >> /\ Opening(a, Len(a)) = FlattenSeq(a)
        /\ \A k \in 0 .. Len(a) : Opening(a, k) \in Seq(Byte)
        /\ \A k \in 1 .. Len(a) : Opening(a, k) = Cat(Opening(a, k - 1), a[k]) /\ a[k] \in Seq(Byte)
  OBVIOUS
<1> DEFINE B == Seq(Byte)
<1>1. Opening(a, 0) = << >>
  <2>1. SubSeq(a, 1, 0) = << >>
    OBVIOUS
  <2>2. FlattenSeq(<< >>) = << >>
    BY FlattenNothing
  <2> QED
    BY <2>1, <2>2 DEF Opening
<1>2. Opening(a, Len(a)) = FlattenSeq(a)
  <2>1. SubSeq(a, 1, Len(a)) = a
    OBVIOUS
  <2> QED
    BY <2>1 DEF Opening
<1>3. ASSUME NEW k \in 0 .. Len(a) PROVE Opening(a, k) \in Seq(Byte)
  <2>1. SubSeq(a, 1, k) \in Seq(B)
    OBVIOUS
  <2> QED
    BY <2>1, FlattenType DEF Opening
<1>4. ASSUME NEW k \in 1 .. Len(a)
      PROVE  Opening(a, k) = Cat(Opening(a, k - 1), a[k]) /\ a[k] \in Seq(Byte)
  <2> DEFINE p == SubSeq(a, 1, k - 1)
             x == a[k]
  <2> HIDE DEF B
  <2>1. a \in Seq(B)
    BY DEF B
  <2>2. x \in B /\ p \in Seq(B) /\ SubSeq(a, 1, k) = Append(p, x)
    BY <2>1, FirstOnes
  <2> HIDE DEF p, x
  <2>3. FlattenSeq(Append(p, x)) = Cat(FlattenSeq(p), x)
    BY <2>2, FlattenMore DEF B
  <2> QED
    BY <2>2, <2>3 DEF Opening, p, x, B
<1> QED
  BY <1>1, <1>2, <1>3, <1>4

\* Three calls.
LEMMA MakesThree ==
    \A x, y, z \in Seq(Byte) : Makes(<<x, y, z>>, Cat(Cat(x, y), z))
<1> SUFFICES ASSUME NEW x \in Seq(Byte), NEW y \in Seq(Byte), NEW z \in Seq(Byte)
             PROVE  Makes(<<x, y, z>>, Cat(Cat(x, y), z))
  OBVIOUS
<1> DEFINE a == <<x, y, z>>
           n == << >>
<1>1. Len(a) = 3 /\ a[1] = x /\ a[2] = y /\ a[3] = z
  OBVIOUS
<1>2. a \in Seq(Seq(Byte))
  OBVIOUS
<1> HIDE DEF a
<1>3. Opening(a, 0) = n /\ Opening(a, Len(a)) = FlattenSeq(a)
      /\ \A k \in 1 .. Len(a) : Opening(a, k) = Cat(Opening(a, k - 1), a[k])
  BY <1>2, OpeningMore
<1>4. /\ 1 \in 1 .. Len(a) /\ 2 \in 1 .. Len(a) /\ 3 \in 1 .. Len(a)
      /\ 1 - 1 = 0 /\ 2 - 1 = 1 /\ 3 - 1 = 2
  BY <1>1
<1>5. Opening(a, 1) = Cat(Opening(a, 0), x)
  BY <1>1, <1>3, <1>4
<1>6. Opening(a, 2) = Cat(Opening(a, 1), y)
  BY <1>1, <1>3, <1>4
<1>7. Opening(a, 3) = Cat(Opening(a, 2), z)
  BY <1>1, <1>3, <1>4
<1>8. Cat(n, x) = x
  BY CatNothing
<1>9. FlattenSeq(a) = Cat(Cat(x, y), z)
  BY <1>1, <1>3, <1>5, <1>6, <1>7, <1>8
<1>10. Cat(Cat(x, y), z) \in Seq(Byte)
  BY CatLength
<1> QED
  BY <1>2, <1>9, <1>10 DEF Makes, a

\* What is known of a message on the wire: its calls, the last of which writes
\* something, its header, its payload, and that this is read back.
LEMMA WireKnown ==
    \A m : ClientMessage(m) =>
        /\ Writes(m) \in Seq(Seq(Byte)) /\ Ends(Writes(m))
        /\ OnWire(m) = Cat(HeaderOf(m), PayloadOf(m, m.vals))
        /\ PayloadOf(m, m.vals) \in Seq(Byte)
        /\ Len(PayloadOf(m, m.vals)) = messageLen(m) /\ messageLen(m) \in Nat
        /\ LengthFound(messageLen(m))
        /\ TypeCode(m.type) \in Codes
        /\ Construct(TypeCode(m.type), PayloadOf(m, m.vals))
             = [ok |-> TRUE, p |-> Len(PayloadOf(m, m.vals)) + 1, vals |-> m.vals]
<1> SUFFICES ASSUME NEW m, ClientMessage(m)
             PROVE
        /\ Writes(m) \in Seq(Seq(Byte)) /\ Ends(Writes(m))
        /\ OnWire(m) = Cat(HeaderOf(m), PayloadOf(m, m.vals))
        /\ PayloadOf(m, m.vals) \in Seq(Byte)
        /\ Len(PayloadOf(m, m.vals)) = messageLen(m) /\ messageLen(m) \in Nat
        /\ LengthFound(messageLen(m))
        /\ TypeCode(m.type) \in Codes
        /\ Construct(TypeCode(m.type), PayloadOf(m, m.vals))
             = [ok |-> TRUE, p |-> Len(PayloadOf(m, m.vals)) + 1, vals |-> m.vals]
  OBVIOUS
<1> DEFINE P == PayloadOf(m, m.vals)
           n == messageLen(m)
           type == TypeCode(m.type)
           t == <<type>>
           x == LengthBytes(n)
           a == <<HEADER, t, x>>
           pay == Payload(m)
<1>1. Announced(m)
  BY AllAnnounced
<1>2. Makes(pay, P) /\ Ends(pay) /\ Len(P) = n
  BY <1>1 DEF Announced
<1>3. P \in Seq(Byte) /\ Construct(type, P) = [ok |-> TRUE, p |-> Len(P) + 1, vals |-> m.vals]
  BY ClientFits, ReadBack
<1>4. type \in Codes
  BY Codes6 DEF ClientMessage
<1>5. Writes(m) = a \o pay
  BY DEF Writes, LengthBytes
<1>6. n <= StackSize
  BY DEF ClientMessage
<1>7. HeaderOf(m) = Cat(Cat(HEADER, t), x)
  BY DEF HeaderOf
<1>8. OnWire(m) = FlattenSeq(Writes(m))
  BY DEF OnWire
<1>9. t \in Seq(Byte)
  <2>1. type \in Byte
    BY <1>4 DEF Codes, Byte
  <2> HIDE DEF type
  <2> QED
    BY <2>1
<1> HIDE DEF P, n, t, pay
<1>10. n \in Nat
  BY <1>2, <1>3
<1>11. LengthFound(n)
  BY <1>6, <1>10, LengthReadBack
<1>12. x \in Seq(Byte)
  BY <1>11 DEF LengthFound, Octets
<1> HIDE DEF x
<1>13. Makes(a, Cat(Cat(HEADER, t), x))
  BY <1>9, <1>12, HeaderBytes, MakesThree
<1> HIDE DEF a
<1>14. Makes(a \o pay, Cat(HeaderOf(m), P)) /\ Ends(a \o pay)
  BY <1>2, <1>7, <1>13, MakesParts
<1>15. Writes(m) \in Seq(Seq(Byte)) /\ FlattenSeq(Writes(m)) = Cat(HeaderOf(m), P)
  BY <1>5, <1>14 DEF Makes
<1>16. Ends(Writes(m))
  BY <1>5, <1>14
<1> HIDE DEF type
<1> QED
  BY <1>2, <1>3, <1>4, <1>8, <1>10, <1>11, <1>15, <1>16 DEF P, n, type

\* What was put together is taken apart again.
LEMMA CutIs ==
    \A x, y \in Seq(Byte) :
        /\ SubSeq(Cat(x, y), 1, Len(x)) = x
        /\ SubSeq(Cat(x, y), Len(x) + 1, Len(Cat(x, y))) = y
<1> SUFFICES ASSUME NEW x \in Seq(Byte), NEW y \in Seq(Byte)
             PROVE  /\ SubSeq(Cat(x, y), 1, Len(x)) = x
                    /\ SubSeq(Cat(x, y), Len(x) + 1, Len(Cat(x, y))) = y
  OBVIOUS
<1> DEFINE b == Cat(x, y)
           e == Len(x) + 1
<1>1. b \in Seq(Byte) /\ Len(b) = Len(x) + Len(y) /\ Len(x) \in Nat /\ Len(y) \in Nat
  <2>1. Len(x) \in Nat /\ Len(y) \in Nat
    OBVIOUS
  <2> QED
    BY <2>1, CatLength
<1> HIDE DEF b
<1>2. e \in Nat \ {0} /\ 1 \in Nat \ {0} /\ e = 1 + Len(x)
  BY <1>1
<1>3. Held(b, 1, Cat(x, y))
  BY <1>1, HeldSelf DEF b
<1> HIDE DEF e
<1>4. Held(b, 1, x) /\ Held(b, e, y)
  <2>1. \A p1, e1 \in Nat \ {0} :
          Held(b, p1, Cat(x, y)) /\ e1 = p1 + Len(x) => Held(b, p1, x) /\ Held(b, e1, y)
    BY <1>1, PartsAt
  <2> QED
    BY <1>2, <1>3, <2>1
<1>5. SubSeq(b, 1, Len(x)) = x
  <2>1. \A p1 \in Nat \ {0} : \A e1 : Held(b, p1, x) /\ e1 = p1 - 1 + Len(x) => SubSeq(b, p1, e1) = x
    BY <1>1, IsAt
  <2>2. Len(x) = 1 - 1 + Len(x)
    BY <1>1
  <2> QED
    BY <1>2, <1>4, <2>1, <2>2
<1>6. SubSeq(b, e, Len(b)) = y
  <2>1. \A p1 \in Nat \ {0} : \A e1 : Held(b, p1, y) /\ e1 = p1 - 1 + Len(y) => SubSeq(b, p1, e1) = y
    BY <1>1, IsAt
  <2>2. Len(b) = e - 1 + Len(y)
    BY <1>1, <1>2
  <2> QED
    BY <1>2, <1>4, <2>1, <2>2
<1> QED
  BY <1>5, <1>6 DEF b, e

\* Of two beginnings the longer one begins with the shorter.
LEMMA Beginning ==
    \A f, t, x, y \in Seq(Byte) :
        Cat(f, t) = Cat(x, y) /\ Len(x) <= Len(f) => SubSeq(f, 1, Len(x)) = x
<1> SUFFICES ASSUME NEW f \in Seq(Byte), NEW t \in Seq(Byte), NEW x \in Seq(Byte),
                    NEW y \in Seq(Byte), Cat(f, t) = Cat(x, y), Len(x) <= Len(f)
             PROVE  SubSeq(f, 1, Len(x)) = x
  OBVIOUS
<1> DEFINE b == Cat(f, t)
<1>1. b \in Seq(Byte) /\ Len(x) \in Nat /\ Len(f) \in Nat /\ 1 \in Nat \ {0}
  <2>1. Len(x) \in Nat /\ Len(f) \in Nat
    OBVIOUS
  <2> QED
    BY <2>1, CatLength
<1>2. b = Cat(x, y)
  OBVIOUS
<1>3. Held(b, 1, Cat(f, t))
  BY <1>1, HeldSelf
<1>4. Held(b, 1, Cat(x, y))
  BY <1>2, <1>3
<1> HIDE DEF b
<1>5. Held(b, 1, f)
  <2>1. \A p1, e1 \in Nat \ {0} :
          Held(b, p1, Cat(f, t)) /\ e1 = p1 + Len(f) => Held(b, p1, f) /\ Held(b, e1, t)
    BY <1>1, PartsAt
  <2>2. 1 + Len(f) \in Nat \ {0}
    BY <1>1
  <2> QED
    BY <1>1, <1>3, <2>1, <2>2
<1>6. Held(b, 1, x)
  <2>1. \A p1, e1 \in Nat \ {0} :
          Held(b, p1, Cat(x, y)) /\ e1 = p1 + Len(x) => Held(b, p1, x) /\ Held(b, e1, y)
    BY <1>1, PartsAt
  <2>2. 1 + Len(x) \in Nat \ {0}
    BY <1>1
  <2> QED
    BY <1>1, <1>4, <2>1, <2>2
<1>7. Held(f, 1, x)
  <2>1. 1 - 1 + Len(x) <= Len(f)
    BY <1>1
  <2>2. ASSUME NEW j \in 1 .. Len(x) PROVE f[1 - 1 + j] = x[j]
    <3>1. j \in 1 .. Len(f)
      BY <1>1
    <3> QED
      BY <1>5, <1>6, <3>1 DEF Held
  <2> QED
    BY <2>1, <2>2 DEF Held
<1>8. \A p1 \in Nat \ {0} : \A e1 : Held(f, p1, x) /\ e1 = p1 - 1 + Len(x) => SubSeq(f, p1, e1) = x
  BY IsAt
<1>9. Len(x) = 1 - 1 + Len(x)
  BY <1>1
<1> QED
  BY <1>1, <1>7, <1>8, <1>9

\* What has been written of a message is the beginning of it, and not all.
LEMMA Begins ==
    \A m : ClientMessage(m) => \A k \in 0 .. Len(Writes(m)) - 1 :
        /\ Opening(Writes(m), k) \in Seq(Byte)
        /\ \E t \in Seq(Byte) : OnWire(m) = Cat(Opening(Writes(m), k), t) /\ Len(t) > 0
<1> SUFFICES ASSUME NEW m, ClientMessage(m), NEW k \in 0 .. Len(Writes(m)) - 1
             PROVE
        /\ Opening(Writes(m), k) \in Seq(Byte)
        /\ \E t \in Seq(Byte) : OnWire(m) = Cat(Opening(Writes(m), k), t) /\ Len(t) > 0
  OBVIOUS
<1> DEFINE a == Writes(m)
           L == Len(a)
           p == SubSeq(a, 1, k)
           c == SubSeq(a, k + 1, L)
           t == FlattenSeq(c)
<1>1. a \in Seq(Seq(Byte)) /\ Ends(a)
  BY WireKnown
<1>2. L \in Nat /\ k \in 0 .. L /\ k < L
  BY <1>1
<1> HIDE DEF a
<1>3. p \in Seq(Seq(Byte)) /\ c \in Seq(Seq(Byte)) /\ Len(c) = L - k /\ c[L - k] = a[L]
  BY <1>1, <1>2
<1>4. a = p \o c
  <2>1. SubSeq(a, 1, L) = a
    BY <1>1
  <2>2. 1 \in 1 .. L + 1 /\ k \in 1 - 1 .. L /\ L \in k .. L
    BY <1>2
  <2>3. SubSeq(a, 1, k) \o SubSeq(a, k + 1, L) = SubSeq(a, 1, L)
    BY <1>1, <2>2, ConcatAdjacentSubSeq
  <2> QED
    BY <2>1, <2>3
<1>5. OnWire(m) = FlattenSeq(a) /\ FlattenSeq(p) = Opening(a, k)
  BY DEF OnWire, Opening, a
<1> HIDE DEF p, c, L
<1>6. FlattenSeq(a) = Cat(FlattenSeq(p), FlattenSeq(c))
  BY <1>3, <1>4, FlattenParts
<1>7. Opening(a, k) \in Seq(Byte) /\ t \in Seq(Byte)
  <2>1. FlattenSeq(p) \in Seq(Byte) /\ t \in Seq(Byte)
    BY <1>3, FlattenType
  <2> QED
    BY <1>5, <2>1
<1>8. Len(t) > 0
  <2> DEFINE e == Len(c)
  <2>1. e \in 1 .. Len(c) /\ e - 1 \in 0 .. Len(c) /\ e \in Nat
    BY <1>2, <1>3
  <2>2. Opening(c, e) = t
    <3>1. Opening(c, Len(c)) = FlattenSeq(c)
      BY <1>3, OpeningMore
    <3> QED
      BY <3>1
  <2> HIDE DEF e
  <2>3. Opening(c, e) = Cat(Opening(c, e - 1), c[e]) /\ c[e] \in Seq(Byte) /\ Opening(c, e - 1) \in Seq(Byte)
    BY <1>3, <2>1, OpeningMore
  <2>4. c[e] # << >>
    <3>1. c[e] = a[Len(a)]
      BY <1>3 DEF e, L
    <3> QED
      BY <1>1, <3>1 DEF Ends
  <2> DEFINE x == c[e]
             y == Opening(c, e - 1)
  <2>5. x \in Seq(Byte) /\ y \in Seq(Byte) /\ t = Cat(y, x) /\ x # << >>
    BY <2>2, <2>3, <2>4
  <2> HIDE DEF x, y, t
  <2>6. Len(t) = Len(y) + Len(x)
    BY <2>5, CatLength
  <2>7. Len(x) > 0 /\ Len(x) \in Nat /\ Len(y) \in Nat
    BY <2>5
  <2> QED
    BY <2>6, <2>7
<1> HIDE DEF t
<1>9. OnWire(m) = Cat(Opening(a, k), t)
  BY <1>5, <1>6 DEF t
<1> QED
  BY <1>7, <1>8, <1>9 DEF a

-----------------------------------------------------------------------------
(* decode.                                                                 *)

\* What decode has for a header, what is behind it, and what it makes of both.
BytesTaken       == IF Len(stream) < TOTAL_HEADER_LENGTH THEN Len(stream) ELSE TOTAL_HEADER_LENGTH
HeaderWith(left) == SubSeq(stream, 1, BytesTaken) \o SubSeq(left, BytesTaken + 1, TOTAL_HEADER_LENGTH)
Remainder        == SubSeq(stream, BytesTaken + 1, Len(stream))
WildIn(h)        == LengthOf(h)[1] >= 128 \/ Over(LengthOf(h), StackSize)
AtMost(n, y)     == SubSeq(y, 1, IF n < Len(y) THEN n ELSE Len(y))
DecodeWith(h, y) ==
    /\ GoodHeader(h) /\ ~WildIn(h) => Len(y) >= IntAt(LengthOf(h), 5) \/ ~open
    /\ stack' = h
    /\ IF ~GoodHeader(h) \/ WildIn(h)
       THEN End(IF WildIn(h) THEN "wild" ELSE "refused") /\ stream' = y
       ELSE /\ DecodePayload(h, AtMost(IntAt(LengthOf(h), 5), y))
            /\ stream' = SubSeq(y, Len(AtMost(IntAt(LengthOf(h), 5), y)) + 1, Len(y))

\* decode in these words.
LEMMA DecodeSteps ==
    ASSUME Decode
    PROVE  /\ server = "reading" /\ UNCHANGED client
           /\ Len(stream) >= TOTAL_HEADER_LENGTH \/ ~open
           /\ \E left \in {stack, [i \in 1 .. TOTAL_HEADER_LENGTH |-> 0]} :
                /\ BytesTaken = TOTAL_HEADER_LENGTH => left = stack
                /\ DecodeWith(HeaderWith(left), Remainder)
BY DEF Decode, BytesTaken, HeaderWith, Remainder, WildIn, AtMost, DecodeWith

\* How decode ends: with message m, with a negative time, or without a message.
Took(m) == server' = server /\ accepted' = Append(accepted, m) /\ unlucky' = unlucky
Unhappy == server' = "refused" /\ accepted' = accepted /\ unlucky' = TRUE
Refused == server' # "reading" /\ accepted' = accepted /\ unlucky' = unlucky

\* There is no type whose constructor makes something of nothing.
LEMMA NothingRefused == \A type \in Codes : ~Construct(type, << >>).ok
<1> SUFFICES ASSUME NEW type \in Codes PROVE ~Construct(type, << >>).ok
  OBVIOUS
<1> DEFINE b == << >>
           first == [ok |-> TRUE, p |-> 1, vals |-> << >>]
           none == [ok |-> FALSE, p |-> 1, vals |-> << >>]
           format == Format(type)
           g == [i \in 0 .. Len(format) |-> IF i = 0 THEN first ELSE none]
<1>1. format[1] \in {"name", "challenge", "ack"} /\ Len(format) \in Nat /\ Len(format) >= 1
  <2>1. Len(format) \in 1 .. 4
    BY FormatLength
  <2>2. format[1] \in {"name", "challenge", "ack"}
    BY DEF Codes, Format, loginFormat, challengeFormat, responseFormat, ackFormat, pollFormat,
           pollResponseFormat
  <2> HIDE DEF format
  <2> QED
    BY <2>1, <2>2
<1>2. \A n \in {1, 4, 8} : ~Room(b, 1, n)
  <2>1. Len(b) = 0
    OBVIOUS
  <2> HIDE DEF b
  <2> QED
    BY <2>1 DEF Room
<1> HIDE DEF b
<1>3. \A kind \in {"name", "challenge", "ack"} : ~Readable(b, 1, kind)
  BY <1>2 DEF Readable, HasString, INT_SIZE, CHALLENGE_LENGTH
<1>4. Field(b, first, format[1]) = none
  BY <1>1, <1>3 DEF Field
<1>5. \A kind : Field(b, none, kind) = none
  BY DEF Field
<1>6. Steps(g, b, first, format)
  <2> HIDE DEF format, first, none
  <2>1. g[0] = first
    BY <1>1
  <2>2. ASSUME NEW i \in 1 .. Len(format) PROVE g[i] = Field(b, g[i - 1], format[i])
    <3>1. i \in 0 .. Len(format) /\ i # 0 /\ i - 1 \in 0 .. Len(format)
      BY <1>1
    <3>2. g[i] = none /\ g[i - 1] = IF i - 1 = 0 THEN first ELSE none
      BY <3>1
    <3>3. i - 1 = 0 => i = 1
      BY <3>1
    <3> QED
      BY <1>4, <1>5, <3>2, <3>3
  <2> QED
    BY <2>1, <2>2 DEF Steps
<1>7. Fields(b, first, format) = none
  <2>1. Fields(b, first, format) = g[Len(format)]
    BY <1>1, <1>6, FieldsAre
  <2>2. g[Len(format)] = none
    BY <1>1
  <2> QED
    BY <2>1, <2>2
<1>8. Construct(type, b) = none
  BY <1>7 DEF Construct
<1> QED
  BY <1>8 DEF b

\* The header has its nineteen bytes, and a number in it.
LEMMA HeaderTyped ==
    ASSUME stream \in Seq(Byte), stack \in Seq(Byte), Len(stack) = 19,
           NEW left \in {stack, [i \in 1 .. TOTAL_HEADER_LENGTH |-> 0]}
    PROVE  /\ HeaderWith(left) \in Seq(Byte) /\ Len(HeaderWith(left)) = 19
           /\ IntAt(LengthOf(HeaderWith(left)), 5) \in Int
           /\ Remainder \in Seq(Byte)
<1> DEFINE zeros == [i \in 1 .. TOTAL_HEADER_LENGTH |-> 0]
           y == Remainder
<1>2. TOTAL_HEADER_LENGTH = 19
  BY HeaderBytes
<1>3. zeros \in Seq(Byte) /\ Len(zeros) = 19
  <2>1. 0 \in Byte
    BY DEF Byte
  <2> QED
    BY <1>2, <2>1
<1>4. left \in Seq(Byte) /\ Len(left) = 19
  BY <1>3
<1>5. BytesTaken \in 0 .. 19 /\ BytesTaken <= Len(stream) /\ Len(stream) \in Nat
  <2>1. Len(stream) \in Nat
    OBVIOUS
  <2> QED
    <3> DEFINE l == Len(stream)
    <3>1. l \in Nat /\ BytesTaken = IF l < 19 THEN l ELSE 19
      BY <1>2, <2>1 DEF BytesTaken
    <3> HIDE DEF l
    <3>2. BytesTaken \in 0 .. 19 /\ BytesTaken <= l
      BY <3>1
    <3> QED
      BY <3>1, <3>2 DEF l
<1> DEFINE h1 == SubSeq(stream, 1, BytesTaken)
           k == BytesTaken + 1
           h2 == SubSeq(left, k, 19)
<1>6. h1 \in Seq(Byte) /\ Len(h1) = BytesTaken
  BY <1>5
<1>7. h2 \in Seq(Byte) /\ Len(h2) = 19 - BytesTaken
  <2>1. k \in 1 .. 20 /\ k - 1 = BytesTaken
    BY <1>5
  <2> HIDE DEF k
  <2>2. ASSUME NEW i \in k .. 19 PROVE left[i] \in Byte
    <3>1. i \in 1 .. 19
      BY <2>1
    <3>2. i \in 1 .. Len(left)
      BY <1>4, <3>1
    <3> QED
      BY <1>4, <3>2, ElementOfSeq
  <2>3. h2 \in Seq(Byte) /\ Len(h2) = IF k <= 19 THEN 19 - k + 1 ELSE 0
    BY <2>1, <2>2, SubSeqProperties
  <2> HIDE DEF h2
  <2>4. Len(h2) = 19 - (k - 1)
    BY <2>1, <2>3
  <2> QED
    BY <2>1, <2>3, <2>4
<1>8. HeaderWith(left) = Cat(h1, h2)
  BY <1>2 DEF HeaderWith, Cat
<1> HIDE DEF h1, h2, k
<1>9. HeaderWith(left) \in Seq(Byte) /\ Len(HeaderWith(left)) = 19
  <2>1. Cat(h1, h2) \in Seq(Byte) /\ Len(Cat(h1, h2)) = Len(h1) + Len(h2)
    BY <1>6, <1>7, CatLength
  <2> QED
    BY <1>5, <1>6, <1>7, <1>8, <2>1
<1>10. y \in Seq(Byte)
  BY <1>5 DEF Remainder
<1> DEFINE h == HeaderWith(left)
           n == IntAt(LengthOf(h), 5)
           got == AtMost(n, y)
<1> HIDE DEF h, y
<1>11. n \in Int
  <2> DEFINE x == LengthOf(h)
  <2>1. h \in Seq(Byte) /\ Len(h) = 19
    BY <1>9 DEF h
  <2>2. x = SubSeq(h, 12, 19)
    BY DEF LengthOf, LongAt, LONG_SIZE
  <2> HIDE DEF x
  <2>3. x \in Seq(Byte) /\ Len(x) = 8
    <3>1. ASSUME NEW i \in 12 .. 19 PROVE h[i] \in Byte
      <4>1. i \in 1 .. Len(h)
        BY <2>1
      <4> QED
        BY <2>1, <4>1, ElementOfSeq
    <3>2. /\ SubSeq(h, 12, 19) \in Seq(Byte)
          /\ Len(SubSeq(h, 12, 19)) = IF 12 <= 19 THEN 19 - 12 + 1 ELSE 0
      BY <3>1, SubSeqProperties
    <3> QED
      BY <2>2, <3>2
  <2> DEFINE a == x[5] % 128
             x5 == x[5]
             x6 == x[5 + 1]
             x7 == x[5 + 2]
             x8 == x[5 + 3]
             low == ((a * 256 + x6) * 256 + x7) * 256 + x8
  <2>4. x5 \in Int /\ x6 \in Int /\ x7 \in Int /\ x8 \in Int
    <3>1. ASSUME NEW i \in 1 .. 8 PROVE x[i] \in Byte
      <4>1. i \in 1 .. Len(x)
        BY <2>3
      <4> QED
        BY <2>3, <4>1, ElementOfSeq
    <3>2. \A i \in Byte : i \in Int
      BY DEF Byte
    <3>3. /\ 5 \in 1 .. 8 /\ 5 + 1 \in 1 .. 8 /\ 5 + 2 \in 1 .. 8 /\ 5 + 3 \in 1 .. 8
      OBVIOUS
    <3>4. \A i \in 1 .. 8 : x[i] \in Int
      BY <3>1, <3>2, Zenon
    <3> QED
      BY <3>3, <3>4, Zenon
  <2>5. a \in Int
    <3>1. a = x5 % 128
      OBVIOUS
    <3> HIDE DEF x5, a
    <3> QED
      BY <2>4, <3>1
  <2> HIDE DEF a, x6, x7, x8
  <2>6. low \in Int
    BY <2>4, <2>5
  <2>7. 2^30 \in Int
    BY SMTT(20)
  <2>8. IntAt(x, 5) \in {low, low - 2^30 - 2^30}
    BY DEF IntAt, a, x6, x7, x8
  <2> HIDE DEF low
  <2> QED
    BY <2>6, <2>7, <2>8 DEF x
<1> HIDE DEF n
<1> QED
  BY <1>9, <1>10, <1>11 DEF h, y, n

\* The bytes of the server's side are bytes.
LEMMA DecodeTypes ==
    ASSUME stream \in Seq(Byte), stack \in Seq(Byte), Len(stack) = 19, Decode
    PROVE  stream' \in Seq(Byte) /\ stack' \in Seq(Byte) /\ Len(stack') = 19
<1>1. PICK left \in {stack, [i \in 1 .. TOTAL_HEADER_LENGTH |-> 0]} :
        /\ BytesTaken = TOTAL_HEADER_LENGTH => left = stack
        /\ DecodeWith(HeaderWith(left), Remainder)
  BY DecodeSteps
<1> DEFINE y == Remainder
           h == HeaderWith(left)
           n == IntAt(LengthOf(h), 5)
           got == AtMost(n, y)
<1>2. h \in Seq(Byte) /\ Len(h) = 19 /\ n \in Int /\ y \in Seq(Byte)
  BY HeaderTyped
<1> HIDE DEF h, n, y
<1>3. got \in Seq(Byte)
  BY <1>2 DEF AtMost
<1>4. Len(got) \in Nat
  BY <1>3
<1> HIDE DEF got
<1>5. SubSeq(y, Len(got) + 1, Len(y)) \in Seq(Byte)
  BY <1>2, <1>4
<1>6. stream' \in {y, SubSeq(y, Len(got) + 1, Len(y))} /\ stack' = h
  BY <1>1 DEF DecodeWith, h, y, n, got
<1> QED
  BY <1>2, <1>5, <1>6 DEF h

\* Less than a header: the client has gone, and nothing comes of it.
LEMMA DecodeShort ==
    ASSUME stream \in Seq(Byte), stack \in Seq(Byte), Len(stack) = 19, Len(stream) < 19, Decode
    PROVE  ~open /\ Refused
<1>1. PICK left \in {stack, [i \in 1 .. TOTAL_HEADER_LENGTH |-> 0]} :
        DecodeWith(HeaderWith(left), Remainder)
  BY DecodeSteps
<1> DEFINE y == Remainder
           h == HeaderWith(left)
           n == IntAt(LengthOf(h), 5)
           got == AtMost(n, y)
           type == HeaderType(h)
           c == Construct(type, got)
<1>2. n \in Int
  BY HeaderTyped
<1>3. y = << >>
  <2> DEFINE l == Len(stream)
  <2>1. l \in Nat /\ l < 19
    OBVIOUS
  <2>2. BytesTaken = IF l < 19 THEN l ELSE 19
    BY HeaderBytes DEF BytesTaken
  <2>3. y = SubSeq(stream, BytesTaken + 1, l)
    BY DEF Remainder
  <2> HIDE DEF l, y
  <2>4. l + 1 \in Int /\ l \in Int /\ l < l + 1 /\ BytesTaken = l
    BY <2>1, <2>2
  <2>5. SubSeq(stream, l + 1, l) = << >>
    BY <2>4, SubSeqEmpty
  <2> QED
    BY <2>3, <2>4, <2>5
<1> HIDE DEF y, n
<1>4. got = << >>
  <2> DEFINE x == IF n < 0 THEN n ELSE 0
  <2>1. x \in Int /\ x < 1 /\ 1 \in Int
    BY <1>2
  <2>2. got = SubSeq(y, 1, x)
    <3>1. Len(y) = 0
      BY <1>3
    <3> QED
      BY <3>1 DEF AtMost
  <2> HIDE DEF x
  <2> QED
    BY <2>1, <2>2, SubSeqEmpty
<1> HIDE DEF got, type
<1>5. type \in Codes => ~c.ok
  BY <1>4, NothingRefused
<1>6. ~open
  BY HeaderBytes, DecodeSteps
<1> HIDE DEF c
<1>7. DecodePayload(h, got) => End("refused")
  BY <1>5 DEF DecodePayload, Codes, c, type
<1>8. DecodeWith(h, y) => End("refused") \/ End("wild")
  BY <1>7 DEF DecodeWith, got, n
<1>9. End("refused") \/ End("wild")
  BY <1>1, <1>8 DEF y
<1> QED
  BY <1>6, <1>9 DEF End, Refused

\* A header and what is behind it.
LEMMA HeaderCut ==
    ASSUME NEW m, ClientMessage(m), NEW y \in Seq(Byte), stack \in Seq(Byte), Len(stack) = 19,
           stream = Cat(HeaderOf(m), y), Decode
    PROVE  DecodeWith(HeaderOf(m), y)
<1> DEFINE x == HeaderOf(m)
<1>1. x \in Seq(Byte) /\ Len(x) = 19
  BY HeaderRead
<1> HIDE DEF x
<1>2. Len(stream) = 19 + Len(y) /\ Len(y) \in Nat /\ stream = Cat(x, y)
  <2>1. stream = Cat(x, y)
    BY DEF x
  <2>2. Len(y) \in Nat
    OBVIOUS
  <2> QED
    BY <1>1, <2>1, <2>2, CatLength
<1>3. BytesTaken = 19
  <2> DEFINE l == Len(stream)
  <2>1. l \in Nat /\ l >= 19
    BY <1>2
  <2>2. BytesTaken = IF l < 19 THEN l ELSE 19
    BY HeaderBytes DEF BytesTaken
  <2> HIDE DEF l
  <2> QED
    BY <2>1, <2>2
<1>4. SubSeq(Cat(x, y), 1, Len(x)) = x /\ SubSeq(Cat(x, y), Len(x) + 1, Len(Cat(x, y))) = y
  BY <1>1, CutIs
<1>5. Remainder = y
  BY <1>1, <1>2, <1>3, <1>4 DEF Remainder
<1>6. PICK left : left = stack /\ DecodeWith(HeaderWith(left), Remainder)
  BY <1>3, DecodeSteps, HeaderBytes
<1>7. HeaderWith(stack) = x
  <2>1. SubSeq(stack, 20, 19) = << >>
    BY SubSeqEmpty
  <2>2. x \o << >> = x
    BY <1>1, ConcatEmptySeq
  <2>3. 19 + 1 = 20
    OBVIOUS
  <2>4. HeaderWith(stack) = SubSeq(stream, 1, 19) \o SubSeq(stack, 19 + 1, 19)
    BY <1>3, HeaderBytes DEF HeaderWith
  <2>5. SubSeq(stream, 1, 19) = x
    BY <1>1, <1>2, <1>4
  <2> QED
    BY <2>1, <2>2, <2>3, <2>4, <2>5
<1> QED
  BY <1>5, <1>6, <1>7 DEF x

\* The header of a message of the client is a header, and not wild.
LEMMA HeaderFine ==
    \A m : ClientMessage(m) =>
        /\ GoodHeader(HeaderOf(m)) /\ ~WildIn(HeaderOf(m))
        /\ IntAt(LengthOf(HeaderOf(m)), 5) = messageLen(m)
        /\ HeaderType(HeaderOf(m)) = TypeCode(m.type)
<1> SUFFICES ASSUME NEW m, ClientMessage(m)
             PROVE
        /\ GoodHeader(HeaderOf(m)) /\ ~WildIn(HeaderOf(m))
        /\ IntAt(LengthOf(HeaderOf(m)), 5) = messageLen(m)
        /\ HeaderType(HeaderOf(m)) = TypeCode(m.type)
  OBVIOUS
<1> DEFINE h == HeaderOf(m)
           n == messageLen(m)
           x == LengthBytes(n)
<1>1. GoodHeader(h) /\ HeaderType(h) = TypeCode(m.type) /\ LengthOf(h) = x
  BY HeaderRead
<1>2. LengthFound(n)
  BY WireKnown
<1> HIDE DEF n
<1>3. IntAt(x, 5) = n /\ x[1] < 128 /\ ~Over(x, StackSize) /\ x \in Octets(8)
  BY <1>2 DEF LengthFound
<1> HIDE DEF x
<1>4. ~(x[1] >= 128)
  <2>1. x[1] \in Byte
    <3>1. x \in Seq(Byte) /\ Len(x) = 8
      BY <1>3 DEF Octets
    <3>2. 1 \in 1 .. Len(x)
      BY <3>1
    <3> QED
      BY <3>1, <3>2, ElementOfSeq
  <2>2. x[1] \in Int
    BY <2>1 DEF Byte
  <2> QED
    BY <1>3, <2>2
<1> HIDE DEF h
<1>5. ~WildIn(h)
  BY <1>1, <1>3, <1>4 DEF WildIn
<1> QED
  BY <1>1, <1>3, <1>5 DEF h, n

\* The name of the type that was sent.
LEMMA NameBack ==
    \A type \in {"Login", "Response", "Poll", "PollResponse"} : TypeName(TypeCode(type)) = type
BY DEF TypeName, TypeCode

\* A whole message at the front is taken from the stream, and returned unless
\* the time that is not set is negative.
LEMMA DecodeWhole ==
    ASSUME NEW m, ClientMessage(m), NEW z \in Seq(Byte), stack \in Seq(Byte), Len(stack) = 19,
           stream = Cat(OnWire(m), z), Decode
    PROVE  stream' = z /\ (Took(m) \/ Unhappy)
<1> DEFINE h == HeaderOf(m)
           P == PayloadOf(m, m.vals)
           n == messageLen(m)
           y == Cat(P, z)
           type == TypeCode(m.type)
<1>1. /\ OnWire(m) = Cat(h, P) /\ P \in Seq(Byte) /\ Len(P) = n /\ n \in Nat /\ type \in Codes
      /\ Construct(type, P) = [ok |-> TRUE, p |-> Len(P) + 1, vals |-> m.vals]
  BY WireKnown
<1>2. h \in Seq(Byte)
  BY HeaderRead
<1>3. stream = Cat(h, y)
  <2> HIDE DEF h, P
  <2>1. Cat(h, Cat(P, z)) = Cat(Cat(h, P), z)
    BY <1>1, <1>2, CatRegroup
  <2> QED
    BY <1>1, <2>1
<1> HIDE DEF P
<1>4. y \in Seq(Byte) /\ Len(y) = n + Len(z) /\ Len(z) \in Nat
  <2>1. Len(z) \in Nat
    OBVIOUS
  <2> QED
    BY <1>1, <2>1, CatLength
<1>5. DecodeWith(h, y)
  BY <1>3, <1>4, HeaderCut
<1>6. GoodHeader(h) /\ ~WildIn(h) /\ IntAt(LengthOf(h), 5) = n /\ HeaderType(h) = type
  BY HeaderFine
<1>7. SubSeq(y, 1, Len(P)) = P /\ SubSeq(y, Len(P) + 1, Len(y)) = z
  BY <1>1, CutIs
<1> HIDE DEF y, h, n, type
<1>8. AtMost(n, y) = P
  <2>1. (IF n < Len(y) THEN n ELSE Len(y)) = n
    BY <1>1, <1>4
  <2> QED
    BY <1>1, <1>7, <2>1 DEF AtMost
<1>9. DecodePayload(h, P) /\ stream' = z
  BY <1>5, <1>6, <1>7, <1>8 DEF DecodeWith
<1>10. ~(Len(P) < n)
  BY <1>1
<1>11. Construct(type, P).ok /\ Construct(type, P).vals = m.vals
  BY <1>1
<1>12. \/ /\ accepted' = Append(accepted, [type |-> TypeName(type), vals |-> m.vals])
          /\ UNCHANGED <<server, unlucky>>
       \/ server' = "refused" /\ unlucky' = TRUE /\ UNCHANGED accepted
  BY <1>1, <1>6, <1>9, <1>10, <1>11 DEF DecodePayload, Codes
<1>13. [type |-> TypeName(type), vals |-> m.vals] = m
  <2>1. m.type \in {"Login", "Response", "Poll", "PollResponse"}
    BY DEF ClientMessage
  <2>2. TypeName(type) = m.type
    BY <2>1, NameBack DEF type
  <2>3. m = [type |-> m.type, vals |-> m.vals]
    BY DEF ClientMessage
  <2> QED
    BY <2>2, <2>3
<1> QED
  BY <1>9, <1>12, <1>13 DEF Took, Unhappy

\* The beginning of a message: the client has gone, and nothing comes of it.
LEMMA DecodePart ==
    ASSUME NEW m, ClientMessage(m), NEW t \in Seq(Byte), stream \in Seq(Byte),
           OnWire(m) = Cat(stream, t), Len(t) > 0,
           stack \in Seq(Byte), Len(stack) = 19, Decode
    PROVE  ~open /\ Refused
<1> DEFINE h == HeaderOf(m)
           P == PayloadOf(m, m.vals)
           n == messageLen(m)
           l == Len(stream)
           y == SubSeq(stream, 19 + 1, l)
<1>1. OnWire(m) = Cat(h, P) /\ P \in Seq(Byte) /\ Len(P) = n /\ n \in Nat
  BY WireKnown
<1>2. h \in Seq(Byte) /\ Len(h) = 19
  BY HeaderRead
<1>3. l \in Nat /\ Len(t) \in Nat
  OBVIOUS
<1>4. CASE l < 19
  BY <1>4, DecodeShort
<1>5. CASE ~(l < 19)
  <2> HIDE DEF h, P, l
  <2>1. Cat(stream, t) = Cat(h, P)
    BY <1>1
  <2>2. Len(h) <= Len(stream)
    BY <1>2, <1>3, <1>5 DEF l
  <2>3. SubSeq(stream, 1, 19) = h
    BY <1>1, <1>2, <2>1, <2>2, Beginning
  <2>4. stream = Cat(h, y)
    <3>1. SubSeq(stream, 1, l) = stream
      BY SubSeqFull DEF l
    <3>2. 1 \in 1 .. l + 1 /\ 19 \in 1 - 1 .. l /\ l \in 19 .. l
      BY <1>3, <1>5
    <3>3. SubSeq(stream, 1, 19) \o SubSeq(stream, 19 + 1, l) = SubSeq(stream, 1, l)
      BY <3>2, ConcatAdjacentSubSeq DEF l
    <3> QED
      BY <2>3, <3>1, <3>3 DEF Cat
  <2>5. y \in Seq(Byte)
    BY <1>3 DEF l
  <2> HIDE DEF y
  <2>6. DecodeWith(h, y)
    BY <2>4, <2>5, HeaderCut DEF h
  <2>7. Len(y) < n /\ Len(y) \in Nat
    <3>1. Len(y) \in Nat
      BY <2>5
    <3>2. l = Len(h) + Len(y)
      BY <1>2, <2>4, <2>5, CatLength DEF l
    <3>3. Len(Cat(stream, t)) = l + Len(t)
      BY CatLength DEF l
    <3>4. Len(Cat(h, P)) = Len(h) + Len(P)
      BY <1>1, <1>2, CatLength
    <3> HIDE DEF n
    <3> QED
      BY <1>1, <1>2, <1>3, <2>1, <3>1, <3>2, <3>3, <3>4
  <2>8. GoodHeader(h) /\ ~WildIn(h) /\ IntAt(LengthOf(h), 5) = n
    BY HeaderFine DEF h
  <2> HIDE DEF n
  <2>9. ~(Len(y) >= n) /\ ~(n < Len(y))
    BY <1>1, <2>7
  <2>10. AtMost(n, y) = y
    <3>1. SubSeq(y, 1, Len(y)) = y
      BY <2>5, SubSeqFull
    <3> QED
      BY <2>9, <3>1 DEF AtMost
  <2>11. ~open /\ DecodePayload(h, y)
    BY <2>6, <2>8, <2>9, <2>10 DEF DecodeWith
  <2>12. End("refused")
    BY <2>7, <2>8, <2>11 DEF DecodePayload
  <2> QED
    BY <2>11, <2>12 DEF End, Refused
<1> QED
  BY <1>4, <1>5

-----------------------------------------------------------------------------
(* The messages in the stream, and the threads that write them.            *)

\* The messages that the threads have to write.
AllMessages == UNION {UNION {Range(s[t]) : t \in Threads} : s \in Scripts}

\* Messages as they stand in the stream, one after the other.
Queue(w) == FlattenSeq([i \in 1 .. Len(w) |-> OnWire(w[i])])

\* Each of them is one that the client can make.
LEMMA AllClients == \A m \in AllMessages : ClientMessage(m)
BY ScriptsAssumption DEF AllMessages

\* A message on the wire is bytes.
LEMMA WireType == \A m \in AllMessages : OnWire(m) \in Seq(Byte)
<1> SUFFICES ASSUME NEW m \in AllMessages PROVE OnWire(m) \in Seq(Byte)
  OBVIOUS
<1>1. Writes(m) \in Seq(Seq(Byte))
  BY AllClients, WireKnown
<1> QED
  BY <1>1, FlattenType DEF OnWire

\* Nothing waits.
LEMMA QueueNone == Queue(<< >>) = << >>
<1> DEFINE w == << >>
           c == [i \in 1 .. Len(w) |-> OnWire(w[i])]
<1>1. c = << >>
  OBVIOUS
<1>2. FlattenSeq(<< >>) = << >>
  BY FlattenNothing
<1> QED
  BY <1>1, <1>2 DEF Queue

\* What waits is bytes, ...
LEMMA QueueType ==
    \A w \in Seq(AllMessages) :
        [i \in 1 .. Len(w) |-> OnWire(w[i])] \in Seq(Seq(Byte)) /\ Queue(w) \in Seq(Byte)
<1> SUFFICES ASSUME NEW w \in Seq(AllMessages)
             PROVE  [i \in 1 .. Len(w) |-> OnWire(w[i])] \in Seq(Seq(Byte)) /\ Queue(w) \in Seq(Byte)
  OBVIOUS
<1> DEFINE n == Len(w)
           B == Seq(Byte)
           c == [i \in 1 .. n |-> OnWire(w[i])]
<1>1. n \in Nat
  OBVIOUS
<1>2. ASSUME NEW i \in 1 .. n PROVE OnWire(w[i]) \in B
  <2>1. w[i] \in AllMessages
    BY ElementOfSeq
  <2> QED
    BY <2>1, WireType
<1> HIDE DEF n, B
<1>3. c \in [1 .. n -> B]
  BY <1>2
<1>4. [1 .. n -> B] \subseteq Seq(B)
  <2>1. \A k \in Nat : [1 .. k -> B] \subseteq Seq(B)
    OBVIOUS
  <2> QED
    BY <1>1, <2>1
<1>5. c \in Seq(B)
  BY <1>3, <1>4
<1>6. Queue(w) \in Seq(Byte)
  <2>1. FlattenSeq(c) \in Seq(Byte)
    <3> HIDE DEF c
    <3> QED
      BY <1>5, FlattenType DEF B
  <2> QED
    BY <2>1 DEF Queue, n
<1> QED
  BY <1>5, <1>6 DEF n, B

\* ... and a message more is its bytes more.
LEMMA QueueMore ==
    \A w \in Seq(AllMessages) : \A m \in AllMessages :
        Queue(Append(w, m)) = Cat(Queue(w), OnWire(m))
<1> SUFFICES ASSUME NEW w \in Seq(AllMessages), NEW m \in AllMessages
             PROVE  Queue(Append(w, m)) = Cat(Queue(w), OnWire(m))
  OBVIOUS
<1> DEFINE v == Append(w, m)
           c == [i \in 1 .. Len(w) |-> OnWire(w[i])]
           d == [i \in 1 .. Len(v) |-> OnWire(v[i])]
           x == OnWire(m)
           n == Len(w)
<1>1. c \in Seq(Seq(Byte)) /\ x \in Seq(Byte)
  BY QueueType, WireType
<1>2. Len(v) = n + 1 /\ v[n + 1] = m /\ n \in Nat /\ \A i \in 1 .. n : v[i] = w[i]
  OBVIOUS
<1> HIDE DEF v
<1>3. Len(c) = n /\ \A i \in 1 .. n : c[i] = OnWire(w[i])
  BY <1>2
<1>4. Len(d) = n + 1 /\ d = [i \in 1 .. n + 1 |-> OnWire(v[i])]
  BY <1>2
<1>5. d[n + 1] = x /\ \A i \in 1 .. n : d[i] = c[i]
  <2>1. n + 1 \in 1 .. n + 1 /\ \A i \in 1 .. n : i \in 1 .. n + 1
    BY <1>2
  <2>2. d[n + 1] = x
    BY <1>2, <1>4, <2>1
  <2>3. ASSUME NEW i \in 1 .. n PROVE d[i] = c[i]
    BY <1>2, <1>3, <1>4, <2>1
  <2> QED
    BY <2>2, <2>3
<1> HIDE DEF x, c
<1>6. d = Append(c, x)
  <2> DEFINE e == Append(c, x)
             B == Seq(Byte)
  <2> HIDE DEF B
  <2>1. c \in Seq(B) /\ x \in B
    BY <1>1 DEF B
  <2>2. e \in Seq(B) /\ Len(e) = n + 1 /\ e[n + 1] = x /\ \A i \in 1 .. n : e[i] = c[i]
    BY <1>3, <2>1
  <2> HIDE DEF e
  <2>3. e = [i \in 1 .. n + 1 |-> e[i]]
    BY <2>2
  <2> HIDE DEF n
  <2>4. ASSUME NEW i \in 1 .. n + 1 PROVE OnWire(v[i]) = e[i]
    <3>1. i \in 1 .. n \/ i = n + 1
      BY <1>2
    <3>2. d[i] = OnWire(v[i])
      BY <1>4
    <3> HIDE DEF d
    <3> QED
      BY <1>5, <2>2, <3>1, <3>2
  <2> QED
    BY <1>4, <2>3, <2>4 DEF e
<1> HIDE DEF d
<1>7. FlattenSeq(d) = Cat(FlattenSeq(c), x)
  BY <1>1, <1>6, FlattenMore
<1> QED
  BY <1>7 DEF Queue, v, c, d, x

\* The first message that waits, and the others.
LEMMA QueueFirst ==
    \A w \in Seq(AllMessages) : w # << >> =>
        /\ Head(w) \in AllMessages /\ Tail(w) \in Seq(AllMessages)
        /\ Queue(w) = Cat(OnWire(Head(w)), Queue(Tail(w)))
<1> SUFFICES ASSUME NEW w \in Seq(AllMessages), w # << >>
             PROVE
        /\ Head(w) \in AllMessages /\ Tail(w) \in Seq(AllMessages)
        /\ Queue(w) = Cat(OnWire(Head(w)), Queue(Tail(w)))
  OBVIOUS
<1> DEFINE v == Tail(w)
           n == Len(v)
           x == OnWire(Head(w))
           a == <<x>>
           c == [i \in 1 .. Len(v) |-> OnWire(v[i])]
           d == [i \in 1 .. Len(w) |-> OnWire(w[i])]
<1>1. /\ Head(w) \in AllMessages /\ v \in Seq(AllMessages) /\ Head(w) = w[1]
      /\ Len(w) = n + 1 /\ n \in Nat /\ \A i \in 1 .. n : v[i] = w[i + 1]
  <2>1. Head(w) \in AllMessages /\ v \in Seq(AllMessages) /\ Len(v) = Len(w) - 1
        /\ \A i \in 1 .. Len(v) : v[i] = w[i + 1]
    BY HeadTailProperties
  <2>2. Head(w) = w[1] /\ Len(w) \in Nat /\ Len(v) \in Nat
    <3>1. Head(w) = w[1] /\ Len(w) \in Nat
      OBVIOUS
    <3>2. Len(v) \in Nat
      BY <2>1
    <3> QED
      BY <3>1, <3>2
  <2> QED
    BY <2>1, <2>2
<1> HIDE DEF v
<1>2. x \in Seq(Byte) /\ c \in Seq(Seq(Byte))
  BY <1>1, WireType, QueueType
<1>3. Len(c) = n /\ \A i \in 1 .. n : c[i] = OnWire(v[i])
  BY <1>1
<1> HIDE DEF x
<1>4. a \in Seq(Seq(Byte)) /\ Len(a) = 1 /\ a[1] = x /\ FlattenSeq(a) = x
  <2>1. a \in Seq(Seq(Byte)) /\ FlattenSeq(a) = x
    BY <1>2, FlattenOne
  <2>2. Len(a) = 1 /\ a[1] = x
    OBVIOUS
  <2> QED
    BY <2>1, <2>2
<1> HIDE DEF a, c
<1>5. d = a \o c
  <2> DEFINE e == a \o c
             B == Seq(Byte)
             k == n + 1
  <2> HIDE DEF B
  <2>1. a \in Seq(B) /\ c \in Seq(B)
    BY <1>2, <1>4 DEF B
  <2>2. e \in Seq(B) /\ Len(e) = Len(a) + Len(c)
        /\ \A i \in 1 .. Len(a) + Len(c) : e[i] = IF i <= Len(a) THEN a[i] ELSE c[i - Len(a)]
    BY <2>1, ConcatProperties
  <2> HIDE DEF e
  <2>3. Len(e) = k /\ e = [i \in 1 .. k |-> e[i]]
    <3>1. Len(e) = k
      BY <1>1, <1>3, <1>4, <2>2
    <3> HIDE DEF k
    <3> QED
      BY <2>2, <3>1
  <2>4. ASSUME NEW i \in 1 .. k PROVE OnWire(w[i]) = e[i]
    <3>1. i \in 1 .. Len(a) + Len(c)
      BY <1>1, <1>3, <1>4
    <3>2. e[i] = IF i <= 1 THEN a[i] ELSE c[i - 1]
      BY <1>4, <2>2, <3>1
    <3>3. i = 1 \/ (i > 1 /\ i - 1 \in 1 .. n /\ (i - 1) + 1 = i)
      BY <1>1
    <3>4. i = 1 => OnWire(w[i]) = e[i]
      BY <1>1, <1>4, <3>2 DEF x
    <3>5. i - 1 \in 1 .. n /\ (i - 1) + 1 = i => c[i - 1] = OnWire(w[i])
      <4> SUFFICES ASSUME i - 1 \in 1 .. n, (i - 1) + 1 = i PROVE c[i - 1] = OnWire(w[i])
        OBVIOUS
      <4>1. v[i - 1] = w[(i - 1) + 1] /\ c[i - 1] = OnWire(v[i - 1])
        BY <1>1, <1>3
      <4> QED
        BY <4>1
    <3>6. i > 1 => ~(i <= 1)
      OBVIOUS
    <3> QED
      BY <3>2, <3>3, <3>4, <3>5, <3>6
  <2>5. d = [i \in 1 .. k |-> OnWire(w[i])]
    BY <1>1
  <2> HIDE DEF d, k
  <2> QED
    BY <2>3, <2>4, <2>5 DEF e
<1> HIDE DEF d
<1>6. FlattenSeq(d) = Cat(FlattenSeq(a), FlattenSeq(c))
  BY <1>2, <1>4, <1>5, FlattenParts
<1>7. Queue(w) = FlattenSeq(d) /\ Queue(v) = FlattenSeq(c)
  BY DEF Queue, c, d
<1> QED
  BY <1>1, <1>4, <1>6, <1>7 DEF v, x

\* What thread t has written of the message it is at.
Halfway(t) == IF at[t] = 0 THEN << >> ELSE Opening(Writes(Head(script[t])), at[t])

\* The types, and that no thread has written more calls than its message has.
FramingTypes ==
    /\ script \in [Threads -> Seq(AllMessages)] /\ at \in [Threads -> Nat] /\ turn \in Threads
    /\ \A t \in Threads :
         at[t] > 0 => script[t] # << >> /\ at[t] < Len(Writes(Head(script[t])))
    /\ written \in Seq(AllMessages) /\ mixed \in BOOLEAN
    /\ stream \in Seq(Byte) /\ stack \in Seq(Byte) /\ Len(stack) = 19

\* The stream, cut where the messages end: those that wait, and what thread t has
\* written of the one it is at; the messages before them have been returned.
CutAt(t, waiting) ==
    /\ \A u \in Threads \ {t} : at[u] = 0
    /\ accepted \in Seq(AllMessages) /\ waiting \in Seq(AllMessages)
    /\ written = accepted \o waiting
    /\ server = "reading" => stream = Cat(Queue(waiting), Halfway(t))
    /\ server # "reading" => ~open \/ unlucky

\* The invariant.
FramingInv ==
    /\ FramingTypes
    /\ ~mixed => \E t \in Threads : \E waiting \in Seq(AllMessages) : CutAt(t, waiting)

\* It holds before anything is written.
LEMMA FramingInitInv == ASSUME Init PROVE FramingInv
<1>1. /\ script \in Scripts /\ at = [t \in Threads |-> 0] /\ turn \in Threads
      /\ stream = << >> /\ server = "reading" /\ stack = [i \in 1 .. TOTAL_HEADER_LENGTH |-> 0]
      /\ written = << >> /\ mixed = FALSE /\ accepted = << >>
  BY DEF Init
<1>2. script \in [Threads -> Seq(AllMessages)]
  <2> DEFINE M == UNION {Range(script[t]) : t \in Threads}
  <2>1. script \in [Threads -> Seq(M)]
    BY <1>1, ScriptsAssumption
  <2>2. M \subseteq AllMessages
    BY <1>1 DEF AllMessages
  <2> HIDE DEF M
  <2>3. Seq(M) \subseteq Seq(AllMessages)
    BY <2>2
  <2> QED
    BY <2>1, <2>3
<1>3. stack \in Seq(Byte) /\ Len(stack) = 19
  <2>1. 0 \in Byte
    BY DEF Byte
  <2>2. stack = [i \in 1 .. 19 |-> 0]
    BY <1>1, HeaderBytes
  <2> QED
    BY <2>1, <2>2
<1>4. FramingTypes
  <2>1. stream \in Seq(Byte) /\ written \in Seq(AllMessages) /\ mixed \in BOOLEAN
    <3>1. << >> \in Seq(Byte) /\ << >> \in Seq(AllMessages)
      OBVIOUS
    <3>2. stream \in Seq(Byte) /\ written \in Seq(AllMessages)
      BY <1>1, <3>1
    <3>3. mixed \in BOOLEAN
      BY <1>1
    <3> QED
      BY <3>2, <3>3
  <2>2. at \in [Threads -> Nat] /\ \A t \in Threads : ~(at[t] > 0)
    BY <1>1
  <2> QED
    BY <1>1, <1>2, <1>3, <2>1, <2>2 DEF FramingTypes
<1>5. CutAt(turn, << >>)
  <2> DEFINE none == << >>
  <2>1. none \in Seq(AllMessages) /\ none \in Seq(Byte)
    OBVIOUS
  <2>2. none = none \o none /\ Cat(none, none) = none
    BY <2>1, CatNothing, ConcatEmptySeq
  <2>3. Queue(none) = none
    BY QueueNone
  <2>4. Halfway(turn) = none
    BY <1>1 DEF Halfway
  <2>5. \A u \in Threads \ {turn} : at[u] = 0
    BY <1>1
  <2>6. accepted = none /\ written = none /\ stream = none
    BY <1>1
  <2> HIDE DEF none
  <2>7. CutAt(turn, none)
    BY <1>1, <2>1, <2>2, <2>3, <2>4, <2>5, <2>6 DEF CutAt
  <2> QED
    BY <2>7 DEF none
<1> QED
  <2>1. << >> \in Seq(AllMessages)
    OBVIOUS
  <2> QED
    BY <1>1, <1>4, <1>5, <2>1 DEF FramingInv

\* A call of write keeps the types.
LEMMA WriteTypes ==
    ASSUME FramingTypes, NEW t \in Threads, Write(t)
    PROVE  /\ FramingTypes'
           /\ Head(script[t]) \in AllMessages
           /\ at[t] + 1 \in 1 .. Len(Writes(Head(script[t])))
<1> DEFINE m == Head(script[t])
           a == Writes(m)
           k == at[t]
<1>1. /\ script \in [Threads -> Seq(AllMessages)] /\ at \in [Threads -> Nat]
      /\ \A u \in Threads :
           at[u] > 0 => script[u] # << >> /\ at[u] < Len(Writes(Head(script[u])))
      /\ written \in Seq(AllMessages) /\ stream \in Seq(Byte) /\ stack \in Seq(Byte)
      /\ Len(stack) = 19 /\ mixed \in BOOLEAN
  BY DEF FramingTypes
<1>2. /\ script[t] # << >> /\ turn' = t /\ stack' = stack
      /\ mixed' = (mixed \/ \E u \in Threads \ {t} : at[u] > 0)
      /\ stream' = stream \o a[k + 1]
      /\ IF k + 1 = Len(a)
         THEN /\ script' = [script EXCEPT ![t] = Tail(@)]
              /\ at' = [at EXCEPT ![t] = 0]
              /\ written' = Append(written, m)
         ELSE /\ at' = [at EXCEPT ![t] = @ + 1]
              /\ UNCHANGED <<script, written>>
  BY DEF Write, session
<1>3. m \in AllMessages /\ Tail(script[t]) \in Seq(AllMessages)
  BY <1>1, <1>2
<1>4. a \in Seq(Seq(Byte)) /\ Len(a) > 0 /\ Len(a) \in Nat
  <2>1. a \in Seq(Seq(Byte)) /\ Ends(a)
    BY <1>3, AllClients, WireKnown
  <2>2. Len(a) > 0
    BY <2>1 DEF Ends
  <2> QED
    BY <2>1, <2>2
<1>5. k \in Nat /\ k < Len(a)
  <2>1. k \in Nat
    BY <1>1
  <2>2. k > 0 => k < Len(a)
    BY <1>1
  <2> HIDE DEF k, a
  <2> QED
    BY <1>4, <2>1, <2>2
<1> HIDE DEF a
<1>6. k + 1 \in 1 .. Len(a)
  BY <1>4, <1>5
<1>7. stream' \in Seq(Byte)
  <2> DEFINE x == a[k + 1]
  <2>1. x \in Seq(Byte)
    BY <1>4, <1>6, ElementOfSeq
  <2>2. stream' = Cat(stream, x)
    BY <1>2 DEF Cat
  <2> HIDE DEF x
  <2> QED
    BY <1>1, <2>1, <2>2, CatLength
<1>8. mixed' \in BOOLEAN
  BY <1>2
<1>9. /\ script' \in [Threads -> Seq(AllMessages)] /\ at' \in [Threads -> Nat]
      /\ written' \in Seq(AllMessages)
      /\ \A u \in Threads :
           at'[u] > 0 => script'[u] # << >> /\ at'[u] < Len(Writes(Head(script'[u])))
  <2>1. CASE k + 1 = Len(a)
    <3>1. /\ script' = [script EXCEPT ![t] = Tail(@)] /\ at' = [at EXCEPT ![t] = 0]
          /\ written' = Append(written, m)
      BY <1>2, <2>1
    <3>2. script' \in [Threads -> Seq(AllMessages)] /\ at' \in [Threads -> Nat]
      BY <1>1, <1>3, <3>1
    <3>3. written' \in Seq(AllMessages)
      BY <1>1, <1>3, <3>1
    <3>4. ASSUME NEW u \in Threads, at'[u] > 0
          PROVE  script'[u] # << >> /\ at'[u] < Len(Writes(Head(script'[u])))
      <4>1. u # t
        BY <1>1, <3>1, <3>4
      <4>2. at'[u] = at[u] /\ script'[u] = script[u]
        BY <1>1, <3>1, <4>1
      <4> QED
        BY <1>1, <3>4, <4>2
    <3> QED
      BY <3>2, <3>3, <3>4
  <2>2. CASE ~(k + 1 = Len(a))
    <3>1. at' = [at EXCEPT ![t] = @ + 1] /\ script' = script /\ written' = written
      BY <1>2, <2>2
    <3>2. at' \in [Threads -> Nat]
      BY <1>1, <3>1
    <3>3. ASSUME NEW u \in Threads, at'[u] > 0
          PROVE  script'[u] # << >> /\ at'[u] < Len(Writes(Head(script'[u])))
      <4>1. CASE u = t
        <5>1. at'[u] = k + 1 /\ script'[u] = script[t]
          BY <1>1, <3>1, <4>1
        <5>2. k + 1 < Len(a)
          BY <1>4, <1>5, <2>2
        <5> QED
          BY <1>2, <5>1, <5>2 DEF a
      <4>2. CASE u # t
        <5>1. at'[u] = at[u] /\ script'[u] = script[u]
          BY <1>1, <3>1, <4>2
        <5> QED
          BY <1>1, <3>3, <5>1
      <4> QED
        BY <4>1, <4>2
    <3> QED
      BY <1>1, <3>1, <3>2, <3>3
  <2> QED
    BY <2>1, <2>2
<1>10. FramingTypes'
  BY <1>1, <1>2, <1>7, <1>8, <1>9 DEF FramingTypes
<1> QED
  BY <1>3, <1>6, <1>10 DEF a

\* A call of write keeps the cut: the stream is longer by the bytes of the call,
\* and by those the message has come further, or has ended.
LEMMA WriteCut ==
    ASSUME FramingTypes, NEW t \in Threads, Write(t), ~mixed',
           NEW s \in Threads, NEW waiting \in Seq(AllMessages), CutAt(s, waiting)
    PROVE  \E w \in Seq(AllMessages) : CutAt(t, w)'
<1> DEFINE m == Head(script[t])
           a == Writes(m)
           k == at[t]
<1>1. /\ script \in [Threads -> Seq(AllMessages)] /\ at \in [Threads -> Nat]
      /\ written \in Seq(AllMessages) /\ stream \in Seq(Byte)
  BY DEF FramingTypes
<1>2. /\ mixed' = (mixed \/ \E u \in Threads \ {t} : at[u] > 0)
      /\ server' = server /\ accepted' = accepted /\ unlucky' = unlucky /\ open' = open
      /\ stream' = stream \o a[k + 1]
      /\ IF k + 1 = Len(a)
         THEN /\ script' = [script EXCEPT ![t] = Tail(@)]
              /\ at' = [at EXCEPT ![t] = 0]
              /\ written' = Append(written, m)
         ELSE /\ at' = [at EXCEPT ![t] = @ + 1]
              /\ UNCHANGED <<script, written>>
  BY DEF Write, session
<1>3. m \in AllMessages /\ k + 1 \in 1 .. Len(a) /\ k \in Nat
  BY <1>1, WriteTypes
<1>4. a \in Seq(Seq(Byte)) /\ OnWire(m) = FlattenSeq(a)
  <2>1. a \in Seq(Seq(Byte))
    BY <1>3, AllClients, WireKnown
  <2> QED
    BY <2>1 DEF OnWire
<1>5. \A u \in Threads \ {t} : at[u] = 0
  <2>1. \A u \in Threads \ {t} : ~(at[u] > 0)
    BY <1>2
  <2> QED
    BY <1>1, <2>1
<1>6. \A u \in Threads \ {t} : at'[u] = 0
  BY <1>1, <1>2, <1>5
<1> HIDE DEF a
<1>7. /\ accepted \in Seq(AllMessages) /\ written = accepted \o waiting
      /\ server # "reading" => ~open \/ unlucky
  BY DEF CutAt
<1>8. server = "reading" => stream = Cat(Queue(waiting), Opening(a, k))
  <2>1. Halfway(s) = Opening(a, k)
    <3>1. Opening(a, 0) = << >>
      BY <1>4, OpeningMore
    <3>2. CASE s = t
      BY <3>1, <3>2 DEF Halfway, a
    <3>3. CASE s # t
      <4>1. at[s] = 0 /\ at[t] = 0
        BY <3>3, <1>5 DEF CutAt
      <4> QED
        BY <3>1, <4>1 DEF Halfway
    <3> QED
      BY <3>2, <3>3
  <2> QED
    BY <2>1 DEF CutAt
<1> DEFINE x == a[k + 1]
           q1 == Queue(waiting)
           f == Opening(a, k)
           g == Opening(a, k + 1)
<1>9. q1 \in Seq(Byte) /\ x \in Seq(Byte) /\ f \in Seq(Byte) /\ g = Cat(f, x)
  <2>1. q1 \in Seq(Byte)
    BY QueueType
  <2>2. (k + 1) - 1 = k /\ k \in 0 .. Len(a)
    BY <1>3
  <2>3. Opening(a, k + 1) = Cat(Opening(a, (k + 1) - 1), x) /\ x \in Seq(Byte)
    BY <1>3, <1>4, OpeningMore
  <2>4. f \in Seq(Byte)
    BY <1>4, <2>2, OpeningMore
  <2> QED
    BY <2>1, <2>2, <2>3, <2>4
<1>10. server = "reading" => stream' = Cat(q1, g)
  <2>1. stream' = Cat(stream, x)
    BY <1>2 DEF Cat
  <2> HIDE DEF q1, f, g, x
  <2>2. Cat(q1, Cat(f, x)) = Cat(Cat(q1, f), x)
    BY <1>9, CatRegroup
  <2> QED
    BY <1>8, <1>9, <2>1, <2>2 DEF q1, f
<1> HIDE DEF x, q1, f, g
<1>11. CASE k + 1 = Len(a)
  <2>8. PICK w : w = Append(waiting, m)
    OBVIOUS
  <2>1. at'[t] = 0 /\ written' = Append(written, m)
    BY <1>1, <1>2, <1>11 DEF a
  <2>2. w \in Seq(AllMessages) /\ written' = accepted \o w
    <3>1. m \in AllMessages /\ accepted \in Seq(AllMessages)
      BY <1>3, <1>7
    <3> HIDE DEF m
    <3>2. Append(accepted \o waiting, m) = accepted \o Append(waiting, m)
      BY <3>1
    <3>3. w \in Seq(AllMessages)
      BY <2>8, <3>1
    <3> QED
      BY <1>7, <2>1, <2>8, <3>2, <3>3
  <2>3. g = OnWire(m)
    <3>1. Opening(a, Len(a)) = FlattenSeq(a)
      BY <1>4, OpeningMore
    <3> QED
      BY <1>4, <1>11, <3>1 DEF g
  <2>4. Queue(w) = Cat(q1, OnWire(m)) /\ Queue(w) \in Seq(Byte)
    <3>1. Queue(w) = Cat(q1, OnWire(m))
      BY <1>3, <2>8, QueueMore DEF q1
    <3> QED
      BY <2>2, <3>1, QueueType
  <2>5. server' = "reading" => stream' = Cat(Queue(w), << >>)
    <3>1. Cat(Queue(w), << >>) = Queue(w)
      BY <2>4, CatNothing
    <3> QED
      BY <1>2, <1>10, <2>3, <2>4, <3>1
  <2>6. Halfway(t)' = << >>
    BY <2>1 DEF Halfway
  <2>7. CutAt(t, w)'
    BY <1>2, <1>6, <1>7, <2>2, <2>5, <2>6 DEF CutAt
  <2> QED
    BY <2>2, <2>7
<1>12. CASE ~(k + 1 = Len(a))
  <2>1. at'[t] = k + 1 /\ script' = script /\ written' = written
    BY <1>1, <1>2, <1>12 DEF a
  <2>2. Halfway(t)' = g
    <3>1. at'[t] # 0
      BY <1>3, <2>1
    <3>2. Halfway(t)' = Opening(Writes(Head(script'[t])), at'[t])
      BY <3>1 DEF Halfway, Opening
    <3> QED
      BY <2>1, <3>2 DEF g, a
  <2>3. CutAt(t, waiting)'
    BY <1>2, <1>6, <1>7, <1>10, <2>1, <2>2 DEF CutAt, q1
  <2> QED
    BY <2>3
<1> QED
  BY <1>11, <1>12

\* decode keeps it: of the messages that wait it returns the first; when none
\* waits, what there is of one is refused, and only after the client has gone.
LEMMA DecodeCut ==
    ASSUME FramingTypes, Decode,
           NEW t \in Threads, NEW waiting \in Seq(AllMessages), CutAt(t, waiting)
    PROVE  \E w \in Seq(AllMessages) : CutAt(t, w)'
<1> DEFINE f == Halfway(t)
<1>1. /\ script \in [Threads -> Seq(AllMessages)] /\ at \in [Threads -> Nat]
      /\ stream \in Seq(Byte) /\ stack \in Seq(Byte) /\ Len(stack) = 19
      /\ \A u \in Threads :
           at[u] > 0 => script[u] # << >> /\ at[u] < Len(Writes(Head(script[u])))
  BY DEF FramingTypes
<1>2. /\ script' = script /\ at' = at /\ open' = open /\ written' = written
      /\ server = "reading"
  BY DecodeSteps DEF client
<1>3. /\ \A u \in Threads \ {t} : at[u] = 0
      /\ accepted \in Seq(AllMessages) /\ written = accepted \o waiting
      /\ stream = Cat(Queue(waiting), f)
  BY <1>2 DEF CutAt
<1>4. Halfway(t)' = f
  BY <1>2 DEF Halfway, Opening
<1> DEFINE m == Head(script[t])
           k == at[t]
<1>5. at[t] > 0 => /\ m \in AllMessages /\ k \in 0 .. Len(Writes(m)) - 1
                   /\ f = Opening(Writes(m), k)
  <2> SUFFICES ASSUME at[t] > 0
               PROVE  /\ m \in AllMessages /\ k \in 0 .. Len(Writes(m)) - 1
                      /\ f = Opening(Writes(m), k)
    OBVIOUS
  <2>1. script[t] # << >> /\ k < Len(Writes(m)) /\ script[t] \in Seq(AllMessages) /\ k \in Nat
    BY <1>1
  <2>2. m \in AllMessages
    BY <2>1
  <2>3. Writes(m) \in Seq(Seq(Byte))
    BY <2>2, AllClients, WireKnown
  <2>4. k \in 0 .. Len(Writes(m)) - 1
    <3> DEFINE l == Len(Writes(m))
    <3>1. l \in Nat /\ k < l
      BY <2>1, <2>3
    <3> HIDE DEF l, k
    <3>2. k \in 0 .. l - 1
      BY <2>1, <3>1
    <3> QED
      BY <3>2 DEF l
  <2> QED
    BY <2>2, <2>4 DEF Halfway
<1>6. ~(at[t] > 0) => f = << >>
  BY <1>1 DEF Halfway
<1>7. f \in Seq(Byte)
  <2>1. at[t] > 0 => f \in Seq(Byte)
    BY <1>5, AllClients, Begins
  <2>2. << >> \in Seq(Byte)
    OBVIOUS
  <2> QED
    BY <1>6, <2>1, <2>2
<1> HIDE DEF f
<1>8. CASE waiting = << >>
  <2>1. stream = f
    BY <1>3, <1>7, <1>8, QueueNone, CatNothing
  <2>2. ~open /\ Refused
    <3>1. CASE at[t] > 0
      <4>1. PICK y \in Seq(Byte) : OnWire(m) = Cat(f, y) /\ Len(y) > 0
        BY <1>5, <3>1, AllClients, Begins
      <4>2. ClientMessage(m)
        BY <1>5, <3>1, AllClients
      <4> HIDE DEF m
      <4> QED
        BY <1>1, <2>1, <4>1, <4>2, DecodePart
    <3>2. CASE ~(at[t] > 0)
      <4>1. Len(stream) = 0
        BY <1>6, <2>1, <3>2
      <4>2. Len(stream) < 19
        BY <4>1
      <4> QED
        BY <1>1, <4>2, DecodeShort
    <3> QED
      BY <3>1, <3>2
  <2>3. CutAt(t, waiting)'
    BY <1>2, <1>3, <2>2 DEF CutAt, Refused
  <2> QED
    BY <2>3
<1>9. CASE waiting # << >>
  <2> DEFINE c == Head(waiting)
             w == Tail(waiting)
             z == Cat(Queue(w), f)
  <2>1. /\ c \in AllMessages /\ w \in Seq(AllMessages)
        /\ Queue(waiting) = Cat(OnWire(c), Queue(w))
    BY <1>9, QueueFirst
  <2>2. waiting = <<c>> \o w
    BY <1>9, <2>1
  <2> HIDE DEF c, w
  <2>3. Queue(w) \in Seq(Byte) /\ OnWire(c) \in Seq(Byte) /\ ClientMessage(c)
    BY <2>1, QueueType, WireType, AllClients
  <2>4. z \in Seq(Byte) /\ stream = Cat(OnWire(c), z)
    <3>1. z \in Seq(Byte)
      BY <1>7, <2>3, CatLength
    <3>2. Cat(OnWire(c), Cat(Queue(w), f)) = Cat(Cat(OnWire(c), Queue(w)), f)
      BY <1>7, <2>3, CatRegroup
    <3> QED
      BY <1>3, <2>1, <3>1, <3>2
  <2> HIDE DEF z
  <2>5. stream' = z /\ (Took(c) \/ Unhappy)
    BY <1>1, <2>3, <2>4, DecodeWhole
  <2>6. CASE Took(c)
    <3>1. accepted' = Append(accepted, c) /\ server' = server /\ unlucky' = unlucky
      BY <2>6 DEF Took
    <3>2. Append(accepted, c) \in Seq(AllMessages)
          /\ Append(accepted, c) \o w = accepted \o waiting
      <4> DEFINE e == <<c>>
      <4>1. e \in Seq(AllMessages) /\ Append(accepted, c) = accepted \o e
        BY <1>3, <2>1
      <4>2. waiting = e \o w
        BY <2>2
      <4> HIDE DEF e
      <4>3. (accepted \o e) \o w = accepted \o (e \o w)
        BY <1>3, <2>1, <4>1, Regroup, SMTT(30)
      <4>4. Append(accepted, c) \in Seq(AllMessages)
        BY <1>3, <2>1
      <4> QED
        BY <4>1, <4>2, <4>3, <4>4
    <3>3. CutAt(t, w)'
      BY <1>2, <1>3, <1>4, <2>1, <2>5, <3>1, <3>2 DEF CutAt, z
    <3> QED
      BY <2>1, <3>3
  <2>7. CASE Unhappy
    <3>1. CutAt(t, waiting)'
      BY <1>2, <1>3, <2>7 DEF CutAt, Unhappy
    <3> QED
      BY <3>1
  <2> QED
    BY <2>5, <2>6, <2>7
<1> QED
  BY <1>8, <1>9

\* Every step keeps the invariant.
LEMMA FramingNextInv == ASSUME FramingInv, [Next]_vars PROVE FramingInv'
<1>1. FramingTypes /\ (~mixed => \E t \in Threads : \E w \in Seq(AllMessages) : CutAt(t, w))
  BY DEF FramingInv
<1>2. ASSUME NEW t \in Threads, Write(t) PROVE FramingInv'
  <2>1. FramingTypes'
    BY <1>1, <1>2, WriteTypes
  <2>2. ASSUME ~mixed' PROVE \E u \in Threads : \E w \in Seq(AllMessages) : CutAt(u, w)'
    <3>1. ~mixed
      BY <1>2, <2>2 DEF Write
    <3>2. PICK s \in Threads, waiting \in Seq(AllMessages) : CutAt(s, waiting)
      BY <1>1, <3>1
    <3> QED
      BY <1>1, <1>2, <2>2, <3>2, WriteCut
  <2> QED
    BY <2>1, <2>2 DEF FramingInv
<1>3. CASE Close
  <2>1. /\ script' = script /\ at' = at /\ turn' = turn /\ written' = written /\ mixed' = mixed
        /\ stream' = stream /\ server' = server /\ stack' = stack /\ accepted' = accepted
        /\ unlucky' = unlucky /\ open' = FALSE
    BY <1>3 DEF Close, session
  <2>2. FramingTypes'
    BY <1>1, <2>1 DEF FramingTypes
  <2>3. ASSUME NEW t \in Threads, NEW w \in Seq(AllMessages), CutAt(t, w) PROVE CutAt(t, w)'
    <3>1. Halfway(t)' = Halfway(t)
      BY <2>1 DEF Halfway, Opening
    <3> QED
      BY <2>1, <2>3, <3>1 DEF CutAt
  <2> QED
    BY <1>1, <2>1, <2>2, <2>3 DEF FramingInv
<1>4. CASE Decode
  <2>1. /\ script' = script /\ at' = at /\ turn' = turn /\ written' = written /\ mixed' = mixed
    BY <1>4, DecodeSteps DEF client
  <2>2. stream \in Seq(Byte) /\ stack \in Seq(Byte) /\ Len(stack) = 19
    BY <1>1 DEF FramingTypes
  <2>3. stream' \in Seq(Byte) /\ stack' \in Seq(Byte) /\ Len(stack') = 19
    BY <1>4, <2>2, DecodeTypes
  <2>4. FramingTypes'
    BY <1>1, <2>1, <2>3 DEF FramingTypes
  <2>5. ASSUME NEW t \in Threads, NEW w \in Seq(AllMessages), CutAt(t, w)
        PROVE  \E v \in Seq(AllMessages) : CutAt(t, v)'
    BY <1>1, <1>4, <2>5, DecodeCut
  <2> QED
    BY <1>1, <2>1, <2>4, <2>5 DEF FramingInv
<1>5. CASE UNCHANGED vars
  <2>1. /\ script' = script /\ at' = at /\ turn' = turn /\ written' = written /\ mixed' = mixed
        /\ stream' = stream /\ server' = server /\ stack' = stack /\ accepted' = accepted
        /\ unlucky' = unlucky /\ open' = open
    BY <1>5 DEF vars, client, session
  <2>2. FramingTypes'
    BY <1>1, <2>1 DEF FramingTypes
  <2>3. ASSUME NEW t \in Threads, NEW w \in Seq(AllMessages), CutAt(t, w) PROVE CutAt(t, w)'
    <3>1. Halfway(t)' = Halfway(t)
      BY <2>1 DEF Halfway, Opening
    <3> QED
      BY <2>1, <2>3, <3>1 DEF CutAt
  <2> QED
    BY <1>1, <2>1, <2>2, <2>3 DEF FramingInv
<1> QED
  BY <1>2, <1>3, <1>4, <1>5 DEF Next

\* As long as no thread of the client writes inside the message of another, the
\* messages decode returns are the first of those the client has written, in
\* that order and with every field as it was, also when the client exits in the
\* middle of one.
THEOREM InOrder == Spec => []Intact
<1>1. FramingInv => Intact
  <2> SUFFICES ASSUME FramingInv, ~mixed PROVE IsPrefix(accepted, written)
    BY DEF Intact
  <2>1. PICK t \in Threads, waiting \in Seq(AllMessages) : CutAt(t, waiting)
    BY DEF FramingInv
  <2>2. accepted \in Seq(AllMessages) /\ written = accepted \o waiting
    BY <2>1 DEF CutAt
  <2>3. Len(accepted) \in Nat /\ Len(waiting) \in Nat
        /\ Len(accepted \o waiting) = Len(accepted) + Len(waiting)
    BY <2>2
  <2>4. Len(accepted) <= Len(accepted \o waiting)
    BY <2>3
  <2>5. SubSeq(accepted, 1, Len(accepted)) = accepted
    BY <2>2, SubSeqFull
  <2>6. SubSeq(accepted \o waiting, 1, Len(accepted)) = accepted
    BY <2>2
  <2> QED
    BY <2>2, <2>4, <2>5, <2>6 DEF IsPrefix
<1> QED
  BY <1>1, FramingInitInv, FramingNextInv, PTL DEF Spec

\* ... and decode refuses none of them: a session of which no message was mixed
\* with another ends because the client has gone, or because setMsgNum finds a
\* negative time in memory that nobody has set.
THEOREM NoneRefused == Spec => []RefusedForAReason
<1>1. FramingInv => RefusedForAReason
  <2> SUFFICES ASSUME FramingInv, server # "reading", ~mixed PROVE ~open \/ unlucky
    BY DEF RefusedForAReason
  <2> QED
    BY DEF FramingInv, CutAt
<1> QED
  BY <1>1, FramingInitInv, FramingNextInv, PTL DEF Spec
=============================================================================
