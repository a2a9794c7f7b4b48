--------------------------- MODULE ComposerProofs ---------------------------
(***************************************************************************)
(* Proofs of the properties of Composer, for any names, any lengths of the *)
(* pieces and of the blocks, and any number of texts and clicks.           *)
(***************************************************************************)
EXTENDS Composer, SequenceTheorems, WellFoundedInduction, TLAPS

-----------------------------------------------------------------------------
(* Arithmetic.                                                             *)

\* A set of natural numbers has a least element.
LEMMA Least ==
    ASSUME NEW S, S \subseteq Nat, S # {}
    PROVE  \E m \in S : \A n \in S : m <= n
<1> DEFINE R == {p \in Nat \X Nat : p[1] < p[2]}
<1>1. IsWellFoundedOn(R, Nat)
  <2>1. R = OpToRel(<, Nat)
    BY DEF OpToRel
  <2> QED
    BY <2>1, NatLessThanWellFounded, Zenon
<1>2. PICK m \in S : \A n \in S : <<n, m>> \notin R
  <2> HIDE DEF R
  <2> QED
    BY <1>1, WFMin
<1>3. \A n \in S : n \in Nat /\ m \in Nat /\ ~(n < m)
  BY <1>2
<1>4. \A n \in S : m <= n
  BY <1>3
<1> QED
  BY <1>4

\* Quotient and remainder.
LEMMA Division ==
    ASSUME NEW a \in Nat, NEW b \in Nat \ {0}
    PROVE  /\ a \div b \in Nat /\ a % b \in Nat /\ a % b < b
           /\ a = b * (a \div b) + (a % b)
<1>1. a \div b \in Nat /\ a % b \in Nat /\ a % b < b
  OBVIOUS
<1>2. b > 0
  OBVIOUS
<1>3. a = b * (a \div b) + (a % b)
  BY <1>2, SMTT(30)
<1> QED
  BY <1>1, <1>3

\* The next multiple is at least one length further.
LEMMA Multiples ==
    ASSUME NEW a \in Nat, NEW b \in Nat, NEW c \in Nat, a < b
    PROVE  a * c \in Nat /\ b * c \in Nat /\ a * c + c <= b * c
<1> DEFINE d == b - a - 1
<1>1. d \in Nat /\ b = a + 1 + d
  OBVIOUS
<1>2. b * c = a * c + c + d * c
  <2> HIDE DEF d
  <2> QED
    BY <1>1
<1>3. a * c \in Nat /\ b * c \in Nat /\ d * c \in Nat
  <2> HIDE DEF d
  <2> QED
    BY <1>1
<1> QED
  <2> HIDE DEF d
  <2> QED
    BY <1>2, <1>3

\* There is one quotient.
LEMMA Quotient ==
    ASSUME NEW a \in Nat, NEW b \in Nat \ {0}, NEW q \in Nat, NEW r \in Nat,
           r < b, a = q * b + r
    PROVE  a % b = r
<1> DEFINE p == a \div b
           s == a % b
<1>1. p \in Nat /\ s \in Nat /\ s < b /\ a = b * p + s
  BY Division
<1> HIDE DEF p, s
<1>2. a = p * b + s /\ p * b \in Nat /\ q * b \in Nat
  BY <1>1
<1>3. CASE p < q
  <2>1. p * b + b <= q * b
    BY <1>1, <1>3, Multiples
  <2> QED
    BY <1>1, <1>2, <2>1
<1>4. CASE q < p
  <2>1. q * b + b <= p * b
    BY <1>1, <1>4, Multiples
  <2> QED
    BY <1>1, <1>2, <2>1
<1>5. CASE p = q
  BY <1>1, <1>2, <1>5 DEF s
<1> QED
  BY <1>1, <1>3, <1>4, <1>5

\* The number of pieces of a text of the given length, and where one ends.
Pieces(length) == (length + BitLength - 1) \div BitLength
End(length, i) == IF i * BitLength < length THEN i * BitLength ELSE length

\* There are as many pieces as it takes.
LEMMA PieceCount ==
    ASSUME NEW length \in Nat \ {0}
    PROVE  /\ Pieces(length) \in Nat \ {0}
           /\ (Pieces(length) - 1) * BitLength < length
           /\ length <= Pieces(length) * BitLength
<1> DEFINE n == Pieces(length)
           r == (length + BitLength - 1) % BitLength
<1>1. BitLength \in Nat \ {0} /\ length + BitLength - 1 \in Nat
  BY LengthsAssumption
<1>2. /\ n \in Nat /\ r \in Nat /\ r < BitLength
      /\ length + BitLength - 1 = BitLength * n + r
  BY <1>1, Division DEF Pieces
<1> HIDE DEF n, r
<1>3. n * BitLength \in Nat /\ BitLength * n = n * BitLength
  BY <1>1, <1>2
<1>4. length <= n * BitLength
  BY <1>1, <1>2, <1>3
<1>5. n # 0
  BY <1>1, <1>4
<1>6. (n - 1) * BitLength = n * BitLength - BitLength
  BY <1>1, <1>2
<1>7. (n - 1) * BitLength < length
  BY <1>1, <1>2, <1>3, <1>6
<1> QED
  BY <1>2, <1>4, <1>5, <1>7 DEF n

\* A piece begins within the text, where the one before it ends; only the last
\* can be short, and its length is the remainder.
LEMMA PieceEnds ==
    ASSUME NEW length \in Nat \ {0}, NEW i \in 1 .. Pieces(length)
    PROVE  /\ (i - 1) * BitLength \in Nat /\ (i - 1) * BitLength < length
           /\ i > 1 => End(length, i - 1) = (i - 1) * BitLength
           /\ End(length, i) \in Nat /\ End(length, i) <= length
           /\ End(length, i) - (i - 1) * BitLength \in 1 .. BitLength
           /\ i = Pieces(length) => End(length, i) = length
           /\ IF length - (i - 1) * BitLength < BitLength
              THEN End(length, i) = length
                   /\ length % BitLength = length - (i - 1) * BitLength
              ELSE End(length, i) = i * BitLength /\ End(length, i) = (i - 1) * BitLength + BitLength
<1> DEFINE n == Pieces(length)
           s == (i - 1) * BitLength
           e == i * BitLength
           f == (n - 1) * BitLength
<1>1. BitLength \in Nat \ {0} /\ n \in Nat \ {0} /\ i \in Nat \ {0} /\ i <= n
  BY PieceCount, LengthsAssumption
<1>2. f < length /\ length <= n * BitLength
  BY PieceCount
<1>3. s \in Nat /\ e \in Nat /\ f \in Nat /\ e = s + BitLength
  <2>1. i - 1 \in Nat /\ n - 1 \in Nat
    BY <1>1
  <2> HIDE DEF n
  <2> QED
    BY <1>1, <2>1
<1>4. CASE i = n
  <2>1. s < length /\ length <= e /\ End(length, i) = length
    BY <1>1, <1>2, <1>3, <1>4 DEF End
  <2>2. ASSUME length - s < BitLength PROVE length % BitLength = length - s
    <3>1. length - s \in Nat /\ length = (i - 1) * BitLength + (length - s) /\ i - 1 \in Nat
      BY <1>1, <1>3, <2>1
    <3> QED
      BY <1>1, <2>2, <3>1, Quotient
  <2>3. i > 1 => End(length, i - 1) = s
    BY <2>1 DEF End
  <2> HIDE DEF s, e
  <2>4. ASSUME ~(length - s < BitLength) PROVE length = e
    BY <1>1, <1>3, <2>1, <2>4
  <2>5. length - s \in 1 .. BitLength
    BY <1>1, <1>3, <2>1
  <2>6. IF length - s < BitLength
        THEN End(length, i) = length /\ length % BitLength = length - s
        ELSE End(length, i) = e /\ End(length, i) = s + BitLength
    BY <1>3, <2>1, <2>2, <2>4
  <2> QED
    BY <1>3, <2>1, <2>3, <2>5, <2>6 DEF s, e
<1>5. CASE i < n
  <2>1. s + BitLength <= f
    BY <1>1, <1>3, <1>5, Multiples
  <2>2. e < length /\ s < length
    BY <1>1, <1>2, <1>3, <2>1
  <2>3. End(length, i) = e /\ (i > 1 => End(length, i - 1) = s)
    BY <2>2 DEF End
  <2>4. ~(length - s < BitLength)
    BY <1>1, <1>3, <2>2
  <2>5. End(length, i) - s = BitLength /\ BitLength \in 1 .. BitLength /\ s \in Nat
    BY <1>1, <1>3, <2>3
  <2> HIDE DEF s, e
  <2>6. i # Pieces(length) /\ e \in Nat /\ e <= length /\ e = s + BitLength
    BY <1>1, <1>3, <1>5, <2>2
  <2> QED
    BY <2>2, <2>3, <2>4, <2>5, <2>6 DEF s, e
<1> QED
  BY <1>1, <1>4, <1>5

-----------------------------------------------------------------------------
(* Texts.                                                                  *)

\* The characters of a text: those that are typed, and those of the head of a
\* group message.
Chars == (Nat \X Nat) \cup Names \cup {"group"}

\* A function that joins the first pieces.
Joins(f, seqs, n) ==
    f[1] = seqs[1] /\ \A i \in 2 .. n : f[i] = f[i - 1] \o seqs[i]

\* There is one.
LEMMA Unique ==
    \A n \in Nat \ {0} : \A seqs, g, h :
        Joins(g, seqs, n) /\ Joins(h, seqs, n) => h[n] = g[n]
<1> SUFFICES ASSUME NEW n \in Nat \ {0}, NEW seqs, NEW g, NEW h,
                    Joins(g, seqs, n), Joins(h, seqs, n)
             PROVE  h[n] = g[n]
  OBVIOUS
<1> USE DEF Joins
<1> DEFINE wrong == {i \in 1 .. n : h[i] # g[i]}
<1>1. ASSUME wrong # {} PROVE FALSE
  <2>1. wrong \subseteq Nat
    OBVIOUS
  <2>2. PICK m \in wrong : \A k \in wrong : m <= k
    <3> HIDE DEF wrong
    <3> QED
      BY <1>1, <2>1, Least
  <2>3. m \in 2 .. n /\ h[m] # g[m]
    OBVIOUS
  <2>4. m - 1 \in 1 .. n /\ ~(m <= m - 1)
    BY <2>3
  <2>5. h[m - 1] = g[m - 1]
    BY <2>2, <2>4
  <2>6. h[m] = h[m - 1] \o seqs[m] /\ g[m] = g[m - 1] \o seqs[m]
    BY <2>3
  <2> QED
    BY <2>3, <2>5, <2>6
<1> QED
  BY <1>1

\* A function as FlattenSeq describes it.
Describes(f, seqs, n) ==
    f = [i \in 1 .. n |-> IF i = 1 THEN seqs[i] ELSE f[i - 1] \o seqs[i]]

LEMMA DescribedJoins ==
    \A n \in Nat \ {0} : \A seqs, f : Describes(f, seqs, n) => Joins(f, seqs, n)
<1> SUFFICES ASSUME NEW n \in Nat \ {0}, NEW seqs, NEW f, Describes(f, seqs, n)
             PROVE  Joins(f, seqs, n)
  OBVIOUS
<1>1. f = [i \in 1 .. n |-> IF i = 1 THEN seqs[i] ELSE f[i - 1] \o seqs[i]]
  BY DEF Describes
<1>2. f[1] = seqs[1]
  BY <1>1
<1>3. ASSUME NEW i \in 2 .. n PROVE f[i] = f[i - 1] \o seqs[i]
  <2>1. i \in 1 .. n /\ i # 1
    OBVIOUS
  <2> QED
    BY <1>1, <2>1
<1> QED
  BY <1>2, <1>3 DEF Joins

\* It is the function FlattenSeq takes.
LEMMA Flattened ==
    ASSUME NEW seqs, NEW n \in Nat \ {0}, Len(seqs) = n, NEW g, Describes(g, seqs, n)
    PROVE  FlattenSeq(seqs) = g[n]
<1> DEFINE h == CHOOSE f : Describes(f, seqs, n)
<1>1. FlattenSeq(seqs) = h[n]
  BY DEF FlattenSeq, Describes
<1>2. Describes(h, seqs, n)
  OBVIOUS
<1> HIDE DEF h
<1>3. Joins(h, seqs, n) /\ Joins(g, seqs, n)
  BY <1>2, DescribedJoins
<1>4. h[n] = g[n]
  BY <1>3, Unique
<1> QED
  BY <1>1, <1>4

\* A piece of a text is joined to those before it.
LEMMA Joined ==
    ASSUME NEW S, NEW m \in Seq(S), NEW k \in Nat, NEW l \in Nat, k <= l, l <= Len(m)
    PROVE  /\ SubSeq(m, 1, k) \o SubSeq(m, k + 1, l) = SubSeq(m, 1, l)
           /\ SubSeq(m, k + 1, l) \in Seq(S) /\ Len(SubSeq(m, k + 1, l)) = l - k
<1>1. /\ SubSeq(m, 1, k) \in Seq(S) /\ SubSeq(m, k + 1, l) \in Seq(S)
      /\ SubSeq(m, 1, l) \in Seq(S)
  OBVIOUS
<1>2. /\ Len(SubSeq(m, 1, k)) = k /\ Len(SubSeq(m, k + 1, l)) = l - k
      /\ Len(SubSeq(m, 1, l)) = l
  OBVIOUS
<1>3. ASSUME NEW i \in 1 .. l
      PROVE  (SubSeq(m, 1, k) \o SubSeq(m, k + 1, l))[i] = SubSeq(m, 1, l)[i]
  BY <1>1, <1>2
<1> DEFINE x == SubSeq(m, 1, k) \o SubSeq(m, k + 1, l)
           y == SubSeq(m, 1, l)
<1>4. x \in Seq(S) /\ Len(x) = l /\ y \in Seq(S) /\ Len(y) = l
  BY <1>1, <1>2
<1>5. x = y
  <2>1. \A i \in 1 .. l : x[i] = y[i]
    BY <1>3
  <2> HIDE DEF x, y
  <2> QED
    BY <1>4, <2>1, SeqEqual
<1> QED
  BY <1>1, <1>2, <1>5

\* What is enciphered is deciphered.
LEMMA Deciphered ==
    ASSUME NEW text \in Seq(Chars), text # << >>
    PROVE  /\ aesDecrypt(doEncryption(text)) = text
           /\ doEncryption(text) \in Seq(Chars \cup Nat)
<1> DEFINE pad == Block - (Len(text) % Block)
           row == [i \in 1 .. pad |-> pad]
           all == text \o row
<1>1. Block \in Nat \ {0}
  BY LengthsAssumption
<1>2. Len(text) % Block \in Nat /\ Len(text) % Block < Block
  BY <1>1, Division
<1>3. pad \in Nat \ {0}
  BY <1>1, <1>2
<1> HIDE DEF pad
<1>4. row \in Seq(Nat) /\ Len(row) = pad
  BY <1>3
<1>5. row[pad] = pad
  BY <1>3
<1> HIDE DEF row
<1>6. text \in Seq(Chars \cup Nat) /\ row \in Seq(Chars \cup Nat)
  BY <1>4
<1>7. /\ all \in Seq(Chars \cup Nat) /\ Len(all) = Len(text) + pad
      /\ all[Len(text) + pad] = pad /\ all # << >>
      /\ \A i \in 1 .. Len(text) : all[i] = text[i]
  BY <1>3, <1>4, <1>5, <1>6
<1> HIDE DEF all
<1>8. Last(all) = pad
  BY <1>7 DEF Last
<1>9. Len(all) - Last(all) = Len(text)
  BY <1>3, <1>7, <1>8
<1>10. SubSeq(all, 1, Len(text)) = text
  <2> DEFINE y == SubSeq(all, 1, Len(text))
  <2>1. /\ y \in Seq(Chars \cup Nat) /\ Len(y) = Len(text)
        /\ \A i \in 1 .. Len(text) : y[i] = text[i]
    BY <1>3, <1>7
  <2> HIDE DEF y
  <2>2. y = text
    BY <1>6, <2>1, SeqEqual
  <2> QED
    BY <2>2 DEF y
<1>11. doEncryption(text) = all
  BY DEF doEncryption, all, row, pad
<1> QED
  BY <1>7, <1>9, <1>10, <1>11 DEF aesDecrypt

-----------------------------------------------------------------------------
(* The bits of a text.                                                     *)

\* The i-th piece of a text.
Piece(m, i) == SubSeq(m, (i - 1) * BitLength + 1, End(Len(m), i))

LEMMA PieceText ==
    ASSUME NEW m \in Seq(Chars), m # << >>, NEW i \in 1 .. Pieces(Len(m))
    PROVE  /\ Piece(m, i) \in Seq(Chars) /\ Piece(m, i) # << >>
           /\ Len(Piece(m, i)) = End(Len(m), i) - (i - 1) * BitLength
           /\ Len(Piece(m, i)) \in 1 .. BitLength
           /\ i > 1 => SubSeq(m, 1, End(Len(m), i - 1)) \o Piece(m, i)
                        = SubSeq(m, 1, End(Len(m), i))
           /\ i = 1 => Piece(m, i) = SubSeq(m, 1, End(Len(m), i))
<1> DEFINE s == (i - 1) * BitLength
           e == End(Len(m), i)
<1>1. Len(m) \in Nat \ {0}
  OBVIOUS
<1>2. /\ s \in Nat /\ e \in Nat /\ e <= Len(m) /\ e - s \in 1 .. BitLength
      /\ i > 1 => End(Len(m), i - 1) = s
  BY <1>1, PieceEnds
<1>3. i = 1 => s = 0
  BY LengthsAssumption
<1>4. Piece(m, i) = SubSeq(m, s + 1, e)
  BY DEF Piece
<1> HIDE DEF s, e
<1>5. s <= e
  BY <1>2, LengthsAssumption
<1>6. /\ SubSeq(m, 1, s) \o Piece(m, i) = SubSeq(m, 1, e)
      /\ Piece(m, i) \in Seq(Chars) /\ Len(Piece(m, i)) = e - s
  BY <1>2, <1>4, <1>5, Joined
<1>7. Piece(m, i) # << >>
  BY <1>2, <1>6, LengthsAssumption
<1>8. ASSUME i = 1 PROVE Piece(m, i) = SubSeq(m, 1, e)
  <2>1. s + 1 = 1
    BY <1>3, <1>8
  <2> QED
    BY <1>4, <2>1
<1> QED
  BY <1>2, <1>6, <1>7, <1>8 DEF s, e

\* The length a bit gets is the length of its text.
LEMMA BitText ==
    ASSUME NEW m \in Seq(Chars), m # << >>, NEW i \in 1 .. Pieces(Len(m)), NEW to
    PROVE  Bit(m, to, i) = [to |-> to, number |-> i, length |-> Len(Piece(m, i)),
                            text |-> Piece(m, i), encrypted |-> doEncryption(Piece(m, i))]
<1> DEFINE s == (i - 1) * BitLength
           max == IF BitLen(m, i) < BitLength THEN Len(m) ELSE BitLength * i
<1>1. Len(m) \in Nat \ {0} /\ BitLength \in Nat \ {0} /\ i \in Nat
  BY LengthsAssumption, PieceCount
<1>2. IF Len(m) - s < BitLength
      THEN End(Len(m), i) = Len(m) /\ Len(m) % BitLength = Len(m) - s
      ELSE End(Len(m), i) = i * BitLength /\ End(Len(m), i) = s + BitLength
  BY <1>1, PieceEnds
<1>3. s \in Nat /\ Len(Piece(m, i)) = End(Len(m), i) - s
  BY <1>1, PieceEnds, PieceText
<1>4. BitLen(m, i) = IF Len(m) - s < BitLength THEN Len(m) % BitLength ELSE BitLength
  BY DEF BitLen
<1>5. BitLength * i = i * BitLength
  BY <1>1
<1>6. BitLen(m, i) = Len(Piece(m, i)) /\ max = End(Len(m), i)
  <2> HIDE DEF s
  <2>1. CASE Len(m) - s < BitLength
    BY <1>1, <1>2, <1>3, <1>4, <2>1
  <2>2. CASE ~(Len(m) - s < BitLength)
    BY <1>1, <1>2, <1>3, <1>4, <1>5, <2>2
  <2> QED
    BY <2>1, <2>2
<1>7. SubSeq(m, s + 1, max) = Piece(m, i)
  BY <1>6 DEF Piece
<1> QED
  BY <1>6, <1>7 DEF Bit

\* What is made of a text: as many bits as it takes, refused only for their
\* recipient, and what the server makes of them is the text.
LEMMA BitsOfText ==
    ASSUME NEW m \in Seq(Chars), m # << >>, NEW to
    PROVE  /\ DOMAIN Bits(m, to) = 1 .. Pieces(Len(m)) /\ Pieces(Len(m)) \in Nat \ {0}
           /\ \A i \in DOMAIN Bits(m, to) : Refuses(Bits(m, to)[i]) <=> to \in Overlong
           /\ Received(Bits(m, to)) = [to |-> to, text |-> m]
<1> DEFINE n == Pieces(Len(m))
           bits == Bits(m, to)
           row == [i \in DOMAIN bits |-> aesDecrypt(bits[i].encrypted)]
           g == [i \in 1 .. n |-> SubSeq(m, 1, End(Len(m), i))]
<1>1. Len(m) \in Nat \ {0}
  OBVIOUS
<1>2. n \in Nat \ {0}
  BY <1>1, PieceCount
<1>3. bits = [i \in 1 .. n |-> Bit(m, to, i)]
  BY DEF Bits, Pieces
<1>4. ASSUME NEW i \in 1 .. n
      PROVE  /\ bits[i].to = to /\ bits[i].length = Len(Piece(m, i))
             /\ bits[i].text = Piece(m, i)
             /\ bits[i].encrypted = doEncryption(Piece(m, i))
  <2>1. bits[i] = Bit(m, to, i)
    BY <1>3
  <2>2. bits[i] = [to |-> to, number |-> i, length |-> Len(Piece(m, i)),
                   text |-> Piece(m, i), encrypted |-> doEncryption(Piece(m, i))]
    BY <2>1, BitText
  <2> QED
    BY <2>2
<1>5. \A i \in 1 .. n : aesDecrypt(bits[i].encrypted) = Piece(m, i)
  <2>1. ASSUME NEW i \in 1 .. n PROVE aesDecrypt(bits[i].encrypted) = Piece(m, i)
    <3> HIDE DEF bits, n
    <3>1. bits[i].encrypted = doEncryption(Piece(m, i))
      BY <1>4
    <3>2. Piece(m, i) \in Seq(Chars) /\ Piece(m, i) # << >>
      BY PieceText DEF n
    <3> QED
      BY <3>1, <3>2, Deciphered
  <2> QED
    BY <2>1
<1>6. \A i \in DOMAIN bits : Refuses(bits[i]) <=> to \in Overlong
  <2>1. ASSUME NEW i \in 1 .. n PROVE Refuses(bits[i]) <=> to \in Overlong
    <3> HIDE DEF bits
    <3>1. Len(Piece(m, i)) \in 1 .. BitLength
      BY PieceText
    <3>2. /\ bits[i].to = to /\ bits[i].length = Len(Piece(m, i))
          /\ bits[i].text = Piece(m, i)
      BY <1>4
    <3>3. ~(Len(Piece(m, i)) > BitLength)
      BY <3>1, LengthsAssumption
    <3> QED
      BY <3>2, <3>3 DEF Refuses
  <2> QED
    BY <1>3, <2>1
<1>7. row = [i \in 1 .. n |-> Piece(m, i)]
  <2> HIDE DEF bits
  <2> QED
    BY <1>3, <1>5
<1> HIDE DEF row
<1>8. Describes(g, row, n)
  <2>1. ASSUME NEW i \in 1 .. n
        PROVE  g[i] = IF i = 1 THEN row[i] ELSE g[i - 1] \o row[i]
    <3>1. row[i] = Piece(m, i)
      BY <1>7
    <3>2. CASE i = 1
      BY <3>1, <3>2, PieceText
    <3>3. CASE i # 1
      <4>1. i > 1 /\ i - 1 \in 1 .. n
        BY <1>2, <3>3
      <4>2. g[i - 1] = SubSeq(m, 1, End(Len(m), i - 1))
        BY <4>1
      <4>3. g[i - 1] \o row[i] = SubSeq(m, 1, End(Len(m), i))
        BY <3>1, <4>1, <4>2, PieceText
      <4> QED
        BY <3>3, <4>3
    <3> QED
      BY <3>2, <3>3
  <2>2. g = [i \in 1 .. n |-> g[i]]
    OBVIOUS
  <2> HIDE DEF g
  <2> QED
    BY <2>1, <2>2 DEF Describes
<1>9. g[n] = m
  <2>1. End(Len(m), n) = Len(m)
    BY <1>1, <1>2, PieceEnds
  <2>2. SubSeq(m, 1, Len(m)) = m
    OBVIOUS
  <2> QED
    BY <1>2, <2>1, <2>2
<1>10. FlattenSeq(row) = m
  <2>1. Len(row) = n
    BY <1>2, <1>7
  <2> HIDE DEF g, n
  <2> QED
    BY <1>2, <1>8, <1>9, <2>1, Flattened
<1>11. Received(bits) = [to |-> to, text |-> m]
  <2> HIDE DEF bits
  <2>1. bits[1].to = to
    BY <1>2, <1>4
  <2> QED
    BY <1>10, <2>1 DEF Received, row
<1> QED
  BY <1>2, <1>3, <1>6, <1>11

-----------------------------------------------------------------------------
(* The inductive invariant.                                                *)

\* What the constructor of MsgMessage makes, and a PollResponse written.
MsgMessages ==
    [to : Names, number : Nat, length : Nat, text : Seq(Chars),
     encrypted : Seq(Chars \cup Nat)]
PollResponses ==
    [bits : Seq(MsgMessages), to : Names, text : Seq(Chars), draft : Nat, click : Nat]

TypeOK ==
    /\ recipients \in Seq(Names) /\ box \in Seq(Nat \X Nat)
    /\ sending \in BOOLEAN /\ todo \in Seq(Names) /\ outMsgs \in Seq(MsgMessages)
    /\ connected \in BOOLEAN /\ written \in Seq(PollResponses)
    /\ drafts \in Nat /\ stepped \in BOOLEAN /\ clicks \in Nat

\* In the loop there is a text, todo is the rest of the recipients, and the
\* others have been written to.
Served(k) ==
    \E i \in DOMAIN written : written[i].draft = drafts /\ written[i].to = recipients[k]

LoopInv ==
    sending =>
        /\ box # << >> /\ Len(todo) <= Len(recipients)
        /\ \A k \in 1 .. Len(todo) :
              todo[k] = recipients[Len(recipients) - Len(todo) + k]
        /\ \A k \in 1 .. Len(recipients) - Len(todo) : Served(k)

\* An exception leaves something in outMsgs only when nothing is written any
\* more, or the clock has been set back.
LeftInv == stepped \/ ~connected \/ outMsgs = << >>

\* Of a text no click has failed on, all has been written by the present
\* click, and after it the box is empty.
DraftInv ==
    \A i \in DOMAIN written :
        /\ written[i].draft <= drafts
        /\ written[i].draft = drafts /\ drafts \notin failures =>
              IF sending THEN written[i].click = clicks ELSE box = << >>

IndInv ==
    TypeOK /\ LoopInv /\ LeftInv /\ DraftInv /\ RepeatOnlyAfterFailure /\ WholeTexts

-----------------------------------------------------------------------------
(* What the operators make has its type.                                   *)

LEMMA BitsType ==
    ASSUME NEW m \in Seq(Chars), m # << >>, NEW to \in Names
    PROVE  Bits(m, to) \in Seq(MsgMessages)
<1> DEFINE n == Pieces(Len(m))
<1>1. n \in Nat /\ Bits(m, to) = [i \in 1 .. n |-> Bit(m, to, i)]
  BY PieceCount DEF Bits, Pieces
<1>2. ASSUME NEW i \in 1 .. n PROVE Bit(m, to, i) \in MsgMessages
  <2>1. /\ Piece(m, i) \in Seq(Chars) /\ Piece(m, i) # << >>
        /\ Len(Piece(m, i)) \in 1 .. BitLength
    BY PieceText
  <2>2. doEncryption(Piece(m, i)) \in Seq(Chars \cup Nat)
    BY <2>1, Deciphered
  <2>3. i \in Nat /\ Len(Piece(m, i)) \in Nat
    BY <1>1, <2>1
  <2>4. Bit(m, to, i) = [to |-> to, number |-> i, length |-> Len(Piece(m, i)),
                         text |-> Piece(m, i), encrypted |-> doEncryption(Piece(m, i))]
    BY BitText
  <2> QED
    BY <2>1, <2>2, <2>3, <2>4 DEF MsgMessages
<1> HIDE DEF n
<1>3. Bits(m, to) \in [1 .. n -> MsgMessages]
  BY <1>1, <1>2
<1> QED
  BY <1>1, <1>3

LEMMA MessageType ==
    ASSUME TypeOK, box # << >>
    PROVE  Message \in Seq(Chars) /\ Message # << >>
<1> DEFINE head == IF Len(recipients) > 1 THEN <<"group">> \o recipients ELSE << >>
<1>1. recipients \in Seq(Chars) /\ box \in Seq(Chars) /\ <<"group">> \in Seq(Chars)
  BY DEF TypeOK, Chars
<1>2. head \in Seq(Chars)
  BY <1>1
<1> HIDE DEF head
<1>3. head \o box \in Seq(Chars) /\ head \o box # << >>
  BY <1>1, <1>2
<1> QED
  BY <1>3 DEF Message, head

\* One sequence, or two.
LEMMA FlattenedOne ==
    ASSUME NEW seqs, Len(seqs) = 1
    PROVE  FlattenSeq(seqs) = seqs[1]
<1> DEFINE g == [i \in 1 .. 1 |-> seqs[1]]
<1>1. g[1] = seqs[1] /\ DOMAIN g = 1 .. 1 /\ g = [i \in 1 .. 1 |-> g[i]]
  OBVIOUS
<1> HIDE DEF g
<1>2. Describes(g, seqs, 1)
  BY <1>1 DEF Describes
<1>3. 1 \in Nat \ {0}
  OBVIOUS
<1> QED
  BY <1>1, <1>2, <1>3, Flattened

LEMMA FlattenedTwo ==
    ASSUME NEW seqs, Len(seqs) = 2
    PROVE  FlattenSeq(seqs) = seqs[1] \o seqs[2]
<1> DEFINE x == seqs[1] \o seqs[2]
<1> HIDE DEF x
<1>1. PICK g : g = [i \in 1 .. 2 |-> IF i = 1 THEN seqs[1] ELSE x]
  OBVIOUS
<1>2. g[1] = seqs[1] /\ g[2] = x /\ g = [i \in 1 .. 2 |-> g[i]]
  BY <1>1
<1>3. \A i \in 1 .. 2 : g[i] = IF i = 1 THEN seqs[i] ELSE g[i - 1] \o seqs[i]
  <2> USE DEF x
  <2>1. \A i \in 1 .. 2 : i = 1 \/ (i = 2 /\ i - 1 = 1)
    OBVIOUS
  <2> QED
    BY <1>2, <2>1
<1>4. Describes(g, seqs, 2)
  BY <1>2, <1>3 DEF Describes
<1>5. 2 \in Nat \ {0}
  OBVIOUS
<1> QED
  BY <1>2, <1>4, <1>5, Flattened DEF x

\* The names kept are names.
LEMMA Kept ==
    ASSUME NEW names \in Lists
    PROVE  FlattenSeq([i \in DOMAIN names |->
                         IF names[i] \in BadNames THEN << >> ELSE <<names[i]>>]) \in Seq(Names)
<1> DEFINE seqs == [i \in DOMAIN names |->
                      IF names[i] \in BadNames THEN << >> ELSE <<names[i]>>]
<1>1. CASE \E a \in Names : names = <<a>>
  <2>1. PICK a \in Names : names = <<a>>
    BY <1>1
  <2>2. Len(seqs) = 1 /\ seqs[1] \in Seq(Names)
    BY <2>1
  <2> HIDE DEF seqs
  <2>3. FlattenSeq(seqs) \in Seq(Names)
    BY <2>2, FlattenedOne
  <2> QED
    BY <2>3 DEF seqs
<1>2. CASE \E a, b \in Names : names = <<a, b>>
  <2>1. PICK a \in Names, b \in Names : names = <<a, b>>
    BY <1>2
  <2>2. Len(seqs) = 2 /\ seqs[1] \in Seq(Names) /\ seqs[2] \in Seq(Names)
    BY <2>1
  <2> HIDE DEF seqs
  <2>3. FlattenSeq(seqs) = seqs[1] \o seqs[2]
    BY <2>2, FlattenedTwo
  <2>4. FlattenSeq(seqs) \in Seq(Names)
    BY <2>2, <2>3
  <2> QED
    BY <2>4 DEF seqs
<1> QED
  BY <1>1, <1>2 DEF Lists

-----------------------------------------------------------------------------
(* Steps.                                                                  *)

\* A step that writes nothing and counts no failure.
LEMMA EnterStep ==
    ASSUME IndInv, NEW names \in Lists, EnterRecipients(names)
    PROVE  IndInv'
<1>1. recipients' \in Seq(Names)
  BY Kept DEF EnterRecipients
<1>2. /\ ~sending /\ UNCHANGED <<box, sending, todo, outMsgs, connected, written,
                                 drafts, failures, stepped, clicks>>
  BY DEF EnterRecipients, loop, history
<1>3. TypeOK' /\ LoopInv' /\ LeftInv' /\ DraftInv'
  BY <1>1, <1>2 DEF IndInv, TypeOK, LoopInv, LeftInv, DraftInv
<1>4. RepeatOnlyAfterFailure' /\ WholeTexts'
  BY <1>2 DEF IndInv, RepeatOnlyAfterFailure, WholeTexts
<1> QED
  BY <1>3, <1>4 DEF IndInv

LEMMA TypeStep ==
    ASSUME IndInv, NEW n \in 0 .. MaxLength, Type(n)
    PROVE  IndInv'
<1>1. /\ ~sending /\ drafts' = drafts + 1 /\ box' = [i \in 1 .. n |-> <<drafts + 1, i>>]
      /\ UNCHANGED <<recipients, sending, todo, outMsgs, connected, written, failures,
                     stepped, clicks>>
  BY DEF Type, loop
<1>2. drafts \in Nat /\ drafts + 1 \in Nat /\ n \in Nat
  BY LengthsAssumption DEF IndInv, TypeOK
<1>3. box' \in Seq(Nat \X Nat)
  BY <1>1, <1>2
<1>4. TypeOK' /\ LoopInv' /\ LeftInv'
  BY <1>1, <1>2, <1>3 DEF IndInv, TypeOK, LoopInv, LeftInv
<1>5. ASSUME NEW i \in DOMAIN written
      PROVE  written[i].draft <= drafts' /\ written[i].draft # drafts'
  <2>1. written[i] \in PollResponses /\ written[i].draft <= drafts
    BY DEF IndInv, TypeOK, DraftInv
  <2>2. written[i].draft \in Nat
    BY <2>1 DEF PollResponses
  <2> QED
    BY <1>1, <1>2, <2>1, <2>2
<1>6. DraftInv'
  BY <1>1, <1>5 DEF DraftInv
<1>7. RepeatOnlyAfterFailure' /\ WholeTexts'
  BY <1>1 DEF IndInv, RepeatOnlyAfterFailure, WholeTexts
<1> QED
  BY <1>4, <1>6, <1>7 DEF IndInv

LEMMA ClickStep ==
    ASSUME IndInv, Click
    PROVE  IndInv'
<1>1. /\ ~sending /\ clicks' = clicks + 1 /\ clicks' \in Nat
      /\ UNCHANGED <<recipients, box, outMsgs, connected, written, drafts, failures, stepped>>
  BY DEF Click, IndInv, TypeOK
<1>2. \/ sending' = TRUE /\ todo' = recipients /\ box # << >>
      \/ sending' = sending /\ todo' = todo
  BY DEF Click
<1>3. TypeOK'
  BY <1>1, <1>2 DEF IndInv, TypeOK
<1>4. LoopInv'
  <2>1. CASE sending' = TRUE /\ todo' = recipients /\ box # << >>
    <3>1. Len(recipients) \in Nat
      BY DEF IndInv, TypeOK
    <3>2. /\ Len(todo') <= Len(recipients')
          /\ \A k \in 1 .. Len(todo') :
                todo'[k] = recipients'[Len(recipients') - Len(todo') + k]
          /\ \A k \in 1 .. Len(recipients') - Len(todo') : FALSE
      BY <1>1, <2>1, <3>1
    <3> QED
      BY <1>1, <2>1, <3>2 DEF LoopInv
  <2>2. CASE sending' = sending /\ todo' = todo
    BY <1>1, <2>2 DEF LoopInv
  <2> QED
    BY <1>2, <2>1, <2>2
<1>5. LeftInv' /\ RepeatOnlyAfterFailure' /\ WholeTexts'
  BY <1>1 DEF IndInv, LeftInv, RepeatOnlyAfterFailure, WholeTexts
<1>6. DraftInv'
  BY <1>1, <1>2 DEF IndInv, DraftInv
<1> QED
  BY <1>3, <1>4, <1>5, <1>6 DEF IndInv

LEMMA FinishStep ==
    ASSUME IndInv, Finish
    PROVE  IndInv'
<1>1. /\ sending' = FALSE /\ box' = << >>
      /\ UNCHANGED <<recipients, todo, outMsgs, connected, written, drafts, failures,
                     stepped, clicks>>
  BY DEF Finish, history
<1>2. TypeOK' /\ LoopInv' /\ LeftInv'
  <2>1. << >> \in Seq(Nat \X Nat)
    OBVIOUS
  <2> QED
    BY <1>1, <2>1 DEF IndInv, TypeOK, LoopInv, LeftInv
<1>3. DraftInv'
  BY <1>1 DEF IndInv, DraftInv
<1>4. RepeatOnlyAfterFailure' /\ WholeTexts'
  BY <1>1 DEF IndInv, RepeatOnlyAfterFailure, WholeTexts
<1> QED
  BY <1>2, <1>3, <1>4 DEF IndInv

LEMMA DisconnectStep ==
    ASSUME IndInv, Disconnect
    PROVE  IndInv'
<1>1. /\ connected' = FALSE
      /\ UNCHANGED <<recipients, box, sending, todo, outMsgs, written, drafts, failures,
                     stepped, clicks>>
  BY DEF Disconnect, history, window, loop
<1>2. TypeOK' /\ LoopInv' /\ LeftInv' /\ DraftInv'
  BY <1>1 DEF IndInv, TypeOK, LoopInv, LeftInv, DraftInv, Served
<1>3. RepeatOnlyAfterFailure' /\ WholeTexts'
  BY <1>1 DEF IndInv, RepeatOnlyAfterFailure, WholeTexts
<1> QED
  BY <1>2, <1>3 DEF IndInv

LEMMA StutterStep ==
    ASSUME IndInv, UNCHANGED vars
    PROVE  IndInv'
<1>1. UNCHANGED <<recipients, box, sending, todo, outMsgs, connected, written, drafts,
                  failures, stepped, clicks>>
  BY DEF vars, history, window, loop
<1>2. TypeOK' /\ LoopInv' /\ LeftInv' /\ DraftInv'
  BY <1>1 DEF IndInv, TypeOK, LoopInv, LeftInv, DraftInv, Served
<1>3. RepeatOnlyAfterFailure' /\ WholeTexts'
  BY <1>1 DEF IndInv, RepeatOnlyAfterFailure, WholeTexts
<1> QED
  BY <1>2, <1>3 DEF IndInv

\* The bits the loop makes for the next recipient.
LEMMA NextBits ==
    ASSUME IndInv, sending, todo # << >>, NEW to, to = Head(todo),
           NEW bits, bits = Bits(Message, to)
    PROVE  /\ to \in Names /\ Message \in Seq(Chars) /\ bits \in Seq(MsgMessages)
           /\ 1 \in DOMAIN bits
           /\ \A i \in DOMAIN bits : i \in Nat /\ 1 <= i /\ i <= Len(bits)
           /\ \A i \in DOMAIN bits : Refuses(bits[i]) <=> to \in Overlong
           /\ Received(bits) = [to |-> to, text |-> Message]
<1>1. to \in Names
  BY DEF IndInv, TypeOK
<1>2. Message \in Seq(Chars) /\ Message # << >>
  BY MessageType DEF IndInv, LoopInv
<1>3. bits \in Seq(MsgMessages)
  BY <1>1, <1>2, BitsType
<1>4. /\ DOMAIN bits = 1 .. Pieces(Len(Message)) /\ Pieces(Len(Message)) \in Nat \ {0}
      /\ \A i \in DOMAIN bits : Refuses(bits[i]) <=> to \in Overlong
      /\ Received(bits) = [to |-> to, text |-> Message]
  BY <1>2, BitsOfText
<1>5. /\ 1 \in DOMAIN bits
      /\ \A i \in DOMAIN bits : i \in Nat /\ 1 <= i /\ i <= Len(bits)
  BY <1>3, <1>4
<1> QED
  BY <1>1, <1>2, <1>3, <1>4, <1>5

\* Everything has been written to one more recipient.
LEMMA WriteStep ==
    ASSUME IndInv, sending, todo # << >>, connected,
           NEW to, to = Head(todo), NEW bits, bits = Bits(Message, to),
           written' = Append(written, [bits |-> outMsgs \o bits, to |-> to, text |-> Message,
                                       draft |-> drafts, click |-> clicks]),
           outMsgs' = << >>, todo' = Tail(todo),
           UNCHANGED <<recipients, box, sending, connected, drafts, failures, stepped, clicks>>
    PROVE  IndInv'
<1> DEFINE new == [bits |-> outMsgs \o bits, to |-> to, text |-> Message,
                   draft |-> drafts, click |-> clicks]
           n == Len(written) + 1
<1>1. /\ to \in Names /\ Message \in Seq(Chars) /\ bits \in Seq(MsgMessages)
      /\ Received(bits) = [to |-> to, text |-> Message]
  BY NextBits
<1>2. /\ outMsgs \in Seq(MsgMessages) /\ written \in Seq(PollResponses)
      /\ todo \in Seq(Names) /\ drafts \in Nat /\ clicks \in Nat
  BY DEF IndInv, TypeOK
<1>3. new \in PollResponses
  <2>1. outMsgs \o bits \in Seq(MsgMessages)
    BY <1>1, <1>2
  <2> QED
    BY <1>1, <1>2, <2>1 DEF PollResponses
<1>4. /\ new.bits = outMsgs \o bits /\ new.to = to /\ new.text = Message
      /\ new.draft = drafts /\ new.click = clicks
  OBVIOUS
<1>5. written' = Append(written, new)
  OBVIOUS
<1> HIDE DEF new
<1>6. /\ written' \in Seq(PollResponses) /\ Len(written) \in Nat
      /\ DOMAIN written = 1 .. Len(written) /\ DOMAIN written' = 1 .. n
      /\ written'[n] = new /\ \A i \in 1 .. Len(written) : written'[i] = written[i]
  <2>1. Append(written, new) \in Seq(PollResponses) /\ Len(Append(written, new)) = n
    BY <1>2, <1>3
  <2>2. /\ Append(written, new)[n] = new
        /\ \A i \in 1 .. Len(written) : Append(written, new)[i] = written[i]
    BY <1>2, <1>3
  <2> HIDE DEF n
  <2>3. DOMAIN written = 1 .. Len(written) /\ Len(written) \in Nat
    BY <1>2
  <2>4. DOMAIN Append(written, new) = 1 .. n
    BY <2>1
  <2> QED
    BY <1>5, <2>1, <2>2, <2>3, <2>4
<1>7. \A i \in DOMAIN written' :
        (i \in DOMAIN written /\ written'[i] = written[i]) \/ (i = n /\ written'[i] = new)
  BY <1>6
<1>8. n \in DOMAIN written' /\ \A i \in DOMAIN written : i \in DOMAIN written'
  BY <1>6
<1> HIDE DEF n
<1>9. TypeOK'
  <2>1. Tail(todo) \in Seq(Names)
    BY <1>2
  <2>2. << >> \in Seq(MsgMessages)
    OBVIOUS
  <2> QED
    BY <1>6, <2>1, <2>2 DEF IndInv, TypeOK
<1>10. LoopInv'
  <2> DEFINE l == Len(todo)  r == Len(recipients)
  <2>1. /\ l \in Nat \ {0} /\ r \in Nat /\ l <= r /\ Len(todo') = l - 1
        /\ \A k \in 1 .. l - 1 : todo'[k] = todo[k + 1]
        /\ todo[1] = to
    BY <1>2, SMTT(30) DEF IndInv, TypeOK, LoopInv
  <2>2. /\ \A k \in 1 .. l : todo[k] = recipients[r - l + k]
        /\ \A k \in 1 .. r - l : Served(k)
        /\ box # << >>
    BY DEF IndInv, LoopInv
  <2> HIDE DEF l, r
  <2>3. \A k \in 1 .. l - 1 : todo'[k] = recipients[r - (l - 1) + k]
    <3>1. ASSUME NEW k \in 1 .. l - 1 PROVE todo'[k] = recipients[r - (l - 1) + k]
      <4>1. k + 1 \in 1 .. l /\ r - l + (k + 1) = r - (l - 1) + k
        BY <2>1
      <4>2. todo[k + 1] = recipients[r - l + (k + 1)]
        BY <2>2, <4>1
      <4> QED
        BY <2>1, <4>1, <4>2
    <3> QED
      BY <3>1
  <2>4. \A k \in 1 .. r - (l - 1) : Served(k)'
    <3>1. ASSUME NEW k \in 1 .. r - l PROVE Served(k)'
      <4>1. PICK i \in DOMAIN written :
              written[i].draft = drafts /\ written[i].to = recipients[k]
        BY <2>2 DEF Served
      <4>2. i \in DOMAIN written' /\ written'[i] = written[i]
        BY <1>6, <1>8
      <4> QED
        BY <4>1, <4>2 DEF Served
    <3>2. ASSUME NEW k, k = r - (l - 1) PROVE Served(k)'
      <4>1. 1 \in 1 .. l /\ r - l + 1 = k
        BY <2>1, <3>2
      <4>2. recipients[k] = to
        BY <2>1, <2>2, <4>1
      <4> QED
        BY <1>4, <1>6, <1>8, <4>2 DEF Served
    <3>3. \A k \in 1 .. r - (l - 1) : k \in 1 .. r - l \/ k = r - (l - 1)
      BY <2>1
    <3> QED
      BY <3>1, <3>2, <3>3
  <2>5. Len(recipients') = r /\ Len(todo') = l - 1 /\ l - 1 <= r
    BY <2>1 DEF r
  <2>6. /\ box' # << >> /\ Len(todo') <= Len(recipients')
        /\ \A k \in 1 .. Len(todo') :
              todo'[k] = recipients'[Len(recipients') - Len(todo') + k]
        /\ \A k \in 1 .. Len(recipients') - Len(todo') : Served(k)'
    <3>1. box' # << >> /\ recipients' = recipients
      BY <2>2
    <3>2. Len(recipients') - Len(todo') = r - (l - 1)
      BY <2>5
    <3> QED
      BY <2>3, <2>4, <2>5, <3>1, <3>2
  <2> QED
    BY <2>6 DEF LoopInv
<1>11. LeftInv'
  BY DEF LeftInv
<1>12. DraftInv'
  <2>1. ASSUME NEW i \in DOMAIN written'
        PROVE  /\ written'[i].draft <= drafts
               /\ written'[i].draft = drafts /\ drafts \notin failures
                    => written'[i].click = clicks
    <3>1. CASE i \in DOMAIN written /\ written'[i] = written[i]
      BY <3>1 DEF IndInv, DraftInv
    <3>2. CASE i = n /\ written'[i] = new
      BY <1>2, <1>4, <3>2
    <3> QED
      BY <1>7, <3>1, <3>2
  <2> QED
    BY <2>1 DEF DraftInv
<1>13. RepeatOnlyAfterFailure'
  <2> SUFFICES ASSUME NEW i \in DOMAIN written', NEW j \in DOMAIN written',
                      written'[i].draft = written'[j].draft,
                      written'[i].click # written'[j].click
               PROVE  written'[i].draft \in failures
    BY DEF RepeatOnlyAfterFailure
  <2>1. \A k \in DOMAIN written :
          written[k].draft = drafts /\ drafts \notin failures => written[k].click = clicks
    BY DEF IndInv, DraftInv
  <2>2. CASE written'[i] = new
    <3>1. written'[j] # new
      BY <2>2
    <3> QED
      BY <1>4, <1>7, <2>1, <2>2, <3>1
  <2>3. CASE written'[j] = new
    <3>1. written'[i] # new
      BY <2>3
    <3> QED
      BY <1>4, <1>7, <2>1, <2>3, <3>1
  <2>4. CASE written'[i] # new /\ written'[j] # new
    BY <1>7, <2>4, ZenonT(40) DEF IndInv, RepeatOnlyAfterFailure
  <2> QED
    BY <2>2, <2>3, <2>4
<1>14. WholeTexts'
  <2> SUFFICES ASSUME ~stepped, NEW i \in DOMAIN written'
               PROVE  Received(written'[i].bits)
                        = [to |-> written'[i].to, text |-> written'[i].text]
    BY DEF WholeTexts
  <2>1. CASE i \in DOMAIN written /\ written'[i] = written[i]
    BY <2>1 DEF IndInv, WholeTexts
  <2>2. CASE i = n /\ written'[i] = new
    <3>1. outMsgs = << >>
      BY DEF IndInv, LeftInv
    <3>2. new.bits = bits
      BY <1>1, <1>4, <3>1
    <3> QED
      BY <1>1, <1>4, <2>2, <3>2
  <2> QED
    BY <1>7, <2>1, <2>2
<1> QED
  BY <1>9, <1>10, <1>11, <1>12, <1>13, <1>14 DEF IndInv

\* An exception ends the click.
LEMMA ThrowStep ==
    ASSUME IndInv, sending, NEW added \in Seq(MsgMessages), Throw(added),
           stepped' \in BOOLEAN, stepped => stepped',
           stepped' \/ ~connected \/ added = << >>,
           UNCHANGED <<recipients, box, connected, drafts, clicks>>
    PROVE  IndInv'
<1>1. /\ sending' = FALSE /\ todo' = << >> /\ outMsgs' = outMsgs \o added
      /\ failures' = failures \cup {drafts} /\ written' = written
  BY DEF Throw
<1>2. outMsgs \in Seq(MsgMessages)
  BY DEF IndInv, TypeOK
<1>3. TypeOK'
  <2>1. outMsgs \o added \in Seq(MsgMessages) /\ << >> \in Seq(Names)
    BY <1>2
  <2> QED
    BY <1>1, <2>1 DEF IndInv, TypeOK
<1>4. LoopInv'
  BY <1>1 DEF LoopInv
<1>5. LeftInv'
  <2>1. added = << >> => outMsgs \o added = outMsgs
    BY <1>2
  <2> QED
    BY <1>1, <2>1 DEF IndInv, LeftInv
<1>6. DraftInv'
  BY <1>1 DEF IndInv, DraftInv
<1>7. RepeatOnlyAfterFailure'
  BY <1>1 DEF IndInv, RepeatOnlyAfterFailure
<1>8. WholeTexts'
  BY <1>1 DEF IndInv, WholeTexts
<1> QED
  BY <1>3, <1>4, <1>5, <1>6, <1>7, <1>8 DEF IndInv

\* One turn of the loop.
LEMMA SendStep ==
    ASSUME IndInv, SendNext
    PROVE  IndInv'
<1> DEFINE to == Head(todo)
           bits == Bits(Message, to)
           refused == {i \in DOMAIN bits : Refuses(bits[i])}
<1>1. /\ sending /\ todo # << >>
      /\ UNCHANGED <<recipients, box, connected, drafts, clicks>>
  BY DEF SendNext, window
<1>2. /\ bits \in Seq(MsgMessages) /\ 1 \in DOMAIN bits
      /\ \A i \in DOMAIN bits : i \in Nat /\ 1 <= i /\ i <= Len(bits)
      /\ \A i \in DOMAIN bits : Refuses(bits[i]) <=> to \in Overlong
  BY <1>1, NextBits
<1>3. \A i \in DOMAIN bits : SubSeq(bits, 1, i - 1) \in Seq(MsgMessages)
  <2> HIDE DEF bits
  <2>1. ASSUME NEW i \in DOMAIN bits PROVE SubSeq(bits, 1, i - 1) \in Seq(MsgMessages)
    <3>1. i - 1 \in Nat /\ i - 1 <= Len(bits)
      BY <1>2
    <3> QED
      BY <1>2, <3>1
  <2> QED
    BY <2>1
<1>4. CASE /\ refused = {} /\ connected
           /\ written' = Append(written, [bits |-> outMsgs \o bits, to |-> to,
                                          text |-> Message, draft |-> drafts,
                                          click |-> clicks])
           /\ outMsgs' = << >>
           /\ todo' = Tail(todo)
           /\ UNCHANGED <<sending, failures, stepped>>
  BY <1>1, <1>4, WriteStep
<1>5. CASE refused = {} /\ ~connected /\ Throw(bits) /\ UNCHANGED stepped
  <2>1. stepped' \in BOOLEAN /\ (stepped => stepped')
    BY <1>5 DEF IndInv, TypeOK
  <2> HIDE DEF bits
  <2> QED
    BY <1>1, <1>2, <1>5, <2>1, ThrowStep
<1>6. CASE \E i \in refused : /\ \A j \in refused : i <= j
                              /\ Throw(SubSeq(bits, 1, i - 1))
                              /\ UNCHANGED stepped
  <2>1. PICK i \in refused : /\ \A j \in refused : i <= j
                             /\ Throw(SubSeq(bits, 1, i - 1))
                             /\ UNCHANGED stepped
    BY <1>6
  <2> HIDE DEF bits
  <2>2. i \in DOMAIN bits /\ i \in Nat /\ 1 <= i /\ 1 \in refused
    BY <1>2
  <2>3. i = 1
    BY <2>1, <2>2
  <2>4. SubSeq(bits, 1, i - 1) = << >>
    BY <1>2, <2>3
  <2>5. stepped' \in BOOLEAN /\ (stepped => stepped')
    BY <2>1 DEF IndInv, TypeOK
  <2> QED
    BY <1>1, <1>3, <2>1, <2>2, <2>4, <2>5, ThrowStep
<1>7. CASE \E i \in DOMAIN bits : /\ \A j \in refused : i < j
                                  /\ Throw(SubSeq(bits, 1, i - 1))
                                  /\ stepped' = TRUE
  <2>1. PICK i \in DOMAIN bits : Throw(SubSeq(bits, 1, i - 1)) /\ stepped' = TRUE
    BY <1>7
  <2> HIDE DEF bits
  <2> QED
    BY <1>1, <1>3, <2>1, ThrowStep
<1> QED
  BY <1>4, <1>5, <1>6, <1>7 DEF SendNext

-----------------------------------------------------------------------------
(* The invariant.                                                          *)

LEMMA InitInv == Init => IndInv
<1> SUFFICES ASSUME Init PROVE IndInv
  OBVIOUS
<1>1. /\ << >> \in Seq(Names) /\ << >> \in Seq(Nat \X Nat)
      /\ << >> \in Seq(MsgMessages) /\ << >> \in Seq(PollResponses)
  OBVIOUS
<1>2. TypeOK
  BY <1>1 DEF Init, TypeOK
<1>3. DOMAIN written = {}
  BY DEF Init
<1>4. LoopInv /\ LeftInv /\ DraftInv /\ RepeatOnlyAfterFailure /\ WholeTexts
  BY <1>3 DEF Init, LoopInv, LeftInv, DraftInv, RepeatOnlyAfterFailure, WholeTexts
<1> QED
  BY <1>2, <1>4 DEF IndInv

LEMMA NextInv == IndInv /\ [Next]_vars => IndInv'
<1> SUFFICES ASSUME IndInv, [Next]_vars PROVE IndInv'
  OBVIOUS
<1>1. CASE \E names \in Lists : EnterRecipients(names)
  BY <1>1, EnterStep
<1>2. CASE \E n \in 0 .. MaxLength : Type(n)
  BY <1>2, TypeStep
<1>3. CASE Click
  BY <1>3, ClickStep
<1>4. CASE SendNext
  BY <1>4, SendStep
<1>5. CASE Finish
  BY <1>5, FinishStep
<1>6. CASE Disconnect
  BY <1>6, DisconnectStep
<1>7. CASE UNCHANGED vars
  BY <1>7, StutterStep
<1> QED
  BY <1>1, <1>2, <1>3, <1>4, <1>5, <1>6, <1>7 DEF Next

LEMMA Invariance == Spec => []IndInv
<1> QED
  BY InitInv, NextInv, PTL DEF Spec

-----------------------------------------------------------------------------
(* The theorems.                                                           *)

\* Unless the clock was set back during a click, the server makes of each
\* PollResponse that btnSend writes the text composed for its recipient.
THEOREM TextsArriveWhole == Spec => []WholeTexts
<1>1. IndInv => WholeTexts
  BY DEF IndInv
<1> QED
  BY <1>1, Invariance, PTL

\* A text goes out in two clicks only after an exception ended one.
THEOREM RepeatsFollowFailures == Spec => []RepeatOnlyAfterFailure
<1>1. IndInv => RepeatOnlyAfterFailure
  BY DEF IndInv
<1> QED
  BY <1>1, Invariance, PTL

\* The lengths btnSend computes are the ones MsgMessage accepts: an exception
\* has another reason.
THEOREM LengthsAccepted == Spec => NoLengthRefused
<1>1. IndInv /\ [Next]_vars
        => [failures' # failures => stepped' \/ ~connected \/ Head(todo) \in Overlong]_vars
  <2> SUFFICES ASSUME IndInv, [Next]_vars, failures' # failures
               PROVE  stepped' \/ ~connected \/ Head(todo) \in Overlong
    OBVIOUS
  <2>1. SendNext
    BY DEF Next, EnterRecipients, Type, Click, Finish, Disconnect, vars, history
  <2> DEFINE to == Head(todo)
             bits == Bits(Message, to)
             refused == {i \in DOMAIN bits : Refuses(bits[i])}
  <2>2. sending /\ todo # << >>
    BY <2>1 DEF SendNext
  <2>3. \A i \in DOMAIN bits : Refuses(bits[i]) <=> to \in Overlong
    BY <2>2, NextBits
  <2>4. stepped' = TRUE \/ ~connected \/ refused # {}
    BY <2>1 DEF SendNext
  <2> HIDE DEF bits, to
  <2>5. refused # {} => to \in Overlong
    BY <2>3
  <2> QED
    BY <2>4, <2>5 DEF to
<1> QED
  BY <1>1, Invariance, PTL DEF Spec, NoLengthRefused

\* The box is emptied only after all recipients have been written to.
THEOREM ClearedWhenServed == Spec => ClearedOnlyIfSent
<1>1. IndInv /\ [Next]_vars
        => [box # << >> /\ box' = << >> /\ drafts' = drafts =>
              \A k \in 1 .. Len(recipients) :
                  \E i \in DOMAIN written :
                      /\ written[i].draft = drafts
                      /\ written[i].to = recipients[k]]_vars
  <2> SUFFICES ASSUME IndInv, [Next]_vars, box # << >>, box' = << >>, drafts' = drafts,
                      NEW k \in 1 .. Len(recipients)
               PROVE  Served(k)
    BY DEF Served
  <2>1. drafts # drafts + 1
    BY DEF IndInv, TypeOK
  <2>2. Finish
    BY <2>1 DEF Next, EnterRecipients, Type, Click, SendNext, Disconnect, vars, window
  <2>3. sending /\ todo = << >>
    BY <2>2 DEF Finish
  <2>4. Len(recipients) - Len(todo) = Len(recipients)
    BY <2>3 DEF IndInv, TypeOK
  <2> QED
    BY <2>3, <2>4 DEF IndInv, LoopInv
<1> QED
  BY <1>1, Invariance, PTL DEF Spec, ClearedOnlyIfSent
=============================================================================
