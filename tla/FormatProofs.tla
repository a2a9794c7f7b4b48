---------------------------- MODULE FormatProofs ----------------------------
(***************************************************************************)
(* Proofs of the properties of SurveyCommon, for any strings and any cuts  *)
(* of the stream, of ReadSurvey, for any surveys, and of Codec, for any    *)
(* objects: what a constructor of either package reads is, field by field, *)
(* what encode wrote.                                                      *)
(***************************************************************************)
EXTENDS SurveyCommon, ReadSurvey, Codec, SequenceTheorems, WellFoundedInduction, TLAPS

(***************************************************************************)
(* SurveyCommon and ReadSurvey.                                            *)
(***************************************************************************)

-----------------------------------------------------------------------------
(* Bytes that are a row of chunks, the last of them perhaps cut off.       *)

Bytes == Seq(Nat)

\* T is the chunks v + 1 .. w of C, or the beginning of that; chunk c ends at
\* place p[c].
Places(T, C, p, v, w) ==
    /\ p \in [v .. w -> Nat] /\ p[v] = 0
    /\ \A c \in v .. w : \A d \in c .. w : p[c] <= p[d]
    /\ \A c \in v + 1 .. w : p[c] = p[c - 1] + Len(C[c])
    /\ \A c \in v + 1 .. w : \A x \in 1 .. Len(C[c]) :
         p[c - 1] + x <= Len(T) => T[p[c - 1] + x] = C[c][x]
    /\ Len(T) <= p[w]

Carries(T, C, v, w)      == \E p : Places(T, C, p, v, w)
CarriesWhole(T, C, v, w) == \E p : Places(T, C, p, v, w) /\ Len(T) = p[w]

\* One chunk more at the end.
LEMMA OneMore ==
    ASSUME NEW S, NEW T \in Seq(S), NEW C, NEW D, NEW v \in Nat, NEW w \in Nat, v <= w,
           \A c \in v + 1 .. w : C[c] \in Seq(S) /\ D[c] = C[c],
           D[w + 1] \in Seq(S),
           CarriesWhole(T, C, v, w)
    PROVE  CarriesWhole(T \o D[w + 1], D, v, w + 1)
<1> DEFINE b == D[w + 1]
           U == T \o b
<1>1. PICK p : Places(T, C, p, v, w) /\ Len(T) = p[w]
  BY DEF CarriesWhole
<1> DEFINE g == [c \in v .. w + 1 |-> IF c = w + 1 THEN p[w] + Len(b) ELSE p[c]]
<1>2. /\ p \in [v .. w -> Nat] /\ p[v] = 0 /\ p[w] \in Nat /\ Len(b) \in Nat
      /\ \A c \in v .. w : p[c] \in Nat /\ g[c] = p[c] /\ p[c] <= p[w]
      /\ g[w + 1] = p[w] + Len(b)
  <2>1. p \in [v .. w -> Nat] /\ p[v] = 0 /\ \A c \in v .. w : p[c] <= p[w]
    BY <1>1 DEF Places
  <2>2. Len(b) \in Nat
    OBVIOUS
  <2>3. g[w + 1] = p[w] + Len(b) /\ \A c \in v .. w : g[c] = p[c]
    OBVIOUS
  <2> HIDE DEF b, g
  <2> QED
    BY <2>1, <2>2, <2>3
<1>3. g \in [v .. w + 1 -> Nat] /\ g[v] = 0
  BY <1>2
<1>4. /\ U \in Seq(S) /\ Len(U) = Len(T) + Len(b) /\ Len(U) = g[w + 1]
      /\ \A y \in 1 .. Len(T) : U[y] = T[y]
      /\ \A x \in 1 .. Len(b) : U[Len(T) + x] = b[x]
  <2>1. T \in Seq(S) /\ b \in Seq(S)
    OBVIOUS
  <2>2. U \in Seq(S) /\ Len(U) = Len(T) + Len(b)
    <3> HIDE DEF b
    <3> QED
      BY <2>1
  <2>3. \A y \in 1 .. Len(T) : U[y] = T[y]
    <3> HIDE DEF b
    <3> QED
      BY <2>1
  <2>4. \A x \in 1 .. Len(b) : U[Len(T) + x] = b[x]
    <3> HIDE DEF b
    <3> QED
      BY <2>1
  <2> HIDE DEF b, g, U
  <2> QED
    BY <1>1, <1>2, <2>2, <2>3, <2>4
<1>5. ASSUME NEW c \in v .. w + 1, NEW d \in c .. w + 1 PROVE g[c] <= g[d]
  <2>1. CASE d = w + 1
    <3>1. CASE c = w + 1
      BY <1>2, <2>1, <3>1
    <3>2. CASE c # w + 1
      <4>1. c \in v .. w
        BY <3>2
      <4> HIDE DEF g, b
      <4> QED
        BY <1>2, <2>1, <4>1
    <3> QED
      BY <3>1, <3>2
  <2>2. CASE d # w + 1
    <3>1. c \in v .. w /\ d \in c .. w
      BY <2>2
    <3> QED
      BY <1>1, <1>2, <3>1 DEF Places
  <2> QED
    BY <2>1, <2>2
<1>6. ASSUME NEW c \in v + 1 .. w + 1
      PROVE  /\ g[c] = g[c - 1] + Len(D[c])
             /\ \A x \in 1 .. Len(D[c]) : g[c - 1] + x <= Len(U) => U[g[c - 1] + x] = D[c][x]
  <2>1. CASE c = w + 1
    <3>1. c - 1 = w /\ w \in v .. w /\ g[w] = p[w] /\ Len(T) = p[w]
      BY <1>1, <1>2, <2>1
    <3>2. \A x \in 1 .. Len(b) : U[Len(T) + x] = b[x]
      BY <1>4
    <3> HIDE DEF g, U
    <3>3. g[c] = g[c - 1] + Len(b)
      BY <1>2, <2>1, <3>1
    <3>4. \A x \in 1 .. Len(b) : U[g[c - 1] + x] = b[x]
      BY <3>1, <3>2
    <3> QED
      BY <2>1, <3>3, <3>4
  <2>2. CASE c # w + 1
    <3>1. c \in v + 1 .. w /\ c \in v .. w /\ c - 1 \in v .. w
      BY <2>2
    <3>2. /\ p[c] = p[c - 1] + Len(C[c]) /\ D[c] = C[c] /\ p[c] <= Len(T) /\ C[c] \in Seq(S)
          /\ \A x \in 1 .. Len(C[c]) : p[c - 1] + x <= Len(T) => T[p[c - 1] + x] = C[c][x]
      BY <1>1, <1>2, <3>1 DEF Places
    <3>3. ASSUME NEW x \in 1 .. Len(D[c]) PROVE U[g[c - 1] + x] = D[c][x]
      <4>1. p[c - 1] \in Nat /\ Len(C[c]) \in Nat /\ x \in 1 .. Len(C[c])
        <5>1. p[c - 1] \in Nat
          BY <1>2, <3>1
        <5>2. Len(C[c]) \in Nat
          BY <3>2
        <5>3. x \in 1 .. Len(C[c])
          BY <3>2, <3>3
        <5> QED
          BY <5>1, <5>2, <5>3
      <4>2. p[c - 1] + x \in 1 .. Len(T)
        <5>1. Len(T) \in Nat
          OBVIOUS
        <5> QED
          BY <3>2, <4>1, <5>1, SMTT(20)
      <4>3. U[p[c - 1] + x] = T[p[c - 1] + x]
        BY <1>4, <4>2
      <4>4. T[p[c - 1] + x] = C[c][x]
        BY <3>2, <4>1, <4>2
      <4> HIDE DEF g, U
      <4> QED
        BY <1>2, <3>1, <3>2, <4>3, <4>4
    <3> QED
      BY <1>2, <3>1, <3>2, <3>3
  <2> QED
    BY <2>1, <2>2
<1>7. Places(U, D, g, v, w + 1)
  <2> HIDE DEF g, U
  <2>1. Len(U) <= g[w + 1]
    BY <1>2, <1>4
  <2> QED
    BY <1>3, <1>5, <1>6, <2>1 DEF Places
<1> QED
  BY <1>4, <1>7 DEF CarriesWhole

\* The first chunk taken off.
LEMMA OneLess ==
    ASSUME NEW T \in Bytes, NEW C, NEW v \in Nat, NEW w \in Nat, v < w,
           \A c \in v + 1 .. w : C[c] \in Bytes,
           Len(C[v + 1]) <= Len(T),
           Carries(T, C, v, w)
    PROVE  LET n == Len(C[v + 1])
               U == SubSeq(T, n + 1, Len(T))
           IN /\ SubSeq(T, 1, n) = C[v + 1]
              /\ Carries(U, C, v + 1, w)
              /\ CarriesWhole(T, C, v, w) => CarriesWhole(U, C, v + 1, w)
<1> DEFINE n == Len(C[v + 1])
           U == SubSeq(T, n + 1, Len(T))
<1>1. n \in Nat /\ C[v + 1] \in Bytes /\ v + 1 \in v + 1 .. w /\ v \in v .. w
  BY DEF Bytes
<1>2. /\ U \in Bytes /\ Len(U) = Len(T) - n /\ \A i \in 1 .. Len(T) - n : U[i] = T[n + i]
      /\ Len(T) \in Nat /\ n <= Len(T)
  <2>1. T \in Seq(Nat) /\ n \in Nat /\ n <= Len(T)
    BY <1>1 DEF Bytes
  <2> HIDE DEF n
  <2>2. n + 1 \in 1 .. Len(T) + 1 /\ Len(T) \in Nat /\ Len(T) <= Len(T)
    BY <2>1
  <2>3. U \in Seq(Nat)
    BY <2>1, <2>2
  <2>4. Len(U) = Len(T) - n
    BY <2>1, <2>2
  <2>5. \A i \in 1 .. Len(T) - n : U[i] = T[n + i]
    BY <2>1, <2>2
  <2> HIDE DEF U
  <2> QED
    BY <2>1, <2>2, <2>3, <2>4, <2>5 DEF Bytes
<1>3. ASSUME NEW p, Places(T, C, p, v, w)
      PROVE  /\ \A x \in 1 .. n : T[x] = C[v + 1][x]
             /\ \E g : Places(U, C, g, v + 1, w) /\ g[w] = p[w] - n
  <2>1. p \in [v .. w -> Nat] /\ p[v] = 0 /\ p[v + 1] = n
    <3>1. p \in [v .. w -> Nat] /\ p[v] = 0 /\ p[v + 1] = p[(v + 1) - 1] + Len(C[v + 1])
      BY <1>1, <1>3 DEF Places
    <3>2. (v + 1) - 1 = v
      OBVIOUS
    <3> QED
      BY <1>1, <3>1, <3>2
  <2>2. ASSUME NEW x \in 1 .. n PROVE T[x] = C[v + 1][x]
    <3>1. p[(v + 1) - 1] + x <= Len(T) => T[p[(v + 1) - 1] + x] = C[v + 1][x]
      BY <1>1, <1>3, <2>2 DEF Places
    <3>2. p[(v + 1) - 1] + x = x /\ x <= Len(T)
      BY <1>1, <2>1 DEF Bytes
    <3> QED
      BY <3>1, <3>2
  <2> DEFINE g == [c \in v + 1 .. w |-> p[c] - n]
  <2>3. \A c \in v + 1 .. w : p[c] \in Nat /\ n <= p[c] /\ c \in v .. w
    BY <1>1, <1>3, <2>1 DEF Places
  <2>4. g \in [v + 1 .. w -> Nat] /\ g[v + 1] = 0 /\ g[w] = p[w] - n
    BY <1>1, <2>1, <2>3
  <2>5. ASSUME NEW c \in v + 1 .. w, NEW d \in c .. w PROVE g[c] <= g[d]
    <3>1. p[c] <= p[d] /\ d \in v + 1 .. w
      BY <1>3, <2>3 DEF Places
    <3> QED
      BY <1>1, <2>3, <3>1
  <2>6. ASSUME NEW c \in (v + 1) + 1 .. w
        PROVE  /\ g[c] = g[c - 1] + Len(C[c])
               /\ \A x \in 1 .. Len(C[c]) : g[c - 1] + x <= Len(U) => U[g[c - 1] + x] = C[c][x]
    <3>1. c \in v + 1 .. w /\ c - 1 \in v + 1 .. w
      OBVIOUS
    <3>2. /\ p[c] = p[c - 1] + Len(C[c]) /\ C[c] \in Bytes
          /\ \A x \in 1 .. Len(C[c]) : p[c - 1] + x <= Len(T) => T[p[c - 1] + x] = C[c][x]
      BY <1>3, <3>1 DEF Places
    <3>3. g[c] = p[c] - n /\ g[c - 1] = p[c - 1] - n /\ n <= p[c - 1] /\ p[c - 1] \in Nat
          /\ p[c] \in Nat /\ Len(C[c]) \in Nat
      BY <2>3, <3>1, <3>2 DEF Bytes
    <3>4. g[c] = g[c - 1] + Len(C[c])
      BY <1>1, <3>2, <3>3
    <3>5. ASSUME NEW x \in 1 .. Len(C[c]), g[c - 1] + x <= Len(U)
          PROVE  U[g[c - 1] + x] = C[c][x]
      <4> HIDE DEF g, U, n
      <4> DEFINE y == g[c - 1] + x
      <4>1. y \in Nat /\ y >= 1 /\ n + y = p[c - 1] + x
        <5>1. x \in Nat /\ x >= 1
          BY <3>3
        <5>2. g[c - 1] \in Nat /\ n + g[c - 1] = p[c - 1]
          <6> HIDE DEF g, n
          <6> QED
            BY <1>1, <3>3, SMTT(20)
        <5> DEFINE e == g[c - 1]
                   f == p[c - 1]
        <5>3. e \in Nat /\ n + e = f /\ y = e + x /\ n \in Nat /\ x \in Nat /\ x >= 1
          BY <1>1, <5>1, <5>2
        <5> HIDE DEF e, f, n, y
        <5>4. y \in Nat /\ y >= 1 /\ n + y = f + x
          BY <5>3
        <5> QED
          BY <5>4 DEF f
      <4>2. y <= Len(T) - n
        BY <1>2, <3>5
      <4> HIDE DEF y
      <4>3. y \in 1 .. Len(T) - n /\ n + y <= Len(T)
        BY <1>1, <1>2, <4>1, <4>2
      <4>4. U[y] = T[n + y]
        BY <1>2, <4>3
      <4>5. U[y] = T[p[c - 1] + x] /\ p[c - 1] + x <= Len(T)
        BY <4>1, <4>3, <4>4
      <4> QED
        BY <3>2, <3>5, <4>5 DEF y
    <3> HIDE DEF g, U
    <3> QED
      BY <3>4, <3>5
  <2>7. Len(U) <= g[w]
    <3>1. Len(T) <= p[w] /\ w \in v + 1 .. w /\ p[w] \in Nat
      BY <1>3, <2>3 DEF Places
    <3> HIDE DEF g, U, n
    <3> QED
      BY <1>1, <1>2, <2>4, <3>1
  <2>8. Places(U, C, g, v + 1, w)
    <3> HIDE DEF g, U
    <3> QED
      BY <2>4, <2>5, <2>6, <2>7 DEF Places
  <2> QED
    BY <2>2, <2>4, <2>8
<1>4. SubSeq(T, 1, n) = C[v + 1]
  <2>1. PICK p : Places(T, C, p, v, w)
    BY DEF Carries
  <2>2. \A x \in 1 .. n : T[x] = C[v + 1][x]
    BY <1>3, <2>1
  <2> DEFINE V == SubSeq(T, 1, n)
  <2>3. V \in Bytes /\ Len(V) = n /\ \A x \in 1 .. n : V[x] = T[x]
    BY <1>1, SMTT(20) DEF Bytes
  <2> HIDE DEF V
  <2>4. V = C[v + 1]
    BY <1>1, <2>2, <2>3, SeqEqual DEF Bytes
  <2> QED
    BY <2>4 DEF V
<1>5. Carries(U, C, v + 1, w)
  <2> HIDE DEF U
  <2> QED
    BY <1>3 DEF Carries
<1>6. ASSUME CarriesWhole(T, C, v, w) PROVE CarriesWhole(U, C, v + 1, w)
  <2>1. PICK p : Places(T, C, p, v, w) /\ Len(T) = p[w]
    BY <1>6 DEF CarriesWhole
  <2>2. PICK g : Places(U, C, g, v + 1, w) /\ g[w] = p[w] - n
    BY <1>3, <2>1
  <2> HIDE DEF U
  <2> QED
    BY <1>2, <2>1, <2>2 DEF CarriesWhole
<1> QED
  BY <1>4, <1>5, <1>6

\* The end cut off.
LEMMA Cut ==
    ASSUME NEW T \in Bytes, NEW C, NEW v \in Nat, NEW w \in Nat,
           NEW n \in 0 .. Len(T), v <= w,
           \A c \in v + 1 .. w : C[c] \in Bytes,
           Carries(T, C, v, w)
    PROVE  Carries(SubSeq(T, 1, n), C, v, w)
<1> DEFINE U == SubSeq(T, 1, n)
<1>1. U \in Bytes /\ Len(U) = n /\ n \in Nat /\ n <= Len(T) /\ \A i \in 1 .. n : U[i] = T[i]
  BY DEF Bytes
<1>2. PICK p : Places(T, C, p, v, w)
  BY DEF Carries
<1>3. ASSUME NEW c \in v + 1 .. w, NEW x \in 1 .. Len(C[c]), p[c - 1] + x <= n
      PROVE  U[p[c - 1] + x] = C[c][x]
  <2>1. c - 1 \in v .. w /\ p[c - 1] \in Nat /\ Len(C[c]) \in Nat /\ Len(T) \in Nat
    <3>1. c - 1 \in v .. w
      OBVIOUS
    <3>2. p \in [v .. w -> Nat]
      BY <1>2 DEF Places
    <3>3. C[c] \in Seq(Nat) /\ T \in Seq(Nat)
      BY DEF Bytes
    <3> QED
      BY <3>1, <3>2, <3>3, SMTT(20)
  <2>2. p[c - 1] + x \in 1 .. n /\ p[c - 1] + x <= Len(T)
    <3> HIDE DEF U
    <3> QED
      BY <1>1, <1>3, <2>1
  <2> HIDE DEF U
  <2> QED
    BY <1>1, <1>2, <2>2 DEF Places
<1>4. Places(U, C, p, v, w)
  <2> HIDE DEF U
  <2>1. Len(U) <= p[w]
    <3>1. Len(T) <= p[w] /\ p[w] \in Nat
      BY <1>2 DEF Places
    <3> QED
      BY <1>1, <3>1 DEF Bytes
  <2> QED
    BY <1>1, <1>2, <1>3, <2>1 DEF Places
<1> QED
  BY <1>4 DEF Carries

-----------------------------------------------------------------------------
(* The inductive invariant.                                                *)

\* A string goes over the connection as two chunks, its length and its
\* contents.
Chunks == [c \in 1 .. 2 * Len(sent) |->
             IF c % 2 = 1 THEN htonl(Len(sent[(c + 1) \div 2])) ELSE sent[c \div 2]]

\* How many of them have been received, and how many sent; empty contents
\* count as sent as soon as the length is.
Received == 2 * Len(results) + (IF reading = "string" THEN 1 ELSE 0)
Written  == 2 * Len(sent) - (IF begun /\ Head(todo) # << >> THEN 1 ELSE 0)

String == {b \in Bytes : Len(b) <= MaxLength}

TypeOK ==
    /\ todo \in Seq(String) /\ begun \in BOOLEAN /\ sent \in Seq(String)
    /\ pieces \in Bytes /\ line \in {"open", "closed", "reset"}
    /\ want \in Nat /\ buffer \in Bytes /\ reading \in {"int", "string"}
    /\ results \in Seq({CString(b) : b \in Bytes}) /\ throws \in Nat

\* The string that has been begun is the last one sent.
SenderInv == begun => todo # << >> /\ sent # << >> /\ Head(todo) = sent[Len(sent)]

ResultsInv ==
    /\ Len(results) <= Len(sent)
    /\ \A i \in 1 .. Len(results) : results[i] = CString(sent[i])

\* After an exception there is nothing more to receive.
Broken ==
    /\ pieces = << >> /\ line # "open"
    /\ reading = "int" /\ want = SizeofInt /\ buffer = << >>

\* Before, what is in the buffer and under way is what is still to be
\* received, and the receiver waits for the next chunk of it.
Going ==
    /\ Received <= Written
    /\ IF line = "open" THEN CarriesWhole(buffer \o pieces, Chunks, Received, Written)
       ELSE Carries(buffer \o pieces, Chunks, Received, Written)
    /\ IF reading = "int" THEN want = SizeofInt
       ELSE Len(results) < Len(sent) /\ want = Len(sent[Len(results) + 1])
    /\ Len(buffer) <= want

IndInv == TypeOK /\ SenderInv /\ ResultsInv /\ (Broken \/ Going)

-----------------------------------------------------------------------------
(* Lengths and chunks.                                                     *)

LEMMA MaxLengthType == MaxLength \in Nat /\ MaxLength < 32768 * 65536
  BY DEF MaxLength

\* recvInt returns what sendInt was given.
LEMMA LengthBack ==
    ASSUME NEW n \in 0 .. MaxLength
    PROVE  htonl(n) \in Bytes /\ Len(htonl(n)) = SizeofInt /\ ntohl(htonl(n)) = n
<1> DEFINE a == n \div 256
           b == a \div 256
           c == b \div 256
           x == n % 256
           y == a % 256
           z == b % 256
<1>1. n \in Nat /\ n < 32768 * 65536
  BY MaxLengthType
<1>2. /\ n = 256 * a + x /\ a = 256 * b + y /\ b = 256 * c + z
      /\ a \in Nat /\ b \in Nat /\ c \in Nat
      /\ x \in 0 .. 255 /\ y \in 0 .. 255 /\ z \in 0 .. 255
  BY <1>1
<1>3. c % 256 = c
  <2> HIDE DEF a, b, c, x, y, z
  <2>1. a < 128 * 65536
    BY <1>1, <1>2
  <2>2. b < 128 * 256
    BY <1>2, <2>1
  <2>3. c < 128
    BY <1>2, <2>2
  <2> QED
    BY <1>2, <2>3
<1>4. htonl(n) = <<c, z, y, x>>
  BY <1>3 DEF htonl
<1> HIDE DEF a, b, c, x, y, z
<1>5. ntohl(htonl(n)) = ((c * 256 + z) * 256 + y) * 256 + x
  BY <1>2, <1>4 DEF ntohl
<1>6. ntohl(htonl(n)) = n
  BY <1>2, <1>5
<1>7. <<c, z, y, x>> \in Bytes /\ Len(<<c, z, y, x>>) = 4
  <2>1. c \in Nat /\ z \in Nat /\ y \in Nat /\ x \in Nat
    BY <1>2
  <2> QED
    BY <2>1 DEF Bytes
<1> QED
  BY <1>4, <1>6, <1>7 DEF SizeofInt

LEMMA ChunkOf ==
    ASSUME TypeOK, NEW i \in 1 .. Len(sent)
    PROVE  /\ sent[i] \in String /\ Len(sent[i]) \in 0 .. MaxLength
           /\ Chunks[2 * i - 1] = htonl(Len(sent[i])) /\ Chunks[2 * i] = sent[i]
<1>1. sent[i] \in String /\ Len(sent[i]) \in 0 .. MaxLength
  BY DEF TypeOK, String, Bytes
<1>2. /\ 2 * i - 1 \in 1 .. 2 * Len(sent) /\ 2 * i \in 1 .. 2 * Len(sent)
      /\ (2 * i - 1) % 2 = 1 /\ (2 * i) % 2 = 0
      /\ ((2 * i - 1) + 1) \div 2 = i /\ (2 * i) \div 2 = i
  <2>1. Len(sent) \in Nat
    BY DEF TypeOK
  <2> QED
    BY <2>1
<1> QED
  BY <1>1, <1>2 DEF Chunks

LEMMA ChunkType ==
    ASSUME TypeOK
    PROVE  \A c \in 1 .. 2 * Len(sent) : Chunks[c] \in Bytes
<1> SUFFICES ASSUME NEW c \in 1 .. 2 * Len(sent) PROVE Chunks[c] \in Bytes
  OBVIOUS
<1>1. Len(sent) \in Nat
  BY DEF TypeOK
<1>2. \E i \in 1 .. Len(sent) : c = 2 * i - 1 \/ c = 2 * i
  <2>1. CASE c % 2 = 1
    <3>1. (c + 1) \div 2 \in 1 .. Len(sent) /\ c = 2 * ((c + 1) \div 2) - 1
      BY <1>1, <2>1
    <3> QED
      BY <3>1
  <2>2. CASE c % 2 # 1
    <3>1. c \div 2 \in 1 .. Len(sent) /\ c = 2 * (c \div 2)
      BY <1>1, <2>2
    <3> QED
      BY <3>1
  <2> QED
    BY <2>1, <2>2
<1>3. PICK i \in 1 .. Len(sent) : c = 2 * i - 1 \/ c = 2 * i
  BY <1>2
<1> QED
  BY <1>3, ChunkOf, LengthBack DEF String

\* What has been sent stays what it was.
LEMMA ChunksKept ==
    ASSUME TypeOK, TypeOK', NEW s \in String, sent' = Append(sent, s)
    PROVE  /\ \A c \in 1 .. 2 * Len(sent) : Chunks'[c] = Chunks[c]
           /\ Chunks'[2 * Len(sent) + 1] = htonl(Len(s))
           /\ Chunks'[2 * Len(sent) + 2] = s
<1>1. /\ Len(sent) \in Nat /\ Len(sent') = Len(sent) + 1
      /\ \A i \in 1 .. Len(sent) : sent'[i] = sent[i]
      /\ sent'[Len(sent) + 1] = s
  BY DEF TypeOK
<1>2. ASSUME NEW c \in 1 .. 2 * Len(sent) PROVE Chunks'[c] = Chunks[c]
  <2>1. c \in 1 .. 2 * Len(sent')
    BY <1>1
  <2>2. (c + 1) \div 2 \in 1 .. Len(sent) \/ c % 2 # 1
    BY <1>1
  <2>3. c \div 2 \in 1 .. Len(sent) \/ c % 2 = 1
    BY <1>1
  <2> QED
    BY <1>1, <2>1, <2>2, <2>3 DEF Chunks
<1>3. Len(sent) + 1 \in 1 .. Len(sent')
  BY <1>1
<1>4. ASSUME NEW i \in 1 .. Len(sent')
      PROVE  Chunks'[2 * i - 1] = htonl(Len(sent'[i])) /\ Chunks'[2 * i] = sent'[i]
  <2>1. /\ 2 * i - 1 \in 1 .. 2 * Len(sent') /\ 2 * i \in 1 .. 2 * Len(sent')
        /\ (2 * i - 1) % 2 = 1 /\ (2 * i) % 2 = 0
        /\ ((2 * i - 1) + 1) \div 2 = i /\ (2 * i) \div 2 = i
    BY <1>1
  <2> QED
    BY <2>1 DEF Chunks
<1>5. 2 * (Len(sent) + 1) - 1 = 2 * Len(sent) + 1 /\ 2 * (Len(sent) + 1) = 2 * Len(sent) + 2
  BY <1>1
<1> QED
  BY <1>1, <1>2, <1>3, <1>4, <1>5

\* What is there comes from a chunk.
LEMMA NotEmpty ==
    ASSUME NEW T \in Bytes, NEW C, NEW v \in Nat, NEW w \in Nat, v <= w,
           Carries(T, C, v, w), Len(T) > 0
    PROVE  v < w
<1>1. PICK p : Places(T, C, p, v, w)
  BY DEF Carries
<1>2. Len(T) <= p[w] /\ p[v] = 0 /\ Len(T) \in Nat
  BY <1>1 DEF Places, Bytes
<1>3. v # w
  BY <1>2
<1> QED
  BY <1>3

LEMMA WholeCarries ==
    ASSUME NEW T, NEW C, NEW v, NEW w, CarriesWhole(T, C, v, w)
    PROVE  Carries(T, C, v, w)
BY DEF Carries, CarriesWhole

\* The bytes of a connection as one sequence.
LEMMA Joined ==
    ASSUME NEW a \in Bytes, NEW b \in Bytes
    PROVE  /\ a \o b \in Bytes /\ Len(a \o b) = Len(a) + Len(b)
           /\ \A i \in 1 .. Len(a) : (a \o b)[i] = a[i]
           /\ \A i \in 1 .. Len(b) : (a \o b)[Len(a) + i] = b[i]
           /\ Len(a) \in Nat /\ Len(b) \in Nat
BY DEF Bytes

LEMMA Regrouped ==
    ASSUME NEW a \in Bytes, NEW b \in Bytes, NEW c \in Bytes
    PROVE  (a \o b) \o c = a \o (b \o c)
BY ConcatAssociative, SMTT(30) DEF Bytes

LEMMA Nothing ==
    ASSUME NEW a \in Bytes
    PROVE  a \o << >> = a /\ << >> \o a = a /\ << >> \in Bytes /\ Len(<< >>) = 0
BY ConcatEmptySeq DEF Bytes

LEMMA Alike ==
    ASSUME NEW a \in Bytes, NEW b \in Bytes, Len(a) = Len(b),
           \A i \in 1 .. Len(a) : a[i] = b[i]
    PROVE  a = b
BY SeqEqual DEF Bytes

LEMMA ElementsIn ==
    ASSUME NEW X, NEW Y, NEW s \in Seq(X), \A i \in 1 .. Len(s) : s[i] \in Y
    PROVE  s \in Seq(Y)
OBVIOUS

\* A piece goes from the bytes under way into the buffer.
LEMMA Moved ==
    ASSUME NEW a \in Bytes, NEW b \in Bytes, NEW k \in 1 .. Len(b)
    PROVE  LET c == SubSeq(b, 1, k)
               d == SubSeq(b, k + 1, Len(b))
           IN /\ c \in Bytes /\ d \in Bytes /\ Len(c) = k
              /\ (a \o c) \o d = a \o b
<1> DEFINE c == SubSeq(b, 1, k)
           d == SubSeq(b, k + 1, Len(b))
<1>1. k \in Nat /\ k <= Len(b) /\ Len(b) \in Nat
  BY DEF Bytes
<1>2. c \in Bytes /\ Len(c) = k
  BY <1>1 DEF Bytes
<1>3. d \in Bytes
  BY <1>1 DEF Bytes
<1> HIDE DEF c, d
<1>4. c \o d = b
  BY <1>1, ConcatAdjacentSubSeq, SubSeqFull DEF c, d, Bytes
<1>5. (a \o c) \o d = a \o b
  BY <1>2, <1>3, <1>4, Regrouped, ZenonT(30)
<1> QED
  BY <1>2, <1>3, <1>5 DEF c, d

\* The buffer is what comes first.
LEMMA Parted ==
    ASSUME NEW a \in Bytes, NEW b \in Bytes
    PROVE  LET T == a \o b
           IN /\ SubSeq(T, 1, Len(a)) = a
              /\ SubSeq(T, Len(a) + 1, Len(T)) = b
              /\ \A n \in 0 .. Len(b) :
                   SubSeq(T, 1, Len(a) + n) = a \o SubSeq(b, 1, n)
<1> DEFINE T == a \o b
<1>1. /\ T \in Bytes /\ Len(T) = Len(a) + Len(b) /\ Len(a) \in Nat /\ Len(b) \in Nat
      /\ \A i \in 1 .. Len(a) : T[i] = a[i]
      /\ \A i \in 1 .. Len(b) : T[Len(a) + i] = b[i]
  BY Joined
<1> HIDE DEF T
<1>2. ASSUME NEW n \in 0 .. Len(b) PROVE SubSeq(T, 1, Len(a) + n) = a \o SubSeq(b, 1, n)
  <2> DEFINE U == SubSeq(T, 1, Len(a) + n)
             V == SubSeq(b, 1, n)
  <2>1. U \in Bytes /\ Len(U) = Len(a) + n /\ \A i \in 1 .. Len(a) + n : U[i] = T[i]
    BY <1>1, SMTT(20) DEF Bytes
  <2>2. V \in Bytes /\ Len(V) = n /\ \A i \in 1 .. n : V[i] = b[i]
    BY <1>1 DEF Bytes
  <2> HIDE DEF U, V
  <2>3. /\ a \o V \in Bytes /\ Len(a \o V) = Len(a) + n
        /\ \A i \in 1 .. Len(a) : (a \o V)[i] = a[i]
        /\ \A i \in 1 .. n : (a \o V)[Len(a) + i] = V[i]
    BY <2>2, Joined
  <2>4. ASSUME NEW i \in 1 .. Len(U) PROVE U[i] = (a \o V)[i]
    <3> USE <2>1
    <3>1. CASE i \in 1 .. Len(a)
      BY <1>1, <2>3, <3>1
    <3>2. CASE i \notin 1 .. Len(a)
      <4>1. i - Len(a) \in 1 .. n /\ i - Len(a) \in 1 .. Len(b) /\ Len(a) + (i - Len(a)) = i
        BY <1>1, <2>1, <3>2
      <4>2. T[Len(a) + (i - Len(a))] = b[i - Len(a)]
            /\ (a \o V)[Len(a) + (i - Len(a))] = V[i - Len(a)]
        BY <1>1, <2>3, <4>1
      <4> QED
        BY <2>1, <2>2, <4>1, <4>2
    <3> QED
      BY <3>1, <3>2
  <2>5. U = a \o V
    BY <2>1, <2>3, <2>4, Alike
  <2> QED
    BY <2>5 DEF U, V
<1>3. SubSeq(T, 1, Len(a)) = a
  <2> DEFINE U == SubSeq(T, 1, Len(a))
  <2>1. U \in Bytes /\ Len(U) = Len(a) /\ \A i \in 1 .. Len(a) : U[i] = T[i]
    BY <1>1 DEF Bytes
  <2> HIDE DEF U
  <2>2. U = a
    BY <1>1, <2>1, Alike
  <2> QED
    BY <2>2 DEF U
<1>4. SubSeq(T, Len(a) + 1, Len(T)) = b
  <2> DEFINE U == SubSeq(T, Len(a) + 1, Len(T))
  <2>1. U \in Bytes
    BY <1>1 DEF Bytes
  <2>2. Len(U) = Len(b)
    BY <1>1 DEF Bytes
  <2>3. \A i \in 1 .. Len(b) : U[i] = T[Len(a) + i]
    BY <1>1 DEF Bytes
  <2> HIDE DEF U
  <2>4. U = b
    BY <1>1, <2>1, <2>2, <2>3, Alike
  <2> QED
    BY <2>4 DEF U
<1> QED
  BY <1>2, <1>3, <1>4 DEF T

-----------------------------------------------------------------------------
(* The invariant holds at the start and is kept by every step.             *)

LEMMA Counts ==
    ASSUME TypeOK, SenderInv, ResultsInv
    PROVE  /\ Len(sent) \in Nat /\ Len(results) \in Nat /\ Len(results) <= Len(sent)
           /\ Received \in Nat /\ Received \in 2 * Len(results) .. 2 * Len(results) + 1
           /\ Written \in Nat /\ Written \in 2 * Len(sent) - 1 .. 2 * Len(sent)
<1>1. Len(sent) \in Nat /\ Len(results) \in Nat /\ Len(results) <= Len(sent)
  BY DEF TypeOK, ResultsInv
<1>2. begun => Len(sent) > 0
  BY <1>1, EmptySeq DEF SenderInv, TypeOK
<1>3. Received \in Nat /\ Received \in 2 * Len(results) .. 2 * Len(results) + 1
  BY <1>1 DEF Received
<1>4. Written \in Nat /\ Written \in 2 * Len(sent) - 1 .. 2 * Len(sent)
  BY <1>1, <1>2 DEF Written
<1> QED
  BY <1>1, <1>3, <1>4

LEMMA InitInv == StringsInit => IndInv
<1> SUFFICES ASSUME StringsInit PROVE IndInv
  OBVIOUS
<1> USE DEF StringsInit
<1>1. TypeOK
  <2>1. todo \in Seq(Seq(Nat)) /\ \A i \in DOMAIN todo : Len(todo[i]) <= MaxLength
    BY StringsAssumption
  <2>2. \A i \in 1 .. Len(todo) : todo[i] \in String
    BY <2>1 DEF String, Bytes
  <2>3. todo \in Seq(String)
    BY <2>1, <2>2, ElementsIn
  <2>4. pieces \in Bytes /\ buffer \in Bytes /\ sent \in Seq(String)
        /\ results \in Seq({CString(b) : b \in Bytes})
    BY DEF Bytes
  <2>5. want \in Nat /\ throws \in Nat /\ begun \in BOOLEAN
    BY DEF SizeofInt
  <2>6. line \in {"open", "closed", "reset"} /\ reading \in {"int", "string"}
    OBVIOUS
  <2> QED
    BY <2>3, <2>4, <2>5, <2>6 DEF TypeOK
<1>2. SenderInv /\ ResultsInv
  BY DEF SenderInv, ResultsInv
<1>3. Received = 0 /\ Written = 0
  BY DEF Received, Written
<1>4. CarriesWhole(buffer \o pieces, Chunks, 0, 0)
  <2> DEFINE p == [c \in 0 .. 0 |-> 0]
  <2>1. buffer \o pieces = << >> /\ << >> \in Bytes /\ Len(<< >>) = 0
    BY Nothing DEF Bytes
  <2>2. Places(<< >>, Chunks, p, 0, 0)
    BY <2>1 DEF Places
  <2> QED
    BY <2>1, <2>2 DEF CarriesWhole
<1>5. Going
  BY <1>3, <1>4 DEF Going, SizeofInt
<1> QED
  BY <1>1, <1>2, <1>5 DEF IndInv

\* sendInt adds the length of a string; an empty string is then complete.
LEMMA sendIntInv == IndInv /\ sendInt => IndInv'
<1> SUFFICES ASSUME IndInv, sendInt PROVE IndInv'
  OBVIOUS
<1> DEFINE s == Head(todo)
           T == buffer \o pieces
           w == 2 * Len(sent)
<1>1. TypeOK /\ SenderInv /\ ResultsInv /\ Going /\ line = "open" /\ ~begun
  BY DEF IndInv, sendInt, Broken
<1>2. /\ todo # << >> /\ s \in String /\ sent' = Append(sent, s) /\ begun' = TRUE
      /\ pieces' = pieces \o htonl(Len(s))
      /\ UNCHANGED <<todo, line, want, buffer, reading, results, throws>>
  BY <1>1 DEF TypeOK, sendInt, receiver
<1>3. htonl(Len(s)) \in Bytes /\ s \in Bytes /\ buffer \in Bytes /\ pieces \in Bytes
  <2>1. s \in Bytes /\ Len(s) \in 0 .. MaxLength
    BY <1>2 DEF String, Bytes
  <2> QED
    BY <1>1, <2>1, LengthBack DEF TypeOK
<1>4. /\ Len(sent) \in Nat /\ Len(sent') = Len(sent) + 1
      /\ \A i \in 1 .. Len(sent) : sent'[i] = sent[i]
      /\ sent'[Len(sent) + 1] = s
  BY <1>1, <1>2 DEF TypeOK
<1> HIDE DEF s
<1>5. TypeOK'
  BY <1>1, <1>2, <1>3, Joined DEF TypeOK
<1>6. SenderInv'
  BY <1>2, <1>4 DEF SenderInv, s
<1>7. ResultsInv'
  BY <1>1, <1>2, <1>4 DEF ResultsInv, TypeOK
<1>8. Written = w /\ Received \in Nat /\ w \in Nat /\ Received <= w
      /\ CarriesWhole(T, Chunks, Received, w)
  BY <1>1, Counts DEF Going, Written
<1>9. /\ \A c \in 1 .. w : Chunks'[c] = Chunks[c] /\ Chunks[c] \in Bytes
      /\ Chunks'[w + 1] = htonl(Len(s)) /\ Chunks'[w + 2] = s
  BY <1>1, <1>2, <1>5, ChunksKept, ChunkType
<1>10. T \in Bytes /\ T \o htonl(Len(s)) = (buffer \o pieces)' /\ (buffer \o pieces)' \in Bytes
  BY <1>2, <1>3, Joined, Regrouped
<1> HIDE DEF T, w
<1>11. CarriesWhole((buffer \o pieces)', Chunks', Received, w + 1)
  <2>1. \A c \in Received + 1 .. w : Chunks[c] \in Bytes /\ Chunks'[c] = Chunks[c]
    BY <1>8, <1>9
  <2>2. CarriesWhole(T \o Chunks'[w + 1], Chunks', Received, w + 1)
    BY <1>3, <1>8, <1>9, <1>10, <2>1, OneMore DEF Bytes
  <2> QED
    BY <1>9, <1>10, <2>2
<1>12. Received' = Received
  BY <1>2 DEF Received
<1>13. CarriesWhole((buffer \o pieces)', Chunks', Received', Written') /\ Received' <= Written'
  <2>1. CASE s = << >>
    <3>1. Written' = w + 2
      <4>1. Head(todo') = << >>
        BY <1>2, <2>1 DEF s
      <4>2. Written' = 2 * Len(sent') - 0
        BY <4>1 DEF Written
      <4> QED
        BY <1>4, <4>2 DEF w
    <3> DEFINE V == (buffer \o pieces)'
               D == Chunks'
    <3>2. \A c \in Received + 1 .. w + 1 : D[c] \in Bytes
      BY <1>3, <1>8, <1>9
    <3>3. V \in Bytes /\ CarriesWhole(V, D, Received, w + 1) /\ D[w + 2] = << >>
      BY <1>9, <1>10, <1>11, <2>1
    <3> HIDE DEF V, D
    <3>4. w + 1 \in Nat /\ Received <= w + 1 /\ (w + 1) + 1 = w + 2
      BY <1>8
    <3>5. CarriesWhole(V \o D[(w + 1) + 1], D, Received, (w + 1) + 1)
      BY <1>8, <3>2, <3>3, <3>4, Nothing, OneMore DEF Bytes
    <3>6. CarriesWhole(V, D, Received, w + 2)
      BY <3>3, <3>4, <3>5, Nothing
    <3> QED
      BY <1>8, <1>12, <3>1, <3>6 DEF V, D
  <2>2. CASE s # << >>
    <3>1. Written' = w + 1
      BY <1>2, <1>4, <2>2 DEF Written, w, s
    <3> QED
      BY <1>8, <1>11, <1>12, <3>1
  <2> QED
    BY <2>1, <2>2
<1>14. Going'
  BY <1>1, <1>2, <1>4, <1>13, Counts, SMTT(30) DEF Going
<1> QED
  BY <1>5, <1>6, <1>7, <1>14 DEF IndInv

\* sendContents adds the contents.
LEMMA sendContentsInv == IndInv /\ sendContents => IndInv'
<1> SUFFICES ASSUME IndInv, sendContents PROVE IndInv'
  OBVIOUS
<1> DEFINE s == Head(todo)
           T == buffer \o pieces
           w == 2 * Len(sent)
<1>1. TypeOK /\ SenderInv /\ ResultsInv /\ Going /\ line = "open" /\ begun
  BY DEF IndInv, sendContents, Broken
<1>2. /\ todo # << >> /\ s \in String /\ Tail(todo) \in Seq(String)
      /\ s = sent[Len(sent)] /\ Len(sent) \in 1 .. Len(sent)
      /\ pieces' = pieces \o s /\ todo' = Tail(todo) /\ begun' = FALSE
      /\ UNCHANGED <<sent, line, want, buffer, reading, results, throws>>
  BY <1>1, EmptySeq DEF TypeOK, SenderInv, sendContents, receiver
<1>3. s \in Bytes /\ buffer \in Bytes /\ pieces \in Bytes
  BY <1>1, <1>2 DEF TypeOK, String
<1>4. TypeOK'
  BY <1>1, <1>2, <1>3, Joined DEF TypeOK
<1>5. SenderInv' /\ ResultsInv'
  BY <1>1, <1>2 DEF SenderInv, ResultsInv
<1>6. Chunks' = Chunks /\ Received' = Received /\ Written' = w
  BY <1>2 DEF Chunks, Received, Written
<1>7. T \in Bytes /\ T \o s = (buffer \o pieces)'
  BY <1>2, <1>3, Joined, Regrouped
<1>8. /\ Received \in Nat /\ w \in Nat /\ Written \in Nat /\ Received <= Written
      /\ CarriesWhole(T, Chunks, Received, Written)
  BY <1>1, Counts DEF Going
<1>9. CarriesWhole((buffer \o pieces)', Chunks, Received, w) /\ Received <= w
  <2>1. CASE s = << >>
    <3>1. Written = w
      BY <2>1 DEF Written
    <3>2. (buffer \o pieces)' = T
      BY <1>7, <2>1, Nothing
    <3> QED
      BY <1>8, <3>1, <3>2
  <2>2. CASE s # << >>
    <3>1. Written = w - 1 /\ Written + 1 = w
      BY <1>1, <1>2, <2>2 DEF Written
    <3>2. Chunks[w] = s /\ \A c \in 1 .. w : Chunks[c] \in Bytes
      BY <1>1, <1>2, ChunkOf, ChunkType
    <3> HIDE DEF w, T, s
    <3>3. \A c \in Received + 1 .. Written : Chunks[c] \in Bytes
      BY <1>8, <3>1, <3>2
    <3>4. CarriesWhole(T \o Chunks[Written + 1], Chunks, Received, Written + 1)
      BY <1>3, <1>7, <1>8, <3>1, <3>2, <3>3, OneMore DEF Bytes
    <3>5. T \o Chunks[Written + 1] = (buffer \o pieces)'
      BY <1>7, <3>1, <3>2
    <3> QED
      BY <1>8, <3>1, <3>4, <3>5
  <2> QED
    BY <2>1, <2>2
<1>10. Going'
  BY <1>1, <1>2, <1>6, <1>9 DEF Going
<1> QED
  BY <1>4, <1>5, <1>10 DEF IndInv

\* The sender stops, and what is under way is cut off anywhere.
LEMMA StopInv == IndInv /\ Stop => IndInv'
<1> SUFFICES ASSUME IndInv, Stop PROVE IndInv'
  OBVIOUS
<1> DEFINE T == buffer \o pieces
<1>1. TypeOK /\ SenderInv /\ ResultsInv /\ Going /\ line = "open"
  BY DEF IndInv, Stop, Broken
<1>2. /\ line' \in {"closed", "reset"}
      /\ UNCHANGED <<todo, begun, sent, want, buffer, reading, results, throws>>
      /\ \E n \in 0 .. Len(pieces) : pieces' = SubSeq(pieces, 1, n)
  <2>1. pieces = SubSeq(pieces, 1, Len(pieces)) /\ Len(pieces) \in 0 .. Len(pieces)
    BY <1>1, SubSeqFull DEF TypeOK, Bytes
  <2>2. UNCHANGED <<todo, begun, sent, want, buffer, reading, results, throws>>
    BY DEF Stop, sender, receiver
  <2> QED
    BY <2>1, <2>2 DEF Stop
<1>3. PICK n \in 0 .. Len(pieces) : pieces' = SubSeq(pieces, 1, n)
  BY <1>2
<1>4. buffer \in Bytes /\ pieces \in Bytes /\ pieces' \in Bytes
  BY <1>1, <1>3 DEF TypeOK, Bytes
<1>5. TypeOK'
  BY <1>1, <1>2, <1>4 DEF TypeOK
<1>6. SenderInv' /\ ResultsInv'
  BY <1>1, <1>2 DEF SenderInv, ResultsInv
<1>7. Chunks' = Chunks /\ Received' = Received /\ Written' = Written
  BY <1>2 DEF Chunks, Received, Written
<1>8. Carries(T, Chunks, Received, Written) /\ Received <= Written
  BY <1>1, WholeCarries DEF Going
<1>9. (buffer \o pieces)' = SubSeq(T, 1, Len(buffer) + n)
  <2>1. \A m \in 0 .. Len(pieces) : SubSeq(T, 1, Len(buffer) + m) = buffer \o SubSeq(pieces, 1, m)
    BY <1>4, Parted, ZenonT(30)
  <2> QED
    BY <1>2, <1>3, <2>1
<1>10. T \in Bytes /\ Len(buffer) + n \in 0 .. Len(T)
  <2>1. Len(buffer) \in Nat /\ Len(pieces) \in Nat /\ T \in Bytes
        /\ Len(T) = Len(buffer) + Len(pieces)
    BY <1>4, Joined
  <2> HIDE DEF T
  <2> QED
    BY <2>1
<1>11. Carries((buffer \o pieces)', Chunks, Received, Written)
  <2>1. Received \in Nat /\ Written \in Nat
        /\ \A c \in Received + 1 .. Written : Chunks[c] \in Bytes
    BY <1>1, Counts, ChunkType
  <2> HIDE DEF T
  <2> QED
    BY <1>8, <1>9, <1>10, <2>1, Cut
<1>12. Going'
  BY <1>1, <1>2, <1>7, <1>8, <1>11 DEF Going
<1> QED
  BY <1>5, <1>6, <1>12 DEF IndInv

\* A recv moves bytes into the buffer.
LEMMA PieceInv == IndInv /\ Piece => IndInv'
<1> SUFFICES ASSUME IndInv, Piece PROVE IndInv'
  OBVIOUS
<1>1. PICK k \in 1 .. want - Len(buffer) :
        /\ k <= Len(pieces)
        /\ buffer' = buffer \o SubSeq(pieces, 1, k)
        /\ pieces' = SubSeq(pieces, k + 1, Len(pieces))
  BY DEF Piece
<1>2. UNCHANGED <<todo, begun, sent, line, want, reading, results, throws>>
  BY DEF Piece, sender
<1>3. /\ TypeOK /\ SenderInv /\ ResultsInv /\ buffer \in Bytes /\ pieces \in Bytes
      /\ Len(buffer) \in Nat /\ Len(pieces) \in Nat /\ want \in Nat
  BY Joined DEF IndInv, TypeOK
<1>4. Going
  <2>1. pieces # << >>
    BY <1>1, <1>3
  <2> QED
    BY <2>1 DEF IndInv, Broken
<1>5. k \in 1 .. Len(pieces)
  BY <1>1, <1>3
<1>6. /\ pieces' \in Bytes /\ buffer' \in Bytes
      /\ (buffer \o pieces)' = buffer \o pieces
      /\ Len(buffer') = Len(buffer) + k
  <2>1. SubSeq(pieces, 1, k) \in Bytes /\ Len(SubSeq(pieces, 1, k)) = k /\ pieces' \in Bytes
    BY <1>1, <1>3, <1>5, Moved
  <2>2. (buffer \o pieces)' = buffer \o pieces
    BY <1>1, <1>3, <1>5, Moved
  <2> QED
    BY <1>1, <1>3, <2>1, <2>2, Joined, ZenonT(30)
<1>7. TypeOK'
  BY <1>2, <1>3, <1>6 DEF TypeOK
<1>8. SenderInv' /\ ResultsInv'
  BY <1>2, <1>3 DEF SenderInv, ResultsInv
<1>9. Chunks' = Chunks /\ Received' = Received /\ Written' = Written
  BY <1>2 DEF Chunks, Received, Written
<1>10. Len(buffer') <= want
  BY <1>1, <1>3, <1>6
<1>11. Going'
  BY <1>2, <1>4, <1>6, <1>9, <1>10 DEF Going
<1> QED
  BY <1>7, <1>8, <1>11 DEF IndInv

\* What recvFully has got is the next chunk, and what is left are the others.
LEMMA NextChunk ==
    ASSUME IndInv, Going, Received < Written, Len(buffer) = want,
           Len(Chunks[Received + 1]) = want
    PROVE  /\ buffer = Chunks[Received + 1]
           /\ Carries(pieces, Chunks, Received + 1, Written)
           /\ line = "open" => CarriesWhole(pieces, Chunks, Received + 1, Written)
<1> DEFINE T == buffer \o pieces
<1>1. TypeOK /\ SenderInv /\ ResultsInv /\ buffer \in Bytes /\ pieces \in Bytes
  BY DEF IndInv, TypeOK
<1>2. Received \in Nat /\ Written \in Nat
      /\ \A c \in Received + 1 .. Written : Chunks[c] \in Bytes
  BY <1>1, Counts, ChunkType
<1>3. /\ Carries(T, Chunks, Received, Written)
      /\ line = "open" => CarriesWhole(T, Chunks, Received, Written)
  BY WholeCarries DEF Going
<1>4. T \in Bytes /\ want <= Len(T) /\ SubSeq(T, 1, want) = buffer
      /\ SubSeq(T, want + 1, Len(T)) = pieces
  <2>1. Len(buffer) \in Nat /\ Len(pieces) \in Nat /\ T \in Bytes
        /\ Len(T) = Len(buffer) + Len(pieces)
    BY <1>1, Joined
  <2>2. SubSeq(T, 1, Len(buffer)) = buffer /\ SubSeq(T, Len(buffer) + 1, Len(T)) = pieces
    BY <1>1, Parted
  <2> HIDE DEF T
  <2> QED
    BY <2>1, <2>2
<1> HIDE DEF T
<1>5. /\ SubSeq(T, 1, want) = Chunks[Received + 1]
      /\ Carries(SubSeq(T, want + 1, Len(T)), Chunks, Received + 1, Written)
      /\ CarriesWhole(T, Chunks, Received, Written) =>
           CarriesWhole(SubSeq(T, want + 1, Len(T)), Chunks, Received + 1, Written)
  BY <1>2, <1>3, <1>4, OneLess
<1> QED
  BY <1>3, <1>4, <1>5

\* recvInt takes a length.
LEMMA recvIntInv == IndInv /\ recvInt => IndInv'
<1> SUFFICES ASSUME IndInv, recvInt PROVE IndInv'
  OBVIOUS
<1> DEFINE k == Len(results) + 1
<1>1. /\ reading = "int" /\ Len(buffer) = want
      /\ reading' = "string" /\ want' = ntohl(buffer) /\ buffer' = << >>
      /\ UNCHANGED <<todo, begun, sent, pieces, line, results, throws>>
  BY DEF recvInt, Have, Ask, sender
<1>2. /\ TypeOK /\ SenderInv /\ ResultsInv /\ buffer \in Bytes /\ pieces \in Bytes
      /\ Len(buffer) \in Nat
  BY Joined DEF IndInv, TypeOK
<1>3. Going /\ want = 4
  <2>1. ~Broken
    BY <1>1, Nothing DEF Broken, SizeofInt
  <2> QED
    BY <1>1, <2>1 DEF IndInv, Going, SizeofInt
<1>4. Received < Written
  <2> DEFINE T == buffer \o pieces
  <2>1. T \in Bytes /\ Len(T) > 0
    <3>1. Len(buffer) \in Nat /\ Len(pieces) \in Nat /\ T \in Bytes
          /\ Len(T) = Len(buffer) + Len(pieces)
      BY <1>2, Joined
    <3> HIDE DEF T
    <3> QED
      BY <1>1, <1>3, <3>1
  <2>2. Carries(T, Chunks, Received, Written) /\ Received <= Written
    BY <1>3, WholeCarries DEF Going
  <2>3. Received \in Nat /\ Written \in Nat
    BY <1>2, Counts
  <2> HIDE DEF T
  <2> QED
    BY <2>1, <2>2, <2>3, NotEmpty
<1>5. /\ Received = 2 * Len(results) /\ Received' = Received + 1 /\ Written' = Written
      /\ Chunks' = Chunks
  BY <1>1, <1>2, Counts DEF Received, Written, Chunks
<1>6. k \in 1 .. Len(sent) /\ Received + 1 = 2 * k - 1 /\ Len(sent) \in Nat
  BY <1>2, <1>4, <1>5, Counts
<1>7. Chunks[Received + 1] = htonl(Len(sent[k])) /\ Len(sent[k]) \in 0 .. MaxLength
  BY <1>2, <1>6, ChunkOf
<1>8. buffer = htonl(Len(sent[k])) /\ want' = Len(sent[k])
  <2>1. Len(Chunks[Received + 1]) = want
    BY <1>3, <1>7, LengthBack DEF SizeofInt
  <2> QED
    BY <1>1, <1>3, <1>4, <1>7, <2>1, NextChunk, LengthBack
<1>9. /\ Carries(pieces, Chunks, Received + 1, Written)
      /\ line = "open" => CarriesWhole(pieces, Chunks, Received + 1, Written)
  BY <1>1, <1>3, <1>4, <1>7, LengthBack, NextChunk DEF SizeofInt
<1>10. (buffer \o pieces)' = pieces
  BY <1>1, <1>2, Nothing
<1>11. TypeOK'
  <2>1. want' \in Nat
    BY <1>7, <1>8, MaxLengthType
  <2> QED
    BY <1>1, <1>2, <2>1, Nothing DEF TypeOK
<1>12. SenderInv' /\ ResultsInv'
  BY <1>1, <1>2 DEF SenderInv, ResultsInv
<1>13. Going'
  <2>1. Received' <= Written'
    BY <1>2, <1>4, <1>5, Counts
  <2>2. Len(results') < Len(sent') /\ want' = Len(sent'[Len(results') + 1])
    BY <1>1, <1>2, <1>6, <1>8, Counts
  <2>3. Len(buffer') <= want'
    BY <1>1, <1>7, <1>8, MaxLengthType, Nothing
  <2> QED
    BY <1>1, <1>5, <1>9, <1>10, <2>1, <2>2, <2>3 DEF Going
<1> QED
  BY <1>11, <1>12, <1>13 DEF IndInv

\* recvString takes the contents.
LEMMA recvStringInv == IndInv /\ recvString => IndInv'
<1> SUFFICES ASSUME IndInv, recvString PROVE IndInv'
  OBVIOUS
<1> DEFINE k == Len(results) + 1
<1>1. /\ reading = "string" /\ Len(buffer) = want
      /\ results' = Append(results, CString(buffer))
      /\ reading' = "int" /\ want' = SizeofInt /\ buffer' = << >>
      /\ UNCHANGED <<todo, begun, sent, pieces, line, throws>>
  BY DEF recvString, Have, Ask, sender
<1>2. /\ TypeOK /\ SenderInv /\ ResultsInv /\ buffer \in Bytes /\ pieces \in Bytes
      /\ Len(buffer) \in Nat
  BY Joined DEF IndInv, TypeOK
<1>3. Going /\ Len(results) < Len(sent) /\ want = Len(sent[k])
  <2>1. ~Broken
    BY <1>1 DEF Broken
  <2> QED
    BY <1>1, <2>1 DEF IndInv, Going
<1>4. k \in 1 .. Len(sent) /\ Len(sent) \in Nat /\ k \in Nat /\ sent[k] \in Bytes
  BY <1>2, <1>3, Counts, ChunkOf, SMTT(20) DEF String
<1>5. Received = 2 * k - 1 /\ Received' = Received + 1 /\ Written' = Written /\ Chunks' = Chunks
  <2>1. Received = 2 * k - 1
    BY <1>1, <1>2, Counts DEF Received
  <2>2. Len(results') = k /\ Received' = 2 * k
    BY <1>1, <1>2 DEF Received, TypeOK
  <2> QED
    BY <1>1, <1>4, <2>1, <2>2 DEF Written, Chunks
<1>6. Received < Written
  <2>1. CASE Len(buffer) > 0
    <3> DEFINE T == buffer \o pieces
    <3>1. T \in Bytes /\ Len(T) > 0
      BY <1>2, <2>1, Joined
    <3>2. Carries(T, Chunks, Received, Written) /\ Received <= Written
      BY <1>3, WholeCarries DEF Going
    <3>3. Received \in Nat /\ Written \in Nat
      BY <1>2, Counts
    <3> HIDE DEF T
    <3> QED
      BY <3>1, <3>2, <3>3, NotEmpty
  <2>2. CASE Len(buffer) = 0 /\ k < Len(sent)
    BY <1>2, <1>4, <1>5, <2>2, Counts
  <2>3. CASE Len(buffer) = 0 /\ k = Len(sent)
    <3>1. sent[k] = << >>
      BY <1>1, <1>3, <1>4, <2>3, EmptySeq DEF Bytes
    <3>2. Written = 2 * Len(sent) - 0
      BY <1>2, <2>3, <3>1 DEF Written, SenderInv
    <3> QED
      BY <1>4, <1>5, <2>3, <3>2
  <2> QED
    BY <1>2, <1>4, <2>1, <2>2, <2>3
<1>7. Chunks[Received + 1] = sent[k] /\ Len(Chunks[Received + 1]) = want
  <2>1. Received + 1 = 2 * k
    BY <1>4, <1>5
  <2> QED
    BY <1>2, <1>3, <1>4, <2>1, ChunkOf
<1>8. /\ buffer = sent[k]
      /\ Carries(pieces, Chunks, Received + 1, Written)
      /\ line = "open" => CarriesWhole(pieces, Chunks, Received + 1, Written)
  BY <1>1, <1>3, <1>6, <1>7, NextChunk
<1>9. (buffer \o pieces)' = pieces
  BY <1>1, <1>2, Nothing
<1>10. TypeOK'
  <2>1. results' \in Seq({CString(b) : b \in Bytes})
    BY <1>1, <1>2 DEF TypeOK
  <2> QED
    BY <1>1, <1>2, <2>1, Nothing DEF TypeOK, SizeofInt
<1>11. SenderInv'
  BY <1>1, <1>2 DEF SenderInv
<1>12. ResultsInv'
  <2>1. Len(results') = k /\ results'[k] = CString(sent[k])
        /\ \A i \in 1 .. Len(results) : results'[i] = results[i]
    BY <1>1, <1>2, <1>8 DEF TypeOK
  <2> QED
    BY <1>1, <1>2, <1>4, <2>1 DEF ResultsInv
<1>13. Going'
  <2>1. Received' <= Written'
    BY <1>2, <1>5, <1>6, Counts
  <2>2. Len(buffer') <= want'
    BY <1>1, Nothing DEF SizeofInt
  <2> QED
    BY <1>1, <1>5, <1>8, <1>9, <2>1, <2>2 DEF Going
<1> QED
  BY <1>10, <1>11, <1>12, <1>13 DEF IndInv

\* An exception leaves nothing to be received.
LEMMA ThrowInv == IndInv /\ Throw => IndInv'
<1> SUFFICES ASSUME IndInv, Throw PROVE IndInv'
  OBVIOUS
<1>1. /\ pieces = << >> /\ line # "open" /\ throws' = throws + 1
      /\ reading' = "int" /\ want' = SizeofInt /\ buffer' = << >>
      /\ UNCHANGED <<todo, begun, sent, pieces, line, results>>
  BY DEF Throw, Ask, sender
<1>2. TypeOK'
  BY <1>1, Nothing DEF IndInv, TypeOK, SizeofInt
<1>3. SenderInv' /\ ResultsInv'
  BY <1>1 DEF IndInv, SenderInv, ResultsInv
<1>4. Broken'
  BY <1>1 DEF Broken, SizeofInt
<1> QED
  BY <1>2, <1>3, <1>4 DEF IndInv

LEMMA NextInv == IndInv /\ [StringsNext]_stringVars => IndInv'
<1> SUFFICES ASSUME IndInv, [StringsNext]_stringVars PROVE IndInv'
  OBVIOUS
<1>1. CASE UNCHANGED stringVars
  <2>1. UNCHANGED <<todo, begun, sent, pieces, line, want, buffer, reading, results, throws>>
    BY <1>1 DEF stringVars, sender, receiver
  <2>2. TypeOK' = TypeOK /\ SenderInv' = SenderInv /\ ResultsInv' = ResultsInv
    BY <2>1 DEF TypeOK, SenderInv, ResultsInv
  <2>3. Broken' = Broken /\ Going' = Going
    BY <2>1 DEF Broken, Going, Received, Written, Chunks
  <2> QED
    BY <2>2, <2>3 DEF IndInv
<1> QED
  BY <1>1, sendIntInv, sendContentsInv, StopInv, PieceInv, recvIntInv, recvStringInv,
     ThrowInv DEF StringsNext

\* So what recvString has returned is a beginning of what was sent.
LEMMA Prefix == IndInv => InStep
<1> SUFFICES ASSUME IndInv PROVE InStep
  OBVIOUS
<1> DEFINE strings == [i \in DOMAIN sent |-> CString(sent[i])]
           X == {CString(b) : b \in Bytes}
           n == Len(results)
<1>1. TypeOK /\ ResultsInv
  BY DEF IndInv
<1>2. \A i \in 1 .. Len(sent) : sent[i] \in Bytes
  BY <1>1, ChunkOf DEF String
<1>3. /\ Len(sent) \in Nat /\ DOMAIN sent = 1 .. Len(sent)
      /\ results \in Seq(X) /\ n \in Nat /\ n <= Len(sent)
  BY <1>1 DEF TypeOK, ResultsInv
<1>4. /\ strings \in Seq(X) /\ Len(strings) = Len(sent)
      /\ \A i \in 1 .. Len(sent) : strings[i] = CString(sent[i])
  BY <1>2, <1>3
<1>5. \A i \in 1 .. n : results[i] = strings[i]
  BY <1>1, <1>3, <1>4 DEF ResultsInv
<1> HIDE DEF strings, X
<1>6. SubSeq(results, 1, n) = results
  BY <1>3, SubSeqFull
<1>7. SubSeq(strings, 1, n) = results
  <2> DEFINE U == SubSeq(strings, 1, n)
  <2>1. U \in Seq(X) /\ Len(U) = n /\ \A i \in 1 .. n : U[i] = strings[i]
    BY <1>3, <1>4
  <2> HIDE DEF U
  <2>2. U = results
    BY <1>3, <1>5, <2>1, SeqEqual
  <2> QED
    BY <2>2 DEF U
<1>8. IsPrefix(results, strings)
  BY <1>3, <1>4, <1>6, <1>7 DEF IsPrefix
<1> QED
  BY <1>8 DEF InStep, strings

\* Wherever the stream is cut or ends, and also when recvString is called again
\* after an exception, it returns the strings that sendString was given, in
\* turn.
THEOREM StringsInTurn == StringsSpec => []InStep
<1>1. StringsSpec => []IndInv
  BY InitInv, NextInv, PTL DEF StringsSpec
<1> QED
  BY <1>1, Prefix, PTL

-----------------------------------------------------------------------------
(* Sequences that are joined.                                              *)

\* A set of natural numbers has a least element.
LEMMA Least ==
    ASSUME NEW S, S \subseteq Nat, S # {}
    PROVE  \E m \in S : \A n \in S : m <= n
<1> DEFINE R == {p \in Nat \X Nat : p[1] < p[2]}
<1>1. IsWellFoundedOn(R, Nat)
  <2>1. R = OpToRel(<, Nat)
    BY DEF OpToRel
  <2> QED
    BY <2>1, NatLessThanWellFounded, Zenon
<1>2. PICK m \in S : \A n \in S : <<n, m>> \notin R
  <2> HIDE DEF R
  <2> QED
    BY <1>1, WFMin
<1>3. \A n \in S : n \in Nat /\ m \in Nat /\ ~(n < m)
  BY <1>2
<1>4. \A n \in S : m <= n
  BY <1>3
<1> QED
  BY <1>4

\* A function that joins the first pieces.
Joins(f, seqs, n) ==
    f[1] = seqs[1] /\ \A i \in 2 .. n : f[i] = f[i - 1] \o seqs[i]

\* There is one.
LEMMA Unique ==
    \A n \in Nat \ {0} : \A seqs, g, h :
        Joins(g, seqs, n) /\ Joins(h, seqs, n) => h[n] = g[n]
<1> SUFFICES ASSUME NEW n \in Nat \ {0}, NEW seqs, NEW g, NEW h,
                    Joins(g, seqs, n), Joins(h, seqs, n)
             PROVE  h[n] = g[n]
  OBVIOUS
<1> USE DEF Joins
<1> DEFINE wrong == {i \in 1 .. n : h[i] # g[i]}
<1>1. ASSUME wrong # {} PROVE FALSE
  <2>1. wrong \subseteq Nat
    OBVIOUS
  <2>2. PICK m \in wrong : \A k \in wrong : m <= k
    <3> HIDE DEF wrong
    <3> QED
      BY <1>1, <2>1, Least
  <2>3. m \in 2 .. n /\ h[m] # g[m]
    OBVIOUS
  <2>4. m - 1 \in 1 .. n /\ ~(m <= m - 1)
    BY <2>3
  <2>5. h[m - 1] = g[m - 1]
    BY <2>2, <2>4
  <2>6. h[m] = h[m - 1] \o seqs[m] /\ g[m] = g[m - 1] \o seqs[m]
    BY <2>3
  <2> QED
    BY <2>3, <2>5, <2>6
<1> QED
  BY <1>1

\* A function as FlattenSeq describes it.
Describes(f, seqs, n) ==
    f = [i \in 1 .. n |-> IF i = 1 THEN seqs[i] ELSE f[i - 1] \o seqs[i]]

LEMMA DescribedJoins ==
    \A n \in Nat \ {0} : \A seqs, f : Describes(f, seqs, n) => Joins(f, seqs, n)
<1> SUFFICES ASSUME NEW n \in Nat \ {0}, NEW seqs, NEW f, Describes(f, seqs, n)
             PROVE  Joins(f, seqs, n)
  OBVIOUS
<1>1. f = [i \in 1 .. n |-> IF i = 1 THEN seqs[i] ELSE f[i - 1] \o seqs[i]]
  BY DEF Describes
<1>2. f[1] = seqs[1]
  BY <1>1
<1>3. ASSUME NEW i \in 2 .. n PROVE f[i] = f[i - 1] \o seqs[i]
  <2>1. i \in 1 .. n /\ i # 1
    OBVIOUS
  <2> QED
    BY <1>1, <2>1
<1> QED
  BY <1>2, <1>3 DEF Joins

\* It is the function FlattenSeq takes.
LEMMA Flattened ==
    ASSUME NEW seqs, NEW n \in Nat \ {0}, Len(seqs) = n, NEW g, Describes(g, seqs, n)
    PROVE  FlattenSeq(seqs) = g[n]
<1> DEFINE h == CHOOSE f : Describes(f, seqs, n)
<1>1. FlattenSeq(seqs) = h[n]
  BY DEF FlattenSeq, Describes
<1>2. Describes(h, seqs, n)
  OBVIOUS
<1> HIDE DEF h
<1>3. Joins(h, seqs, n) /\ Joins(g, seqs, n)
  BY <1>2, DescribedJoins
<1>4. h[n] = g[n]
  BY <1>3, Unique
<1> QED
  BY <1>1, <1>4

\* There is such a function.
LEMMA JoinsExist ==
    ASSUME NEW X, NEW n \in Nat \ {0}, NEW seqs \in [1 .. n -> Seq(X)]
    PROVE  \E f \in [1 .. n -> Seq(X)] : Joins(f, seqs, n)
<1> DEFINE Has(k) == \E f \in [1 .. k -> Seq(X)] : Joins(f, seqs, k)
           without == {k \in 1 .. n : ~Has(k)}
<1>1. Has(1)
  <2> DEFINE f == [i \in 1 .. 1 |-> seqs[1]]
  <2>1. f \in [1 .. 1 -> Seq(X)] /\ Joins(f, seqs, 1)
    BY DEF Joins
  <2> QED
    BY <2>1
<1>2. ASSUME NEW k \in 2 .. n, Has(k - 1) PROVE Has(k)
  <2>1. PICK f \in [1 .. k - 1 -> Seq(X)] : Joins(f, seqs, k - 1)
    BY <1>2
  <2> DEFINE h == [i \in 1 .. k |-> IF i = k THEN f[k - 1] \o seqs[k] ELSE f[i]]
  <2>2. f[k - 1] \in Seq(X) /\ seqs[k] \in Seq(X)
    OBVIOUS
  <2>3. h \in [1 .. k -> Seq(X)]
    <3>1. f[k - 1] \o seqs[k] \in Seq(X)
      BY <2>2
    <3>2. \A i \in 1 .. k : i # k => f[i] \in Seq(X)
      OBVIOUS
    <3>3. ASSUME NEW i \in 1 .. k PROVE h[i] \in Seq(X)
      <4>1. CASE i = k
        BY <3>1, <4>1
      <4>2. CASE i # k
        BY <3>2, <4>2
      <4> QED
        BY <4>1, <4>2
    <3> QED
      BY <3>3
  <2>4. h[1] = seqs[1]
    BY <2>1 DEF Joins
  <2>5. ASSUME NEW i \in 2 .. k PROVE h[i] = h[i - 1] \o seqs[i]
    <3>1. h[i - 1] = f[i - 1]
      OBVIOUS
    <3>2. CASE i = k
      <4>1. k \in 1 .. k
        OBVIOUS
      <4>2. h[k] = f[k - 1] \o seqs[k]
        BY <4>1, Zenon
      <4> HIDE DEF h
      <4> QED
        BY <3>1, <3>2, <4>2
    <3>3. CASE i # k
      <4>1. i \in 2 .. k - 1 /\ h[i] = f[i]
        BY <3>3
      <4> QED
        BY <2>1, <3>1, <4>1 DEF Joins
    <3> QED
      BY <3>2, <3>3
  <2>6. Joins(h, seqs, k)
    BY <2>4, <2>5 DEF Joins
  <2> QED
    BY <2>3, <2>6
<1>3. ASSUME without # {} PROVE FALSE
  <2>1. PICK m \in without : \A k \in without : m <= k
    <3>1. without \subseteq Nat
      OBVIOUS
    <3> HIDE DEF without
    <3> QED
      BY <1>3, <3>1, Least
  <2>2. m \in 1 .. n /\ ~Has(m)
    OBVIOUS
  <2> HIDE DEF Has
  <2>3. m \in 2 .. n /\ m - 1 \in 1 .. n /\ ~(m <= m - 1)
    BY <1>1, <2>2
  <2>4. Has(m - 1)
    BY <2>1, <2>3
  <2> QED
    BY <1>2, <2>2, <2>3, <2>4
<1> QED
  BY <1>3

\* Joined sequences are a row of chunks.
LEMMA FlattenedWhole ==
    ASSUME NEW X, NEW n \in Nat \ {0}, NEW seqs \in [1 .. n -> Seq(X)], Len(seqs) = n
    PROVE  FlattenSeq(seqs) \in Seq(X) /\ CarriesWhole(FlattenSeq(seqs), seqs, 0, n)
<1>1. PICK f \in [1 .. n -> Seq(X)] : Joins(f, seqs, n)
  BY JoinsExist
<1>2. Describes(f, seqs, n)
  <2>1. \A i \in 1 .. n : f[i] = IF i = 1 THEN seqs[i] ELSE f[i - 1] \o seqs[i]
    <3>1. f[1] = seqs[1] /\ \A i \in 2 .. n : f[i] = f[i - 1] \o seqs[i]
      BY <1>1 DEF Joins
    <3>2. \A i \in 1 .. n : i = 1 \/ i \in 2 .. n
      OBVIOUS
    <3> QED
      BY <3>1, <3>2
  <2> QED
    BY <2>1 DEF Describes
<1>3. FlattenSeq(seqs) = f[n]
  BY <1>2, Flattened
<1> DEFINE Is(k) == CarriesWhole(f[k], seqs, 0, k)
           wrong == {k \in 1 .. n : ~Is(k)}
<1>4. Is(1)
  <2> DEFINE p == [c \in 0 .. 0 |-> 0]
  <2>1. << >> \in Seq(X) /\ Len(<< >>) = 0
    OBVIOUS
  <2>2. CarriesWhole(<< >>, seqs, 0, 0)
    <3>1. Places(<< >>, seqs, p, 0, 0)
      BY <2>1 DEF Places
    <3> QED
      BY <2>1, <3>1 DEF CarriesWhole
  <2>3. seqs[1] \in Seq(X) /\ f[1] = seqs[1]
    BY <1>1 DEF Joins
  <2>4. CarriesWhole(<< >> \o seqs[0 + 1], seqs, 0, 0 + 1)
    <3>1. seqs[0 + 1] \in Seq(X) /\ \A c \in 0 + 1 .. 0 : seqs[c] \in Seq(X)
      BY <2>3
    <3>2. 0 \in Nat /\ 0 <= 0
      OBVIOUS
    <3> DEFINE e == << >>
    <3>3. e \in Seq(X) /\ CarriesWhole(e, seqs, 0, 0)
      BY <2>1, <2>2
    <3> HIDE DEF e
    <3>4. CarriesWhole(e \o seqs[0 + 1], seqs, 0, 0 + 1)
      BY <3>1, <3>2, <3>3, OneMore
    <3> QED
      BY <3>4 DEF e
  <2>5. << >> \o seqs[1] = seqs[1]
    BY <2>3, ConcatEmptySeq
  <2> QED
    BY <2>3, <2>4, <2>5
<1>5. ASSUME NEW k \in 2 .. n, Is(k - 1) PROVE Is(k)
  <2>1. f[k] = f[k - 1] \o seqs[k] /\ f[k - 1] \in Seq(X) /\ seqs[k] \in Seq(X)
    <3>1. \A i \in 2 .. n : f[i] = f[i - 1] \o seqs[i]
      BY <1>1 DEF Joins
    <3>2. k - 1 \in 1 .. n /\ k \in 1 .. n
      OBVIOUS
    <3> QED
      BY <3>1, <3>2
  <2>2. k - 1 \in Nat /\ 0 <= k - 1 /\ (k - 1) + 1 = k
        /\ \A c \in 0 + 1 .. k - 1 : seqs[c] \in Seq(X)
    OBVIOUS
  <2>3. CarriesWhole(f[k - 1] \o seqs[(k - 1) + 1], seqs, 0, (k - 1) + 1)
    BY <1>5, <2>1, <2>2, OneMore
  <2> QED
    BY <2>1, <2>2, <2>3
<1>6. ASSUME wrong # {} PROVE FALSE
  <2>1. PICK m \in wrong : \A k \in wrong : m <= k
    <3>1. wrong \subseteq Nat
      OBVIOUS
    <3> HIDE DEF wrong
    <3> QED
      BY <1>6, <3>1, Least
  <2>2. m \in 1 .. n /\ ~Is(m)
    OBVIOUS
  <2> HIDE DEF Is
  <2>3. m \in 2 .. n /\ m - 1 \in 1 .. n /\ ~(m <= m - 1)
    BY <1>4, <2>2
  <2>4. Is(m - 1)
    BY <2>1, <2>3
  <2> QED
    BY <1>5, <2>2, <2>3, <2>4
<1>7. Is(n)
  <2> HIDE DEF Is
  <2>1. n \in 1 .. n
    OBVIOUS
  <2>2. wrong = {}
    BY <1>6
  <2> QED
    BY <2>1, <2>2
<1> QED
  BY <1>3, <1>7

-----------------------------------------------------------------------------
(* Where the lines of a survey are.                                        *)

FileLine == Nat \cup Texts

\* p[c] lines belong to the first c questions.
Placed(s, p) ==
    LET L == Lines(s)  n == Len(s)
    IN /\ n \in Nat /\ p \in [0 .. n -> Nat] /\ p[0] = 0
       /\ L \in Seq(FileLine) /\ Len(L) = 1 + p[n] /\ L[1] = n
       /\ \A c \in 1 .. n :
            /\ p[c] = p[c - 1] + 2 + Len(s[c].rList) /\ p[c] <= p[n]
            /\ L[p[c - 1] + 2] = s[c].qText
            /\ L[p[c - 1] + 3] = Len(s[c].rList)
            /\ \A x \in 1 .. Len(s[c].rList) : L[p[c - 1] + 3 + x] = s[c].rList[x]

LEMMA PartOf ==
    ASSUME NEW s \in Seq(Question), NEW c \in 1 .. Len(s)
    PROVE  /\ s[c] \in Question /\ Len(s[c].rList) \in Nat
           /\ Parts(s)[c] \in Seq(FileLine)
           /\ Len(Parts(s)[c]) = 2 + Len(s[c].rList)
           /\ Parts(s)[c][1] = s[c].qText /\ Parts(s)[c][2] = Len(s[c].rList)
           /\ \A x \in 1 .. Len(s[c].rList) : Parts(s)[c][2 + x] = s[c].rList[x]
<1> DEFINE t == s[c].qText
           l == s[c].rList
           h == <<t, Len(l)>>
<1>1. s[c] \in Question
  OBVIOUS
<1>2. t \in Texts /\ l \in Seq(Texts)
  BY <1>1 DEF Question
<1> HIDE DEF t, l
<1>3. l \in Seq(FileLine) /\ Len(l) \in Nat
  BY <1>2 DEF FileLine
<1>4. h \in Seq(FileLine) /\ Len(h) = 2 /\ h[1] = t /\ h[2] = Len(l)
  <2>1. t \in FileLine /\ Len(l) \in FileLine
    BY <1>2, <1>3 DEF FileLine
  <2> QED
    BY <2>1
<1> HIDE DEF h
<1>5. /\ h \o l \in Seq(FileLine) /\ Len(h \o l) = Len(h) + Len(l)
      /\ \A i \in 1 .. Len(h) : (h \o l)[i] = h[i]
      /\ \A i \in 1 .. Len(l) : (h \o l)[Len(h) + i] = l[i]
  <2>1. h \in Seq(FileLine) /\ l \in Seq(FileLine)
    BY <1>3, <1>4
  <2> QED
    BY <2>1
<1>6. (h \o l)[1] = t /\ (h \o l)[2] = Len(l) /\ Len(h \o l) = 2 + Len(l)
  BY <1>4, <1>5
<1>7. ASSUME NEW x \in 1 .. Len(l) PROVE (h \o l)[2 + x] = l[x]
  BY <1>4, <1>5
<1>8. Parts(s)[c] = h \o l
  BY DEF Parts, h, t, l
<1> QED
  BY <1>1, <1>3, <1>5, <1>6, <1>7, <1>8 DEF t, l

LEMMA LinesPlaced ==
    ASSUME NEW s \in Seq(Question)
    PROVE  \E p : Placed(s, p)
<1> DEFINE n == Len(s)
           P == Parts(s)
           T == FlattenSeq(P)
           L == Lines(s)
<1>1. /\ n \in Nat /\ DOMAIN P = 1 .. n /\ Len(P) = n
      /\ \A c \in 1 .. n : P[c] \in Seq(FileLine)
  <2>1. n \in Nat /\ DOMAIN s = 1 .. n
    OBVIOUS
  <2>2. \A c \in 1 .. n : P[c] \in Seq(FileLine)
    BY PartOf
  <2>3. DOMAIN P = 1 .. n
    BY <2>1 DEF Parts
  <2>4. P \in [1 .. n -> Seq(FileLine)]
    <3>1. P = [c \in 1 .. n |-> P[c]]
      BY <2>1, <2>3 DEF Parts
    <3> QED
      BY <2>2, <3>1
  <2>5. Len(P) = n
    BY <2>1, <2>4
  <2> QED
    BY <2>1, <2>2, <2>3, <2>5
<1>2. P \in [1 .. n -> Seq(FileLine)]
  <2>1. P = [c \in 1 .. n |-> P[c]]
    BY <1>1 DEF Parts
  <2> QED
    BY <1>1, <2>1
<1>3. T \in Seq(FileLine) /\ CarriesWhole(T, P, 0, n)
  <2>1. CASE n = 0
    <3>1. T = P
      BY <1>1, <2>1 DEF FlattenSeq
    <3>2. P \in Seq(FileLine)
      <4>1. P \in Seq(Seq(FileLine))
        BY <1>1, <1>2
      <4>2. P = << >>
        BY <1>1, <2>1, <4>1, EmptySeq
      <4> QED
        BY <4>2
    <3> DEFINE p == [c \in 0 .. 0 |-> 0]
    <3> HIDE DEF P, T
    <3>3. Places(T, P, p, 0, 0) /\ Len(T) = p[0]
      BY <1>1, <2>1, <3>1, <3>2 DEF Places
    <3> QED
      BY <2>1, <3>1, <3>2, <3>3 DEF CarriesWhole
  <2>2. CASE n # 0
    <3> HIDE DEF P, n
    <3> QED
      BY <1>1, <1>2, <2>2, FlattenedWhole
  <2> QED
    BY <2>1, <2>2
<1>4. PICK p : Places(T, P, p, 0, n) /\ Len(T) = p[n]
  BY <1>3 DEF CarriesWhole
<1>5. /\ p \in [0 .. n -> Nat] /\ p[0] = 0 /\ \A c \in 0 .. n : p[c] <= p[n]
      /\ \A c \in 1 .. n : p[c] = p[c - 1] + Len(P[c])
      /\ \A c \in 1 .. n : \A x \in 1 .. Len(P[c]) :
           p[c - 1] + x <= Len(T) => T[p[c - 1] + x] = P[c][x]
  <2> HIDE DEF P, T, n
  <2>1. 0 + 1 = 1
    OBVIOUS
  <2> QED
    BY <1>1, <1>4, <2>1 DEF Places
<1>6. /\ L \in Seq(FileLine) /\ Len(L) = 1 + p[n] /\ L[1] = n
      /\ \A y \in 1 .. p[n] : L[1 + y] = T[y]
  <2> DEFINE h == <<n>>
  <2>1. n \in FileLine
    BY <1>1 DEF FileLine
  <2>2. h \in Seq(FileLine) /\ Len(h) = 1 /\ h[1] = n
    BY <2>1
  <2>3. L = h \o T
    BY DEF Lines
  <2> HIDE DEF h, T, L
  <2>4. /\ L \in Seq(FileLine) /\ Len(L) = Len(h) + Len(T) /\ Len(T) \in Nat
        /\ \A i \in 1 .. Len(h) : L[i] = h[i]
        /\ \A i \in 1 .. Len(T) : L[Len(h) + i] = T[i]
    <3>1. h \in Seq(FileLine) /\ T \in Seq(FileLine)
      BY <1>3, <2>2
    <3>2. /\ h \o T \in Seq(FileLine) /\ Len(h \o T) = Len(h) + Len(T) /\ Len(T) \in Nat
          /\ \A i \in 1 .. Len(h) : (h \o T)[i] = h[i]
          /\ \A i \in 1 .. Len(T) : (h \o T)[Len(h) + i] = T[i]
      BY <3>1
    <3> QED
      BY <2>3, <3>2, Zenon
  <2>5. L[1] = n
    BY <2>2, <2>4
  <2>6. ASSUME NEW y \in 1 .. p[n] PROVE L[1 + y] = T[y]
    <3> QED
      BY <1>4, <2>2, <2>4
  <2> QED
    BY <1>4, <2>2, <2>4, <2>5, <2>6
<1>7. ASSUME NEW c \in 1 .. n
      PROVE  /\ p[c] = p[c - 1] + 2 + Len(s[c].rList) /\ p[c] <= p[n]
             /\ \A x \in 1 .. 2 + Len(s[c].rList) : L[1 + (p[c - 1] + x)] = P[c][x]
  <2> DEFINE k == Len(s[c].rList)
  <2>1. k \in Nat /\ Len(P[c]) = 2 + k
    BY PartOf
  <2>2. c - 1 \in 0 .. n /\ c \in 0 .. n /\ n \in 0 .. n
    BY <1>1
  <2> HIDE DEF k, P, T, L, n
  <2>3. p[c] = p[c - 1] + (2 + k) /\ p[c] <= p[n] /\ p[c - 1] \in Nat /\ p[n] \in Nat
        /\ p[c] \in Nat
    BY <1>5, <2>1, <2>2
  <2>4. ASSUME NEW x \in 1 .. 2 + k PROVE L[1 + (p[c - 1] + x)] = P[c][x]
    <3>1. p[c - 1] + x \in 1 .. p[n]
      BY <2>1, <2>3, SMTT(20)
    <3>2. x \in 1 .. Len(P[c]) /\ p[c - 1] + x <= Len(T)
      <4>1. x \in 1 .. Len(P[c])
        BY <2>1
      <4>2. p[c - 1] + x <= p[n]
        BY <3>1
      <4> QED
        BY <1>4, <4>1, <4>2
    <3>3. T[p[c - 1] + x] = P[c][x]
      BY <1>5, <3>2
    <3> QED
      BY <1>6, <3>1, <3>3
  <2>5. p[c] = p[c - 1] + 2 + k
    BY <2>1, <2>3, SMTT(20)
  <2> QED
    BY <2>3, <2>4, <2>5 DEF k
<1>8. ASSUME NEW c \in 1 .. n
      PROVE  /\ L[p[c - 1] + 2] = s[c].qText /\ L[p[c - 1] + 3] = Len(s[c].rList)
             /\ \A x \in 1 .. Len(s[c].rList) : L[p[c - 1] + 3 + x] = s[c].rList[x]
  <2>1. /\ Len(s[c].rList) \in Nat /\ P[c][1] = s[c].qText /\ P[c][2] = Len(s[c].rList)
        /\ \A x \in 1 .. Len(s[c].rList) : P[c][2 + x] = s[c].rList[x]
    BY PartOf
  <2>2. p[c - 1] \in Nat
    BY <1>1, <1>5
  <2> HIDE DEF P, L, n
  <2>3. 1 \in 1 .. 2 + Len(s[c].rList) /\ 2 \in 1 .. 2 + Len(s[c].rList)
    BY <2>1
  <2>4. L[1 + (p[c - 1] + 1)] = s[c].qText /\ L[1 + (p[c - 1] + 2)] = Len(s[c].rList)
    BY <1>7, <2>1, <2>3
  <2>5. 1 + (p[c - 1] + 1) = p[c - 1] + 2 /\ 1 + (p[c - 1] + 2) = p[c - 1] + 3
    BY <2>2
  <2>6. ASSUME NEW x \in 1 .. Len(s[c].rList) PROVE L[p[c - 1] + 3 + x] = s[c].rList[x]
    <3> DEFINE k == Len(s[c].rList)
               b == p[c - 1]
    <3>1. k \in Nat /\ b \in Nat /\ x \in 1 .. k
      BY <2>1, <2>2
    <3> HIDE DEF k, b
    <3>2. 2 + x \in 1 .. 2 + k /\ 1 + (b + (2 + x)) = b + 3 + x
      BY <3>1
    <3>3. L[1 + (b + (2 + x))] = P[c][2 + x] /\ P[c][2 + x] = s[c].rList[x]
      BY <1>7, <2>1, <3>2 DEF k, b
    <3> QED
      BY <3>2, <3>3 DEF b
  <2> QED
    BY <2>4, <2>5, <2>6
<1> HIDE DEF P, T
<1>9. \A c \in 1 .. n :
        /\ p[c] = p[c - 1] + 2 + Len(s[c].rList) /\ p[c] <= p[n]
        /\ L[p[c - 1] + 2] = s[c].qText
        /\ L[p[c - 1] + 3] = Len(s[c].rList)
        /\ \A x \in 1 .. Len(s[c].rList) : L[p[c - 1] + 3 + x] = s[c].rList[x]
  <2> HIDE DEF n, L
  <2> QED
    BY <1>7, <1>8
<1>10. Placed(s, p)
  <2>1. n \in Nat /\ p \in [0 .. n -> Nat] /\ p[0] = 0
    BY <1>1, <1>5
  <2>2. L \in Seq(FileLine) /\ Len(L) = 1 + p[n] /\ L[1] = n
    BY <1>6
  <2> QED
    BY <1>9, <2>1, <2>2, Zenon DEF Placed
<1> QED
  BY <1>10

-----------------------------------------------------------------------------
(* The inductive invariant of ReadSurvey.                                  *)

Starts(s) == CHOOSE p : Placed(s, p)

LEMMA StartsPlaced == ASSUME NEW s \in Seq(Question) PROVE Placed(s, Starts(s))
BY LinesPlaced DEF Starts

\* The lines that have been read.
Taken == IF q = 0 THEN 0 ELSE Starts(survey)[q - 1] + 1 + (IF r = 0 THEN 0 ELSE r + 1)

FileType ==
    /\ survey \in Seq(Question) /\ newline \in BOOLEAN /\ cut \in Nat
    /\ ok \in BOOLEAN /\ eof \in BOOLEAN

\* The next line of the survey is the next to be read, and what has been read
\* is in its place.
Ahead ==
    /\ rest \in Seq(FileLine) /\ Taken + Len(rest) + cut = Len(Lines(survey))
    /\ \A i \in 1 .. Len(rest) : rest[i] = Lines(survey)[Taken + i]
    /\ eof => rest = << >>

QuestionsRead ==
    IF q = 0 THEN qList = << >>
    ELSE /\ qList \in Seq(Question) /\ Len(qList) = Len(survey)
         /\ \A j \in 1 .. q - 1 : qList[j] = survey[j]

ResponsesRead ==
    r > 0 =>
      /\ q \in 1 .. Len(survey) /\ r <= Len(survey[q].rList) + 1
      /\ qList[q].qText = survey[q].qText
      /\ Len(qList[q].rList) = Len(survey[q].rList)
      /\ \A x \in 1 .. r - 1 : qList[q].rList[x] = survey[q].rList[x]

OnTrack ==
    /\ q \in 0 .. Len(survey) + 1 /\ r \in Nat /\ (q = 0 => r = 0)
    /\ Ahead /\ QuestionsRead /\ ResponsesRead

\* A file that has to be accepted.
Good == cut = 0 /\ (newline \/ EndsInText(survey))

FileInv == FileType /\ (ok => OnTrack) /\ (Good => ok)

-----------------------------------------------------------------------------
(* Reading from the stream.                                                *)

LEMMA GetlineHere ==
    LET t == getline(Stream)
        none == Len(rest) = 1 /\ ~newline /\ Head(rest) = ""
    IN IF ok /\ ~eof /\ rest # << >> /\ ~none
       THEN /\ t.val = Head(rest)
            /\ t.next = [rest |-> Tail(rest), ok |-> TRUE, eof |-> Len(rest) = 1 /\ ~newline]
       ELSE t.next = [rest |-> rest, ok |-> FALSE, eof |-> TRUE]
BY DEF getline, Stream, CanRead, NothingLeft, Behind, Failed

LEMMA CountHere ==
    LET c == getCount(Stream)
    IN IF ok /\ ~eof /\ rest # << >> /\ ~(Len(rest) = 1 /\ ~newline)
       THEN /\ c.val = Head(rest) /\ c.next.rest = Tail(rest)
            /\ c.next.ok = TRUE /\ c.next.eof = FALSE
       ELSE c.next.ok = FALSE /\ c.next.eof = TRUE
BY DEF getCount, Stream, CanRead, Behind, Failed

LEMMA CountFails ==
    ASSUME NEW l PROVE getCount([rest |-> l, ok |-> FALSE, eof |-> TRUE]).next.ok = FALSE
BY DEF getCount, CanRead, Failed

LEMMA CountOf ==
    ASSUME NEW l, NEW e \in BOOLEAN
    PROVE  LET c == getCount([rest |-> l, ok |-> TRUE, eof |-> e])
           IN IF ~e /\ l # << >> /\ ~(Len(l) = 1 /\ ~newline)
              THEN /\ c.val = Head(l) /\ c.next.rest = Tail(l)
                   /\ c.next.ok = TRUE /\ c.next.eof = FALSE
              ELSE c.next.ok = FALSE
BY DEF getCount, CanRead, Behind, Failed

\* What is left once n lines have been taken off.
LEMMA Further ==
    ASSUME NEW L \in Seq(FileLine), NEW l \in Seq(FileLine), NEW n \in Nat, l # << >>,
           \A i \in 1 .. Len(l) : l[i] = L[n + i]
    PROVE  /\ Head(l) = L[n + 1] /\ Tail(l) \in Seq(FileLine) /\ Len(Tail(l)) = Len(l) - 1
           /\ Len(l) \in Nat /\ Len(l) > 0
           /\ \A i \in 1 .. Len(Tail(l)) : Tail(l)[i] = L[(n + 1) + i]
<1>1. Len(l) \in Nat /\ Len(l) > 0 /\ Head(l) = l[1] /\ Tail(l) \in Seq(FileLine)
      /\ Len(Tail(l)) = Len(l) - 1 /\ \A i \in 1 .. Len(Tail(l)) : Tail(l)[i] = l[i + 1]
  BY EmptySeq, HeadTailProperties
<1>2. ASSUME NEW i \in 1 .. Len(Tail(l)) PROVE Tail(l)[i] = L[(n + 1) + i]
  <2>1. i + 1 \in 1 .. Len(l) /\ n + (i + 1) = (n + 1) + i
    BY <1>1
  <2> QED
    BY <1>1, <2>1
<1> QED
  BY <1>1, <1>2

\* Where the lines of a question are, and the lines before and behind.
LEMMA Lengths ==
    ASSUME FileType
    PROVE  LET p == Starts(survey)  L == Lines(survey)  n == Len(survey)
           IN /\ n \in Nat /\ p[0] = 0 /\ L \in Seq(FileLine)
              /\ Len(L) = 1 + p[n] /\ L[1] = n /\ p[n] \in Nat
              /\ \A c \in 1 .. n :
                   /\ survey[c] \in Question
                   /\ p[c] \in Nat /\ p[c - 1] \in Nat /\ Len(survey[c].rList) \in Nat
                   /\ p[c] = p[c - 1] + 2 + Len(survey[c].rList) /\ p[c] <= p[n]
                   /\ L[p[c - 1] + 2] = survey[c].qText
                   /\ L[p[c - 1] + 3] = Len(survey[c].rList)
                   /\ \A x \in 1 .. Len(survey[c].rList) :
                        L[p[c - 1] + 3 + x] = survey[c].rList[x]
<1> DEFINE p == Starts(survey)
           L == Lines(survey)
           n == Len(survey)
<1>1. survey \in Seq(Question)
  BY DEF FileType
<1>2. Placed(survey, p)
  BY <1>1, StartsPlaced
<1>3. /\ n \in Nat /\ p \in [0 .. n -> Nat] /\ p[0] = 0
      /\ L \in Seq(FileLine) /\ Len(L) = 1 + p[n] /\ L[1] = n
      /\ \A c \in 1 .. n :
           /\ p[c] = p[c - 1] + 2 + Len(survey[c].rList) /\ p[c] <= p[n]
           /\ L[p[c - 1] + 2] = survey[c].qText
           /\ L[p[c - 1] + 3] = Len(survey[c].rList)
           /\ \A x \in 1 .. Len(survey[c].rList) : L[p[c - 1] + 3 + x] = survey[c].rList[x]
  BY <1>2, Zenon DEF Placed
<1>4. \A c \in 1 .. n : survey[c] \in Question /\ Len(survey[c].rList) \in Nat
  BY <1>1, PartOf
<1>5. \A c \in 0 .. n : p[c] \in Nat
  BY <1>3
<1>6. n \in 0 .. n /\ \A c \in 1 .. n : c \in 0 .. n /\ c - 1 \in 0 .. n
  BY <1>3
<1> HIDE DEF p, L, n
<1>7. /\ n \in Nat /\ p[0] = 0 /\ L \in Seq(FileLine)
      /\ Len(L) = 1 + p[n] /\ L[1] = n /\ p[n] \in Nat
  BY <1>3, <1>5, <1>6
<1>8. \A c \in 1 .. n : p[c] \in Nat /\ p[c - 1] \in Nat
  BY <1>5, <1>6
<1> QED
  BY <1>3, <1>4, <1>7, <1>8, Zenon DEF p, L, n

-----------------------------------------------------------------------------
(* It holds at the start and is kept by every step.                        *)

LEMMA FileInitInv == FileInit => FileInv
<1> SUFFICES ASSUME FileInit PROVE FileInv
  OBVIOUS
<1> DEFINE L == Lines(survey)
           m == Len(L) - cut
<1>1. /\ survey \in Surveys /\ newline \in BOOLEAN /\ cut \in 0 .. Len(L)
      /\ rest = SubSeq(L, 1, m) /\ ok = TRUE /\ eof = FALSE /\ q = 0 /\ r = 0
      /\ qList = << >>
  BY DEF FileInit
<1>2. FileType
  <2>1. survey \in Seq(Question)
    BY <1>1, SurveysAssumption
  <2>2. cut \in Nat
    BY <1>1
  <2> QED
    BY <1>1, <2>1, <2>2 DEF FileType
<1>3. L \in Seq(FileLine) /\ Len(L) \in Nat
  <2>1. L \in Seq(FileLine)
    BY <1>2, Lengths
  <2> HIDE DEF L
  <2> QED
    BY <2>1
<1>4. Taken = 0
  BY <1>1 DEF Taken
<1> HIDE DEF L
<1>5. m \in 0 .. Len(L) /\ m + cut = Len(L)
  BY <1>1, <1>3
<1> HIDE DEF m
<1>6. rest \in Seq(FileLine) /\ Len(rest) = m /\ \A i \in 1 .. m : rest[i] = L[i]
  BY <1>1, <1>3, <1>5
<1>7. Ahead
  <2>1. \A i \in 1 .. Len(rest) : rest[i] = L[Taken + i]
    BY <1>4, <1>5, <1>6
  <2>2. Taken + Len(rest) + cut = Len(L)
    BY <1>4, <1>5, <1>6, <1>1, <1>3
  <2> QED
    BY <1>1, <1>6, <2>1, <2>2 DEF Ahead, L
<1>8. q \in 0 .. Len(survey) + 1 /\ r \in Nat
  BY <1>1, <1>2, Lengths
<1>9. QuestionsRead /\ ResponsesRead
  BY <1>1 DEF QuestionsRead, ResponsesRead
<1> QED
  BY <1>1, <1>2, <1>7, <1>8, <1>9 DEF FileInv, OnTrack

\* After a step that fails, the file was cut, or it did not have to be accepted.
LEMMA StartInv == FileInv /\ Start => FileInv'
<1> SUFFICES ASSUME FileInv, Start PROVE FileInv'
  OBVIOUS
<1> DEFINE L == Lines(survey)
           c == getCount(Stream)
           n == Len(survey)
           good == ok /\ ~eof /\ rest # << >> /\ ~(Len(rest) = 1 /\ ~newline)
<1>1. /\ q = 0 /\ q' = 1 /\ r' = 0
      /\ survey' = survey /\ cut' = cut /\ newline' = newline
  BY DEF Start
<1>2. IF good THEN c.val = Head(rest) /\ rest' = Tail(rest) /\ ok' = TRUE /\ eof' = FALSE
      ELSE ok' = FALSE /\ eof' = TRUE
  <2>1. rest' = c.next.rest /\ ok' = c.next.ok /\ eof' = c.next.eof
    BY DEF Start, Goes
  <2>2. IF good THEN c.val = Head(rest) /\ c.next.rest = Tail(rest) /\ c.next.ok = TRUE
                     /\ c.next.eof = FALSE
        ELSE c.next.ok = FALSE /\ c.next.eof = TRUE
    BY CountHere
  <2> HIDE DEF c, good
  <2> QED
    BY <2>1, <2>2
<1>3. FileType /\ (ok => OnTrack) /\ (Good => ok)
  BY DEF FileInv
<1>4. FileType' /\ Good' = Good
  BY <1>1, <1>2, <1>3 DEF FileType, Good
<1>5. Taken = 0 /\ Taken' = 1
  <2> HIDE DEF c, L, n, good
  <2>1. Starts(survey)[0] = 0
    BY <1>3, Lengths
  <2>2. Taken = 0
    BY <1>1 DEF Taken
  <2>3. Taken' = Starts(survey)[1 - 1] + 1 + 0
    BY <1>1 DEF Taken
  <2>4. 1 - 1 = 0
    OBVIOUS
  <2> QED
    BY <2>1, <2>2, <2>3, <2>4
<1>6. n \in Nat /\ L \in Seq(FileLine) /\ Len(L) \in Nat /\ Len(L) >= 1 /\ L[1] = n /\ cut \in Nat
  BY <1>3, Lengths DEF FileType
<1> HIDE DEF c, L, n
<1>7. ASSUME good PROVE OnTrack'
  <2>1. Ahead
    BY <1>3, <1>7 DEF OnTrack
  <2>2. /\ rest \in Seq(FileLine) /\ Taken + Len(rest) + cut = Len(L)
        /\ \A i \in 1 .. Len(rest) : rest[i] = L[0 + i]
    <3>1. /\ rest \in Seq(FileLine) /\ Taken + Len(rest) + cut = Len(L)
          /\ \A i \in 1 .. Len(rest) : rest[i] = L[Taken + i]
      BY <2>1 DEF Ahead, L
    <3> QED
      BY <1>5, <3>1
  <2>3. /\ Head(rest) = L[0 + 1] /\ Tail(rest) \in Seq(FileLine)
        /\ Len(Tail(rest)) = Len(rest) - 1 /\ Len(rest) \in Nat
        /\ \A i \in 1 .. Len(Tail(rest)) : Tail(rest)[i] = L[(0 + 1) + i]
    <3>1. rest # << >> /\ 0 \in Nat
      BY <1>7
    <3>2. L \in Seq(FileLine)
      BY <1>6
    <3> QED
      BY <2>2, <3>1, <3>2, Further
  <2>4. Ahead'
    <3>1. rest' \in Seq(FileLine) /\ 1 + Len(rest') + cut = Len(L)
      BY <1>2, <1>5, <1>6, <1>7, <2>2, <2>3, SMTT(20)
    <3>2. \A i \in 1 .. Len(rest') : rest'[i] = L[1 + i]
      BY <1>2, <1>7, <2>3
    <3> QED
      BY <1>1, <1>2, <1>5, <1>7, <3>1, <3>2 DEF Ahead, L
  <2>5. QuestionsRead'
    <3>1. c.val = n
      BY <1>2, <1>6, <1>7, <2>3
    <3> DEFINE none == [qText |-> "", rList |-> << >>]
    <3>2. none \in Question
      <4>1. << >> \in Seq(Texts)
        OBVIOUS
      <4>2. "" \in Texts
        BY TextsAssumption
      <4> QED
        BY <4>1, <4>2 DEF Question, none
    <3> HIDE DEF none
    <3>3. [i \in 1 .. n |-> none] \in Seq(Question) /\ Len([i \in 1 .. n |-> none]) = n
      BY <1>6, <3>2
    <3>4. qList' = [i \in 1 .. n |-> none]
      BY <3>1 DEF Start, Empty, none, c
    <3>5. \A j \in 1 .. q' - 1 : FALSE
      <4>1. q' = 1
        BY <1>1
      <4> HIDE DEF good
      <4> QED
        BY <4>1
    <3> QED
      BY <1>1, <3>3, <3>4, <3>5 DEF QuestionsRead, n
  <2> HIDE DEF good
  <2>6. ResponsesRead'
    <3>1. ~(r' > 0)
      BY <1>1
    <3> QED
      BY <3>1 DEF ResponsesRead
  <2>7. q' \in 0 .. n + 1 /\ r' \in Nat /\ q' # 0
    BY <1>1, <1>6
  <2> QED
    BY <1>1, <2>4, <2>5, <2>6, <2>7 DEF OnTrack, n
<1>8. ASSUME Good PROVE good
  <2>1. ok /\ Ahead /\ cut = 0
    BY <1>3, <1>8 DEF OnTrack, Good
  <2>2. rest \in Seq(FileLine) /\ Len(rest) = Len(L) /\ Len(rest) \in Nat
    <3>1. rest \in Seq(FileLine) /\ Taken + Len(rest) + cut = Len(L)
      BY <2>1 DEF Ahead, L
    <3> QED
      BY <1>5, <1>6, <2>1, <3>1
  <2>3. rest # << >> /\ ~eof
    BY <1>6, <2>1, <2>2 DEF Ahead
  <2>4. ASSUME Len(rest) = 1, ~newline PROVE FALSE
    <3>1. n # 0
      <4>1. survey # << >>
        BY <1>8, <2>4 DEF Good, EndsInText
      <4> QED
        BY <1>3, <4>1, EmptySeq DEF FileType, n
    <3>2. n \in 1 .. n
      BY <1>6, <3>1
    <3> DEFINE p == Starts(survey)
    <3>3. /\ p[n] = p[n - 1] + 2 + Len(survey[n].rList) /\ Len(survey[n].rList) \in Nat
          /\ p[n - 1] \in Nat /\ Len(L) = 1 + p[n]
      BY <1>3, <3>2, Lengths DEF n, L
    <3>4. Len(L) = 1
      BY <2>2, <2>4
    <3> DEFINE k == Len(survey[n].rList)
               b == p[n - 1]
    <3>5. k \in Nat /\ b \in Nat /\ 1 = 1 + (b + 2 + k)
      BY <3>3, <3>4
    <3> HIDE DEF k, b
    <3> QED
      BY <3>5
  <2> QED
    BY <2>1, <2>3, <2>4
<1> QED
  BY <1>2, <1>4, <1>7, <1>8 DEF FileInv

\* A text and a number behind it.
LEMMA QuestionNext ==
    LET t == getline(Stream)
        c == getCount(t.next)
        l == Tail(rest)
    IN /\ ~ok => c.next.ok = FALSE
       /\ ok /\ rest \in Seq(FileLine) =>
            IF ~eof /\ rest # << >> /\ l # << >> /\ ~(Len(l) = 1 /\ ~newline)
            THEN /\ t.val = Head(rest) /\ c.val = Head(l) /\ c.next.rest = Tail(l)
                 /\ c.next.ok = TRUE /\ c.next.eof = FALSE
            ELSE c.next.ok = FALSE
<1> DEFINE t == getline(Stream)
           c == getCount(t.next)
           l == Tail(rest)
           none == Len(rest) = 1 /\ ~newline /\ Head(rest) = ""
           first == ok /\ ~eof /\ rest # << >> /\ ~none
<1>1. IF first
      THEN /\ t.val = Head(rest)
           /\ t.next = [rest |-> l, ok |-> TRUE, eof |-> Len(rest) = 1 /\ ~newline]
      ELSE t.next = [rest |-> rest, ok |-> FALSE, eof |-> TRUE]
  BY GetlineHere
<1> HIDE DEF t
<1>2. ~first => c.next.ok = FALSE
  <2>1. ~first => t.next = [rest |-> rest, ok |-> FALSE, eof |-> TRUE]
    BY <1>1
  <2> QED
    BY <2>1, CountFails
<1>3. first =>
        IF ~(Len(rest) = 1 /\ ~newline) /\ l # << >> /\ ~(Len(l) = 1 /\ ~newline)
        THEN c.val = Head(l) /\ c.next.rest = Tail(l) /\ c.next.ok = TRUE /\ c.next.eof = FALSE
        ELSE c.next.ok = FALSE
  <2> DEFINE e == Len(rest) = 1 /\ ~newline
  <2>1. e \in BOOLEAN
    OBVIOUS
  <2>2. first => t.next = [rest |-> l, ok |-> TRUE, eof |-> e]
    BY <1>1
  <2> HIDE DEF e, first, l
  <2>3. first =>
          IF ~e /\ l # << >> /\ ~(Len(l) = 1 /\ ~newline)
          THEN c.val = Head(l) /\ c.next.rest = Tail(l) /\ c.next.ok = TRUE /\ c.next.eof = FALSE
          ELSE c.next.ok = FALSE
    <3> SUFFICES ASSUME first PROVE
          IF ~e /\ l # << >> /\ ~(Len(l) = 1 /\ ~newline)
          THEN c.val = Head(l) /\ c.next.rest = Tail(l) /\ c.next.ok = TRUE /\ c.next.eof = FALSE
          ELSE c.next.ok = FALSE
      OBVIOUS
    <3>1. c = getCount([rest |-> l, ok |-> TRUE, eof |-> e])
      BY <2>2
    <3> HIDE DEF c
    <3> QED
      BY <2>1, <3>1, CountOf
  <2> QED
    BY <2>3 DEF e
<1> HIDE DEF c
<1>4. ASSUME rest \in Seq(FileLine), rest # << >>, Len(rest) = 1 PROVE l = << >>
  <2>1. l \in Seq(FileLine) /\ Len(l) = 0
    BY <1>4, HeadTailProperties
  <2> QED
    BY <2>1, EmptySeq
<1> HIDE DEF l
<1>5. ~ok => c.next.ok = FALSE
  BY <1>2
<1>6. ASSUME ok, rest \in Seq(FileLine)
      PROVE  IF ~eof /\ rest # << >> /\ l # << >> /\ ~(Len(l) = 1 /\ ~newline)
             THEN /\ t.val = Head(rest) /\ c.val = Head(l) /\ c.next.rest = Tail(l)
                  /\ c.next.ok = TRUE /\ c.next.eof = FALSE
             ELSE c.next.ok = FALSE
  <2>1. CASE ~eof /\ rest # << >> /\ l # << >> /\ ~(Len(l) = 1 /\ ~newline)
    <3>1. Len(rest) # 1
      BY <1>4, <1>6, <2>1
    <3> QED
      BY <1>1, <1>3, <1>6, <2>1, <3>1
  <2>2. CASE ~(~eof /\ rest # << >> /\ l # << >> /\ ~(Len(l) = 1 /\ ~newline))
    BY <1>2, <1>3, <1>6, <2>2
  <2> QED
    BY <2>1, <2>2
<1> QED
  BY <1>5, <1>6 DEF c, t, l

LEMMA ReadQuestionInv == FileInv /\ ReadQuestion => FileInv'
<1> SUFFICES ASSUME FileInv, ReadQuestion PROVE FileInv'
  OBVIOUS
<1> DEFINE L == Lines(survey)
           n == Len(survey)
           t == getline(Stream)
           c == getCount(t.next)
           l == Tail(rest)
           b == Starts(survey)[q - 1]
           k == Len(survey[q].rList)
           both == ~eof /\ rest # << >> /\ l # << >> /\ ~(Len(l) = 1 /\ ~newline)
           item == [qText |-> t.val, rList |-> Empty(c.val, "")]
<1>1. /\ q \in DOMAIN qList /\ r = 0 /\ q' = q /\ r' = 1
      /\ survey' = survey /\ cut' = cut /\ newline' = newline
  BY DEF ReadQuestion
<1>2. /\ rest' = c.next.rest /\ ok' = c.next.ok /\ eof' = c.next.eof
      /\ qList' = [qList EXCEPT ![q] = item]
  BY DEF ReadQuestion, Goes
<1>3. FileType /\ (ok => OnTrack) /\ (Good => ok)
  BY DEF FileInv
<1>4. /\ ~ok => ok' = FALSE
      /\ ok /\ rest \in Seq(FileLine) =>
           IF both THEN /\ t.val = Head(rest) /\ c.val = Head(l) /\ rest' = Tail(l)
                        /\ ok' = TRUE /\ eof' = FALSE
           ELSE ok' = FALSE
  <2>1. /\ ~ok => c.next.ok = FALSE
        /\ ok /\ rest \in Seq(FileLine) =>
             IF both THEN /\ t.val = Head(rest) /\ c.val = Head(l) /\ c.next.rest = Tail(l)
                          /\ c.next.ok = TRUE /\ c.next.eof = FALSE
             ELSE c.next.ok = FALSE
    BY QuestionNext
  <2> HIDE DEF both, t, c, l
  <2> QED
    BY <1>2, <2>1
<1> HIDE DEF L, n, t, c, l, b, k, both, item
<1>5. ok' \in BOOLEAN /\ eof' \in BOOLEAN
  <2>1. c.next.eof \in BOOLEAN /\ c.next.ok \in BOOLEAN
    BY <1>3 DEF c, t, FileType, getline, getCount, Stream, CanRead, NothingLeft, Behind, Failed
  <2> QED
    BY <1>2, <2>1
<1>6. FileType' /\ Good' = Good
  BY <1>1, <1>3, <1>5 DEF FileType, Good
<1>7. n \in Nat /\ L \in Seq(FileLine) /\ cut \in Nat /\ survey \in Seq(Question)
  BY <1>3, Lengths DEF FileType, L, n
<1>8. ASSUME ok
      PROVE  /\ OnTrack /\ q \in 1 .. n /\ q # 0 /\ qList \in Seq(Question) /\ Len(qList) = n
             /\ \A j \in 1 .. q - 1 : qList[j] = survey[j]
             /\ b \in Nat /\ k \in Nat /\ Taken = b + 1 /\ Taken' = b + 3
             /\ L[b + 2] = survey[q].qText /\ L[b + 3] = k
             /\ Starts(survey)[q] = b + 2 + k
  <2>1. OnTrack /\ QuestionsRead
    BY <1>3, <1>8 DEF OnTrack
  <2>2. q # 0
    BY <1>1, <2>1 DEF QuestionsRead
  <2>3. qList \in Seq(Question) /\ Len(qList) = n /\ \A j \in 1 .. q - 1 : qList[j] = survey[j]
    BY <2>1, <2>2 DEF QuestionsRead, n
  <2>4. q \in 1 .. n
    BY <1>1, <2>3
  <2>5. /\ b \in Nat /\ k \in Nat /\ Starts(survey)[q] = b + 2 + k
        /\ L[b + 2] = survey[q].qText /\ L[b + 3] = k
    BY <1>3, <2>4, Lengths DEF b, k, L, n
  <2>6. Taken = b + 1
    <3>1. Taken = b + 1 + 0
      BY <1>1, <2>2 DEF Taken, b
    <3> QED
      BY <2>5, <3>1
  <2>7. Taken' = b + 3
    <3>1. Taken' = b + 1 + (1 + 1)
      BY <1>1, <2>2 DEF Taken, b
    <3> QED
      BY <2>5, <3>1
  <2> QED
    BY <2>1, <2>2, <2>3, <2>4, <2>5, <2>6, <2>7
<1>9. ASSUME ok
      PROVE  /\ rest \in Seq(FileLine) /\ Len(rest) \in Nat
             /\ (b + 1) + Len(rest) + cut = Len(L) /\ (eof => rest = << >>)
             /\ \A i \in 1 .. Len(rest) : rest[i] = L[(b + 1) + i]
  <2>1. Taken = b + 1 /\ Ahead
    BY <1>8, <1>9 DEF OnTrack
  <2> QED
    BY <2>1 DEF Ahead, L
<1>10. ASSUME ok, rest # << >>
       PROVE  /\ Head(rest) = L[(b + 1) + 1] /\ l \in Seq(FileLine) /\ Len(l) = Len(rest) - 1
              /\ \A i \in 1 .. Len(l) : l[i] = L[((b + 1) + 1) + i]
  <2>1. b + 1 \in Nat
    BY <1>8, <1>10
  <2> QED
    BY <1>7, <1>9, <1>10, <2>1, Further, ZenonT(30) DEF l
<1>11. ASSUME ok, rest # << >>, l # << >>
       PROVE  /\ Head(l) = L[((b + 1) + 1) + 1] /\ Tail(l) \in Seq(FileLine)
              /\ Len(Tail(l)) = Len(l) - 1
              /\ \A i \in 1 .. Len(Tail(l)) : Tail(l)[i] = L[(((b + 1) + 1) + 1) + i]
  <2>1. (b + 1) + 1 \in Nat
    BY <1>8, <1>11
  <2> QED
    BY <1>7, <1>10, <1>11, <2>1, Further, ZenonT(30)
<1>12. ASSUME ok' PROVE OnTrack'
  <2>1. /\ ok /\ both /\ rest # << >> /\ l # << >>
        /\ t.val = Head(rest) /\ c.val = Head(l) /\ rest' = Tail(l) /\ eof' = FALSE
    <3>1. ok /\ rest \in Seq(FileLine)
      BY <1>3, <1>4, <1>9, <1>12 DEF FileType
    <3> QED
      BY <1>4, <1>12, <3>1 DEF both
  <2>2. b \in Nat /\ (b + 1) + 1 = b + 2 /\ ((b + 1) + 1) + 1 = b + 3
    BY <1>8, <2>1
  <2>3. t.val = survey[q].qText /\ c.val = k
    BY <1>8, <1>10, <1>11, <2>1, <2>2
  <2>4. /\ rest' \in Seq(FileLine) /\ (b + 3) + Len(rest') + cut = Len(L)
        /\ \A i \in 1 .. Len(rest') : rest'[i] = L[(b + 3) + i]
    <3>1. /\ rest' \in Seq(FileLine) /\ Len(rest') = (Len(rest) - 1) - 1
          /\ \A i \in 1 .. Len(rest') : rest'[i] = L[(b + 3) + i]
      BY <1>10, <1>11, <2>1, <2>2
    <3>2. Len(rest) \in Nat /\ (b + 1) + Len(rest) + cut = Len(L)
      BY <1>9, <2>1
    <3>3. (b + 3) + Len(rest') + cut = Len(L)
      <4>1. cut \in Nat /\ b \in Nat /\ Len(rest') = (Len(rest) - 1) - 1
        BY <1>7, <2>2, <3>1
      <4> QED
        BY <3>2, <4>1
    <3> QED
      BY <3>1, <3>3
  <2>5. Ahead'
    BY <1>1, <1>8, <2>1, <2>4 DEF Ahead, L
  <2>6. item \in Question /\ item.qText = survey[q].qText /\ Len(item.rList) = k
    <3>1. survey[q] \in Question
      BY <1>7, <1>8, <2>1 DEF n
    <3>2. survey[q].qText \in Texts
      BY <3>1 DEF Question
    <3>3. k \in Nat
      BY <1>8, <2>1
    <3>4. Empty(k, "") \in Seq(Texts) /\ Len(Empty(k, "")) = k
      <4> DEFINE e == ""
      <4>1. e \in Texts
        BY TextsAssumption
      <4> HIDE DEF e
      <4>2. Empty(k, e) \in Seq(Texts) /\ Len(Empty(k, e)) = k
        BY <3>3, <4>1 DEF Empty
      <4> QED
        BY <4>2 DEF e
    <3>5. item = [qText |-> survey[q].qText, rList |-> Empty(k, "")]
      BY <2>3 DEF item
    <3> HIDE DEF item
    <3> QED
      BY <3>2, <3>4, <3>5 DEF Question
  <2>7. /\ qList' \in Seq(Question) /\ Len(qList') = n /\ qList'[q] = item
        /\ \A j \in 1 .. n : j # q => qList'[j] = qList[j]
    BY <1>2, <1>8, <2>1, <2>6, ExceptSeq
  <2>8. QuestionsRead'
    <3>1. ASSUME NEW j \in 1 .. q - 1 PROVE qList'[j] = survey[j]
      <4>1. q \in 1 .. n /\ n \in Nat
        BY <1>7, <1>8, <2>1
      <4>2. j \in 1 .. n /\ j # q
        BY <4>1
      <4>3. qList[j] = survey[j]
        BY <1>8, <2>1
      <4> QED
        BY <2>7, <4>2, <4>3
    <3> QED
      BY <1>1, <1>8, <2>1, <2>7, <3>1 DEF QuestionsRead, n
  <2>9. ResponsesRead'
    <3>1. 1 <= k + 1 /\ \A x \in 1 .. 1 - 1 : FALSE
      BY <1>8, <2>1
    <3> QED
      BY <1>1, <1>8, <2>1, <2>6, <2>7, <3>1 DEF ResponsesRead, n, k
  <2>10. q' \in 0 .. n + 1 /\ r' \in Nat /\ q' # 0
    BY <1>1, <1>7, <1>8, <2>1, SMTT(20)
  <2> QED
    BY <1>1, <2>5, <2>8, <2>9, <2>10 DEF OnTrack, n
<1>13. ASSUME Good PROVE ok'
  <2>1. ok /\ cut = 0
    BY <1>3, <1>13 DEF Good
  <2>2. Starts(survey)[q] <= Starts(survey)[n] /\ Len(L) = 1 + Starts(survey)[n]
        /\ Starts(survey)[n] \in Nat
    BY <1>3, <1>8, <2>1, Lengths DEF n, L
  <2>3. Len(rest) >= k + 2 /\ Len(rest) \in Nat /\ k \in Nat /\ b \in Nat
        /\ (b + 1) + Len(rest) = Len(L)
    BY <1>8, <1>9, <2>1, <2>2, SMTT(20)
  <2>4. rest # << >> /\ ~eof
    BY <1>9, <2>1, <2>3
  <2>5. Len(l) = Len(rest) - 1 /\ l # << >>
    BY <1>10, <2>1, <2>3, <2>4
  <2>6. ASSUME Len(l) = 1, ~newline PROVE FALSE
    <3>1. k = 0 /\ Starts(survey)[n] = Starts(survey)[q]
      <4> DEFINE e == Starts(survey)[n]
                 f == Starts(survey)[q]
      <4>1. e \in Nat /\ f = b + 2 + k /\ Len(L) = 1 + e
        BY <1>8, <2>1, <2>2
      <4>2. Len(rest) = 2
        <5> DEFINE x == Len(rest)
                   y == Len(l)
        <5>1. x \in Nat /\ y = x - 1 /\ y = 1
          BY <2>3, <2>5, <2>6
        <5> HIDE DEF x, y
        <5>2. x = 2
          BY <5>1
        <5> QED
          BY <5>2 DEF x
      <4> HIDE DEF e, f
      <4>3. k = 0
        BY <2>3, <4>2
      <4>4. e = f
        BY <2>3, <4>1, <4>2, <4>3
      <4> QED
        BY <4>3, <4>4 DEF e, f
    <3>2. CASE q = n
      <4>1. survey[n].rList # << >>
        BY <1>13, <2>6 DEF Good, EndsInText, Last, n
      <4>2. survey[n] \in Question
        BY <1>7, <1>8, <2>1, <3>2 DEF n
      <4>3. survey[n].rList \in Seq(Texts)
        BY <4>2 DEF Question
      <4> QED
        BY <3>1, <3>2, <4>1, <4>3, EmptySeq DEF k
    <3>3. CASE q # n
      <4>1. q + 1 \in 1 .. n /\ (q + 1) - 1 = q
        BY <1>7, <1>8, <2>1, <3>3, SMTT(20)
      <4>2. /\ Starts(survey)[q + 1] = Starts(survey)[(q + 1) - 1] + 2 + Len(survey[q + 1].rList)
            /\ Starts(survey)[q + 1] <= Starts(survey)[n]
            /\ Len(survey[q + 1].rList) \in Nat
        BY <1>3, <4>1, Lengths DEF n
      <4> DEFINE k2 == Len(survey[q + 1].rList)
                 e == Starts(survey)[n]
      <4>3. k2 \in Nat /\ e \in Nat /\ e + 2 + k2 <= e
        BY <2>2, <3>1, <4>1, <4>2
      <4> HIDE DEF k2, e
      <4> QED
        BY <4>3
    <3> QED
      BY <3>2, <3>3
  <2> QED
    BY <1>4, <1>9, <2>1, <2>4, <2>5, <2>6 DEF both
<1> QED
  BY <1>3, <1>6, <1>12, <1>13 DEF FileInv

\* The line of a response is there when the file must be accepted, and it is
\* then no empty line without a newline.
LEMMA ReadResponseInv == FileInv /\ ReadResponse => FileInv'
<1> SUFFICES ASSUME FileInv, ReadResponse PROVE FileInv'
  OBVIOUS
<1> DEFINE L == Lines(survey)
           n == Len(survey)
           t == getline(Stream)
           b == Starts(survey)[q - 1]
           k == Len(survey[q].rList)
           none == Len(rest) = 1 /\ ~newline /\ Head(rest) = ""
           there == ~eof /\ rest # << >> /\ ~none
           item == [qList[q] EXCEPT !.rList[r] = t.val]
<1>1. /\ q \in DOMAIN qList /\ r \in DOMAIN qList[q].rList /\ q' = q /\ r' = r + 1
      /\ survey' = survey /\ cut' = cut /\ newline' = newline
  BY DEF ReadResponse
<1>2. /\ rest' = t.next.rest /\ ok' = t.next.ok /\ eof' = t.next.eof
      /\ qList' = [qList EXCEPT ![q] = item]
  <2>1. /\ rest' = t.next.rest /\ ok' = t.next.ok /\ eof' = t.next.eof
        /\ qList' = [qList EXCEPT ![q].rList[r] = t.val]
    BY DEF ReadResponse, Goes
  <2> HIDE DEF t
  <2> QED
    BY <2>1 DEF item
<1>3. FileType /\ (ok => OnTrack) /\ (Good => ok)
  BY DEF FileInv
<1>4. /\ ok /\ there => t.val = Head(rest) /\ rest' = Tail(rest) /\ ok' = TRUE
                        /\ eof' = (Len(rest) = 1 /\ ~newline)
      /\ ~(ok /\ there) => ok' = FALSE /\ eof' = TRUE
  <2>1. IF ok /\ there
        THEN /\ t.val = Head(rest)
             /\ t.next = [rest |-> Tail(rest), ok |-> TRUE, eof |-> Len(rest) = 1 /\ ~newline]
        ELSE t.next = [rest |-> rest, ok |-> FALSE, eof |-> TRUE]
    BY GetlineHere
  <2> HIDE DEF there, t
  <2> QED
    BY <1>2, <2>1
<1> HIDE DEF L, n, t, b, k, none, there, item
<1>5. ok' \in BOOLEAN /\ eof' \in BOOLEAN
  BY <1>4
<1>6. FileType' /\ Good' = Good
  BY <1>1, <1>3, <1>5 DEF FileType, Good
<1>7. n \in Nat /\ L \in Seq(FileLine) /\ cut \in Nat /\ survey \in Seq(Question)
  BY <1>3, Lengths DEF FileType, L, n
<1>8. ASSUME ok
      PROVE  /\ OnTrack /\ q \in 1 .. n /\ q # 0 /\ qList \in Seq(Question) /\ Len(qList) = n
             /\ \A j \in 1 .. q - 1 : qList[j] = survey[j]
             /\ b \in Nat /\ k \in Nat /\ r \in 1 .. k
             /\ L[b + 3 + r] = survey[q].rList[r] /\ survey[q].rList[r] \in Texts
             /\ Starts(survey)[q] = b + 2 + k
  <2>1. OnTrack /\ QuestionsRead /\ ResponsesRead /\ r \in Nat
    BY <1>3, <1>8 DEF OnTrack
  <2>2. q # 0
    BY <1>1, <2>1 DEF QuestionsRead
  <2>3. qList \in Seq(Question) /\ Len(qList) = n /\ \A j \in 1 .. q - 1 : qList[j] = survey[j]
    BY <2>1, <2>2 DEF QuestionsRead, n
  <2>4. q \in 1 .. n
    BY <1>1, <2>3
  <2>5. /\ b \in Nat /\ k \in Nat /\ Starts(survey)[q] = b + 2 + k
        /\ \A x \in 1 .. k : L[b + 3 + x] = survey[q].rList[x]
    BY <1>3, <2>4, Lengths DEF b, k, L, n
  <2>6. qList[q].rList \in Seq(Texts) /\ survey[q].rList \in Seq(Texts)
    <3>1. qList[q] \in Question /\ survey[q] \in Question
      BY <1>7, <2>3, <2>4 DEF n
    <3> QED
      BY <3>1 DEF Question
  <2>7. r > 0
    BY <1>1, <2>6
  <2>8. Len(qList[q].rList) = k
    BY <2>1, <2>7 DEF ResponsesRead, k
  <2>9. r \in 1 .. k
    BY <1>1, <2>6, <2>8
  <2>10. survey[q].rList[r] \in Texts
    BY <2>6, <2>9 DEF k
  <2> QED
    BY <2>1, <2>2, <2>3, <2>4, <2>5, <2>9, <2>10
<1>9. ASSUME ok
      PROVE  Taken = b + 2 + r /\ Taken' = (b + 2 + r) + 1 /\ b + 2 + r \in Nat
             /\ (b + 2 + r) + 1 = b + 3 + r
  <2>1. b \in Nat /\ r \in Nat /\ r # 0 /\ r + 1 # 0 /\ q # 0
    BY <1>8, <1>9
  <2>2. Taken = b + 1 + (r + 1)
    BY <2>1 DEF Taken, b
  <2>3. Taken' = b + 1 + ((r + 1) + 1)
    BY <1>1, <2>1 DEF Taken, b
  <2> QED
    BY <2>1, <2>2, <2>3
<1>10. ASSUME ok
       PROVE  /\ rest \in Seq(FileLine) /\ Len(rest) \in Nat
              /\ (b + 2 + r) + Len(rest) + cut = Len(L) /\ (eof => rest = << >>)
              /\ \A i \in 1 .. Len(rest) : rest[i] = L[(b + 2 + r) + i]
  <2>1. Taken = b + 2 + r /\ Ahead
    BY <1>8, <1>9, <1>10 DEF OnTrack
  <2> QED
    BY <2>1 DEF Ahead, L
<1>11. ASSUME ok, rest # << >>
       PROVE  /\ Head(rest) = survey[q].rList[r]
              /\ Tail(rest) \in Seq(FileLine) /\ Len(Tail(rest)) = Len(rest) - 1
              /\ \A i \in 1 .. Len(Tail(rest)) : Tail(rest)[i] = L[((b + 2 + r) + 1) + i]
  <2>1. /\ Head(rest) = L[(b + 2 + r) + 1]
        /\ Tail(rest) \in Seq(FileLine) /\ Len(Tail(rest)) = Len(rest) - 1
        /\ \A i \in 1 .. Len(Tail(rest)) : Tail(rest)[i] = L[((b + 2 + r) + 1) + i]
    BY <1>7, <1>9, <1>10, <1>11, Further, ZenonT(30)
  <2> QED
    BY <1>8, <1>9, <1>11, <2>1
<1>12. ASSUME ok' PROVE OnTrack'
  <2>1. /\ ok /\ rest # << >> /\ t.val = Head(rest) /\ rest' = Tail(rest)
        /\ eof' = (Len(rest) = 1 /\ ~newline)
    BY <1>4, <1>12 DEF there
  <2>2. t.val = survey[q].rList[r] /\ t.val \in Texts
    BY <1>8, <1>11, <2>1
  <2>3. Ahead'
    <3>1. /\ rest' \in Seq(FileLine) /\ Len(rest') = Len(rest) - 1
          /\ \A i \in 1 .. Len(rest') : rest'[i] = L[Taken' + i]
      BY <1>9, <1>11, <2>1
    <3>2. Taken' + Len(rest') + cut = Len(L)
      <4>1. /\ Len(rest) \in Nat /\ (b + 2 + r) + Len(rest) + cut = Len(L)
            /\ Taken' = (b + 2 + r) + 1 /\ b + 2 + r \in Nat /\ cut \in Nat
        BY <1>7, <1>9, <1>10, <2>1
      <4> QED
        BY <3>1, <4>1, SMTT(20)
    <3>3. eof' => rest' = << >>
      <4>1. eof' => Len(rest) = 1
        BY <2>1
      <4>2. Len(rest) = 1 => Len(rest') = 0
        BY <3>1
      <4>3. Len(rest') = 0 => rest' = << >>
        BY <3>1, EmptySeq
      <4> QED
        BY <4>1, <4>2, <4>3
    <3> QED
      BY <1>1, <3>1, <3>2, <3>3 DEF Ahead, L
  <2>4. /\ qList[q] \in Question /\ qList[q].qText = survey[q].qText
        /\ Len(qList[q].rList) = k
        /\ \A x \in 1 .. r - 1 : qList[q].rList[x] = survey[q].rList[x]
    <3>1. ResponsesRead /\ r > 0 /\ qList[q] \in Question
      BY <1>8, <2>1 DEF OnTrack
    <3> QED
      BY <3>1 DEF ResponsesRead, k
  <2>5. /\ item \in Question /\ item.qText = survey[q].qText /\ Len(item.rList) = k
        /\ item.rList[r] = survey[q].rList[r]
        /\ \A x \in 1 .. k : x # r => item.rList[x] = qList[q].rList[x]
    <3> DEFINE old == qList[q].rList
               new == [old EXCEPT ![r] = t.val]
    <3>1. old \in Seq(Texts) /\ qList[q].qText \in Texts
      BY <2>4 DEF Question
    <3>2. r \in 1 .. Len(old)
      BY <1>8, <2>1, <2>4
    <3>3. item = [qText |-> qList[q].qText, rList |-> new]
      BY <2>4 DEF item, Question
    <3> HIDE DEF old
    <3>4. /\ new \in Seq(Texts) /\ Len(new) = Len(old) /\ new[r] = t.val
          /\ \A x \in 1 .. Len(old) : x # r => new[x] = old[x]
      BY <2>2, <3>1, <3>2, ExceptSeq
    <3> HIDE DEF new, item
    <3> QED
      BY <2>2, <2>4, <3>1, <3>3, <3>4 DEF Question, old
  <2>6. /\ qList' \in Seq(Question) /\ Len(qList') = n /\ qList'[q] = item
        /\ \A j \in 1 .. n : j # q => qList'[j] = qList[j]
    BY <1>2, <1>8, <2>1, <2>5, ExceptSeq
  <2>7. QuestionsRead'
    <3>1. ASSUME NEW j \in 1 .. q - 1 PROVE qList'[j] = survey[j]
      <4>1. q \in 1 .. n /\ n \in Nat
        BY <1>7, <1>8, <2>1
      <4>2. j \in 1 .. n /\ j # q
        BY <4>1
      <4>3. qList[j] = survey[j]
        BY <1>8, <2>1
      <4> QED
        BY <2>6, <4>2, <4>3
    <3> QED
      BY <1>1, <1>8, <2>1, <2>6, <3>1 DEF QuestionsRead, n
  <2>8. ResponsesRead'
    <3>1. k \in Nat /\ r \in 1 .. k
      BY <1>8, <2>1
    <3>2. ASSUME NEW x \in 1 .. (r + 1) - 1 PROVE item.rList[x] = survey[q].rList[x]
      <4>1. CASE x = r
        BY <2>5, <4>1
      <4>2. CASE x # r
        <5>1. x \in 1 .. k /\ x \in 1 .. r - 1
          BY <3>1, <4>2
        <5> QED
          BY <2>4, <2>5, <4>2, <5>1
      <4> QED
        BY <4>1, <4>2
    <3>3. r + 1 <= k + 1
      BY <3>1
    <3> QED
      BY <1>1, <1>8, <2>1, <2>5, <2>6, <3>2, <3>3 DEF ResponsesRead, n, k
  <2>9. q' \in 0 .. n + 1 /\ r' \in Nat /\ q' # 0
    <3>1. n \in Nat /\ q \in 1 .. n /\ r \in 1 .. k /\ k \in Nat
      BY <1>7, <1>8, <2>1
    <3>2. q \in 0 .. n + 1 /\ r + 1 \in Nat
      BY <3>1
    <3> QED
      BY <1>1, <3>1, <3>2
  <2> QED
    BY <1>1, <2>3, <2>7, <2>8, <2>9 DEF OnTrack, n
<1>13. ASSUME Good PROVE ok'
  <2>1. ok /\ cut = 0
    BY <1>3, <1>13 DEF Good
  <2> DEFINE e == Starts(survey)[n]
             f == Starts(survey)[q]
             x == Len(rest)
  <2>2. /\ f <= e /\ Len(L) = 1 + e /\ e \in Nat /\ f = b + 2 + k
        /\ b \in Nat /\ k \in Nat /\ r \in 1 .. k /\ x \in Nat
    BY <1>3, <1>8, <1>10, <2>1, Lengths DEF n, L
  <2>3. (b + 2 + r) + x = 1 + e
    <3>1. (b + 2 + r) + x + 0 = Len(L) /\ b + 2 + r \in Nat
      BY <1>9, <1>10, <2>1
    <3> HIDE DEF e, f, x
    <3> QED
      BY <2>2, <3>1
  <2>4. x >= 1 /\ (x = 1 => r = k /\ e = f)
    <3> HIDE DEF e, f, x
    <3> QED
      BY <2>2, <2>3
  <2>5. rest # << >> /\ ~eof
    BY <1>10, <2>1, <2>4
  <2>6. ASSUME none PROVE FALSE
    <3>1. r = k /\ e = f
      BY <2>4, <2>6 DEF none
    <3>2. CASE q = n
      <4>1. Last(Last(survey).rList) # ""
        BY <1>13, <2>6 DEF Good, EndsInText, none
      <4>2. Last(survey) = survey[q]
        BY <3>2 DEF Last, n
      <4>3. Last(survey[q].rList) = survey[q].rList[r]
        BY <3>1 DEF Last, k
      <4>4. survey[q].rList[r] = ""
        BY <1>11, <2>1, <2>5, <2>6 DEF none
      <4> QED
        BY <4>1, <4>2, <4>3, <4>4
    <3>3. CASE q # n
      <4>1. q + 1 \in 1 .. n /\ (q + 1) - 1 = q
        BY <1>7, <1>8, <2>1, <3>3, SMTT(20)
      <4> DEFINE k2 == Len(survey[q + 1].rList)
                 g == Starts(survey)[q + 1]
      <4>2. g = f + 2 + k2 /\ g <= e /\ k2 \in Nat /\ e \in Nat
        BY <1>3, <4>1, Lengths DEF n
      <4> HIDE DEF k2, e, f, g
      <4> QED
        BY <3>1, <4>2
    <3> QED
      BY <3>2, <3>3
  <2> QED
    BY <1>4, <2>1, <2>5, <2>6 DEF there
<1> QED
  BY <1>3, <1>6, <1>12, <1>13 DEF FileInv

\* A question whose responses have all been read is the one that was written.
LEMMA NextQuestionInv == FileInv /\ NextQuestion => FileInv'
<1> SUFFICES ASSUME FileInv, NextQuestion PROVE FileInv'
  OBVIOUS
<1> DEFINE n == Len(survey)
           b == Starts(survey)[q - 1]
           k == Len(survey[q].rList)
<1>1. /\ q \in DOMAIN qList /\ r > Len(qList[q].rList) /\ q' = q + 1 /\ r' = 0
      /\ survey' = survey /\ cut' = cut /\ newline' = newline
      /\ rest' = rest /\ ok' = ok /\ eof' = eof /\ qList' = qList
  BY DEF NextQuestion
<1>2. FileType /\ (ok => OnTrack) /\ (Good => ok)
  BY DEF FileInv
<1>3. FileType' /\ Good' = Good
  BY <1>1, <1>2 DEF FileType, Good
<1>4. ASSUME ok PROVE OnTrack'
  <2>1. OnTrack /\ QuestionsRead /\ ResponsesRead /\ Ahead /\ r \in Nat
    BY <1>2, <1>4 DEF OnTrack
  <2>2. q # 0
    BY <1>1, <2>1 DEF QuestionsRead
  <2>3. qList \in Seq(Question) /\ Len(qList) = n /\ \A j \in 1 .. q - 1 : qList[j] = survey[j]
    BY <2>1, <2>2 DEF QuestionsRead
  <2>4. q \in 1 .. n /\ n \in Nat /\ survey \in Seq(Question)
    BY <1>1, <1>2, <2>3 DEF FileType
  <2>5. /\ qList[q] \in Question /\ survey[q] \in Question
        /\ qList[q].rList \in Seq(Texts) /\ survey[q].rList \in Seq(Texts)
    <3>1. qList[q] \in Question /\ survey[q] \in Question
      BY <2>3, <2>4
    <3> QED
      BY <3>1 DEF Question
  <2>6. r > 0
    BY <1>1, <2>1, <2>5
  <2>7. /\ r <= k + 1 /\ qList[q].qText = survey[q].qText /\ Len(qList[q].rList) = k
        /\ \A x \in 1 .. r - 1 : qList[q].rList[x] = survey[q].rList[x]
    BY <2>1, <2>6 DEF ResponsesRead
  <2>8. r = k + 1 /\ k \in Nat
    <3>1. k \in Nat
      BY <2>5
    <3> HIDE DEF k
    <3> QED
      BY <1>1, <2>1, <2>7, <3>1
  <2>9. qList[q] = survey[q]
    <3>1. \A x \in 1 .. k : qList[q].rList[x] = survey[q].rList[x]
      <4> HIDE DEF k
      <4>1. r - 1 = k
        BY <2>8
      <4> QED
        BY <2>7, <4>1
    <3>2. qList[q].rList = survey[q].rList
      BY <2>5, <2>7, <3>1, SeqEqual
    <3> QED
      BY <2>5, <2>7, <3>2 DEF Question
  <2>10. Taken' = Taken
    <3>1. b \in Nat /\ Starts(survey)[q] = b + 2 + k
      BY <1>2, <2>4, Lengths
    <3>2. Taken = b + 1 + (r + 1)
      BY <2>2, <2>6 DEF Taken
    <3>3. Taken' = Starts(survey)[(q + 1) - 1] + 1 + 0
      <4>1. q + 1 # 0
        BY <2>4
      <4> QED
        BY <1>1, <4>1 DEF Taken
    <3>4. (q + 1) - 1 = q
      BY <2>4
    <3> HIDE DEF b, k
    <3> QED
      BY <2>8, <3>1, <3>2, <3>3, <3>4
  <2>11. Ahead'
    BY <1>1, <2>1, <2>10 DEF Ahead
  <2>12. QuestionsRead'
    <3>1. ASSUME NEW j \in 1 .. (q + 1) - 1 PROVE qList[j] = survey[j]
      <4>1. j = q \/ j \in 1 .. q - 1
        BY <2>4
      <4> QED
        BY <2>3, <2>9, <4>1
    <3>2. q + 1 # 0
      BY <2>4
    <3> QED
      BY <1>1, <2>3, <3>1, <3>2 DEF QuestionsRead
  <2>13. ResponsesRead'
    <3>1. ~(r' > 0)
      BY <1>1
    <3> QED
      BY <3>1 DEF ResponsesRead
  <2>14. q' \in 0 .. n + 1 /\ r' \in Nat /\ q' # 0
    BY <1>1, <2>4
  <2> QED
    BY <1>1, <2>11, <2>12, <2>13, <2>14 DEF OnTrack
<1> QED
  BY <1>1, <1>2, <1>3, <1>4 DEF FileInv

LEMMA FileNextInv == FileInv /\ [FileNext]_fileVars => FileInv'
<1> SUFFICES ASSUME FileInv, [FileNext]_fileVars PROVE FileInv'
  OBVIOUS
<1>1. CASE Start
  BY <1>1, StartInv
<1>2. CASE ReadQuestion
  BY <1>2, ReadQuestionInv
<1>3. CASE ReadResponse
  BY <1>3, ReadResponseInv
<1>4. CASE NextQuestion
  BY <1>4, NextQuestionInv
<1>5. CASE UNCHANGED fileVars
  <2>1. Taken' = Taken
    BY <1>5 DEF fileVars, Taken
  <2>2. Ahead' = Ahead
    BY <1>5, <2>1 DEF fileVars, Ahead
  <2> QED
    BY <1>5, <2>2 DEF fileVars, FileInv, FileType, OnTrack, QuestionsRead, ResponsesRead, Good
<1> QED
  BY <1>1, <1>2, <1>3, <1>4, <1>5 DEF FileNext

\* All the lines of the survey have been read when readSurvey returns.
LEMMA Accepted == FileInv => TrueIfWhole
<1> SUFFICES ASSUME FileInv, Returned PROVE
      (ok => cut = 0 /\ qList = survey) /\ (Good => ok)
  BY DEF TrueIfWhole, Good
<1> DEFINE n == Len(survey)
           L == Lines(survey)
<1>1. FileType /\ (ok => OnTrack) /\ (Good => ok)
  BY DEF FileInv
<1>2. ASSUME ok PROVE cut = 0 /\ qList = survey
  <2>1. OnTrack /\ QuestionsRead /\ ResponsesRead /\ Ahead /\ r \in Nat /\ q \in 0 .. n + 1
    BY <1>1, <1>2 DEF OnTrack
  <2>2. q > Len(qList) /\ q > 0
    BY DEF Returned
  <2>3. qList \in Seq(Question) /\ Len(qList) = n /\ \A j \in 1 .. q - 1 : qList[j] = survey[j]
    BY <2>1, <2>2 DEF QuestionsRead
  <2>4. n \in Nat /\ survey \in Seq(Question)
    BY <1>1 DEF FileType
  <2>5. q = n + 1 /\ q - 1 = n
    <3> HIDE DEF n
    <3> QED
      BY <2>1, <2>2, <2>3, <2>4
  <2>6. r = 0
    <3>1. ~(r > 0)
      <4>1. r > 0 => q \in 1 .. n
        BY <2>1 DEF ResponsesRead
      <4> HIDE DEF n
      <4> QED
        BY <2>4, <2>5, <4>1
    <3> QED
      BY <2>1, <3>1
  <2>7. Taken = Starts(survey)[n] + 1 + 0 /\ Starts(survey)[n] \in Nat
        /\ Len(L) = 1 + Starts(survey)[n]
    BY <1>1, <2>2, <2>5, <2>6, Lengths DEF Taken
  <2>8. cut = 0
    <3> DEFINE e == Starts(survey)[n]
               x == Len(rest)
    <3>1. x \in Nat /\ (e + 1 + 0) + x + cut = 1 + e /\ e \in Nat /\ cut \in Nat
      BY <1>1, <2>1, <2>7 DEF Ahead, FileType
    <3> HIDE DEF e, x
    <3> QED
      BY <3>1
  <2>9. qList = survey
    <3>1. \A j \in 1 .. n : qList[j] = survey[j]
      BY <2>3, <2>5
    <3> QED
      BY <2>3, <2>4, <3>1, SeqEqual
  <2> QED
    BY <2>8, <2>9
<1> QED
  BY <1>1, <1>2

\* readSurvey returns true with the survey that was written and with no other,
\* for every survey and wherever its file is cut; it returns true for a file
\* that is whole unless its last line is empty or a number and has lost its
\* newline.
THEOREM SurveyWhole == FileSpec => []TrueIfWhole
<1>1. FileInit => FileInv
  BY FileInitInv
<1>2. FileInv /\ [FileNext]_fileVars => FileInv'
  BY FileNextInv
<1>3. FileInv => TrueIfWhole
  BY Accepted
<1> QED
  BY <1>1, <1>2, <1>3, PTL DEF FileSpec

(***************************************************************************)
(* Codec.                                                                  *)
(***************************************************************************)

-----------------------------------------------------------------------------
(* Bytes at a place, and the ints among them.                              *)

\* The bytes x are in b from place p on.
Held(b, p, x) ==
    /\ p - 1 + Len(x) <= Len(b)
    /\ \A j \in 1 .. Len(x) : b[p - 1 + j] = x[j]

\* A Java int, or a C++ int, is a number.
LEMMA SmallInt == \A n \in Int32 : n \in Int
<1>1. 2^30 \in Int
  OBVIOUS
<1> QED
  BY <1>1 DEF Int32

\* The whole of b is at its place 1.
LEMMA HeldSelf == ASSUME NEW S, NEW b \in Seq(S) PROVE Held(b, 1, b)
BY DEF Held

\* What consists of two parts holds each at its place.
LEMMA HeldParts ==
    ASSUME NEW S, NEW b, NEW p \in Nat \ {0}, NEW x \in Seq(S), NEW y \in Seq(S),
           Held(b, p, x \o y), Len(b) \in Nat
    PROVE  Held(b, p, x) /\ Held(b, p + Len(x), y)
<1> DEFINE z == x \o y
<1>1. /\ Len(z) = Len(x) + Len(y)
      /\ \A j \in 1 .. Len(x) : z[j] = x[j]
      /\ \A j \in 1 .. Len(y) : z[Len(x) + j] = y[j]
      /\ Len(x) \in Nat /\ Len(y) \in Nat
  OBVIOUS
<1>2. p - 1 + Len(z) <= Len(b) /\ \A j \in 1 .. Len(z) : b[p - 1 + j] = z[j]
  BY DEF Held
<1> HIDE DEF z
<1>3. Held(b, p, x)
  <2>1. p - 1 + Len(x) <= Len(b)
    BY <1>1, <1>2
  <2>2. ASSUME NEW j \in 1 .. Len(x) PROVE b[p - 1 + j] = x[j]
    BY <1>1, <1>2
  <2> QED
    BY <2>1, <2>2 DEF Held
<1>4. Held(b, p + Len(x), y)
  <2>1. p + Len(x) - 1 + Len(y) <= Len(b)
    BY <1>1, <1>2
  <2>2. ASSUME NEW j \in 1 .. Len(y) PROVE b[p + Len(x) - 1 + j] = y[j]
    <3>1. Len(x) + j \in 1 .. Len(z) /\ p + Len(x) - 1 + j = p - 1 + (Len(x) + j)
      BY <1>1
    <3>2. b[p - 1 + (Len(x) + j)] = z[Len(x) + j]
      BY <1>2, <3>1
    <3> QED
      BY <1>1, <3>1, <3>2
  <2> QED
    BY <2>1, <2>2 DEF Held
<1> QED
  BY <1>3, <1>4

\* Cutting out the place gives what is there.
LEMMA HeldIs ==
    ASSUME NEW S, NEW b \in Seq(S), NEW p \in Nat \ {0}, NEW x \in Seq(S), Held(b, p, x)
    PROVE  SubSeq(b, p, p - 1 + Len(x)) = x
<1> DEFINE y == SubSeq(b, p, p - 1 + Len(x))
<1>1. Len(x) \in Nat /\ Len(b) \in Nat /\ p - 1 + Len(x) <= Len(b)
  BY DEF Held
<1>2. y \in Seq(S) /\ Len(y) = Len(x) /\ \A j \in 1 .. Len(x) : y[j] = b[p - 1 + j]
  <2>1. p - 1 + Len(x) \in Int /\ \A i \in p .. p - 1 + Len(x) : b[i] \in S
    BY <1>1
  <2>2. Len(y) = IF p <= p - 1 + Len(x) THEN p - 1 + Len(x) - p + 1 ELSE 0
    BY <2>1, <1>1, SubSeqProperties
  <2>3. y \in Seq(S)
    BY <2>1, <1>1, SubSeqProperties
  <2>4. \A j \in 1 .. Len(x) : y[j] = b[p + j - 1]
    BY <2>1, <1>1, SubSeqProperties, SMTT(20)
  <2> HIDE DEF y
  <2>5. \A j \in 1 .. Len(x) : p + j - 1 = p - 1 + j
    OBVIOUS
  <2>6. Len(y) = Len(x)
    BY <1>1, <2>2
  <2> QED
    BY <2>3, <2>4, <2>5, <2>6
<1>3. \A j \in 1 .. Len(x) : y[j] = x[j]
  BY <1>2 DEF Held
<1> HIDE DEF y
<1>4. y = x
  BY <1>2, <1>3, SeqEqual
<1> QED
  BY <1>4 DEF y

\* The division of encodeInt.
LEMMA Divided == ASSUME NEW k \in Int PROVE k = 256 * (k \div 256) + (k % 256)
BY SMTT(20)

\* encodeInt makes four bytes ...
LEMMA IntBytes ==
    ASSUME NEW n \in Int
    PROVE  encodeInt(n) \in Seq(Byte) /\ Len(encodeInt(n)) = INT_SIZE
<1> DEFINE a == n \div 256
           c == a \div 256
           d == c \div 256
<1>1. a \in Int /\ c \in Int /\ d \in Int
  <2>1. a \in Int
    OBVIOUS
  <2> HIDE DEF a
  <2>2. c \in Int
    BY <2>1
  <2> HIDE DEF c
  <2> QED
    BY <2>1, <2>2
<1>2. encodeInt(n) = <<d % 256, c % 256, a % 256, n % 256>>
  BY DEF encodeInt
<1> HIDE DEF a, c, d
<1>3. n % 256 \in Byte /\ a % 256 \in Byte /\ c % 256 \in Byte /\ d % 256 \in Byte
  BY <1>1 DEF Byte
<1> QED
  BY <1>2, <1>3 DEF INT_SIZE

\* ... from which decodeInt gets every int back, the negative ones too, whose
\* highest bit it takes off and puts back by hand.
LEMMA IntBack ==
    ASSUME NEW n \in Int32, NEW b, NEW p \in Nat \ {0}, Held(b, p, encodeInt(n))
    PROVE  IntAt(b, p) = n
<1> DEFINE a == n \div 256
           c == a \div 256
           d == c \div 256
<1>1. n \in Int /\ a \in Int /\ c \in Int /\ d \in Int
  <2>1. n \in Int /\ a \in Int
    BY DEF Int32
  <2> HIDE DEF a
  <2>2. c \in Int
    BY <2>1
  <2> HIDE DEF c
  <2> QED
    BY <2>1, <2>2
<1>2. encodeInt(n) = <<d % 256, c % 256, a % 256, n % 256>>
  BY DEF encodeInt
<1> HIDE DEF a, c, d
<1>3. b[p] = d % 256 /\ b[p + 1] = c % 256 /\ b[p + 2] = a % 256 /\ b[p + 3] = n % 256
  <2> DEFINE x == encodeInt(n)
  <2>1. Len(x) = 4 /\ x[1] = d % 256 /\ x[2] = c % 256 /\ x[3] = a % 256 /\ x[4] = n % 256
    BY <1>2
  <2>2. \A j \in 1 .. 4 : b[p - 1 + j] = x[j]
    BY <2>1 DEF Held
  <2>3. b[p - 1 + 1] = x[1] /\ b[p - 1 + 2] = x[2] /\ b[p - 1 + 3] = x[3] /\ b[p - 1 + 4] = x[4]
    BY <2>2
  <2>4. p - 1 + 1 = p /\ p - 1 + 2 = p + 1 /\ p - 1 + 3 = p + 2 /\ p - 1 + 4 = p + 3
    OBVIOUS
  <2> HIDE DEF x
  <2> QED
    BY <2>1, <2>3, <2>4
<1> DEFINE r1 == n % 256
           r2 == a % 256
           r3 == c % 256
<1>4. /\ r1 \in Byte /\ r2 \in Byte /\ r3 \in Byte
      /\ b[p] = d % 256 /\ b[p + 1] = r3 /\ b[p + 2] = r2 /\ b[p + 3] = r1
  <2>1. r1 \in Byte /\ r2 \in Byte /\ r3 \in Byte
    BY <1>1 DEF Byte
  <2> QED
    BY <1>3, <2>1
<1>5. n = 256 * a + r1 /\ a = 256 * c + r2 /\ c = 256 * d + r3
  <2>1. ASSUME NEW k \in Int PROVE k = 256 * (k \div 256) + (k % 256)
    BY Divided
  <2>2. a = n \div 256 /\ c = a \div 256 /\ d = c \div 256
    BY DEF a, c, d
  <2> QED
    BY <1>1, <2>1, <2>2
<1> HIDE DEF r1, r2, r3
<1>6. -128 <= d /\ d <= 127
  <2>1. -2147483648 <= n /\ n <= 2147483647
    BY SMTT(20) DEF Int32
  <2>2. -8388608 <= a /\ a <= 8388607
    BY <1>1, <1>4, <1>5, <2>1, SMTT(20) DEF Byte
  <2>3. -32768 <= c /\ c <= 32767
    BY <1>1, <1>4, <1>5, <2>2, SMTT(20) DEF Byte
  <2> QED
    BY <1>1, <1>4, <1>5, <2>3, SMTT(20) DEF Byte
<1>7. CASE d >= 0
  <2>1. d % 256 = d /\ d % 128 = d /\ d < 128
    BY <1>1, <1>6, <1>7
  <2>2. ((d * 256 + r3) * 256 + r2) * 256 + r1 = n
    BY <1>1, <1>4, <1>5
  <2> QED
    BY <1>4, <1>5, <2>1, <2>2, SMTT(20) DEF IntAt
<1>8. CASE d < 0
  <2>1. d % 256 = d + 256 /\ (d + 256) % 128 = d + 128 /\ ~(d + 256 < 128)
    BY <1>1, <1>6, <1>8
  <2> DEFINE low == (((d + 128) * 256 + r3) * 256 + r2) * 256 + r1
  <2>2. low = n + 2147483648
    BY <1>1, <1>4, <1>5, SMTT(20) DEF Byte
  <2>3. low - 2^30 - 2^30 = n
    <3>1. 2^30 = 1073741824 /\ n \in Int
      BY <1>1, SMTT(20)
    <3> HIDE DEF low
    <3> QED
      BY <2>2, <3>1, SMTT(20)
  <2>4. IntAt(b, p) = low - 2^30 - 2^30
    BY <1>4, <1>5, <2>1, SMTT(20) DEF IntAt
  <2> QED
    BY <2>3, <2>4
<1> QED
  BY <1>1, <1>7, <1>8

-----------------------------------------------------------------------------
(* One field.                                                              *)

\* The kinds of field in the formats.
Kind == {"string", "name", "int", "count", "long", "time", "length", "challenge",
         "nonce", "key", "ack"}

\* So many bytes.
Octets(n) == {s \in Seq(Byte) : Len(s) = n}

\* The values of the fields that the constructor for a kind takes.
Values(kind) ==
    CASE kind = "string" -> {s \in Seq(Byte) : Len(s) \in Int32}
      [] kind = "name"   -> {s \in Seq(Byte) : Len(s) \in Int32 /\ validUsername(s)}
      [] kind = "int"    -> Int32
      [] kind = "count"  -> {n \in Int32 : n >= 0}
      [] kind = "time"   -> {s \in Octets(LONG_SIZE) : s[1] < 128}
      [] kind = "length" -> {s \in Octets(LONG_SIZE) : validMsgLen(s)}
      [] kind \in {"long", "nonce"} -> Octets(LONG_SIZE)
      [] kind = "challenge" -> Octets(CHALLENGE_LENGTH)
      [] kind = "key"    -> {s \in Seq(Byte) : /\ s # << >> /\ setKey(s[1], Tail(s))
                                               /\ s[1] = 0 => Len(s) = 1}
      [] kind = "ack"    -> {<<e, f>> : e \in SUCCESS .. PASSWORD_AUTH, f \in {SERVER, CLIENT}}

\* How they are written.
Wire(v, kind) ==
    CASE kind \in {"string", "name"} -> encodeString(v)
      [] kind \in {"int", "count"}   -> encodeInt(v)
      [] kind = "ack"                -> <<v[1] * 2 + v[2]>>
      [] OTHER                       -> v

\* A string.
LEMMA StringBack ==
    ASSUME NEW b \in Seq(Byte), NEW p \in Nat \ {0},
           NEW v \in Seq(Byte), Len(v) \in Int32, Held(b, p, encodeString(v))
    PROVE  /\ encodeString(v) \in Seq(Byte) /\ Len(encodeString(v)) = INT_SIZE + Len(v)
           /\ HasString(b, p) /\ StringAt(b, p) = v /\ IntAt(b, p) = Len(v)
<1>1. Len(v) \in Nat /\ Len(v) \in Int /\ Len(b) \in Nat
  OBVIOUS
<1>2. encodeInt(Len(v)) \in Seq(Byte) /\ Len(encodeInt(Len(v))) = INT_SIZE
  BY <1>1, IntBytes
<1>3. Held(b, p, encodeInt(Len(v))) /\ Held(b, p + INT_SIZE, v)
  BY <1>1, <1>2, HeldParts DEF encodeString
<1>4. IntAt(b, p) = Len(v)
  BY <1>3, IntBack
<1>5. encodeString(v) \in Seq(Byte) /\ Len(encodeString(v)) = INT_SIZE + Len(v)
  BY <1>2 DEF encodeString
<1>6. p + INT_SIZE - 1 + Len(v) <= Len(b)
  BY <1>3 DEF Held, INT_SIZE
<1>7. HasString(b, p)
  BY <1>1, <1>4, <1>6 DEF HasString, Room, INT_SIZE
<1>8. StringAt(b, p) = v
  <2>1. p + INT_SIZE \in Nat \ {0} /\ p + INT_SIZE - 1 + IntAt(b, p) = (p + INT_SIZE) - 1 + Len(v)
    BY <1>4 DEF INT_SIZE
  <2>2. SubSeq(b, p + INT_SIZE, (p + INT_SIZE) - 1 + Len(v)) = v
    BY <1>3, <2>1, HeldIs
  <2> QED
    BY <2>1, <2>2 DEF StringAt
<1> QED
  BY <1>4, <1>5, <1>7, <1>8

\* Eight bytes.
LEMMA LongBack ==
    ASSUME NEW b \in Seq(Byte), NEW p \in Nat \ {0}, NEW v \in Octets(LONG_SIZE), Held(b, p, v)
    PROVE  /\ v \in Seq(Byte) /\ Len(v) = 8 /\ Room(b, p, LONG_SIZE) /\ LongAt(b, p) = v
           /\ b[p] = v[1]
<1>1. v \in Seq(Byte) /\ Len(v) = 8 /\ Len(b) \in Nat
  BY DEF Octets, LONG_SIZE
<1>2. p - 1 + 8 <= Len(b) /\ b[p - 1 + 1] = v[1]
  BY <1>1 DEF Held
<1>3. Room(b, p, LONG_SIZE)
  BY <1>1, <1>2 DEF Room, LONG_SIZE
<1>4. SubSeq(b, p, p - 1 + Len(v)) = v
  BY <1>1, HeldIs
<1>5. p + LONG_SIZE - 1 = p - 1 + Len(v) /\ p - 1 + 1 = p
  BY <1>1 DEF LONG_SIZE
<1> QED
  BY <1>1, <1>2, <1>3, <1>4, <1>5 DEF LongAt

\* A key, the last of the payload.
LEMMA KeyBack ==
    ASSUME NEW b \in Seq(Byte), NEW p \in Nat \ {0}, NEW v \in Values("key"),
           Held(b, p, v), Len(b) = p - 1 + Len(v)
    PROVE  HasKey(b, p) /\ KeyAt(b, p) = v /\ v \in Seq(Byte)
<1>1. v \in Seq(Byte) /\ v # << >> /\ setKey(v[1], Tail(v)) /\ (v[1] = 0 => Len(v) = 1)
  BY DEF Values
<1>2. Len(v) \in Nat /\ Len(v) >= 1 /\ Len(Tail(v)) = Len(v) - 1 /\ Len(b) \in Nat
  BY <1>1
<1>3. b[p] = v[1]
  <2>1. b[p - 1 + 1] = v[1]
    BY <1>2 DEF Held
  <2>2. p - 1 + 1 = p
    OBVIOUS
  <2> QED
    BY <2>1, <2>2
<1>4. v[1] \in 0 .. 2 /\ Len(v) = 1 + KeySize(b, p) /\ KeySize(b, p) \in Nat
  <2>1. CASE v[1] = 0
    <3>1. KeySize(b, p) = 0 /\ Len(v) = 1
      BY <1>1, <1>3, <2>1 DEF KeySize
    <3> QED
      BY <2>1, <3>1
  <2>2. CASE v[1] = 1
    <3>1. KeySize(b, p) = 271 /\ Len(Tail(v)) = 271
      BY <1>1, <1>3, <2>2 DEF KeySize, setKey, ASYMMETRIC_LENGTH
    <3> QED
      BY <1>2, <2>2, <3>1
  <2>3. CASE v[1] = 2
    <3>1. KeySize(b, p) = 128 /\ Len(Tail(v)) = 128
      BY <1>1, <1>3, <2>3 DEF KeySize, setKey, ENCRYPTED_SYM_LENGTH
    <3> QED
      BY <1>2, <2>3, <3>1
  <2> QED
    BY <1>1, <2>1, <2>2, <2>3 DEF setKey
<1>5. KeyAt(b, p) = v
  <2>1. SubSeq(b, p, p - 1 + Len(v)) = v
    BY <1>1, HeldIs
  <2>2. p + KeySize(b, p) = p - 1 + Len(v)
    BY <1>2, <1>4
  <2> QED
    BY <2>1, <2>2 DEF KeyAt
<1>6. HasKey(b, p)
  <2>1. Room(b, p, 1) /\ Room(b, p + 1, KeySize(b, p))
    BY <1>2, <1>4 DEF Room
  <2>2. b[p] = 1 => isPem(Tail(KeyAt(b, p)))
    BY <1>1, <1>3, <1>5 DEF setKey
  <2>3. b[p] = 2 => Len(b) = p + ENCRYPTED_SYM_LENGTH
    <3>1. ASSUME b[p] = 2 PROVE KeySize(b, p) = ENCRYPTED_SYM_LENGTH
      BY <3>1 DEF KeySize
    <3> QED
      BY <1>2, <1>4, <3>1
  <2> QED
    BY <1>3, <1>4, <2>1, <2>2, <2>3 DEF HasKey
<1> QED
  BY <1>1, <1>5, <1>6

\* A byte with the error and the sender of an ACK.
LEMMA AckBack ==
    ASSUME NEW b \in Seq(Byte), NEW p \in Nat \ {0}, NEW v \in Values("ack"),
           Held(b, p, <<v[1] * 2 + v[2]>>)
    PROVE  /\ <<v[1] * 2 + v[2]>> \in Seq(Byte) /\ Room(b, p, 1)
           /\ setSender(b[p] % 2) /\ setError(b[p] \div 2)
           /\ <<b[p] \div 2, b[p] % 2>> = v
<1>1. PICK e \in 0 .. 5, f \in {0, 1} : v = <<e, f>>
  BY DEF Values, SUCCESS, PASSWORD_AUTH, SERVER, CLIENT
<1>2. v[1] = e /\ v[2] = f
  BY <1>1
<1>3. b[p] = e * 2 + f /\ p <= Len(b) /\ Len(b) \in Nat
  <2> DEFINE x == <<v[1] * 2 + v[2]>>
  <2>1. Len(x) = 1 /\ x[1] = e * 2 + f
    BY <1>2
  <2>2. p - 1 + 1 <= Len(b) /\ b[p - 1 + 1] = x[1]
    BY <2>1 DEF Held
  <2>3. p - 1 + 1 = p
    OBVIOUS
  <2> HIDE DEF x
  <2> QED
    BY <2>1, <2>2, <2>3
<1>4. (e * 2 + f) \div 2 = e /\ (e * 2 + f) % 2 = f /\ e * 2 + f \in Byte
  BY DEF Byte
<1>5. Room(b, p, 1)
  BY <1>3 DEF Room
<1>6. setSender(b[p] % 2) /\ setError(b[p] \div 2)
  BY <1>3, <1>4 DEF setSender, setError, SUCCESS, PASSWORD_AUTH, SERVER, CLIENT
<1>7. <<v[1] * 2 + v[2]>> \in Seq(Byte)
  BY <1>2, <1>4
<1> QED
  BY <1>1, <1>3, <1>4, <1>5, <1>6, <1>7

\* A key is the last of a payload.
Put(b, p, v, kind) ==
    /\ v \in Values(kind) /\ Held(b, p, Wire(v, kind))
    /\ kind = "key" => Len(b) = p - 1 + Len(v)

\* What is written of a field is read, and that to its end.
LEMMA FieldBack ==
    \A vals, v : \A b \in Seq(Byte), p \in Nat \ {0}, kind \in Kind :
        Put(b, p, v, kind)
          => Field(b, [ok |-> TRUE, p |-> p, vals |-> vals], kind)
               = [ok |-> TRUE, p |-> p + Len(Wire(v, kind)), vals |-> Append(vals, v)]
<1> SUFFICES ASSUME NEW vals, NEW v,
                    NEW b \in Seq(Byte), NEW p \in Nat \ {0}, NEW kind \in Kind,
                    Put(b, p, v, kind)
             PROVE  Field(b, [ok |-> TRUE, p |-> p, vals |-> vals], kind)
                      = [ok |-> TRUE, p |-> p + Len(Wire(v, kind)), vals |-> Append(vals, v)]
  OBVIOUS
<1>0. /\ v \in Values(kind) /\ Held(b, p, Wire(v, kind))
      /\ kind = "key" => Len(b) = p - 1 + Len(v)
  BY DEF Put
<1> USE <1>0
<1> DEFINE x == Wire(v, kind)
<1> SUFFICES /\ Readable(b, p, kind) /\ ValueAt(b, p, kind) = v
             /\ SizeAt(b, p, kind) = Len(x)
  <2> DEFINE t == [ok |-> TRUE, p |-> p, vals |-> vals]
  <2>1. t.ok /\ t.p = p /\ t.vals = vals
    OBVIOUS
  <2>2. Readable(b, t.p, kind) /\ ValueAt(b, t.p, kind) = v /\ SizeAt(b, t.p, kind) = Len(x)
    BY <2>1
  <2> HIDE DEF x, t
  <2>3. Field(b, t, kind) = [ok |-> TRUE, p |-> p + Len(x), vals |-> Append(vals, v)]
    BY <2>1, <2>2 DEF Field
  <2> QED
    BY <2>3 DEF t, x
<1>1. CASE kind \in {"string", "name"}
  <2>1. x = encodeString(v) /\ v \in Seq(Byte) /\ Len(v) \in Int32
    BY <1>1 DEF Wire, Values
  <2>2. /\ Len(x) = INT_SIZE + Len(v) /\ HasString(b, p) /\ StringAt(b, p) = v
        /\ IntAt(b, p) = Len(v)
    BY <2>1, StringBack
  <2>3. kind = "name" => validUsername(v)
    BY DEF Values
  <2>4. Readable(b, p, kind)
    BY <1>1, <2>2, <2>3 DEF Readable
  <2>5. ValueAt(b, p, kind) = v
    BY <1>1, <2>2 DEF ValueAt
  <2>6. SizeAt(b, p, kind) = Len(x)
    BY <1>1, <2>2 DEF SizeAt
  <2> QED
    BY <2>4, <2>5, <2>6
<1>2. CASE kind \in {"int", "count"}
  <2>1. x = encodeInt(v) /\ v \in Int32 /\ v \in Int /\ (kind = "count" => v >= 0)
    <3>1. v \in Int32 /\ (kind = "count" => v >= 0)
      BY <1>2 DEF Values
    <3> QED
      BY <1>2, <3>1, SmallInt DEF Wire
  <2>2. IntAt(b, p) = v
    BY <2>1, IntBack
  <2>3. Len(x) = INT_SIZE
    BY <2>1, IntBytes
  <2>4. Room(b, p, INT_SIZE)
    <3>1. p - 1 + Len(x) <= Len(b) /\ Len(b) \in Nat
      BY DEF Held
    <3> HIDE DEF x
    <3> QED
      BY <2>3, <3>1 DEF Room, INT_SIZE
  <2>5. Readable(b, p, kind)
    BY <1>2, <2>1, <2>2, <2>4 DEF Readable
  <2>6. ValueAt(b, p, kind) = v
    BY <1>2, <2>2 DEF ValueAt
  <2>7. SizeAt(b, p, kind) = Len(x)
    BY <1>2, <2>3 DEF SizeAt
  <2> QED
    BY <2>5, <2>6, <2>7
<1>3. CASE kind \in {"long", "time", "length", "nonce", "challenge"}
  <2>1. x = v
    BY <1>3 DEF Wire
  <2>2. v \in Octets(LONG_SIZE)
    BY <1>3 DEF Values, LONG_SIZE, CHALLENGE_LENGTH
  <2>3. Len(v) = 8 /\ Room(b, p, LONG_SIZE) /\ LongAt(b, p) = v /\ b[p] = v[1]
    BY <2>1, <2>2, LongBack
  <2>4. Readable(b, p, kind)
    <3>1. kind = "time" => v[1] < 128
      BY DEF Values
    <3>2. kind = "length" => validMsgLen(v)
      BY DEF Values
    <3>3. Room(b, p, CHALLENGE_LENGTH)
      BY <2>3 DEF CHALLENGE_LENGTH, LONG_SIZE
    <3> QED
      BY <1>3, <2>3, <3>1, <3>2, <3>3 DEF Readable
  <2>5. ValueAt(b, p, kind) = v
    <3>1. SubSeq(b, p, p + CHALLENGE_LENGTH - 1) = v
      BY <2>3 DEF LongAt, LONG_SIZE, CHALLENGE_LENGTH
    <3> QED
      BY <1>3, <2>3, <3>1 DEF ValueAt
  <2>6. SizeAt(b, p, kind) = Len(x)
    BY <1>3, <2>1, <2>5 DEF SizeAt
  <2> QED
    BY <2>4, <2>5, <2>6
<1>4. CASE kind = "key"
  <2>1. x = v
    BY <1>4 DEF Wire
  <2>2. HasKey(b, p) /\ KeyAt(b, p) = v
    BY <1>4, <2>1, KeyBack
  <2>3. Readable(b, p, kind)
    BY <1>4, <2>2 DEF Readable
  <2>4. ValueAt(b, p, kind) = v
    BY <1>4, <2>2 DEF ValueAt
  <2>5. SizeAt(b, p, kind) = Len(x)
    BY <1>4, <2>1, <2>4 DEF SizeAt
  <2> QED
    BY <2>3, <2>4, <2>5
<1>5. CASE kind = "ack"
  <2>1. x = <<v[1] * 2 + v[2]>>
    BY <1>5 DEF Wire
  <2>2. /\ Room(b, p, 1) /\ setSender(b[p] % 2) /\ setError(b[p] \div 2)
        /\ <<b[p] \div 2, b[p] % 2>> = v
    BY <1>5, <2>1, AckBack
  <2>3. Readable(b, p, kind)
    BY <1>5, <2>2 DEF Readable
  <2>4. ValueAt(b, p, kind) = v
    BY <1>5, <2>2 DEF ValueAt
  <2>5. SizeAt(b, p, kind) = Len(x)
    BY <1>5, <2>1 DEF SizeAt
  <2> QED
    BY <2>3, <2>4, <2>5
<1> QED
  BY <1>1, <1>2, <1>3, <1>4, <1>5 DEF Kind

\* ... and consists of bytes.
LEMMA WireBytes ==
    ASSUME NEW kind \in Kind, NEW v \in Values(kind)
    PROVE  Wire(v, kind) \in Seq(Byte)
<1>1. CASE kind \in {"string", "name"}
  <2>1. v \in Seq(Byte) /\ Len(v) \in Int
    BY <1>1 DEF Values
  <2>2. encodeInt(Len(v)) \in Seq(Byte)
    BY <2>1, IntBytes
  <2>3. encodeInt(Len(v)) \o v \in Seq(Byte)
    BY <2>1, <2>2
  <2> QED
    BY <1>1, <2>3 DEF Wire, encodeString
<1>2. CASE kind \in {"int", "count"}
  <2>1. v \in Int
    BY <1>2, SmallInt DEF Values
  <2> QED
    BY <1>2, <2>1, IntBytes DEF Wire
<1>3. CASE kind \in {"long", "time", "length", "nonce", "challenge", "key"}
  <2>1. v \in Seq(Byte)
    BY <1>3 DEF Values, Octets
  <2> QED
    BY <1>3, <2>1 DEF Wire
<1>4. CASE kind = "ack"
  <2>1. PICK e \in 0 .. 5, f \in {0, 1} : v = <<e, f>>
    BY <1>4 DEF Values, SUCCESS, PASSWORD_AUTH, SERVER, CLIENT
  <2>2. v[1] * 2 + v[2] \in Byte
    BY <2>1 DEF Byte
  <2> QED
    BY <1>4, <2>2 DEF Wire
<1> QED
  BY <1>1, <1>2, <1>3, <1>4 DEF Kind

-----------------------------------------------------------------------------
(* Field after field.                                                      *)

\* The states of a constructor.
States(h, b, s, format) ==
    h = [i \in 0 .. Len(format) |-> IF i = 0 THEN s ELSE Field(b, h[i - 1], format[i])]

\* A sequence of states like those.
Steps(g, b, s, format) ==
    g[0] = s /\ \A i \in 1 .. Len(format) : g[i] = Field(b, g[i - 1], format[i])

\* A constructor that goes through these states ends in the last of them.
LEMMA FieldsAre ==
    \A b, s, format, g :
        Len(format) \in Nat /\ Steps(g, b, s, format) => Fields(b, s, format) = g[Len(format)]
<1> SUFFICES ASSUME NEW b, NEW s, NEW format, NEW g,
                    Len(format) \in Nat, Steps(g, b, s, format)
             PROVE  Fields(b, s, format) = g[Len(format)]
  OBVIOUS
<1> USE DEF Steps
<1> DEFINE n == Len(format)
           h == CHOOSE f : States(f, b, s, format)
           wrong == {i \in 0 .. n : h[i] # g[i]}
<1>1. Fields(b, s, format) = h[n]
  BY DEF Fields, States
<1>2. States(h, b, s, format)
  <2> DEFINE f == [i \in 0 .. n |-> g[i]]
  <2>1. f = [i \in 0 .. n |-> IF i = 0 THEN s ELSE Field(b, f[i - 1], format[i])]
    <3>1. ASSUME NEW i \in 0 .. n
          PROVE  f[i] = IF i = 0 THEN s ELSE Field(b, f[i - 1], format[i])
      <4>1. i = 0 \/ (i \in 1 .. n /\ i - 1 \in 0 .. n)
        OBVIOUS
      <4> QED
        BY <4>1
    <3> QED
      BY <3>1
  <2>2. States(f, b, s, format)
    <3> HIDE DEF f
    <3> QED
      BY <2>1 DEF States
  <2> QED
    BY <2>2
<1> HIDE DEF h
<1>3. h[0] = s /\ \A i \in 1 .. n : h[i] = Field(b, h[i - 1], format[i])
  <2>1. \A i \in 0 .. n : h[i] = IF i = 0 THEN s ELSE Field(b, h[i - 1], format[i])
    BY <1>2, Zenon DEF States
  <2> QED
    BY <2>1
<1>4. ASSUME wrong # {} PROVE FALSE
  <2>1. wrong \subseteq Nat
    OBVIOUS
  <2>2. PICK m \in wrong : \A k \in wrong : m <= k
    <3> HIDE DEF wrong
    <3> QED
      BY <1>4, <2>1, Least
  <2>3. m \in 1 .. n /\ h[m] # g[m]
    BY <1>3
  <2>4. m - 1 \in 0 .. n /\ ~(m <= m - 1)
    BY <2>3
  <2>5. h[m - 1] = g[m - 1]
    BY <2>2, <2>4
  <2> QED
    BY <1>3, <2>3, <2>5
<1>5. h[n] = g[n]
  BY <1>4
<1> QED
  BY <1>1, <1>5

\* A chunk is where it belongs.
LEMMA ChunkHeld ==
    ASSUME NEW S, NEW b, NEW C, NEW o, NEW n \in Nat, NEW c \in 1 .. n,
           C[c] \in Seq(S), Places(b, C, o, 0, n), Len(b) = o[n]
    PROVE  /\ o[c - 1] \in Nat /\ o[c] \in Nat
           /\ o[c] = o[c - 1] + Len(C[c]) /\ o[c] <= o[n] /\ Held(b, o[c - 1] + 1, C[c])
<1>1. c \in 0 + 1 .. n /\ c \in 0 .. n /\ n \in c .. n /\ c - 1 \in 0 .. n
  OBVIOUS
<1>2. /\ o[c - 1] \in Nat /\ o[c] \in Nat /\ o[c] = o[c - 1] + Len(C[c]) /\ o[c] <= o[n]
      /\ \A x \in 1 .. Len(C[c]) : o[c - 1] + x <= Len(b) => b[o[c - 1] + x] = C[c][x]
  BY <1>1 DEF Places
<1>3. o[n] \in Nat /\ Len(C[c]) \in Nat
  BY <1>1 DEF Places
<1>4. ASSUME NEW x \in 1 .. Len(C[c]) PROVE b[o[c - 1] + 1 - 1 + x] = C[c][x]
  <2>1. o[c - 1] + 1 - 1 + x = o[c - 1] + x /\ o[c - 1] + x <= Len(b)
    BY <1>2, <1>3
  <2> QED
    BY <1>2, <2>1
<1>5. o[c - 1] + 1 - 1 + Len(C[c]) <= Len(b)
  BY <1>2, <1>3
<1> QED
  BY <1>2, <1>4, <1>5 DEF Held

\* The fields of a payload.
Pieces(V, KK) == [c \in DOMAIN V |-> Wire(V[c], KK[c])]

\* They can be read, and a key is the last of them.
CanBeRead(V, KK) ==
    \A c \in DOMAIN V : /\ KK[c] \in Kind /\ V[c] \in Values(KK[c])
                        /\ KK[c] = "key" => c = Len(V)

\* The constructor after c fields.
After(V, o, c) == [ok |-> TRUE, p |-> o[c] + 1, vals |-> SubSeq(V, 1, c)]

\* The fields v + 1 .. w.
LEMMA FieldsBack ==
    ASSUME NEW S, NEW b \in Seq(Byte), NEW V \in Seq(S), NEW KK, NEW o,
           CanBeRead(V, KK), Places(b, Pieces(V, KK), o, 0, Len(V)), Len(b) = o[Len(V)]
    PROVE  \A v \in 0 .. Len(V) : \A w \in v .. Len(V) : \A format :
             Len(format) = w - v /\ (\A i \in 1 .. w - v : format[i] = KK[v + i])
               => Fields(b, After(V, o, v), format) = After(V, o, w)
<1> SUFFICES ASSUME NEW v \in 0 .. Len(V), NEW w \in v .. Len(V), NEW format,
                    Len(format) = w - v, \A i \in 1 .. w - v : format[i] = KK[v + i]
             PROVE  Fields(b, After(V, o, v), format) = After(V, o, w)
  OBVIOUS
<1> USE DEF After
<1> DEFINE C == Pieces(V, KK)
           N == Len(V)
           g == [i \in 0 .. w - v |-> After(V, o, v + i)]
<1>1. N \in Nat /\ v \in Nat /\ w \in Nat /\ w - v \in Nat /\ DOMAIN V = 1 .. N
      /\ \A c \in 1 .. N : V[c] \in S
  OBVIOUS
<1>2. ASSUME NEW i \in 1 .. w - v PROVE g[i] = Field(b, g[i - 1], format[i])
  <2> DEFINE c == v + i
  <2>1. c \in 1 .. N /\ c - 1 = v + (i - 1) /\ i \in 0 .. w - v /\ i - 1 \in 0 .. w - v
        /\ c - 1 \in Nat /\ c \in Nat /\ v + i = c
    BY <1>1
  <2>2. g[i] = [ok |-> TRUE, p |-> o[c] + 1, vals |-> SubSeq(V, 1, c)]
        /\ g[i - 1] = [ok |-> TRUE, p |-> o[c - 1] + 1, vals |-> SubSeq(V, 1, c - 1)]
    BY <2>1
  <2> HIDE DEF c, g
  <2>3. KK[c] \in Kind /\ V[c] \in Values(KK[c]) /\ (KK[c] = "key" => c = N) /\ format[i] = KK[c]
        /\ C[c] = Wire(V[c], KK[c])
    <3>1. c \in DOMAIN V
      BY <1>1, <2>1
    <3> QED
      BY <2>1, <3>1 DEF CanBeRead, Pieces
  <2>4. C[c] \in Seq(Byte)
    BY <2>3, WireBytes
  <2>5. /\ o[c - 1] \in Nat /\ o[c] \in Nat
        /\ o[c] = o[c - 1] + Len(C[c]) /\ o[c] <= o[N] /\ Held(b, o[c - 1] + 1, C[c])
    <3> HIDE DEF C, N
    <3> QED
      BY <1>1, <2>1, <2>4, ChunkHeld DEF C, N
  <2>6. KK[c] = "key" => Len(b) = (o[c - 1] + 1) - 1 + Len(V[c])
    <3>1. ASSUME KK[c] = "key" PROVE C[c] = V[c]
      BY <2>3, <3>1 DEF Wire
    <3>2. Len(C[c]) \in Nat
      BY <2>4
    <3> HIDE DEF C
    <3> QED
      BY <2>3, <2>5, <3>1, <3>2
  <2>7. Field(b, [ok |-> TRUE, p |-> o[c - 1] + 1, vals |-> SubSeq(V, 1, c - 1)], KK[c])
          = [ok |-> TRUE, p |-> (o[c - 1] + 1) + Len(C[c]),
             vals |-> Append(SubSeq(V, 1, c - 1), V[c])]
    <3>1. o[c - 1] + 1 \in Nat \ {0}
      BY <2>5, SMTT(20)
    <3>2. Held(b, o[c - 1] + 1, Wire(V[c], KK[c]))
      BY <2>3, <2>5
    <3> DEFINE e == o[c - 1] + 1
               vals == SubSeq(V, 1, c - 1)
    <3>3. KK[c] = "key" => Len(b) = e - 1 + Len(V[c])
      BY <2>6
    <3> HIDE DEF C, e, vals
    <3>4. e \in Nat \ {0} /\ Held(b, e, Wire(V[c], KK[c]))
      BY <3>1, <3>2 DEF e
    <3> DEFINE k == KK[c]
               x == V[c]
    <3>5. /\ k \in Kind /\ x \in Values(k) /\ e \in Nat \ {0} /\ Held(b, e, Wire(x, k))
          /\ k = "key" => Len(b) = e - 1 + Len(x)
      BY <2>3, <3>3, <3>4
    <3> HIDE DEF k, x
    <3>6. Field(b, [ok |-> TRUE, p |-> e, vals |-> vals], k)
            = [ok |-> TRUE, p |-> e + Len(Wire(x, k)), vals |-> Append(vals, x)]
      <4>1. Put(b, e, x, k)
        BY <3>5 DEF Put
      <4> QED
        BY <3>5, <4>1, FieldBack
    <3> QED
      BY <2>3, <3>6 DEF e, vals, k, x
  <2>8. Append(SubSeq(V, 1, c - 1), V[c]) = SubSeq(V, 1, c)
    <3>1. c - 1 + 1 = c /\ c - 1 \in 0 .. N /\ c <= N
      BY <1>1, <2>1
    <3> DEFINE s == SubSeq(V, 1, c - 1)
               t == SubSeq(V, 1, c)
    <3>2. s \in Seq(S) /\ Len(s) = c - 1 /\ \A j \in 1 .. c - 1 : s[j] = V[j]
      BY <1>1, <2>1
    <3>3. t \in Seq(S) /\ Len(t) = c /\ \A j \in 1 .. c : t[j] = V[j]
      BY <1>1, <2>1
    <3> HIDE DEF s, t
    <3>4. V[c] \in S
      BY <1>1, <2>1
    <3>5. Append(s, V[c]) \in Seq(S) /\ Len(Append(s, V[c])) = c
          /\ \A j \in 1 .. c : Append(s, V[c])[j] = V[j]
      BY <2>1, <3>2, <3>4
    <3> DEFINE a == Append(s, V[c])
    <3>6. a \in Seq(S) /\ Len(a) = Len(t) /\ \A j \in 1 .. Len(a) : a[j] = t[j]
      BY <2>1, <3>3, <3>5
    <3> HIDE DEF a
    <3>7. a = t
      BY <3>3, <3>6, SeqEqual
    <3> QED
      BY <3>7 DEF s, t, a
  <2>9. (o[c - 1] + 1) + Len(C[c]) = o[c] + 1
    <3>1. Len(C[c]) \in Nat
      BY <2>4
    <3> HIDE DEF C
    <3> QED
      BY <2>5, <3>1
  <2> QED
    BY <2>2, <2>3, <2>7, <2>8, <2>9
<1>3. g[0] = After(V, o, v)
  <2>1. 0 \in 0 .. w - v /\ v + 0 = v
    BY <1>1
  <2> QED
    BY <2>1
<1>4. g[w - v] = After(V, o, w)
  <2>1. w - v \in 0 .. w - v /\ v + (w - v) = w
    BY <1>1
  <2> QED
    BY <2>1
<1> HIDE DEF g, After
<1>5. /\ Len(format) \in Nat /\ g[0] = After(V, o, v)
      /\ \A i \in 1 .. Len(format) : g[i] = Field(b, g[i - 1], format[i])
  BY <1>1, <1>2, <1>3
<1>6. g[Len(format)] = After(V, o, w)
  BY <1>4
<1> DEFINE s == After(V, o, v)
<1>7. g[0] = s
  BY <1>5
<1> HIDE DEF s
<1>8. Fields(b, s, format) = g[Len(format)]
  <2>1. Steps(g, b, s, format)
    BY <1>5, <1>7 DEF Steps
  <2>2. Len(format) \in Nat
    BY <1>5
  <2> QED
    BY <2>1, <2>2, FieldsAre
<1> QED
  BY <1>6, <1>8 DEF s

-----------------------------------------------------------------------------
(* A whole payload.                                                        *)

\* The kinds of the fields of a message of a type, the texts of a PollResponse
\* included.
KindsOf(type, V, KK) ==
    LET first == Len(Format(type))
    IN /\ type = 6 => V[4] \in Nat /\ Len(V) = 4 + V[4] * MsgSize
       /\ type # 6 => Len(V) = first
       /\ \A i \in 1 .. first : KK[i] = Format(type)[i]
       /\ \A i \in 1 .. Len(V) - first : KK[first + i] = MsgFormat[1 + ((i - 1) % MsgSize)]

\* The types that have a constructor.
Codes == {0, 1, 2, 3, 5, 6}

\* The length of a format.
LEMMA FormatLength ==
    ASSUME NEW type \in Codes
    PROVE  /\ Len(Format(type)) \in 1 .. 4
           /\ type = 6 => Len(Format(type)) = 4
BY DEF Codes, Format, loginFormat, challengeFormat, responseFormat, ackFormat, pollFormat,
       pollResponseFormat

\* A text takes at least MinMsgSize bytes.
LEMMA WireLength ==
    ASSUME NEW kind, NEW v \in Values(kind),
           kind \in {"string", "name", "int", "count", "time", "length"}
    PROVE  /\ Len(Wire(v, kind)) \in Nat
           /\ Len(Wire(v, kind)) >= IF kind \in {"time", "length"} THEN LONG_SIZE ELSE INT_SIZE
<1>1. CASE kind \in {"string", "name"}
  <2>1. v \in Seq(Byte) /\ Len(v) \in Int
    BY <1>1 DEF Values
  <2>2. encodeInt(Len(v)) \in Seq(Byte) /\ Len(encodeInt(Len(v))) = INT_SIZE
    BY <2>1, IntBytes
  <2>3. Len(encodeString(v)) = INT_SIZE + Len(v)
    BY <2>1, <2>2 DEF encodeString
  <2> QED
    BY <1>1, <2>1, <2>3 DEF Wire, INT_SIZE
<1>2. CASE kind \in {"int", "count"}
  <2>1. v \in Int
    BY <1>2, SmallInt DEF Values
  <2>2. Wire(v, kind) = encodeInt(v)
    BY <1>2 DEF Wire
  <2>3. Len(encodeInt(v)) = 4
    BY <2>1, IntBytes DEF INT_SIZE
  <2> QED
    BY <1>2, <2>2, <2>3 DEF INT_SIZE
<1>3. CASE kind \in {"time", "length"}
  <2>1. Len(v) = LONG_SIZE
    BY <1>3 DEF Values, Octets
  <2>2. Wire(v, kind) = v
    BY <1>3 DEF Wire
  <2> QED
    <3>1. Len(Wire(v, kind)) = 8
      BY <2>1, <2>2 DEF LONG_SIZE
    <3> QED
      BY <1>3, <3>1 DEF LONG_SIZE
<1> QED
  BY <1>1, <1>2, <1>3

\* Which field of a text the x-th field of text j + 1 is.
LEMMA Modulo == ASSUME NEW j \in Nat, NEW x \in 1 .. 7 PROVE ((7 * j + x) - 1) % 7 = x - 1
<1>1. /\ (7 * j) % 7 = 0 /\ (7 * j + 1) % 7 = 1 /\ (7 * j + 2) % 7 = 2 /\ (7 * j + 3) % 7 = 3
      /\ (7 * j + 4) % 7 = 4 /\ (7 * j + 5) % 7 = 5 /\ (7 * j + 6) % 7 = 6
  OBVIOUS
<1> QED
  BY <1>1

\* The fields of a text.
LEMMA MsgKinds ==
    ASSUME NEW x \in 1 .. 7
    PROVE  /\ MsgFormat[x] \in {"string", "name", "int", "count", "time", "length"}
           /\ MsgFormat[x] \in {"time", "length"} <=> x \in {4, 7}
<1>1. x = 1 \/ x = 2 \/ x = 3 \/ x = 4 \/ x = 5 \/ x = 6 \/ x = 7
  OBVIOUS
<1> QED
  BY <1>1 DEF MsgFormat

\* Seven fields of at least four bytes, two of them of eight.
LEMMA SevenSteps ==
    ASSUME NEW a, \A x \in 0 .. 7 : a[x] \in Nat,
           \A x \in 1 .. 7 : a[x] >= a[x - 1] + 4 /\ (x \in {4, 7} => a[x] >= a[x - 1] + 8)
    PROVE  a[7] >= a[0] + 36
<1>1. a[1] >= a[0] + 4 /\ a[2] >= a[1] + 4 /\ a[3] >= a[2] + 4
  OBVIOUS
<1>2. a[4] >= a[3] + 8 /\ a[5] >= a[4] + 4 /\ a[6] >= a[5] + 4
  OBVIOUS
<1>3. a[7] >= a[6] + 8
  OBVIOUS
<1>4. /\ a[0] \in Nat /\ a[1] \in Nat /\ a[2] \in Nat /\ a[3] \in Nat /\ a[4] \in Nat
      /\ a[5] \in Nat /\ a[6] \in Nat /\ a[7] \in Nat
  OBVIOUS
<1> QED
  BY <1>1, <1>2, <1>3, <1>4

\* So the count of texts is within what decodePollResponse lets the payload
\* have room for.
LEMMA TextsFit ==
    ASSUME NEW S, NEW b \in Seq(Byte), NEW V \in Seq(S), NEW KK, NEW o,
           CanBeRead(V, KK), KindsOf(6, V, KK),
           Places(b, Pieces(V, KK), o, 0, Len(V)), Len(b) = o[Len(V)]
    PROVE  V[4] <= Len(b) \div MinMsgSize
<1> DEFINE C == Pieces(V, KK)
           k == V[4]
           Fits(j) == 36 * j <= o[4 + 7 * j]
           wrong == {j \in 0 .. k : ~Fits(j)}
<1>1. /\ k \in Nat /\ Len(V) = 4 + 7 * k /\ Len(V) \in Nat
      /\ \A i \in 1 .. 7 * k : KK[4 + i] = MsgFormat[1 + ((i - 1) % 7)]
  <2>1. Len(Format(6)) = 4
    BY DEF Format, pollResponseFormat
  <2>2. k \in Nat /\ Len(V) = 4 + k * 7
    BY DEF KindsOf, MsgSize
  <2>3. Len(V) - 4 = 7 * k
    BY <2>2
  <2>4. \A i \in 1 .. Len(V) - 4 : KK[4 + i] = MsgFormat[1 + ((i - 1) % 7)]
    BY <2>1 DEF KindsOf, MsgSize
  <2> HIDE DEF k
  <2> QED
    BY <2>2, <2>3, <2>4
<1> HIDE DEF k
<1>8. Places(b, C, o, 0, Len(V)) /\ Len(b) = o[Len(V)]
  OBVIOUS
<1>2. Fits(0)
  <2>1. o[4] \in Nat
    <3>1. 4 \in 0 .. Len(V)
      BY <1>1
    <3> QED
      BY <3>1 DEF Places
  <2> QED
    BY <2>1
<1>3. ASSUME NEW j \in 0 .. k - 1, Fits(j) PROVE Fits(j + 1)
  <2> DEFINE e == 4 + 7 * j
             l(x) == Len(C[e + x])
  <2>1. e \in Nat /\ 4 + 7 * (j + 1) = e + 7 /\ e + 7 <= Len(V)
    BY <1>1
  <2>2. ASSUME NEW x \in 1 .. 7
        PROVE  /\ KK[e + x] = MsgFormat[x] /\ V[e + x] \in Values(KK[e + x])
               /\ C[e + x] = Wire(V[e + x], KK[e + x]) /\ e + x \in 1 .. Len(V)
    <3> DEFINE i == 7 * j + x
    <3>1. i \in 1 .. 7 * k /\ 4 + i = e + x /\ e + x \in 1 .. Len(V) /\ DOMAIN V = 1 .. Len(V)
      <4>1. j \in Nat /\ j + 1 <= k /\ x \in Nat /\ 1 <= x /\ x <= 7
        BY <1>1
      <4>2. 7 * j + x <= 7 * k /\ 1 <= 7 * j + x
        BY <1>1, <4>1
      <4>3. DOMAIN V = 1 .. Len(V) /\ 4 + i = e + x
        BY <1>1, <4>1
      <4>4. i \in Nat /\ i <= 7 * k /\ 1 <= i
        BY <1>1, <4>1, <4>2
      <4> HIDE DEF i, e
      <4>5. e + x \in 1 .. Len(V)
        BY <1>1, <4>3, <4>4
      <4> QED
        BY <1>1, <4>3, <4>4, <4>5
    <3>2. (i - 1) % 7 = x - 1
      BY <1>1, Modulo, SMTT(20)
    <3> HIDE DEF i
    <3>3. KK[4 + i] = MsgFormat[1 + (x - 1)]
      BY <1>1, <3>1, <3>2
    <3>4. 1 + (x - 1) = x
      OBVIOUS
    <3> HIDE DEF e
    <3>5. KK[e + x] = MsgFormat[x] /\ e + x \in DOMAIN V /\ e + x \in 1 .. Len(V)
      BY <3>1, <3>3, <3>4
    <3> QED
      BY <3>5 DEF CanBeRead, Pieces
  <2> HIDE DEF e
  <2>3. ASSUME NEW x \in 1 .. 7
        PROVE  /\ l(x) \in Nat /\ l(x) >= 4 /\ (x \in {4, 7} => l(x) >= 8)
               /\ o[e + x] = o[(e + x) - 1] + l(x) /\ o[(e + x) - 1] \in Nat /\ o[e + x] \in Nat
    <3> DEFINE kind == KK[e + x]
               v == V[e + x]
    <3>1. /\ kind \in {"string", "name", "int", "count", "time", "length"}
          /\ kind \in {"time", "length"} <=> x \in {4, 7}
      BY <2>2, MsgKinds
    <3>2. v \in Values(kind) /\ C[e + x] = Wire(v, kind)
      BY <2>2
    <3>3. kind \in Kind
      BY <3>1 DEF Kind
    <3> HIDE DEF C, kind, v
    <3>4. C[e + x] \in Seq(Byte)
      BY <3>2, <3>3, WireBytes
    <3>5. Len(C[e + x]) \in Nat
          /\ Len(C[e + x]) >= IF kind \in {"time", "length"} THEN LONG_SIZE ELSE INT_SIZE
      BY <3>1, <3>2, WireLength
    <3>6. /\ o[e + x] = o[(e + x) - 1] + l(x) /\ o[(e + x) - 1] \in Nat /\ o[e + x] \in Nat
      <4>1. e + x \in 1 .. Len(V)
        BY <2>2
      <4> DEFINE c == e + x
      <4>2. c \in 1 .. Len(V) /\ C[c] \in Seq(Byte)
        BY <3>4, <4>1
      <4> HIDE DEF c
      <4>3. o[c - 1] \in Nat /\ o[c] \in Nat /\ o[c] = o[c - 1] + Len(C[c])
        BY <1>1, <1>8, <4>2, ChunkHeld
      <4> QED
        BY <4>3 DEF c, l
    <3> QED
      BY <3>1, <3>5, <3>6 DEF LONG_SIZE, INT_SIZE
  <2> HIDE DEF l
  <2>4. o[e + 7] >= o[e] + 36 /\ o[e] \in Nat
    <3> DEFINE a == [x \in 0 .. 7 |-> o[e + x]]
    <3>1. ASSUME NEW x \in 1 .. 7
          PROVE  /\ a[x] = a[x - 1] + l(x) /\ a[x] \in Nat /\ a[x - 1] \in Nat
      <4>1. (e + x) - 1 = e + (x - 1) /\ x \in 0 .. 7 /\ x - 1 \in 0 .. 7
        BY <2>1
      <4>2. a[x] = o[e + x] /\ a[x - 1] = o[(e + x) - 1]
        BY <4>1
      <4> QED
        BY <2>3, <4>2
    <3>2. a[7] = o[e + 7] /\ a[0] = o[e] /\ DOMAIN a = 0 .. 7
      <4>1. e + 0 = e
        BY <2>1
      <4> QED
        BY <4>1
    <3> HIDE DEF a
    <3>3. ASSUME NEW x \in 1 .. 7
          PROVE  /\ a[x] >= a[x - 1] + 4 /\ (x \in {4, 7} => a[x] >= a[x - 1] + 8)
      <4>1. l(x) \in Nat /\ l(x) >= 4 /\ (x \in {4, 7} => l(x) >= 8)
        BY <2>3
      <4> DEFINE d == l(x)
                 f == a[x]
                 g == a[x - 1]
      <4>2. /\ d \in Nat /\ d >= 4 /\ (x \in {4, 7} => d >= 8) /\ f = g + d /\ g \in Nat
            /\ f \in Nat
        BY <3>1, <4>1
      <4> HIDE DEF d, f, g
      <4>3. f >= g + 4 /\ (x \in {4, 7} => f >= g + 8)
        BY <4>2
      <4> QED
        BY <4>3 DEF f, g
    <3>4. \A x \in 0 .. 7 : a[x] \in Nat
      <4>1. a[0] \in Nat
        <5>1. 1 \in 1 .. 7 /\ 1 - 1 = 0
          OBVIOUS
        <5> QED
          BY <3>1, <5>1
      <4>2. \A x \in 0 .. 7 : x = 0 \/ x \in 1 .. 7
        OBVIOUS
      <4> QED
        BY <3>1, <4>1, <4>2
    <3>5. a[7] >= a[0] + 36
      BY <3>3, <3>4, SevenSteps
    <3> QED
      BY <3>2, <3>4, <3>5, SMTT(20)
  <2>6. 36 * j <= o[e] /\ o[e] \in Nat /\ o[e + 7] \in Nat
    <3>1. o[e + 7] \in Nat
      BY <2>3
    <3> QED
      BY <1>3, <2>4, <3>1 DEF e
  <2>7. 36 * (j + 1) <= o[e + 7]
    BY <2>4, <2>6
  <2> QED
    BY <2>1, <2>7
<1>4. ASSUME wrong # {} PROVE FALSE
  <2>1. PICK m \in wrong : \A j \in wrong : m <= j
    <3>1. wrong \subseteq Nat
      OBVIOUS
    <3> HIDE DEF wrong
    <3> QED
      BY <1>4, <3>1, Least
  <2>2. m \in 0 .. k /\ ~Fits(m)
    OBVIOUS
  <2> HIDE DEF Fits
  <2>3. m - 1 \in 0 .. k - 1 /\ m - 1 \in 0 .. k /\ ~(m <= m - 1) /\ m - 1 + 1 = m
    <3>1. m # 0
      BY <1>2, <2>2
    <3> QED
      BY <1>1, <2>2, <3>1
  <2>4. Fits(m - 1)
    BY <2>1, <2>3
  <2> QED
    BY <1>3, <2>2, <2>3, <2>4
<1>5. Fits(k)
  <2> HIDE DEF Fits
  <2>1. k \in 0 .. k
    BY <1>1
  <2> QED
    BY <1>4, <2>1
<1>6. 36 * k <= Len(b) /\ Len(b) \in Nat
  BY <1>1, <1>5
<1>7. k <= Len(b) \div 36
  BY <1>1, <1>6
<1> QED
  BY <1>7 DEF k, MinMsgSize, INT_SIZE, LONG_SIZE

\* The constructor gets back every field, and uses up the payload.
LEMMA ConstructBack ==
    ASSUME NEW S, NEW b \in Seq(Byte), NEW V \in Seq(S), NEW KK, NEW type \in Codes,
           CanBeRead(V, KK), KindsOf(type, V, KK), CarriesWhole(b, Pieces(V, KK), 0, Len(V))
    PROVE  Construct(type, b) = [ok |-> TRUE, p |-> Len(b) + 1, vals |-> V]
<1> DEFINE N == Len(V)
           format == Format(type)
           first == Len(format)
           start == [ok |-> TRUE, p |-> 1, vals |-> << >>]
           State(c, o) == After(V, o, c)
<1>1. PICK o : Places(b, Pieces(V, KK), o, 0, N) /\ Len(b) = o[N]
  BY DEF CarriesWhole
<1>2. N \in Nat /\ first \in 1 .. 4 /\ o[0] = 0
  BY <1>1, FormatLength DEF Places
<1>3. first <= N /\ \A i \in 1 .. first : format[i] = KK[i]
  <2>1. type = 6 => first = 4 /\ V[4] \in Nat /\ N = 4 + V[4] * 7
    BY FormatLength DEF KindsOf, MsgSize
  <2>2. type # 6 => N = first
    BY DEF KindsOf
  <2>3. \A i \in 1 .. first : format[i] = KK[i]
    BY DEF KindsOf
  <2>4. ASSUME type = 6 PROVE first <= N
    <3> DEFINE k == V[4]
    <3>1. k \in Nat /\ N = 4 + k * 7 /\ first = 4
      BY <2>1, <2>4
    <3> HIDE DEF k, N, first
    <3> QED
      BY <3>1
  <2> HIDE DEF N, first
  <2> QED
    BY <1>2, <2>2, <2>3, <2>4
<1>4. start = State(0, o)
  <2>1. SubSeq(V, 1, 0) = << >> /\ o[0] + 1 = 1
    <3>1. SubSeq(V, 1, 0) = << >>
      OBVIOUS
    <3> QED
      BY <1>2, <3>1
  <2> QED
    BY <2>1 DEF After
<1>5. State(N, o) = [ok |-> TRUE, p |-> Len(b) + 1, vals |-> V]
  <2>1. SubSeq(V, 1, N) = V
    <3> DEFINE t == SubSeq(V, 1, N)
    <3>1. t \in Seq(S) /\ Len(t) = N /\ \A i \in 1 .. N : t[i] = V[i]
      BY <1>2
    <3> HIDE DEF t
    <3>2. t = V
      BY <1>2, <3>1, SeqEqual
    <3> QED
      BY <3>2 DEF t
  <2> QED
    BY <1>1, <2>1 DEF After
<1>9. \A v \in 0 .. N : \A w \in v .. N : \A f :
        Len(f) = w - v /\ (\A i \in 1 .. w - v : f[i] = KK[v + i])
          => Fields(b, State(v, o), f) = State(w, o)
  BY <1>1, FieldsBack
<1> DEFINE head == Fields(b, start, format)
<1>6. head = State(first, o)
  <2>1. 0 \in 0 .. N /\ first \in 0 .. N /\ first - 0 = first
    BY <1>2, <1>3
  <2>2. \A i \in 1 .. first - 0 : format[i] = KK[0 + i]
    <3>1. \A i \in 1 .. first : 0 + i = i
      OBVIOUS
    <3> QED
      BY <1>3, <2>1, <3>1
  <2> HIDE DEF format, first
  <2>3. Len(format) = first
    BY DEF first
  <2> HIDE DEF State, N
  <2>4. Fields(b, State(0, o), format) = State(first, o)
    <3>1. Len(format) = first - 0 /\ first \in 0 .. N
      BY <2>1, <2>3
    <3> QED
      BY <1>9, <2>1, <2>2, <3>1
  <2> QED
    BY <1>4, <2>4
<1>7. CASE type # 6
  <2>1. N = first
    BY <1>7 DEF KindsOf
  <2>2. Construct(type, b) = head
    BY <1>7 DEF Construct
  <2> HIDE DEF head, State, N, first
  <2> QED
    BY <1>5, <1>6, <2>1, <2>2
<1>8. CASE type = 6
  <2> DEFINE k == V[4]
             texts == [i \in 1 .. k * MsgSize |-> MsgFormat[1 + ((i - 1) % MsgSize)]]
  <2>1. first = 4 /\ k \in Nat /\ N = 4 + k * 7
    BY <1>8, FormatLength DEF KindsOf, MsgSize
  <2>2. head.ok /\ head.vals = SubSeq(V, 1, 4)
    <3> HIDE DEF head, first
    <3> QED
      BY <1>6, <2>1 DEF After
  <2>3. head.vals[4] = k
    <3>1. 4 <= N /\ 4 \in 1 .. N
      <4> HIDE DEF k, N
      <4> QED
        BY <2>1
    <3>2. SubSeq(V, 1, 4)[4] = V[4]
      BY <1>2, <3>1
    <3> HIDE DEF head
    <3> QED
      BY <2>2, <3>2
  <2>4. Construct(type, b) = MsgFields(b, head)
    <3>1. start = [ok |-> TRUE, p |-> 1, vals |-> << >>]
      OBVIOUS
    <3> HIDE DEF start
    <3>2. head = Fields(b, start, Format(type))
      OBVIOUS
    <3>3. Construct(type, b) = IF type = 6 /\ head.ok THEN MsgFields(b, head) ELSE head
      BY <3>1, <3>2 DEF Construct
    <3> HIDE DEF head
    <3> QED
      BY <1>8, <2>2, <3>3
  <2>5. CASE k = 0
    <3>1. MsgFields(b, head) = head
      <4>1. k <= 0 /\ ~(k > Len(b) \div MinMsgSize)
        <5>1. MinMsgSize = 36 /\ Len(b) \in Nat /\ Len(b) \div 36 >= 0
          BY DEF MinMsgSize, INT_SIZE, LONG_SIZE
        <5> HIDE DEF k
        <5> QED
          BY <2>5, <5>1
      <4> HIDE DEF head, k
      <4> QED
        BY <2>3, <4>1 DEF MsgFields
    <3>2. N = first
      <4> HIDE DEF k, N, first
      <4> QED
        BY <2>1, <2>5
    <3> HIDE DEF head, State, N, first
    <3> QED
      BY <1>5, <1>6, <2>4, <3>1, <3>2
  <2>6. CASE k # 0
    <3>1. k <= Len(b) \div MinMsgSize
      BY <1>1, <1>8, TextsFit
    <3>2. ~(k <= 0) /\ ~(k > Len(b) \div MinMsgSize)
      <4>1. Len(b) \div MinMsgSize \in Int
        <5>1. MinMsgSize = 36 /\ Len(b) \in Nat
          BY DEF MinMsgSize, INT_SIZE, LONG_SIZE
        <5> QED
          BY <5>1
      <4> HIDE DEF k
      <4> QED
        BY <2>1, <2>6, <3>1, <4>1
    <3>3. MsgFields(b, head) = Fields(b, head, texts)
      <4> HIDE DEF head, k
      <4> QED
        BY <2>3, <3>2 DEF MsgFields
    <3>4. Fields(b, State(4, o), texts) = State(N, o)
      <4>1. 4 \in 0 .. N /\ N \in 4 .. N /\ N - 4 = k * MsgSize /\ k * MsgSize \in Nat
        <5> HIDE DEF k, N
        <5> QED
          BY <2>1 DEF MsgSize
      <4>2. Len(texts) = N - 4
        <5> HIDE DEF k, N
        <5> QED
          BY <4>1
      <4>3. ASSUME NEW i \in 1 .. N - 4 PROVE texts[i] = KK[4 + i]
        <5>1. KK[4 + i] = MsgFormat[1 + ((i - 1) % MsgSize)]
          BY <1>8, <2>1, <4>3 DEF KindsOf
        <5> HIDE DEF k, N
        <5> QED
          BY <4>1, <5>1
      <4> HIDE DEF texts, N, State
      <4> QED
        BY <1>9, <4>1, <4>2, <4>3
    <3> HIDE DEF head, State, N, first, texts
    <3> QED
      BY <1>5, <1>6, <2>1, <2>4, <3>3, <3>4
  <2> QED
    BY <2>5, <2>6
<1> QED
  BY <1>7, <1>8

-----------------------------------------------------------------------------
(* Payloads put together.                                                  *)

\* Putting together is associative.
LEMMA Regroup ==
    \A S : \A s, t, u \in Seq(S) : s \o (t \o u) = (s \o t) \o u /\ s \o t \in Seq(S)
<1> SUFFICES ASSUME NEW S, NEW s \in Seq(S), NEW t \in Seq(S), NEW u \in Seq(S)
             PROVE  s \o (t \o u) = (s \o t) \o u /\ s \o t \in Seq(S)
  OBVIOUS
<1>1. (s \o t) \o u = s \o (t \o u)
  BY ConcatAssociative, SMTT(30)
<1>2. s \o t \in Seq(S)
  OBVIOUS
<1> QED
  BY <1>1, <1>2

\* Putting together, with nothing known of it but what the lemmas say.
Cat(s, t) == s \o t

\* Its type, ...
LEMMA CatType == \A S : \A s, t \in Seq(S) : Cat(s, t) \in Seq(S)
BY DEF Cat

\* ... and associativity again.
LEMMA CatRegroup == \A S : \A s, t, u \in Seq(S) : Cat(s, Cat(t, u)) = Cat(Cat(s, t), u)
BY Regroup DEF Cat

\* One piece is the payload of itself.
LEMMA FirstPiece ==
    ASSUME NEW S, NEW C, C[1] \in Seq(S)
    PROVE  CarriesWhole(C[1], C, 0, 1)
<1> DEFINE p == [c \in 0 .. 1 |-> IF c = 0 THEN 0 ELSE Len(C[1])]
<1>1. p[0] = 0 /\ p[1] = Len(C[1]) /\ p \in [0 .. 1 -> Nat] /\ Len(C[1]) \in Nat
  OBVIOUS
<1> HIDE DEF p
<1>2. \A c \in 0 .. 1 : c = 0 \/ c = 1
  OBVIOUS
<1>3. \A c \in 0 + 1 .. 1 : c = 1 /\ c - 1 = 0
  OBVIOUS
<1>4. \A c \in 0 .. 1 : \A d \in c .. 1 : p[c] <= p[d]
  <2> SUFFICES ASSUME NEW c \in 0 .. 1, NEW d \in c .. 1 PROVE p[c] <= p[d]
    OBVIOUS
  <2>1. CASE c = 0 /\ d = 0
    BY <1>1, <2>1
  <2>2. CASE c = 0 /\ d = 1
    BY <1>1, <2>2
  <2>3. CASE c = 1 /\ d = 1
    BY <1>1, <2>3
  <2> QED
    BY <2>1, <2>2, <2>3
<1>5. ASSUME NEW c \in 0 + 1 .. 1
      PROVE  /\ p[c] = p[c - 1] + Len(C[c])
             /\ \A x \in 1 .. Len(C[c]) : p[c - 1] + x <= Len(C[1]) => C[1][p[c - 1] + x] = C[c][x]
  <2>1. c = 1 /\ c - 1 = 0 /\ p[c - 1] = 0
    BY <1>1, <1>3
  <2>2. \A x \in 1 .. Len(C[1]) : 0 + x = x
    OBVIOUS
  <2> QED
    BY <1>1, <2>1, <2>2
<1>6. Places(C[1], C, p, 0, 1)
  <2>1. Len(C[1]) <= p[1]
    BY <1>1
  <2> QED
    BY <1>1, <1>4, <1>5, <2>1 DEF Places
<1> QED
  BY <1>1, <1>6 DEF CarriesWhole

\* A piece more.
LEMMA NextPiece ==
    \A S, C : \A T \in Seq(S), w \in Nat, b \in Seq(S) :
        /\ CarriesWhole(T, C, 0, w) /\ b = C[w + 1]
        /\ \A c \in 1 .. w : C[c] \in Seq(S)
        => T \o b \in Seq(S) /\ CarriesWhole(T \o b, C, 0, w + 1)
<1> SUFFICES ASSUME NEW S, NEW C, NEW T \in Seq(S), NEW w \in Nat, NEW b \in Seq(S),
                    CarriesWhole(T, C, 0, w), b = C[w + 1], \A c \in 1 .. w : C[c] \in Seq(S)
             PROVE  T \o b \in Seq(S) /\ CarriesWhole(T \o b, C, 0, w + 1)
  OBVIOUS
<1>1. /\ 0 \in Nat /\ 0 <= w /\ C[w + 1] \in Seq(S)
      /\ \A c \in 0 + 1 .. w : C[c] \in Seq(S) /\ C[c] = C[c]
  OBVIOUS
<1>2. CarriesWhole(T \o C[w + 1], C, 0, w + 1)
  BY <1>1, OneMore
<1> QED
  BY <1>2

\* The seven pieces of a text after piece w.
Seven(C, w) ==
    C[w + 1] \o C[w + 2] \o C[w + 3] \o C[w + 4] \o C[w + 5] \o C[w + 6] \o C[w + 7]

\* Seven pieces, the first ones put together before.
LEMMA SevenPieces ==
    ASSUME NEW S, NEW C, NEW T \in Seq(S), NEW w \in Nat, CarriesWhole(T, C, 0, w),
           \A c \in 1 .. w + 7 : C[c] \in Seq(S)
    PROVE  /\ Seven(C, w) \in Seq(S) /\ Cat(T, Seven(C, w)) \in Seq(S)
           /\ CarriesWhole(Cat(T, Seven(C, w)), C, 0, w + 7)
<1> DEFINE b1 == C[w + 1]
           b2 == C[w + 2]
           b3 == C[w + 3]
           b4 == C[w + 4]
           b5 == C[w + 5]
           b6 == C[w + 6]
           b7 == C[w + 7]
<1>1. /\ b1 \in Seq(S) /\ b2 \in Seq(S) /\ b3 \in Seq(S) /\ b4 \in Seq(S) /\ b5 \in Seq(S)
      /\ b6 \in Seq(S) /\ b7 \in Seq(S)
  OBVIOUS
<1>2. ASSUME NEW x \in 0 .. 6, NEW U \in Seq(S), CarriesWhole(U, C, 0, w + x)
      PROVE  /\ U \o C[w + (x + 1)] \in Seq(S)
             /\ CarriesWhole(U \o C[w + (x + 1)], C, 0, w + (x + 1))
  <2>1. w + x \in Nat /\ (w + x) + 1 = w + (x + 1) /\ C[w + (x + 1)] \in Seq(S)
        /\ \A c \in 1 .. w + x : C[c] \in Seq(S)
    OBVIOUS
  <2> QED
    BY <1>2, <2>1, NextPiece
<1> DEFINE U1 == T \o b1
           U2 == U1 \o b2
           U3 == U2 \o b3
           U4 == U3 \o b4
           U5 == U4 \o b5
           U6 == U5 \o b6
           U7 == U6 \o b7
<1>3. U1 \in Seq(S) /\ CarriesWhole(U1, C, 0, w + 1)
  <2>1. w + 0 = w /\ 0 + 1 = 1
    OBVIOUS
  <2> QED
    BY <1>2, <2>1
<1> HIDE DEF U1
<1>4. U2 \in Seq(S) /\ CarriesWhole(U2, C, 0, w + 2)
  <2>1. 1 + 1 = 2
    OBVIOUS
  <2> QED
    BY <1>2, <1>3, <2>1
<1> HIDE DEF U2
<1>5. U3 \in Seq(S) /\ CarriesWhole(U3, C, 0, w + 3)
  <2>1. 2 + 1 = 3
    OBVIOUS
  <2> QED
    BY <1>2, <1>4, <2>1
<1> HIDE DEF U3
<1>6. U4 \in Seq(S) /\ CarriesWhole(U4, C, 0, w + 4)
  <2>1. 3 + 1 = 4
    OBVIOUS
  <2> QED
    BY <1>2, <1>5, <2>1
<1> HIDE DEF U4
<1>7. U5 \in Seq(S) /\ CarriesWhole(U5, C, 0, w + 5)
  <2>1. 4 + 1 = 5
    OBVIOUS
  <2> QED
    BY <1>2, <1>6, <2>1
<1> HIDE DEF U5
<1>8. U6 \in Seq(S) /\ CarriesWhole(U6, C, 0, w + 6)
  <2>1. 5 + 1 = 6
    OBVIOUS
  <2> QED
    BY <1>2, <1>7, <2>1
<1> HIDE DEF U6
<1>9. U7 \in Seq(S) /\ CarriesWhole(U7, C, 0, w + 7)
  <2>1. 6 + 1 = 7
    OBVIOUS
  <2> QED
    BY <1>2, <1>8, <2>1
<1> HIDE DEF U7, b1, b2, b3, b4, b5, b6, b7
<1>10. ASSUME NEW x \in Seq(S), NEW y \in Seq(S)
       PROVE  Cat(x, y) \in Seq(S) /\ Cat(T, Cat(x, y)) = Cat(Cat(T, x), y)
  BY CatType, CatRegroup
<1>11. /\ U1 = Cat(T, b1) /\ U2 = Cat(U1, b2) /\ U3 = Cat(U2, b3) /\ U4 = Cat(U3, b4)
       /\ U5 = Cat(U4, b5) /\ U6 = Cat(U5, b6) /\ U7 = Cat(U6, b7)
  BY DEF U1, U2, U3, U4, U5, U6, U7, Cat
<1> DEFINE c2 == Cat(b1, b2)
           c3 == Cat(c2, b3)
           c4 == Cat(c3, b4)
           c5 == Cat(c4, b5)
           c6 == Cat(c5, b6)
           c7 == Cat(c6, b7)
<1>12. c2 \in Seq(S) /\ Cat(T, c2) = U2
  BY <1>1, <1>10, <1>11
<1> HIDE DEF c2
<1>13. c3 \in Seq(S) /\ Cat(T, c3) = U3
  BY <1>1, <1>10, <1>11, <1>12
<1> HIDE DEF c3
<1>14. c4 \in Seq(S) /\ Cat(T, c4) = U4
  BY <1>1, <1>10, <1>11, <1>13
<1> HIDE DEF c4
<1>15. c5 \in Seq(S) /\ Cat(T, c5) = U5
  BY <1>1, <1>10, <1>11, <1>14
<1> HIDE DEF c5
<1>16. c6 \in Seq(S) /\ Cat(T, c6) = U6
  BY <1>1, <1>10, <1>11, <1>15
<1> HIDE DEF c6
<1>17. c7 \in Seq(S) /\ Cat(T, c7) = U7
  BY <1>1, <1>10, <1>11, <1>16
<1>18. c7 \in Seq(S) /\ Cat(T, c7) \in Seq(S) /\ CarriesWhole(Cat(T, c7), C, 0, w + 7)
  BY <1>9, <1>17
<1> QED
  BY <1>18 DEF c7, c6, c5, c4, c3, c2, b1, b2, b3, b4, b5, b6, b7, Cat, Seven

\* What FlattenSeq makes of sequences.
LEMMA FlattenJoins ==
    \A X : \A n \in Nat \ {0} : \A seqs \in [1 .. n -> Seq(X)] :
        Len(seqs) = n
          => \E f \in [1 .. n -> Seq(X)] : Joins(f, seqs, n) /\ FlattenSeq(seqs) = f[n]
<1> SUFFICES ASSUME NEW X, NEW n \in Nat \ {0}, NEW seqs \in [1 .. n -> Seq(X)], Len(seqs) = n
             PROVE  \E f \in [1 .. n -> Seq(X)] : Joins(f, seqs, n) /\ FlattenSeq(seqs) = f[n]
  OBVIOUS
<1>1. PICK f \in [1 .. n -> Seq(X)] : Joins(f, seqs, n)
  BY JoinsExist
<1>2. Describes(f, seqs, n)
  <2>1. \A i \in 1 .. n : f[i] = IF i = 1 THEN seqs[i] ELSE f[i - 1] \o seqs[i]
    <3>1. f[1] = seqs[1] /\ \A i \in 2 .. n : f[i] = f[i - 1] \o seqs[i]
      BY <1>1 DEF Joins
    <3>2. \A i \in 1 .. n : i = 1 \/ i \in 2 .. n
      OBVIOUS
    <3> QED
      BY <3>1, <3>2
  <2> QED
    BY <2>1 DEF Describes
<1>3. FlattenSeq(seqs) = f[n]
  BY <1>2, Flattened
<1> QED
  BY <1>1, <1>3

\* No texts, no bytes.
LEMMA FlattenNothing == ASSUME NEW seqs, Len(seqs) = 0 PROVE FlattenSeq(seqs) = seqs
BY DEF FlattenSeq

\* The texts after the first four fields.
LEMMA TextsCarried ==
    ASSUME NEW S, NEW C, NEW head \in Seq(S), NEW k \in Nat, CarriesWhole(head, C, 0, 4),
           \A c \in 1 .. 4 + 7 * k : C[c] \in Seq(S),
           NEW B, B = [j \in 1 .. k |-> Seven(C, 4 + 7 * (j - 1))]
    PROVE  /\ FlattenSeq(B) \in Seq(S) /\ Cat(head, FlattenSeq(B)) \in Seq(S)
           /\ CarriesWhole(Cat(head, FlattenSeq(B)), C, 0, 4 + 7 * k)
<1>0. Len(B) = k /\ DOMAIN B = 1 .. k
  OBVIOUS
<1>1. CASE k = 0
  <2>1. B = << >>
    BY <1>1
  <2>2. FlattenSeq(B) = << >>
    BY <1>0, <1>1, <2>1, FlattenNothing
  <2>3. Cat(head, << >>) = head
    BY ConcatEmptySeq DEF Cat
  <2>4. 4 + 7 * k = 4 /\ << >> \in Seq(S)
    BY <1>1
  <2> QED
    BY <2>2, <2>3, <2>4
<1>2. CASE k # 0
  <2> DEFINE w(j) == 4 + 7 * (j - 1)
  <2>1. ASSUME NEW j \in 1 .. k, NEW T \in Seq(S), CarriesWhole(T, C, 0, w(j))
        PROVE  /\ B[j] \in Seq(S) /\ Cat(T, B[j]) \in Seq(S)
               /\ CarriesWhole(Cat(T, B[j]), C, 0, 4 + 7 * j)
    <3>1. w(j) \in Nat /\ w(j) + 7 = 4 + 7 * j /\ B[j] = Seven(C, w(j))
          /\ \A c \in 1 .. w(j) + 7 : C[c] \in Seq(S)
      OBVIOUS
    <3> HIDE DEF w
    <3> QED
      BY <2>1, <3>1, SevenPieces
  <2>2. B \in [1 .. k -> Seq(S)]
    <3>1. ASSUME NEW j \in 1 .. k PROVE B[j] \in Seq(S)
      <4> DEFINE C7 == w(j)
      <4>1. C7 \in Nat /\ B[j] = Seven(C, C7) /\ C7 + 7 \in 1 .. 4 + 7 * k
        OBVIOUS
      <4> HIDE DEF C7
      <4>2. /\ C[C7 + 1] \in Seq(S) /\ C[C7 + 2] \in Seq(S) /\ C[C7 + 3] \in Seq(S)
            /\ C[C7 + 4] \in Seq(S) /\ C[C7 + 5] \in Seq(S) /\ C[C7 + 6] \in Seq(S)
            /\ C[C7 + 7] \in Seq(S)
        BY <4>1, SMTT(20)
      <4>3. Seven(C, C7) = Cat(Cat(Cat(Cat(Cat(Cat(C[C7 + 1], C[C7 + 2]), C[C7 + 3]), C[C7 + 4]),
                                        C[C7 + 5]), C[C7 + 6]), C[C7 + 7])
        BY DEF Seven, Cat
      <4>4. ASSUME NEW s \in Seq(S), NEW t \in Seq(S) PROVE Cat(s, t) \in Seq(S)
        BY CatType
      <4> QED
        <5> DEFINE c2 == Cat(C[C7 + 1], C[C7 + 2])
                   c3 == Cat(c2, C[C7 + 3])
                   c4 == Cat(c3, C[C7 + 4])
                   c5 == Cat(c4, C[C7 + 5])
                   c6 == Cat(c5, C[C7 + 6])
        <5>1. c2 \in Seq(S)
          BY <4>2, <4>4
        <5> HIDE DEF c2
        <5>2. c3 \in Seq(S)
          BY <4>2, <4>4, <5>1
        <5> HIDE DEF c3
        <5>3. c4 \in Seq(S)
          BY <4>2, <4>4, <5>2
        <5> HIDE DEF c4
        <5>4. c5 \in Seq(S)
          BY <4>2, <4>4, <5>3
        <5> HIDE DEF c5
        <5>5. c6 \in Seq(S)
          BY <4>2, <4>4, <5>4
        <5> HIDE DEF c6
        <5>6. Cat(c6, C[C7 + 7]) \in Seq(S)
          BY <4>2, <4>4, <5>5
        <5>7. B[j] = Cat(c6, C[C7 + 7])
          BY <4>1, <4>3 DEF c2, c3, c4, c5, c6
        <5> QED
          BY <5>6, <5>7
    <3> QED
      BY <3>1, <1>0
  <2>3. k \in Nat \ {0}
    BY <1>2
  <2>4. PICK f \in [1 .. k -> Seq(S)] : Joins(f, B, k) /\ FlattenSeq(B) = f[k]
    <3> DEFINE D == B
    <3>1. Len(D) = k /\ D \in [1 .. k -> Seq(S)]
      BY <1>0, <2>2
    <3> HIDE DEF D
    <3>2. \E f \in [1 .. k -> Seq(S)] : Joins(f, D, k) /\ FlattenSeq(D) = f[k]
      BY <2>3, <3>1, FlattenJoins
    <3> QED
      BY <3>2 DEF D
  <2> DEFINE Is(j) == CarriesWhole(Cat(head, f[j]), C, 0, 4 + 7 * j)
             wrong == {j \in 1 .. k : ~Is(j)}
  <2>5. Is(1)
    <3>1. 1 \in 1 .. k /\ w(1) = 4
      BY <2>3
    <3>2. f[1] = B[1]
      BY <2>4 DEF Joins
    <3> HIDE DEF w
    <3>3. CarriesWhole(Cat(head, B[1]), C, 0, 4 + 7 * 1)
      BY <2>1, <3>1
    <3> QED
      BY <3>2, <3>3
  <2>6. ASSUME NEW j \in 2 .. k, Is(j - 1) PROVE Is(j)
    <3>1. f[j] = Cat(f[j - 1], B[j]) /\ j \in 1 .. k /\ j - 1 \in 1 .. k
      <4>1. f[j] = f[j - 1] \o B[j]
        BY <2>4 DEF Joins
      <4> QED
        BY <4>1 DEF Cat
    <3>2. f[j - 1] \in Seq(S) /\ B[j] \in Seq(S)
      BY <2>2, <3>1
    <3>3. Cat(head, f[j - 1]) \in Seq(S) /\ CarriesWhole(Cat(head, f[j - 1]), C, 0, w(j))
      BY <2>6, <3>2, CatType
    <3> HIDE DEF w
    <3>4. CarriesWhole(Cat(Cat(head, f[j - 1]), B[j]), C, 0, 4 + 7 * j)
      BY <2>1, <3>1, <3>3
    <3>5. Cat(head, Cat(f[j - 1], B[j])) = Cat(Cat(head, f[j - 1]), B[j])
      BY <3>2, CatRegroup
    <3> QED
      BY <3>1, <3>4, <3>5
  <2>7. ASSUME wrong # {} PROVE FALSE
    <3>1. PICK m \in wrong : \A j \in wrong : m <= j
      <4>1. wrong \subseteq Nat
        OBVIOUS
      <4> HIDE DEF wrong
      <4> QED
        BY <2>7, <4>1, Least
    <3>2. m \in 1 .. k /\ ~Is(m)
      OBVIOUS
    <3> HIDE DEF Is
    <3>3. m \in 2 .. k /\ m - 1 \in 1 .. k /\ ~(m <= m - 1)
      BY <2>5, <3>2
    <3>4. Is(m - 1)
      BY <3>1, <3>3
    <3> QED
      BY <2>6, <3>2, <3>3, <3>4
  <2>8. Is(k)
    <3> HIDE DEF Is
    <3>1. k \in 1 .. k
      BY <2>3
    <3> QED
      BY <2>7, <3>1
  <2>9. f[k] \in Seq(S) /\ Cat(head, f[k]) \in Seq(S)
    BY <2>3, CatType
  <2> QED
    BY <2>4, <2>8, <2>9
<1> QED
  BY <1>1, <1>2

\* The sums of lengths.
Sums(h, lengths) ==
    h = [i \in 0 .. Len(lengths) |-> IF i = 0 THEN 0 ELSE h[i - 1] + lengths[i]]

\* Numbers like those.
Adds(g, lengths) == g[0] = 0 /\ \A i \in 1 .. Len(lengths) : g[i] = g[i - 1] + lengths[i]

\* The sum that the loops of getPayloadLength add up.
LEMMA TotalIs ==
    \A lengths, g : Len(lengths) \in Nat /\ Adds(g, lengths) => Total(lengths) = g[Len(lengths)]
<1> SUFFICES ASSUME NEW lengths, NEW g, Len(lengths) \in Nat, Adds(g, lengths)
             PROVE  Total(lengths) = g[Len(lengths)]
  OBVIOUS
<1> USE DEF Adds
<1> DEFINE n == Len(lengths)
           h == CHOOSE f : Sums(f, lengths)
           wrong == {i \in 0 .. n : h[i] # g[i]}
<1>1. Total(lengths) = h[n]
  BY DEF Total, Sums
<1>2. Sums(h, lengths)
  <2> DEFINE f == [i \in 0 .. n |-> g[i]]
  <2>1. f = [i \in 0 .. n |-> IF i = 0 THEN 0 ELSE f[i - 1] + lengths[i]]
    <3>1. ASSUME NEW i \in 0 .. n
          PROVE  f[i] = IF i = 0 THEN 0 ELSE f[i - 1] + lengths[i]
      <4>1. i = 0 \/ (i \in 1 .. n /\ i - 1 \in 0 .. n)
        OBVIOUS
      <4> QED
        BY <4>1
    <3> QED
      BY <3>1
  <2>2. Sums(f, lengths)
    <3> HIDE DEF f
    <3> QED
      BY <2>1 DEF Sums
  <2> QED
    BY <2>2
<1> HIDE DEF h
<1>3. h[0] = 0 /\ \A i \in 1 .. n : h[i] = h[i - 1] + lengths[i]
  <2>1. \A i \in 0 .. n : h[i] = IF i = 0 THEN 0 ELSE h[i - 1] + lengths[i]
    BY <1>2, Zenon DEF Sums
  <2> QED
    BY <2>1
<1>4. ASSUME wrong # {} PROVE FALSE
  <2>1. wrong \subseteq Nat
    OBVIOUS
  <2>2. PICK m \in wrong : \A k \in wrong : m <= k
    <3> HIDE DEF wrong
    <3> QED
      BY <1>4, <2>1, Least
  <2>3. m \in 1 .. n /\ h[m] # g[m]
    BY <1>3
  <2>4. m - 1 \in 0 .. n /\ ~(m <= m - 1)
    BY <2>3
  <2>5. h[m - 1] = g[m - 1]
    BY <2>2, <2>4
  <2> QED
    BY <1>3, <2>3, <2>5
<1>5. h[n] = g[n]
  BY <1>4
<1> QED
  BY <1>1, <1>5

\* The length of sequences that are joined.
LEMMA TotalLength ==
    \A X : \A n \in Nat : \A seqs \in [1 .. n -> Seq(X)] : \A lengths :
        /\ Len(seqs) = n /\ Len(lengths) = n
        /\ \A i \in 1 .. n : lengths[i] = Len(seqs[i])
        => FlattenSeq(seqs) \in Seq(X) /\ Total(lengths) = Len(FlattenSeq(seqs))
<1> SUFFICES ASSUME NEW X, NEW n \in Nat, NEW seqs \in [1 .. n -> Seq(X)], NEW lengths,
                    Len(seqs) = n, Len(lengths) = n, \A i \in 1 .. n : lengths[i] = Len(seqs[i])
             PROVE  FlattenSeq(seqs) \in Seq(X) /\ Total(lengths) = Len(FlattenSeq(seqs))
  OBVIOUS
<1>1. CASE n = 0
  <2>1. FlattenSeq(seqs) = seqs
    BY <1>1, FlattenNothing
  <2>2. seqs \in Seq(X) /\ Len(seqs) = 0
    <3>1. seqs \in [1 .. n -> X]
      BY <1>1
    <3> QED
      BY <1>1, <3>1
  <2> DEFINE g == [i \in {0} |-> 0]
  <2>3. Adds(g, lengths) /\ g[0] = 0
    BY <1>1 DEF Adds
  <2> HIDE DEF g
  <2>4. Total(lengths) = g[Len(lengths)]
    BY <2>3, TotalIs
  <2> QED
    BY <1>1, <2>1, <2>2, <2>3, <2>4
<1>2. CASE n # 0
  <2>1. n \in Nat \ {0}
    BY <1>2
  <2>2. PICK f \in [1 .. n -> Seq(X)] : Joins(f, seqs, n) /\ FlattenSeq(seqs) = f[n]
    BY <2>1, FlattenJoins, SMTT(20)
  <2> DEFINE g == [i \in 0 .. n |-> IF i = 0 THEN 0 ELSE Len(f[i])]
  <2>3. g[0] = 0 /\ \A i \in 1 .. n : g[i] = Len(f[i])
    BY <2>1
  <2> HIDE DEF g
  <2>4. ASSUME NEW i \in 1 .. n PROVE g[i] = g[i - 1] + lengths[i]
    <3>1. CASE i = 1
      <4>1. f[i] = seqs[i] /\ i - 1 = 0 /\ lengths[i] = Len(seqs[i]) /\ Len(seqs[i]) \in Nat
        BY <2>2, <3>1 DEF Joins
      <4> QED
        BY <2>3, <4>1
    <3>2. CASE i # 1
      <4>1. i \in 2 .. n /\ i - 1 \in 1 .. n
        BY <3>2
      <4>2. f[i] = f[i - 1] \o seqs[i]
        BY <2>2, <4>1 DEF Joins
      <4>3. f[i - 1] \in Seq(X) /\ seqs[i] \in Seq(X)
        BY <4>1
      <4>4. Len(f[i - 1] \o seqs[i]) = Len(f[i - 1]) + Len(seqs[i])
        BY <4>3
      <4> QED
        BY <2>3, <4>1, <4>2, <4>4
    <3> QED
      BY <3>1, <3>2
  <2>5. Adds(g, lengths)
    BY <2>3, <2>4 DEF Adds
  <2>6. Total(lengths) = g[Len(lengths)]
    BY <2>5, TotalIs
  <2>7. n \in 1 .. n
    BY <2>1
  <2> QED
    BY <2>2, <2>3, <2>6, <2>7
<1> QED
  BY <1>1, <1>2

-----------------------------------------------------------------------------
(* Both ends put a payload together from the same pieces.                  *)

\* The first n pieces, put together as encode does.
Heads(C, n) ==
    CASE n = 1 -> C[1]
      [] n = 2 -> Cat(C[1], C[2])
      [] n = 3 -> Cat(Cat(C[1], C[2]), C[3])
      [] n = 4 -> Cat(Cat(Cat(C[1], C[2]), C[3]), C[4])

\* k texts.
Texts7(C, k) == [j \in 1 .. k |-> Seven(C, 4 + 7 * (j - 1))]

\* A payload of n fields, and k texts.
Middle(C, n, k) == IF n < 4 THEN Heads(C, n) ELSE Cat(Heads(C, 4), FlattenSeq(Texts7(C, k)))

\* The first fields, written one after the other, are in place, ...
LEMMA HeadsCarried ==
    ASSUME NEW S, NEW C, NEW n \in 1 .. 4, \A c \in 1 .. n : C[c] \in Seq(S)
    PROVE  Heads(C, n) \in Seq(S) /\ CarriesWhole(Heads(C, n), C, 0, n)
<1>1. ASSUME NEW T \in Seq(S), NEW w \in 0 .. n - 1, CarriesWhole(T, C, 0, w)
      PROVE  Cat(T, C[w + 1]) \in Seq(S) /\ CarriesWhole(Cat(T, C[w + 1]), C, 0, w + 1)
  <2>1. w \in Nat /\ C[w + 1] \in Seq(S) /\ \A c \in 1 .. w : C[c] \in Seq(S)
    OBVIOUS
  <2>2. T \o C[w + 1] \in Seq(S) /\ CarriesWhole(T \o C[w + 1], C, 0, w + 1)
    BY <1>1, <2>1, NextPiece
  <2> QED
    BY <2>2 DEF Cat
<1>2. C[1] \in Seq(S) /\ CarriesWhole(C[1], C, 0, 1)
  <2>1. 1 \in 1 .. n
    OBVIOUS
  <2>2. C[1] \in Seq(S)
    BY <2>1
  <2> QED
    BY <2>2, FirstPiece
<1> DEFINE T2 == Cat(C[1], C[2])
           T3 == Cat(T2, C[3])
           T4 == Cat(T3, C[4])
<1>3. n >= 2 => T2 \in Seq(S) /\ CarriesWhole(T2, C, 0, 2)
  <2>1. n >= 2 => 1 \in 0 .. n - 1 /\ 1 + 1 = 2
    OBVIOUS
  <2> QED
    BY <1>1, <1>2, <2>1
<1> HIDE DEF T2
<1>4. n >= 3 => T3 \in Seq(S) /\ CarriesWhole(T3, C, 0, 3)
  <2>1. n >= 3 => n >= 2 /\ 2 \in 0 .. n - 1 /\ 2 + 1 = 3
    OBVIOUS
  <2> QED
    BY <1>1, <1>3, <2>1
<1> HIDE DEF T3
<1>5. n >= 4 => T4 \in Seq(S) /\ CarriesWhole(T4, C, 0, 4)
  <2>1. n >= 4 => n >= 3 /\ 3 \in 0 .. n - 1 /\ 3 + 1 = 4
    OBVIOUS
  <2> QED
    BY <1>1, <1>4, <2>1
<1> HIDE DEF T4
<1>6. CASE n = 1
  BY <1>2, <1>6 DEF Heads
<1>7. CASE n = 2
  <2>1. Heads(C, n) = T2
    BY <1>7 DEF Heads, T2
  <2> QED
    BY <1>3, <1>7, <2>1
<1>8. CASE n = 3
  <2>1. Heads(C, n) = T3
    BY <1>8 DEF Heads, T2, T3
  <2> QED
    BY <1>4, <1>8, <2>1
<1>9. CASE n = 4
  <2>1. Heads(C, n) = T4
    BY <1>9 DEF Heads, T2, T3, T4
  <2> QED
    BY <1>5, <1>9, <2>1
<1> QED
  BY <1>6, <1>7, <1>8, <1>9

\* ... and so is the whole payload.
LEMMA MiddleCarried ==
    ASSUME NEW S, NEW C, NEW n \in 1 .. 4, NEW k \in Nat, n < 4 => k = 0,
           \A c \in 1 .. n + 7 * k : C[c] \in Seq(S)
    PROVE  Middle(C, n, k) \in Seq(S) /\ CarriesWhole(Middle(C, n, k), C, 0, n + 7 * k)
<1>1. Heads(C, n) \in Seq(S) /\ CarriesWhole(Heads(C, n), C, 0, n)
  <2>1. \A c \in 1 .. n : C[c] \in Seq(S)
    OBVIOUS
  <2> QED
    BY <2>1, HeadsCarried
<1>2. CASE n < 4
  <2>1. n + 7 * k = n
    BY <1>2
  <2> QED
    BY <1>1, <1>2, <2>1 DEF Middle
<1>3. CASE n = 4
  <2> DEFINE head == Heads(C, 4)
             B == Texts7(C, k)
  <2>1. head \in Seq(S) /\ CarriesWhole(head, C, 0, 4)
    BY <1>1, <1>3
  <2>2. Middle(C, n, k) = Cat(head, FlattenSeq(B))
    BY <1>3 DEF Middle
  <2>3. B = [j \in 1 .. k |-> Seven(C, 4 + 7 * (j - 1))] /\ \A c \in 1 .. 4 + 7 * k : C[c] \in Seq(S)
    BY <1>3 DEF Texts7
  <2> HIDE DEF head, B
  <2>4. Cat(head, FlattenSeq(B)) \in Seq(S) /\ CarriesWhole(Cat(head, FlattenSeq(B)), C, 0, 4 + 7 * k)
    BY <2>1, <2>3, TextsCarried
  <2> QED
    BY <1>3, <2>2, <2>4
<1> QED
  BY <1>2, <1>3

-----------------------------------------------------------------------------
(* The fields of a message.                                                *)

\* How many texts a message has.
Count(m) == IF m.type = "PollResponse" THEN m.vals[4] ELSE 0

\* How many fields come before the texts.
First(m) == Len(Format(TypeCode(m.type)))

\* The codes of the types, and how many fields each type has.
LEMMA Codes6 ==
    \A m :
        Complete(m) =>
           /\ TypeCode(m.type) \in Codes /\ First(m) \in 1 .. 4 /\ Count(m) \in Nat
           /\ TypeCode(m.type) = 6 <=> m.type = "PollResponse"
           /\ m.type = "PollResponse" <=> First(m) = 4
           /\ Len(m.vals) = First(m) + 7 * Count(m)
           /\ First(m) < 4 => Count(m) = 0
<1> SUFFICES ASSUME NEW m, Complete(m)
             PROVE  /\ TypeCode(m.type) \in Codes /\ First(m) \in 1 .. 4 /\ Count(m) \in Nat
                    /\ TypeCode(m.type) = 6 <=> m.type = "PollResponse"
                    /\ m.type = "PollResponse" <=> First(m) = 4
                    /\ Len(m.vals) = First(m) + 7 * Count(m)
                    /\ First(m) < 4 => Count(m) = 0
  OBVIOUS
<1> DEFINE type == m.type
           V == m.vals
           n == Len(V)
<1>1. /\ type \in {"Login", "Challenge", "Response", "ACK", "Poll", "PollResponse"}
      /\ V = [i \in 1 .. n |-> V[i]]
      /\ type = "PollResponse" => V[4] \in Nat
      /\ n = IF type # "PollResponse" THEN Len(Format(TypeCode(type))) ELSE 4 + V[4] * 7
  BY DEF Complete, MsgSize
<1>2. /\ TypeCode(type) \in Codes
      /\ TypeCode(type) = 6 <=> type = "PollResponse"
  BY <1>1 DEF TypeCode, Codes
<1>3. First(m) \in 1 .. 4 /\ (type = "PollResponse" <=> First(m) = 4)
  <2>1. CASE type = "Login"
    BY <2>1 DEF First, TypeCode, Format, loginFormat
  <2>2. CASE type = "Challenge"
    BY <2>2 DEF First, TypeCode, Format, challengeFormat
  <2>3. CASE type = "Response"
    BY <2>3 DEF First, TypeCode, Format, responseFormat
  <2>4. CASE type = "ACK"
    BY <2>4 DEF First, TypeCode, Format, ackFormat
  <2>5. CASE type = "Poll"
    BY <2>5 DEF First, TypeCode, Format, pollFormat
  <2>6. CASE type = "PollResponse"
    BY <2>6 DEF First, TypeCode, Format, pollResponseFormat
  <2> QED
    BY <1>1, <2>1, <2>2, <2>3, <2>4, <2>5, <2>6
<1>4. Count(m) \in Nat /\ n = First(m) + 7 * Count(m) /\ (First(m) < 4 => Count(m) = 0)
  <2>1. CASE type = "PollResponse"
    <3> DEFINE k == V[4]
    <3>1. k \in Nat /\ Count(m) = k /\ n = 4 + k * 7 /\ First(m) = 4
      BY <1>1, <1>3, <2>1 DEF Count
    <3> HIDE DEF k, n
    <3> QED
      BY <3>1
  <2>2. CASE type # "PollResponse"
    <3>1. Count(m) = 0 /\ n = First(m)
      BY <1>1, <2>2 DEF Count, First
    <3> HIDE DEF n
    <3> QED
      BY <1>3, <3>1
  <2> QED
    BY <2>1, <2>2
<1> QED
  BY <1>2, <1>3, <1>4

\* The values in a message.
ValsOf(m) == {m.vals[i] : i \in 1 .. Len(m.vals)}

\* The fields of a message are a sequence.
LEMMA ValsAre ==
    \A m : Complete(m) =>
        DOMAIN m.vals = 1 .. Len(m.vals) /\ m.vals \in Seq(ValsOf(m)) /\ Len(m.vals) \in Nat
<1> SUFFICES ASSUME NEW m, Complete(m)
             PROVE  /\ DOMAIN m.vals = 1 .. Len(m.vals) /\ m.vals \in Seq(ValsOf(m))
                    /\ Len(m.vals) \in Nat
  OBVIOUS
<1> DEFINE V == m.vals
           n == Len(V)
           S == {V[i] : i \in 1 .. n}
<1>1. V = [i \in 1 .. n |-> V[i]]
  BY DEF Complete
<1>2. n \in Nat
  <2>1. n = First(m) + 7 * Count(m) /\ First(m) \in 1 .. 4 /\ Count(m) \in Nat
    BY Codes6
  <2> HIDE DEF n
  <2> QED
    BY <2>1
<1>3. V \in [1 .. n -> S]
  <2> HIDE DEF V, n
  <2> QED
    BY <1>1
<1> HIDE DEF S
<1>4. V \in Seq(S) /\ DOMAIN V = 1 .. n
  <2> HIDE DEF V, n
  <2> QED
    BY <1>2, <1>3
<1> QED
  BY <1>2, <1>4 DEF S, ValsOf

\* The kinds the constructors read are those listed.
LEMMA FormatKinds == ASSUME NEW type \in Codes PROVE Format(type) \in Seq(Kind)
<1>1. type = 0 \/ type = 1 \/ type = 2 \/ type = 3 \/ type = 5 \/ type = 6
  BY DEF Codes
<1>2. /\ "name" \in Kind /\ "key" \in Kind /\ "challenge" \in Kind /\ "string" \in Kind
      /\ "nonce" \in Kind /\ "ack" \in Kind /\ "long" \in Kind /\ "count" \in Kind
      /\ "int" \in Kind
  BY DEF Kind
<1>3. CASE type = 0
  BY <1>2, <1>3 DEF Format, loginFormat
<1>4. CASE type = 1
  BY <1>2, <1>4 DEF Format, challengeFormat
<1>5. CASE type = 2
  BY <1>2, <1>5 DEF Format, responseFormat
<1>6. CASE type = 3
  BY <1>2, <1>6 DEF Format, ackFormat
<1>7. CASE type = 5
  BY <1>2, <1>7 DEF Format, pollFormat
<1>8. CASE type = 6
  BY <1>2, <1>8 DEF Format, pollResponseFormat
<1> QED
  BY <1>1, <1>3, <1>4, <1>5, <1>6, <1>7, <1>8

\* The kinds of the fields.
LEMMA KindsAre ==
    \A m :
        Complete(m) =>
           /\ \A i \in 1 .. First(m) : Kinds(m)[i] = Format(TypeCode(m.type))[i]
           /\ \A i \in 1 .. 7 * Count(m) :
                Kinds(m)[First(m) + i] = MsgFormat[1 + ((i - 1) % MsgSize)]
<1> SUFFICES ASSUME NEW m, Complete(m)
             PROVE  /\ \A i \in 1 .. First(m) : Kinds(m)[i] = Format(TypeCode(m.type))[i]
                    /\ \A i \in 1 .. 7 * Count(m) :
                         Kinds(m)[First(m) + i] = MsgFormat[1 + ((i - 1) % MsgSize)]
  OBVIOUS
<1> DEFINE format == Format(TypeCode(m.type))
           texts == [i \in 1 .. Len(m.vals) - Len(format) |-> MsgFormat[1 + ((i - 1) % MsgSize)]]
           n == Len(m.vals) - Len(format)
<1>1. Kinds(m) = format \o texts
  BY DEF Kinds
<1>2. format \in Seq(Kind) /\ Len(format) = First(m) /\ Len(format) \in Nat
  <2>1. TypeCode(m.type) \in Codes
    BY Codes6
  <2>2. format \in Seq(Kind)
    BY <2>1, FormatKinds
  <2> HIDE DEF format
  <2>3. Len(format) \in Nat
    BY <2>2
  <2> QED
    BY <2>2, <2>3 DEF First, format
<1>3. n = 7 * Count(m) /\ n \in Nat
  <2>1. Len(m.vals) = First(m) + 7 * Count(m) /\ First(m) \in Nat /\ Count(m) \in Nat
    BY Codes6
  <2> HIDE DEF format
  <2> QED
    BY <1>2, <2>1
<1>4. texts \in Seq({texts[i] : i \in 1 .. n}) /\ Len(texts) = n
  <2>1. texts \in [1 .. n -> {texts[i] : i \in 1 .. n}]
    <3>1. texts = [i \in 1 .. n |-> texts[i]]
      OBVIOUS
    <3> HIDE DEF texts, n
    <3> QED
      BY <3>1
  <2> HIDE DEF texts, n
  <2> QED
    BY <1>3, <2>1
<1>5. \A i \in 1 .. n : texts[i] = MsgFormat[1 + ((i - 1) % MsgSize)]
  OBVIOUS
<1> HIDE DEF texts, n, format
<1>6. \A i \in 1 .. Len(format) : (format \o texts)[i] = format[i]
  BY <1>2, <1>3, <1>4
<1>7. \A i \in 1 .. n : (format \o texts)[Len(format) + i] = texts[i]
  BY <1>2, <1>3, <1>4
<1> QED
  BY <1>1, <1>2, <1>3, <1>5, <1>6, <1>7 DEF format

\* Field x of text j.
LEMMA TextAt ==
    \A m : Complete(m) => \A j \in 1 .. Count(m), x \in 1 .. 7 :
           /\ j \in DOMAIN Msgs(m) /\ Msgs(m)[j][x] = m.vals[(4 + 7 * (j - 1)) + x]
           /\ Kinds(m)[(4 + 7 * (j - 1)) + x] = MsgFormat[x]
           /\ (4 + 7 * (j - 1)) + x \in 1 .. Len(m.vals)
<1> SUFFICES ASSUME NEW m, Complete(m), NEW j \in 1 .. Count(m), NEW x \in 1 .. 7
             PROVE  /\ j \in DOMAIN Msgs(m) /\ Msgs(m)[j][x] = m.vals[(4 + 7 * (j - 1)) + x]
                    /\ Kinds(m)[(4 + 7 * (j - 1)) + x] = MsgFormat[x]
                    /\ (4 + 7 * (j - 1)) + x \in 1 .. Len(m.vals)
  OBVIOUS
<1> DEFINE k == Count(m)
           V == m.vals
           S == ValsOf(m)
           w == 4 + 7 * (j - 1)
<1>1. k \in Nat /\ Len(V) = First(m) + 7 * k /\ V \in Seq(S) /\ First(m) = 4
  <2>1. k \in Nat /\ Len(V) = First(m) + 7 * k
    BY Codes6
  <2>2. First(m) = 4
    <3>1. First(m) < 4 => k = 0
      BY Codes6
    <3>2. First(m) \in 1 .. 4
      BY Codes6
    <3>3. k # 0
      <4> HIDE DEF k
      <4>1. j \in 1 .. k
        BY DEF k
      <4> QED
        BY <2>1, <4>1
    <3> QED
      BY <3>1, <3>2, <3>3
  <2> QED
    BY <2>1, <2>2, ValsAre
<1> HIDE DEF k, V, S
<1>2. j \in 1 .. k
  BY DEF k
<1>3. w \in Nat /\ w + 1 = 5 + (j - 1) * 7 /\ w + 7 = 4 + j * 7 /\ w + 7 <= Len(V)
      /\ (Len(V) - 4) \div 7 = k
  BY <1>1, <1>2
<1>4. /\ j \in DOMAIN Msgs(m) /\ Msgs(m)[j] = SubSeq(V, w + 1, w + 7)
  <2>1. Msgs(m) = [i \in 1 .. k |-> SubSeq(V, 5 + (i - 1) * 7, 4 + i * 7)]
    BY <1>3 DEF Msgs, MsgSize, V
  <2> QED
    BY <1>2, <1>3, <2>1
<1> HIDE DEF w
<1>5. SubSeq(V, w + 1, w + 7)[x] = V[w + x]
  <2>1. w + 1 \in Int /\ w + 7 \in Int /\ \A i \in w + 1 .. w + 7 : V[i] \in S
    BY <1>1, <1>3
  <2>2. (w + 7) - (w + 1) + 1 = 7
    BY <1>3
  <2>3. SubSeq(V, w + 1, w + 7) = [i \in 1 .. 7 |-> V[i + (w + 1) - 1]]
    BY <1>1, <1>3, <2>2, SMTT(20)
  <2>4. x + (w + 1) - 1 = w + x
    BY <1>3
  <2> QED
    BY <2>3, <2>4
<1>6. Kinds(m)[w + x] = MsgFormat[x]
  <2> DEFINE i == 7 * (j - 1) + x
  <2>1. i \in 1 .. 7 * k /\ 4 + i = w + x /\ j - 1 \in Nat
    BY <1>1, <1>2 DEF w
  <2>2. (i - 1) % 7 = x - 1
    BY <2>1, Modulo
  <2> HIDE DEF i
  <2>3. Kinds(m)[First(m) + i] = MsgFormat[1 + ((i - 1) % MsgSize)]
    BY <2>1, KindsAre DEF k
  <2>4. 1 + (x - 1) = x
    OBVIOUS
  <2> QED
    BY <1>1, <2>1, <2>2, <2>3, <2>4 DEF MsgSize
<1>7. w + x \in 1 .. Len(V)
  BY <1>1, <1>3
<1> QED
  BY <1>4, <1>5, <1>6, <1>7 DEF w, V

\* Every field is one of the first or one of a text.
LEMMA TextOf ==
    \A m : Complete(m) => \A c \in 1 .. Len(m.vals) :
           c <= First(m) \/ \E j \in 1 .. Count(m), x \in 1 .. 7 : c = (4 + 7 * (j - 1)) + x
<1> SUFFICES ASSUME NEW m, Complete(m), NEW c \in 1 .. Len(m.vals), ~(c <= First(m))
             PROVE  \E j \in 1 .. Count(m), x \in 1 .. 7 : c = (4 + 7 * (j - 1)) + x
  OBVIOUS
<1> DEFINE k == Count(m)
           d == c - 5
           j == d \div 7
           x == d % 7
<1>1. k \in Nat /\ First(m) = 4 /\ c \in 5 .. 4 + 7 * k
  <2>1. /\ First(m) \in 1 .. 4 /\ k \in Nat /\ Len(m.vals) = First(m) + 7 * k
        /\ First(m) < 4 => k = 0
    BY Codes6
  <2> HIDE DEF k
  <2>2. First(m) = 4
    BY <2>1
  <2> QED
    BY <2>1, <2>2
<1> HIDE DEF k
<1>2. d \in Nat /\ d < 7 * k /\ c = d + 5
  BY <1>1
<1> HIDE DEF d
<1>3. d = 7 * j + x /\ j \in Nat /\ x \in 0 .. 6
  BY <1>2, SMTT(20)
<1> HIDE DEF j, x
<1>4. j + 1 \in 1 .. k /\ x + 1 \in 1 .. 7 /\ c = (4 + 7 * ((j + 1) - 1)) + (x + 1)
  BY <1>1, <1>2, <1>3
<1> QED
  BY <1>4 DEF k

\* The number of texts.
LEMMA TextsAre ==
    \A m :
        Complete(m) /\ m.type = "PollResponse" =>
           DOMAIN Msgs(m) = 1 .. Count(m) /\ Len(Msgs(m)) = Count(m)
<1> SUFFICES ASSUME NEW m, Complete(m), m.type = "PollResponse"
             PROVE  DOMAIN Msgs(m) = 1 .. Count(m) /\ Len(Msgs(m)) = Count(m)
  OBVIOUS
<1> DEFINE k == Count(m)
<1>1. k \in Nat /\ Len(m.vals) = 4 + 7 * k
  BY Codes6
<1> HIDE DEF k
<1>2. (Len(m.vals) - 4) \div MsgSize = k
  BY <1>1 DEF MsgSize
<1>3. Msgs(m) = [i \in 1 .. k |-> SubSeq(m.vals, 5 + (i - 1) * MsgSize, 4 + i * MsgSize)]
  BY <1>2 DEF Msgs
<1> QED
  BY <1>1, <1>3 DEF k

\* A message whose values are those of V, as the constructors see it.
LEMMA ShapeOf ==
    \A m, V :
        /\ Complete(m) /\ DOMAIN V = 1 .. Len(m.vals) /\ Len(V) = Len(m.vals)
        /\ m.type = "PollResponse" => V[4] = m.vals[4]
        =>
           KindsOf(TypeCode(m.type), V, Kinds(m))
<1> SUFFICES ASSUME NEW m, Complete(m), NEW V, DOMAIN V = 1 .. Len(m.vals),
                    Len(V) = Len(m.vals), m.type = "PollResponse" => V[4] = m.vals[4]
             PROVE  KindsOf(TypeCode(m.type), V, Kinds(m))
  OBVIOUS
<1>1. /\ First(m) \in 1 .. 4 /\ Count(m) \in Nat
      /\ TypeCode(m.type) = 6 <=> m.type = "PollResponse"
      /\ m.type = "PollResponse" <=> First(m) = 4
      /\ Len(m.vals) = First(m) + 7 * Count(m)
      /\ First(m) < 4 => Count(m) = 0
  BY Codes6
<1>2. TypeCode(m.type) = 6 => V[4] \in Nat /\ Len(V) = 4 + V[4] * MsgSize
  <2>1. ASSUME m.type = "PollResponse" PROVE V[4] = Count(m)
    BY <2>1 DEF Count
  <2> QED
    BY <1>1, <2>1 DEF MsgSize
<1>3. TypeCode(m.type) # 6 => Len(V) = First(m)
  BY <1>1
<1>4. \A i \in 1 .. Len(V) - First(m) :
        Kinds(m)[First(m) + i] = MsgFormat[1 + ((i - 1) % MsgSize)]
  <2>1. Len(V) - First(m) = 7 * Count(m)
    BY <1>1
  <2> QED
    BY <2>1, KindsAre
<1>5. \A i \in 1 .. First(m) : Kinds(m)[i] = Format(TypeCode(m.type))[i]
  BY KindsAre
<1> QED
  BY <1>2, <1>3, <1>4, <1>5 DEF KindsOf, First

\* The fields V, of the shape of m, are all within what the constructors take.
Fitting(m, V) ==
    /\ Complete(m) /\ DOMAIN V = 1 .. Len(m.vals) /\ V \in Seq({V[i] : i \in DOMAIN V})
    /\ m.type = "PollResponse" => V[4] = m.vals[4]
    /\ CanBeRead(V, Kinds(m))

\* The payload of V for the type and the number of texts of m.
PayloadOf(m, V) == Middle(Pieces(V, Kinds(m)), First(m), Count(m))

\* It is read back.
LEMMA ReadBack ==
    \A m, V : Fitting(m, V) =>
        /\ PayloadOf(m, V) \in Seq(Byte)
        /\ Construct(TypeCode(m.type), PayloadOf(m, V))
             = [ok |-> TRUE, p |-> Len(PayloadOf(m, V)) + 1, vals |-> V]
<1> SUFFICES ASSUME NEW m, NEW V, Fitting(m, V)
             PROVE  /\ PayloadOf(m, V) \in Seq(Byte)
                    /\ Construct(TypeCode(m.type), PayloadOf(m, V))
                         = [ok |-> TRUE, p |-> Len(PayloadOf(m, V)) + 1, vals |-> V]
  OBVIOUS
<1> DEFINE S == {V[i] : i \in DOMAIN V}
           KK == Kinds(m)
           C == Pieces(V, KK)
           b == PayloadOf(m, V)
           type == TypeCode(m.type)
<1>1. /\ Complete(m) /\ DOMAIN V = 1 .. Len(m.vals) /\ V \in Seq(S) /\ CanBeRead(V, KK)
      /\ m.type = "PollResponse" => V[4] = m.vals[4]
  BY DEF Fitting
<1> HIDE DEF S
<1>2. /\ type \in Codes /\ First(m) \in 1 .. 4 /\ Count(m) \in Nat
      /\ First(m) < 4 => Count(m) = 0
      /\ Len(m.vals) = First(m) + 7 * Count(m)
  BY <1>1, Codes6
<1>3. Len(V) = Len(m.vals)
  <2>1. Len(V) \in Nat /\ DOMAIN V = 1 .. Len(V) /\ Len(m.vals) \in Nat
    BY <1>1, ValsAre
  <2> QED
    BY <1>1, <2>1
<1>4. KindsOf(type, V, KK)
  BY <1>1, <1>3, ShapeOf
<1>5. \A c \in 1 .. First(m) + 7 * Count(m) : C[c] \in Seq(Byte)
  <2> SUFFICES ASSUME NEW c \in DOMAIN V PROVE C[c] \in Seq(Byte)
    BY <1>1, <1>2
  <2> DEFINE k == KK[c]
             x == V[c]
  <2>1. k \in Kind /\ x \in Values(k) /\ C[c] = Wire(x, k)
    BY <1>1 DEF CanBeRead, Pieces
  <2> HIDE DEF k, x, C
  <2> QED
    BY <2>1, WireBytes
<1> HIDE DEF C, KK
<1>6. b = Middle(C, First(m), Count(m))
  BY DEF PayloadOf, C, KK
<1>7. b \in Seq(Byte) /\ CarriesWhole(b, C, 0, Len(V))
  BY <1>2, <1>3, <1>5, <1>6, MiddleCarried
<1> HIDE DEF b, type
<1>8. Construct(type, b) = [ok |-> TRUE, p |-> Len(b) + 1, vals |-> V]
  <2>1. CarriesWhole(b, Pieces(V, KK), 0, Len(V))
    BY <1>7 DEF C
  <2> QED
    BY <1>1, <1>2, <1>4, <1>7, <2>1, ConstructBack
<1> QED
  BY <1>7, <1>8 DEF b, type

-----------------------------------------------------------------------------
(* What the setters let through can be read.                               *)

\* Two ints make eight bytes.
LEMMA Halves ==
    \A x, y \in Seq(Byte) : Len(x) = 4 /\ Len(y) = 4
        => x \o y \in Seq(Byte) /\ Len(x \o y) = 8 /\ (x \o y)[1] = x[1]
<1> SUFFICES ASSUME NEW x \in Seq(Byte), NEW y \in Seq(Byte), Len(x) = 4, Len(y) = 4
             PROVE  x \o y \in Seq(Byte) /\ Len(x \o y) = 8 /\ (x \o y)[1] = x[1]
  OBVIOUS
<1>1. x \o y \in Seq(Byte)
  OBVIOUS
<1>2. Len(x \o y) = Len(x) + Len(y)
  BY ConcatProperties
<1>3. \A i \in 1 .. Len(x) : (x \o y)[i] = x[i]
  <2> SUFFICES ASSUME NEW i \in 1 .. Len(x) PROVE (x \o y)[i] = x[i]
    OBVIOUS
  <2>1. i \in 1 .. Len(x) + Len(y) /\ i <= Len(x)
    OBVIOUS
  <2>2. (x \o y)[i] = IF i <= Len(x) THEN x[i] ELSE y[i - Len(x)]
    BY <2>1, ConcatProperties
  <2> QED
    BY <2>1, <2>2
<1>4. 1 \in 1 .. Len(x)
  OBVIOUS
<1> DEFINE z == x \o y
<1> HIDE DEF z
<1>5. z[1] = x[1] /\ Len(z) = 8
  BY <1>2, <1>3, <1>4 DEF z
<1> QED
  BY <1>1, <1>5 DEF z

\* A long of two halves, the first of them not negative.
LEMMA LongBytes ==
    ASSUME NEW v, v[1] \in Int32, v[2] \in Int32
    PROVE  encodeLong(v) \in Octets(LONG_SIZE) /\ (v[1] >= 0 => encodeLong(v)[1] < 128)
<1> DEFINE x == encodeInt(v[1])
           y == encodeInt(v[2])
<1>1. x \in Seq(Byte) /\ Len(x) = 4 /\ y \in Seq(Byte) /\ Len(y) = 4
  <2>1. v[1] \in Int /\ v[2] \in Int
    BY SmallInt
  <2> QED
    BY <2>1, IntBytes DEF INT_SIZE
<1>2. v[1] >= 0 => x[1] < 128
  <2> SUFFICES ASSUME v[1] >= 0 PROVE x[1] < 128
    OBVIOUS
  <2> DEFINE n == v[1]
             a == n \div 256
             c == a \div 256
             d == c \div 256
  <2>1. n \in Int /\ 0 <= n /\ n <= 2147483647
    <3>1. v[1] \in Int /\ 0 <= v[1]
      BY SmallInt
    <3>2. v[1] <= 2147483647
      BY SMTT(20) DEF Int32
    <3> QED
      BY <3>1, <3>2
  <2>2. x[1] = d % 256
    BY DEF encodeInt
  <2> HIDE DEF n, x
  <2>3. a \in Int /\ 0 <= a /\ a <= 8388607
    BY <2>1, SMTT(20)
  <2> HIDE DEF a
  <2>4. c \in Int /\ 0 <= c /\ c <= 32767
    BY <2>3, SMTT(20)
  <2> HIDE DEF c
  <2>5. d \in Int /\ 0 <= d /\ d <= 127
    BY <2>4, SMTT(20)
  <2> HIDE DEF d
  <2>6. d % 256 = d
    BY <2>5
  <2> QED
    BY <2>2, <2>5, <2>6
<1>3. encodeLong(v) = x \o y
  BY DEF encodeLong
<1> HIDE DEF x, y
<1>4. x \o y \in Seq(Byte) /\ Len(x \o y) = 8 /\ (x \o y)[1] = x[1]
  BY <1>1, Halves
<1> QED
  BY <1>2, <1>3, <1>4 DEF Octets, LONG_SIZE

\* What the setters test of a field.
Admitted(v, kind) ==
    /\ kind = "name"   => validUsername(v)
    /\ kind = "count"  => v >= 0
    /\ kind = "time"   => v[1] >= 0
    /\ kind = "length" => validMsgLen(encodeLong(v))
    /\ kind = "challenge" => setChallenge(v)
    /\ kind = "key"    => setKey(v[1], Tail(v))
    /\ kind = "ack"    => setError(v[1]) /\ setSender(v[2])

\* What is taken of s and of what lies behind it.
LEMMA BytesFound ==
    \A s \in Seq(Byte) : \A mem \in Memory : \A n \in Nat :
        n <= Len(s) + ENCRYPTED_SYM_LENGTH =>
            /\ BytesOf(s, n, mem) \in Seq(Byte) /\ Len(BytesOf(s, n, mem)) = n
            /\ \A i \in 1 .. n : BytesOf(s, n, mem)[i]
                                  = IF i <= Len(s) THEN s[i] ELSE mem[i - Len(s)]
<1> SUFFICES ASSUME NEW s \in Seq(Byte), NEW mem \in Memory, NEW n \in Nat,
                    n <= Len(s) + ENCRYPTED_SYM_LENGTH
             PROVE  /\ BytesOf(s, n, mem) \in Seq(Byte) /\ Len(BytesOf(s, n, mem)) = n
                    /\ \A i \in 1 .. n : BytesOf(s, n, mem)[i]
                                          = IF i <= Len(s) THEN s[i] ELSE mem[i - Len(s)]
  OBVIOUS
<1> DEFINE x == BytesOf(s, n, mem)
<1>1. /\ mem \in Seq(Byte) /\ Len(mem) \in Nat /\ Len(mem) >= 128 /\ Len(s) \in Nat
      /\ n <= Len(s) + 128
  BY DEF Memory, ENCRYPTED_SYM_LENGTH
<1>2. x = [i \in 1 .. n |-> IF i <= Len(s) THEN s[i] ELSE mem[i - Len(s)]]
  BY DEF BytesOf
<1> HIDE DEF x
<1>3. \A i \in 1 .. n : x[i] = (IF i <= Len(s) THEN s[i] ELSE mem[i - Len(s)]) /\ x[i] \in Byte
  <2> SUFFICES ASSUME NEW i \in 1 .. n
               PROVE  x[i] = (IF i <= Len(s) THEN s[i] ELSE mem[i - Len(s)]) /\ x[i] \in Byte
    OBVIOUS
  <2>1. x[i] = IF i <= Len(s) THEN s[i] ELSE mem[i - Len(s)]
    BY <1>2
  <2>2. CASE i <= Len(s)
    BY <1>1, <2>1, <2>2
  <2>3. CASE ~(i <= Len(s))
    <3>1. i - Len(s) \in 1 .. Len(mem)
      BY <1>1, <2>3
    <3>2. mem[i - Len(s)] \in Byte
      BY <1>1, <3>1
    <3> QED
      BY <2>1, <2>3, <3>2
  <2> QED
    BY <2>2, <2>3
<1>4. x \in [1 .. n -> Byte]
  BY <1>2, <1>3
<1>5. x \in Seq(Byte) /\ Len(x) = n
  BY <1>4
<1> QED
  BY <1>3, <1>5 DEF x

\* Nothing of it when s is long enough, ...
LEMMA BytesWithin ==
    \A s \in Seq(Byte) : \A mem, n : n = Len(s) => BytesOf(s, n, mem) = s
<1> SUFFICES ASSUME NEW s \in Seq(Byte), NEW mem PROVE BytesOf(s, Len(s), mem) = s
  OBVIOUS
<1>1. BytesOf(s, Len(s), mem) = [i \in 1 .. Len(s) |-> s[i]]
  BY DEF BytesOf
<1>2. s = [i \in 1 .. Len(s) |-> s[i]]
  OBVIOUS
<1> QED
  BY <1>1, <1>2

\* ... and what stands before the last part is taken whole.
LEMMA BytesAfter ==
    \A s, w \in Seq(Byte) : \A mem \in Memory : \A n, k \in Nat :
        n <= Len(w) + ENCRYPTED_SYM_LENGTH /\ k = Len(s) + n =>
            BytesOf(Cat(s, w), k, mem) = Cat(s, BytesOf(w, n, mem))
<1> SUFFICES ASSUME NEW s \in Seq(Byte), NEW w \in Seq(Byte), NEW mem \in Memory,
                    NEW n \in Nat, NEW k \in Nat,
                    n <= Len(w) + ENCRYPTED_SYM_LENGTH, k = Len(s) + n
             PROVE  BytesOf(Cat(s, w), k, mem) = Cat(s, BytesOf(w, n, mem))
  OBVIOUS
<1> DEFINE c == Cat(s, w)
           x == BytesOf(w, n, mem)
           y == Cat(s, x)
           z == BytesOf(c, k, mem)
<1>1. Len(s) \in Nat /\ Len(w) \in Nat /\ ENCRYPTED_SYM_LENGTH = 128
  BY DEF ENCRYPTED_SYM_LENGTH
<1>2. /\ x \in Seq(Byte) /\ Len(x) = n
      /\ \A i \in 1 .. n : x[i] = IF i <= Len(w) THEN w[i] ELSE mem[i - Len(w)]
  BY BytesFound
<1> HIDE DEF x
<1>3. /\ c \in Seq(Byte) /\ Len(c) = Len(s) + Len(w)
      /\ \A i \in 1 .. Len(s) + Len(w) : c[i] = IF i <= Len(s) THEN s[i] ELSE w[i - Len(s)]
  BY ConcatProperties DEF Cat
<1>4. /\ y \in Seq(Byte) /\ Len(y) = Len(s) + n
      /\ \A i \in 1 .. Len(s) + n : y[i] = IF i <= Len(s) THEN s[i] ELSE x[i - Len(s)]
  BY <1>2, ConcatProperties DEF Cat
<1> HIDE DEF c, y
<1>5. k <= Len(c) + ENCRYPTED_SYM_LENGTH
  BY <1>1, <1>3
<1>6. /\ z \in Seq(Byte) /\ Len(z) = k
      /\ \A i \in 1 .. k : z[i] = IF i <= Len(c) THEN c[i] ELSE mem[i - Len(c)]
  BY <1>3, <1>5, BytesFound
<1> HIDE DEF z
<1>7. \A i \in 1 .. Len(z) : z[i] = y[i]
  <2> SUFFICES ASSUME NEW i \in 1 .. k PROVE z[i] = y[i]
    BY <1>6
  <2>0. i \in Int /\ 1 <= i /\ i <= Len(s) + n
    OBVIOUS
  <2>1. CASE i <= Len(s)
    <3>1. i <= Len(c) /\ i \in 1 .. Len(s) + Len(w) /\ i \in 1 .. Len(s) + n
      BY <1>1, <1>3, <2>0, <2>1
    <3> QED
      BY <1>3, <1>4, <1>6, <2>1, <3>1
  <2>2. CASE ~(i <= Len(s)) /\ i <= Len(s) + Len(w)
    <3>1. /\ i <= Len(c) /\ i \in 1 .. Len(s) + Len(w) /\ i \in 1 .. Len(s) + n
          /\ i - Len(s) \in 1 .. n /\ i - Len(s) <= Len(w)
      BY <1>1, <1>3, <2>0, <2>2
    <3>2. z[i] = w[i - Len(s)]
      BY <1>3, <1>6, <2>2, <3>1
    <3>3. y[i] = x[i - Len(s)] /\ x[i - Len(s)] = w[i - Len(s)]
      BY <1>2, <1>4, <2>2, <3>1
    <3> QED
      BY <3>2, <3>3
  <2>3. CASE ~(i <= Len(s) + Len(w))
    <3>1. /\ ~(i <= Len(c)) /\ ~(i <= Len(s)) /\ i \in 1 .. Len(s) + n
          /\ i - Len(s) \in 1 .. n /\ ~(i - Len(s) <= Len(w))
          /\ i - Len(c) = (i - Len(s)) - Len(w)
      BY <1>1, <1>3, <2>0, <2>3
    <3>2. z[i] = mem[i - Len(c)]
      BY <1>6, <3>1
    <3>3. y[i] = x[i - Len(s)]
      BY <1>4, <3>1
    <3>4. x[i - Len(s)] = mem[(i - Len(s)) - Len(w)]
      BY <1>2, <3>1
    <3> QED
      BY <3>1, <3>2, <3>3, <3>4
  <2> QED
    BY <2>1, <2>2, <2>3
<1>8. z = y
  BY <1>4, <1>6, <1>7, SeqEqual
<1> QED
  BY <1>8 DEF z, y, x, c

\* An argument that passes the test of its setter is a value its reader takes.
LEMMA ArgumentFits ==
    \A v : \A kind \in Kind : \A mem \in Memory :
        Argument(v, kind) /\ Admitted(v, kind) => FieldRead(v, kind, mem) \in Values(kind)
<1> SUFFICES ASSUME NEW v, NEW kind \in Kind, NEW mem \in Memory,
                    Argument(v, kind), Admitted(v, kind)
             PROVE  FieldRead(v, kind, mem) \in Values(kind)
  OBVIOUS
<1>1. CASE kind \in {"long", "length", "time"}
  <2>1. v[1] \in Int32 /\ v[2] \in Int32
    BY <1>1 DEF Argument
  <2>2. encodeLong(v) \in Octets(LONG_SIZE) /\ (v[1] >= 0 => encodeLong(v)[1] < 128)
    BY <2>1, LongBytes
  <2>3. kind = "time" => v[1] >= 0
    BY DEF Admitted
  <2>4. kind = "length" => validMsgLen(encodeLong(v))
    BY DEF Admitted
  <2> DEFINE x == encodeLong(v)
  <2> HIDE DEF x
  <2>5. x \in Octets(LONG_SIZE) /\ (kind = "time" => x[1] < 128)
        /\ (kind = "length" => validMsgLen(x))
    BY <2>2, <2>3, <2>4 DEF x
  <2>6. x \in Values(kind)
    BY <1>1, <2>5 DEF Values
  <2> QED
    BY <1>1, <2>6 DEF x, FieldRead
<1>2. CASE kind \in {"string", "name"}
  <2>1. v \in Seq(Byte) /\ Len(v) \in Int32
    BY <1>2 DEF Argument
  <2>2. kind = "name" => validUsername(v)
    BY DEF Admitted
  <2> QED
    BY <1>2, <2>1, <2>2 DEF Values, FieldRead
<1>3. CASE kind \in {"int", "count"}
  <2>1. v \in Int32
    BY <1>3 DEF Argument
  <2>2. kind = "count" => v >= 0
    BY DEF Admitted
  <2> QED
    BY <1>3, <2>1, <2>2 DEF Values, FieldRead
<1>4. CASE kind = "nonce"
  <2> DEFINE x == BytesOf(v, LONG_SIZE, mem)
  <2>1. v \in Seq(Byte)
    BY <1>4 DEF Argument
  <2>2. LONG_SIZE \in Nat /\ LONG_SIZE <= Len(v) + ENCRYPTED_SYM_LENGTH
    BY <2>1 DEF LONG_SIZE, ENCRYPTED_SYM_LENGTH
  <2>3. x \in Octets(LONG_SIZE)
    BY <2>1, <2>2, BytesFound DEF Octets
  <2>4. FieldRead(v, kind, mem) = x
    BY <1>4 DEF FieldRead
  <2> HIDE DEF x
  <2> QED
    BY <1>4, <2>3, <2>4 DEF Values
<1>5. CASE kind = "challenge"
  <2>1. v \in Seq(Byte) /\ Len(v) = CHALLENGE_LENGTH
    BY <1>5 DEF Argument, Admitted, setChallenge
  <2> QED
    BY <1>5, <2>1 DEF Values, Octets, FieldRead
<1>6. CASE kind = "key"
  <2>1. v \in Seq(Byte) /\ v # << >>
    BY <1>6 DEF Argument
  <2>2. setKey(v[1], Tail(v))
    BY <1>6 DEF Admitted
  <2>3. v[1] = 0 \/ v[1] = 1 \/ v[1] = 2
    BY <2>2 DEF setKey
  <2>4. \A s \in Seq(Byte) : s # << >> /\ setKey(s[1], Tail(s)) /\ (s[1] = 0 => Len(s) = 1)
                              => s \in Values(kind)
    BY <1>6 DEF Values
  <2>5. CASE v[1] = 1
    <3>1. FieldRead(v, kind, mem) = v
      BY <1>6, <2>5 DEF FieldRead
    <3> QED
      BY <2>1, <2>2, <2>4, <2>5, <3>1
  <2>6. CASE v[1] = 0
    <3> DEFINE z == <<0>>
    <3>1. FieldRead(v, kind, mem) = z
      BY <1>6, <2>6 DEF FieldRead
    <3>2. 0 \in Byte
      BY DEF Byte
    <3>3. z \in Seq(Byte) /\ z # << >> /\ z[1] = 0 /\ Len(z) = 1
      BY <3>2
    <3>4. setKey(z[1], Tail(z))
      BY <3>3 DEF setKey
    <3> HIDE DEF z
    <3> QED
      BY <2>4, <3>1, <3>3, <3>4
  <2>7. CASE v[1] = 2
    <3> DEFINE y == <<2>>
               z == BytesOf(y, 1 + ENCRYPTED_SYM_LENGTH, mem)
    <3>1. FieldRead(v, kind, mem) = z
      BY <1>6, <2>7 DEF FieldRead
    <3>2. 2 \in Byte
      BY DEF Byte
    <3>3. y \in Seq(Byte) /\ Len(y) = 1 /\ y[1] = 2
      BY <3>2
    <3> HIDE DEF y
    <3>4. /\ 1 + ENCRYPTED_SYM_LENGTH \in Nat /\ 1 + ENCRYPTED_SYM_LENGTH = 129
          /\ 1 + ENCRYPTED_SYM_LENGTH <= Len(y) + ENCRYPTED_SYM_LENGTH
      BY <3>3 DEF ENCRYPTED_SYM_LENGTH
    <3>5. /\ z \in Seq(Byte) /\ Len(z) = 1 + ENCRYPTED_SYM_LENGTH
          /\ \A i \in 1 .. 1 + ENCRYPTED_SYM_LENGTH :
                 z[i] = IF i <= Len(y) THEN y[i] ELSE mem[i - Len(y)]
      BY <3>3, <3>4, BytesFound, SMTT(30)
    <3> HIDE DEF z
    <3>6. z \in Seq(Byte) /\ Len(z) = 129 /\ z[1] = 2
      BY <3>3, <3>4, <3>5
    <3>7. z # << >> /\ Len(Tail(z)) = 128
      BY <3>6
    <3>8. setKey(z[1], Tail(z))
      BY <3>6, <3>7 DEF setKey, ENCRYPTED_SYM_LENGTH
    <3> QED
      BY <2>4, <3>1, <3>6, <3>7, <3>8
  <2> QED
    BY <2>3, <2>5, <2>6, <2>7
<1>7. CASE kind = "ack"
  <2>1. v \in Int \X Int
    BY <1>7 DEF Argument
  <2>2. v[1] \in SUCCESS .. PASSWORD_AUTH /\ v[2] \in {SERVER, CLIENT}
    BY <1>7 DEF Admitted, setError, setSender
  <2>3. v = <<v[1], v[2]>>
    BY <2>1
  <2>4. v \in {<<e, f>> : e \in SUCCESS .. PASSWORD_AUTH, f \in {SERVER, CLIENT}}
    BY <2>2, <2>3
  <2>5. FieldRead(v, kind, mem) = v
    BY <1>7 DEF FieldRead
  <2> QED
    BY <1>7, <2>4, <2>5 DEF Values
<1> QED
  BY <1>1, <1>2, <1>3, <1>4, <1>5, <1>6, <1>7 DEF Kind

\* The first fields of each class.
LEMMA FirstKinds ==
    \A m : Complete(m) =>
        /\ m.type = "Login" => First(m) = 2 /\ Kinds(m)[1] = "name" /\ Kinds(m)[2] = "key"
        /\ m.type = "Challenge" => First(m) = 1 /\ Kinds(m)[1] = "challenge"
        /\ m.type = "Response" => /\ First(m) = 3 /\ Kinds(m)[1] = "name"
                                  /\ Kinds(m)[2] = "string" /\ Kinds(m)[3] = "nonce"
        /\ m.type = "ACK" => First(m) = 1 /\ Kinds(m)[1] = "ack"
        /\ m.type = "Poll" => First(m) = 2 /\ Kinds(m)[1] = "name" /\ Kinds(m)[2] = "long"
        /\ m.type = "PollResponse" => /\ First(m) = 4 /\ Kinds(m)[1] = "name"
                                      /\ Kinds(m)[2] = "count" /\ Kinds(m)[3] = "count"
                                      /\ Kinds(m)[4] = "int"
<1> SUFFICES ASSUME NEW m, Complete(m)
             PROVE
        /\ m.type = "Login" => First(m) = 2 /\ Kinds(m)[1] = "name" /\ Kinds(m)[2] = "key"
        /\ m.type = "Challenge" => First(m) = 1 /\ Kinds(m)[1] = "challenge"
        /\ m.type = "Response" => /\ First(m) = 3 /\ Kinds(m)[1] = "name"
                                  /\ Kinds(m)[2] = "string" /\ Kinds(m)[3] = "nonce"
        /\ m.type = "ACK" => First(m) = 1 /\ Kinds(m)[1] = "ack"
        /\ m.type = "Poll" => First(m) = 2 /\ Kinds(m)[1] = "name" /\ Kinds(m)[2] = "long"
        /\ m.type = "PollResponse" => /\ First(m) = 4 /\ Kinds(m)[1] = "name"
                                      /\ Kinds(m)[2] = "count" /\ Kinds(m)[3] = "count"
                                      /\ Kinds(m)[4] = "int"
  OBVIOUS
<1>1. \A i \in 1 .. First(m) : Kinds(m)[i] = Format(TypeCode(m.type))[i]
  BY KindsAre
<1>2. CASE m.type = "Login"
  <2>1. Format(TypeCode(m.type)) = <<"name", "key">> /\ First(m) = 2
    BY <1>2 DEF First, TypeCode, Format, loginFormat
  <2> QED
    BY <1>1, <1>2, <2>1
<1>3. CASE m.type = "Challenge"
  <2>1. Format(TypeCode(m.type)) = <<"challenge">> /\ First(m) = 1
    BY <1>3 DEF First, TypeCode, Format, challengeFormat
  <2> QED
    BY <1>1, <1>3, <2>1
<1>4. CASE m.type = "Response"
  <2>1. Format(TypeCode(m.type)) = <<"name", "string", "nonce">> /\ First(m) = 3
    BY <1>4 DEF First, TypeCode, Format, responseFormat
  <2> QED
    BY <1>1, <1>4, <2>1
<1>5. CASE m.type = "ACK"
  <2>1. Format(TypeCode(m.type)) = <<"ack">> /\ First(m) = 1
    BY <1>5 DEF First, TypeCode, Format, ackFormat
  <2> QED
    BY <1>1, <1>5, <2>1
<1>6. CASE m.type = "Poll"
  <2>1. Format(TypeCode(m.type)) = <<"name", "long">> /\ First(m) = 2
    BY <1>6 DEF First, TypeCode, Format, pollFormat
  <2> QED
    BY <1>1, <1>6, <2>1
<1>7. CASE m.type = "PollResponse"
  <2>1. Format(TypeCode(m.type)) = <<"name", "count", "count", "int">> /\ First(m) = 4
    BY <1>7 DEF First, TypeCode, Format, pollResponseFormat
  <2> QED
    BY <1>1, <1>7, <2>1
<1> QED
  BY <1>2, <1>3, <1>4, <1>5, <1>6, <1>7 DEF Complete

-----------------------------------------------------------------------------
(* The objects.                                                            *)

\* The setters have tested every field.
LEMMA Tested ==
    \A m : Complete(m) /\ make(m) =>
        \A c \in 1 .. Len(m.vals) : Admitted(m.vals[c], Kinds(m)[c])
<1> SUFFICES ASSUME NEW m, Complete(m), make(m), NEW c \in 1 .. Len(m.vals)
             PROVE  Admitted(m.vals[c], Kinds(m)[c])
  OBVIOUS
<1> DEFINE v == m.vals
<1>1. /\ First(m) \in 1 .. 4 /\ Count(m) \in Nat
      /\ Len(v) = First(m) + 7 * Count(m)
      /\ m.type # "PollResponse" => Len(v) = First(m)
  <2>1. /\ First(m) \in 1 .. 4 /\ Count(m) \in Nat
        /\ Len(v) = First(m) + 7 * Count(m)
    BY Codes6
  <2>2. ASSUME m.type # "PollResponse" PROVE Count(m) = 0
    BY <2>2 DEF Count
  <2> DEFINE n == Len(v)
  <2> HIDE DEF v
  <2> QED
    BY <2>1, <2>2
<1>2. CASE m.type = "Login"
  <2>1. validUsername(v[1]) /\ setKey(v[2][1], Tail(v[2]))
    BY <1>2 DEF make, makeLogin, setUsername
  <2>2. (c = 1 \/ c = 2) /\ Kinds(m)[1] = "name" /\ Kinds(m)[2] = "key"
    <3>1. First(m) = 2 /\ Kinds(m)[1] = "name" /\ Kinds(m)[2] = "key"
      BY <1>2, FirstKinds
    <3>2. Len(v) = 2
      BY <1>1, <1>2, <3>1
    <3> QED
      BY <3>1, <3>2
  <2> QED
    BY <2>1, <2>2 DEF Admitted
<1>3. CASE m.type = "Challenge"
  <2>1. setChallenge(v[1])
    BY <1>3 DEF make, makeChallenge
  <2>2. c = 1 /\ Kinds(m)[1] = "challenge"
    <3>1. First(m) = 1 /\ Kinds(m)[1] = "challenge"
      BY <1>3, FirstKinds
    <3>2. Len(v) = 1
      BY <1>1, <1>3, <3>1
    <3> QED
      BY <3>1, <3>2
  <2> QED
    BY <2>1, <2>2 DEF Admitted
<1>4. CASE m.type = "Response"
  <2>1. validUsername(v[1])
    BY <1>4 DEF make, makeResponse, responseSetters
  <2>2. /\ c = 1 \/ c = 2 \/ c = 3
        /\ Kinds(m)[1] = "name" /\ Kinds(m)[2] = "string" /\ Kinds(m)[3] = "nonce"
    <3>1. /\ First(m) = 3 /\ Kinds(m)[1] = "name" /\ Kinds(m)[2] = "string"
          /\ Kinds(m)[3] = "nonce"
      BY <1>4, FirstKinds
    <3>2. Len(v) = 3
      BY <1>1, <1>4, <3>1
    <3> QED
      BY <3>1, <3>2
  <2> QED
    BY <2>1, <2>2 DEF Admitted
<1>5. CASE m.type = "ACK"
  <2>1. setError(v[1][1]) /\ setSender(v[1][2])
    BY <1>5 DEF make, makeACK
  <2>2. c = 1 /\ Kinds(m)[1] = "ack"
    <3>1. First(m) = 1 /\ Kinds(m)[1] = "ack"
      BY <1>5, FirstKinds
    <3>2. Len(v) = 1
      BY <1>1, <1>5, <3>1
    <3> QED
      BY <3>1, <3>2
  <2> QED
    BY <2>1, <2>2 DEF Admitted
<1>6. CASE m.type = "Poll"
  <2>1. validUsername(v[1])
    BY <1>6 DEF make, makePoll, pollSetters
  <2>2. (c = 1 \/ c = 2) /\ Kinds(m)[1] = "name" /\ Kinds(m)[2] = "long"
    <3>1. First(m) = 2 /\ Kinds(m)[1] = "name" /\ Kinds(m)[2] = "long"
      BY <1>6, FirstKinds
    <3>2. Len(v) = 2
      BY <1>1, <1>6, <3>1
    <3> QED
      BY <3>1, <3>2
  <2> QED
    BY <2>1, <2>2 DEF Admitted
<1>7. CASE m.type = "PollResponse"
  <2>1. /\ validUsername(v[1]) /\ v[2] >= 0 /\ v[3] >= 0
        /\ \A u \in Range(Msgs(m)) : makeMsg(u)
    BY <1>7 DEF make, makePollResponse, setList, validPositiveNum
  <2>2. /\ First(m) = 4 /\ Kinds(m)[1] = "name" /\ Kinds(m)[2] = "count"
        /\ Kinds(m)[3] = "count" /\ Kinds(m)[4] = "int"
    BY <1>7, FirstKinds
  <2>3. CASE c <= 4
    <3>1. c = 1 \/ c = 2 \/ c = 3 \/ c = 4
      BY <2>3
    <3> QED
      BY <2>1, <2>2, <3>1 DEF Admitted
  <2>4. CASE ~(c <= 4)
    <3>1. PICK j \in 1 .. Count(m), x \in 1 .. 7 : c = (4 + 7 * (j - 1)) + x
      BY <2>2, <2>4, TextOf
    <3> DEFINE u == Msgs(m)[j]
    <3>2. j \in DOMAIN Msgs(m) /\ u[x] = v[c] /\ Kinds(m)[c] = MsgFormat[x]
      BY <3>1, TextAt
    <3>3. makeMsg(u)
      BY <2>1, <3>2 DEF Range
    <3> HIDE DEF u
    <3>4. /\ validUsername(u[1]) /\ validUsername(u[2]) /\ validMsgLen(encodeLong(u[4]))
          /\ u[6] >= 0 /\ u[7][1] >= 0
      BY <3>3 DEF makeMsg, validPositiveNum
    <3>5. x = 1 \/ x = 2 \/ x = 3 \/ x = 4 \/ x = 5 \/ x = 6 \/ x = 7
      OBVIOUS
    <3>6. Admitted(u[x], MsgFormat[x])
      BY <3>4, <3>5 DEF Admitted, MsgFormat
    <3> QED
      BY <3>2, <3>6
  <2> QED
    BY <2>3, <2>4
<1> QED
  BY <1>2, <1>3, <1>4, <1>5, <1>6, <1>7 DEF Complete

\* Every field has a kind.
LEMMA KindOf ==
    \A m : Complete(m) => \A c \in 1 .. Len(m.vals) :
        Kinds(m)[c] \in Kind /\ (Kinds(m)[c] = "key" => c = Len(m.vals))
<1> SUFFICES ASSUME NEW m, Complete(m), NEW c \in 1 .. Len(m.vals)
             PROVE  Kinds(m)[c] \in Kind /\ (Kinds(m)[c] = "key" => c = Len(m.vals))
  OBVIOUS
<1>1. CASE ~(c <= First(m))
  <2>1. PICK j \in 1 .. Count(m), x \in 1 .. 7 : c = (4 + 7 * (j - 1)) + x
    BY <1>1, TextOf
  <2>2. Kinds(m)[c] = MsgFormat[x]
    BY <2>1, TextAt
  <2>3. MsgFormat[x] \in {"string", "name", "int", "count", "time", "length"}
    BY MsgKinds
  <2> QED
    BY <2>2, <2>3 DEF Kind
<1>2. CASE c <= First(m)
  <2>1. /\ First(m) \in 1 .. 4 /\ Count(m) \in Nat
        /\ First(m) < 4 => Count(m) = 0
        /\ Len(m.vals) = First(m) + 7 * Count(m)
    BY Codes6
  <2>2. c \in 1 .. First(m)
    BY <1>2, <2>1
  <2>3. CASE m.type = "Login"
    <3>1. First(m) = 2 /\ Kinds(m)[1] = "name" /\ Kinds(m)[2] = "key"
      BY <2>3, FirstKinds
    <3>2. (c = 1 \/ c = 2) /\ Len(m.vals) = 2
      BY <2>1, <2>2, <3>1
    <3> QED
      BY <3>1, <3>2 DEF Kind
  <2>4. CASE m.type = "Challenge"
    <3>1. First(m) = 1 /\ Kinds(m)[1] = "challenge"
      BY <2>4, FirstKinds
    <3>2. c = 1
      BY <2>2, <3>1
    <3> QED
      BY <3>1, <3>2 DEF Kind
  <2>5. CASE m.type = "Response"
    <3>1. /\ First(m) = 3 /\ Kinds(m)[1] = "name" /\ Kinds(m)[2] = "string"
          /\ Kinds(m)[3] = "nonce"
      BY <2>5, FirstKinds
    <3>2. c = 1 \/ c = 2 \/ c = 3
      BY <2>2, <3>1
    <3> QED
      BY <3>1, <3>2 DEF Kind
  <2>6. CASE m.type = "ACK"
    <3>1. First(m) = 1 /\ Kinds(m)[1] = "ack"
      BY <2>6, FirstKinds
    <3>2. c = 1
      BY <2>2, <3>1
    <3> QED
      BY <3>1, <3>2 DEF Kind
  <2>7. CASE m.type = "Poll"
    <3>1. First(m) = 2 /\ Kinds(m)[1] = "name" /\ Kinds(m)[2] = "long"
      BY <2>7, FirstKinds
    <3>2. c = 1 \/ c = 2
      BY <2>2, <3>1
    <3> QED
      BY <3>1, <3>2 DEF Kind
  <2>8. CASE m.type = "PollResponse"
    <3>1. /\ First(m) = 4 /\ Kinds(m)[1] = "name" /\ Kinds(m)[2] = "count"
          /\ Kinds(m)[3] = "count" /\ Kinds(m)[4] = "int"
      BY <2>8, FirstKinds
    <3>2. c = 1 \/ c = 2 \/ c = 3 \/ c = 4
      BY <2>2, <3>1
    <3> QED
      BY <3>1, <3>2 DEF Kind
  <2> QED
    BY <2>3, <2>4, <2>5, <2>6, <2>7, <2>8 DEF Complete
<1> QED
  BY <1>1, <1>2

\* The fields of an object that was made can be read back.
LEMMA ObjectFits ==
    \A m : \A mem \in Memory : Object(m) /\ make(m) => Fitting(m, AsRead(m, mem))
<1> SUFFICES ASSUME NEW m, NEW mem \in Memory, Object(m), make(m)
             PROVE  Fitting(m, AsRead(m, mem))
  OBVIOUS
<1> DEFINE V == AsRead(m, mem)
           n == Len(m.vals)
<1>1. Complete(m) /\ \A i \in DOMAIN m.vals : Argument(m.vals[i], Kinds(m)[i])
  BY DEF Object
<1>2. DOMAIN m.vals = 1 .. n /\ n \in Nat
  BY <1>1, ValsAre
<1>3. \A c \in 1 .. n : V[c] = FieldRead(m.vals[c], Kinds(m)[c], mem)
  BY <1>2 DEF AsRead
<1>4. DOMAIN V = 1 .. n /\ V = [c \in 1 .. n |-> V[c]]
  BY <1>2 DEF AsRead
<1>5. V \in Seq({V[i] : i \in DOMAIN V})
  <2> DEFINE S == {V[i] : i \in DOMAIN V}
  <2>1. \A c \in 1 .. n : V[c] \in S
    BY <1>4
  <2> HIDE DEF S, V, n
  <2>2. V \in [1 .. n -> S]
    BY <1>4, <2>1
  <2>3. V \in Seq(S)
    BY <1>2, <2>2
  <2> QED
    BY <2>3 DEF S
<1>6. CanBeRead(V, Kinds(m))
  <2> SUFFICES ASSUME NEW c \in 1 .. n
               PROVE  /\ Kinds(m)[c] \in Kind /\ V[c] \in Values(Kinds(m)[c])
                      /\ Kinds(m)[c] = "key" => c = Len(V)
    BY <1>4 DEF CanBeRead
  <2> DEFINE k == Kinds(m)[c]
             v == m.vals[c]
  <2>1. k \in Kind /\ (k = "key" => c = n)
    BY <1>1, KindOf
  <2>2. Argument(v, k)
    BY <1>1, <1>2
  <2>3. Admitted(v, k)
    BY <1>1, Tested
  <2>4. Len(V) = n
    <3> HIDE DEF V, n
    <3> QED
      BY <1>2, <1>5, <1>4
  <2>5. V[c] = FieldRead(v, k, mem)
    BY <1>3
  <2> HIDE DEF k, v, V, n
  <2>6. V[c] \in Values(k)
    BY <2>1, <2>2, <2>3, <2>5, ArgumentFits
  <2> QED
    BY <2>1, <2>4, <2>6 DEF k
<1>7. m.type = "PollResponse" => V[4] = m.vals[4]
  <2> SUFFICES ASSUME m.type = "PollResponse" PROVE V[4] = m.vals[4]
    OBVIOUS
  <2>1. First(m) = 4 /\ Kinds(m)[4] = "int"
    BY <1>1, FirstKinds
  <2>2. 4 \in 1 .. n
    <3>1. n = First(m) + 7 * Count(m) /\ Count(m) \in Nat
      BY <1>1, Codes6
    <3> HIDE DEF n
    <3> QED
      BY <2>1, <3>1
  <2>3. V[4] = FieldRead(m.vals[4], "int", mem)
    BY <1>3, <2>1, <2>2
  <2> HIDE DEF V, n
  <2> QED
    BY <2>3 DEF FieldRead
<1> QED
  BY <1>1, <1>4, <1>5, <1>6, <1>7 DEF Fitting

-----------------------------------------------------------------------------
(* What encode makes of them.                                              *)

\* Lengths add up.
LEMMA CatLength ==
    \A s, t \in Seq(Byte) : Cat(s, t) \in Seq(Byte) /\ Len(Cat(s, t)) = Len(s) + Len(t)
BY ConcatProperties DEF Cat

\* encodeString writes the length and the string.
LEMMA StringLength ==
    \A s \in Seq(Byte) :
        encodeString(s) \in Seq(Byte) /\ Len(encodeString(s)) = INT_SIZE + Len(s)
<1> SUFFICES ASSUME NEW s \in Seq(Byte)
             PROVE  encodeString(s) \in Seq(Byte) /\ Len(encodeString(s)) = INT_SIZE + Len(s)
  OBVIOUS
<1> DEFINE x == encodeInt(Len(s))
<1>1. x \in Seq(Byte) /\ Len(x) = INT_SIZE
  BY IntBytes
<1>2. encodeString(s) = Cat(x, s)
  BY DEF encodeString, Cat
<1> HIDE DEF x
<1> QED
  BY <1>1, <1>2, CatLength

\* A text.
LEMMA TextLength ==
    \A u : /\ u[1] \in Seq(Byte) /\ u[2] \in Seq(Byte) /\ u[3] \in Seq(Byte)
           /\ u[4][1] \in Int32 /\ u[4][2] \in Int32 /\ u[5] \in Int32 /\ u[6] \in Int32
           /\ u[7][1] \in Int32 /\ u[7][2] \in Int32
        => encodeMessage(u) \in Seq(Byte) /\ Len(encodeMessage(u)) = msgLength(u)
<1> SUFFICES ASSUME NEW u, u[1] \in Seq(Byte), u[2] \in Seq(Byte), u[3] \in Seq(Byte),
                    u[4][1] \in Int32, u[4][2] \in Int32, u[5] \in Int32, u[6] \in Int32,
                    u[7][1] \in Int32, u[7][2] \in Int32
             PROVE  encodeMessage(u) \in Seq(Byte) /\ Len(encodeMessage(u)) = msgLength(u)
  OBVIOUS
<1> DEFINE s1 == encodeString(u[1])
           s2 == encodeString(u[2])
           s3 == encodeString(u[3])
           s4 == encodeLong(u[4])
           s5 == encodeInt(u[5])
           s6 == encodeInt(u[6])
           s7 == encodeLong(u[7])
           n1 == Len(u[1])
           n2 == Len(u[2])
           n3 == Len(u[3])
<1>1. n1 \in Nat /\ n2 \in Nat /\ n3 \in Nat
  OBVIOUS
<1>2. /\ s1 \in Seq(Byte) /\ s2 \in Seq(Byte) /\ s3 \in Seq(Byte)
      /\ Len(s1) = 4 + n1 /\ Len(s2) = 4 + n2 /\ Len(s3) = 4 + n3
  BY StringLength DEF INT_SIZE
<1>3. s4 \in Octets(8) /\ s7 \in Octets(8)
  BY LongBytes DEF LONG_SIZE
<1>4. s4 \in Seq(Byte) /\ Len(s4) = 8 /\ s7 \in Seq(Byte) /\ Len(s7) = 8
  BY <1>3 DEF Octets
<1>5. s5 \in Seq(Byte) /\ Len(s5) = 4 /\ s6 \in Seq(Byte) /\ Len(s6) = 4
  <2>1. u[5] \in Int /\ u[6] \in Int
    BY SmallInt
  <2> QED
    BY <2>1, IntBytes DEF INT_SIZE
<1>6. encodeMessage(u) = Cat(Cat(Cat(Cat(Cat(Cat(s1, s2), s3), s4), s5), s6), s7)
  BY DEF encodeMessage, Cat
<1>7. msgLength(u) = 36 + n1 + n2 + n3
  <2>1. msgLength(u) = 4 * 5 + 8 * 2 + n1 + n2 + n3
    BY DEF msgLength, INT_SIZE, LONG_SIZE
  <2> HIDE DEF n1, n2, n3
  <2> QED
    BY <1>1, <2>1
<1> HIDE DEF s1, s2, s3, s4, s5, s6, s7, n1, n2, n3
<1> DEFINE c2 == Cat(s1, s2)
           c3 == Cat(c2, s3)
           c4 == Cat(c3, s4)
           c5 == Cat(c4, s5)
           c6 == Cat(c5, s6)
           c7 == Cat(c6, s7)
<1>8. c2 \in Seq(Byte) /\ Len(c2) = 8 + n1 + n2
  <2>1. c2 \in Seq(Byte) /\ Len(c2) = Len(s1) + Len(s2)
    BY <1>2, CatLength
  <2> HIDE DEF c2
  <2>2. Len(c2) = (4 + n1) + (4 + n2)
    BY <1>2, <2>1
  <2>3. (4 + n1) + (4 + n2) = 8 + n1 + n2
    BY <1>1
  <2> QED
    BY <2>1, <2>2, <2>3
<1> HIDE DEF c2
<1>9. c3 \in Seq(Byte) /\ Len(c3) = 12 + n1 + n2 + n3
  <2>1. c3 \in Seq(Byte) /\ Len(c3) = Len(c2) + Len(s3)
    BY <1>8, <1>2, CatLength
  <2> HIDE DEF c3
  <2>2. Len(c3) = (8 + n1 + n2) + (4 + n3)
    BY <1>8, <1>2, <2>1
  <2>3. (8 + n1 + n2) + (4 + n3) = 12 + n1 + n2 + n3
    BY <1>1
  <2> QED
    BY <2>1, <2>2, <2>3
<1> HIDE DEF c3
<1>10. c4 \in Seq(Byte) /\ Len(c4) = 20 + n1 + n2 + n3
  <2>1. c4 \in Seq(Byte) /\ Len(c4) = Len(c3) + Len(s4)
    BY <1>9, <1>4, CatLength
  <2> HIDE DEF c4
  <2>2. Len(c4) = (12 + n1 + n2 + n3) + 8
    BY <1>9, <1>4, <2>1
  <2>3. (12 + n1 + n2 + n3) + 8 = 20 + n1 + n2 + n3
    BY <1>1
  <2> QED
    BY <2>1, <2>2, <2>3
<1> HIDE DEF c4
<1>11. c5 \in Seq(Byte) /\ Len(c5) = 24 + n1 + n2 + n3
  <2>1. c5 \in Seq(Byte) /\ Len(c5) = Len(c4) + Len(s5)
    BY <1>10, <1>5, CatLength
  <2> HIDE DEF c5
  <2>2. Len(c5) = (20 + n1 + n2 + n3) + 4
    BY <1>10, <1>5, <2>1
  <2>3. (20 + n1 + n2 + n3) + 4 = 24 + n1 + n2 + n3
    BY <1>1
  <2> QED
    BY <2>1, <2>2, <2>3
<1> HIDE DEF c5
<1>12. c6 \in Seq(Byte) /\ Len(c6) = 28 + n1 + n2 + n3
  <2>1. c6 \in Seq(Byte) /\ Len(c6) = Len(c5) + Len(s6)
    BY <1>11, <1>5, CatLength
  <2> HIDE DEF c6
  <2>2. Len(c6) = (24 + n1 + n2 + n3) + 4
    BY <1>11, <1>5, <2>1
  <2>3. (24 + n1 + n2 + n3) + 4 = 28 + n1 + n2 + n3
    BY <1>1
  <2> QED
    BY <2>1, <2>2, <2>3
<1> HIDE DEF c6
<1>13. c7 \in Seq(Byte) /\ Len(c7) = 36 + n1 + n2 + n3
  <2>1. c7 \in Seq(Byte) /\ Len(c7) = Len(c6) + Len(s7)
    BY <1>12, <1>4, CatLength
  <2> HIDE DEF c7
  <2>2. Len(c7) = (28 + n1 + n2 + n3) + 8
    BY <1>12, <1>4, <2>1
  <2>3. (28 + n1 + n2 + n3) + 8 = 36 + n1 + n2 + n3
    BY <1>1
  <2> QED
    BY <2>1, <2>2, <2>3
<1>14. encodeMessage(u) = c7
  BY <1>6 DEF c7, c6, c5, c4, c3, c2
<1> HIDE DEF c7
<1> QED
  BY <1>7, <1>13, <1>14

\* The pieces of an object.
LEMMA PieceIs ==
    \A m, mem : Complete(m) => \A c \in 1 .. Len(m.vals) :
        Pieces(AsRead(m, mem), Kinds(m))[c]
          = Wire(FieldRead(m.vals[c], Kinds(m)[c], mem), Kinds(m)[c])
<1> SUFFICES ASSUME NEW m, NEW mem, Complete(m), NEW c \in 1 .. Len(m.vals)
             PROVE  Pieces(AsRead(m, mem), Kinds(m))[c]
                      = Wire(FieldRead(m.vals[c], Kinds(m)[c], mem), Kinds(m)[c])
  OBVIOUS
<1>1. DOMAIN m.vals = 1 .. Len(m.vals)
  BY ValsAre
<1>2. c \in DOMAIN AsRead(m, mem) /\ DOMAIN AsRead(m, mem) = DOMAIN m.vals
  BY <1>1 DEF AsRead
<1>3. AsRead(m, mem)[c] = FieldRead(m.vals[c], Kinds(m)[c], mem)
  BY <1>1 DEF AsRead
<1> QED
  BY <1>2, <1>3 DEF Pieces

\* So the pieces are what the encode of each class calls.
LEMMA PieceOf ==
    \A m, mem : Complete(m) => \A c \in 1 .. Len(m.vals) : \A kind, v :
        kind = Kinds(m)[c] /\ v = m.vals[c] =>
        /\ kind \in {"string", "name"} => Pieces(AsRead(m, mem), Kinds(m))[c] = encodeString(v)
        /\ kind \in {"int", "count"} => Pieces(AsRead(m, mem), Kinds(m))[c] = encodeInt(v)
        /\ kind \in {"long", "length", "time"} => Pieces(AsRead(m, mem), Kinds(m))[c] = encodeLong(v)
        /\ kind = "challenge" => Pieces(AsRead(m, mem), Kinds(m))[c] = v
        /\ kind \in {"nonce", "key"} => Pieces(AsRead(m, mem), Kinds(m))[c] = FieldRead(v, kind, mem)
        /\ kind = "ack" => Pieces(AsRead(m, mem), Kinds(m))[c] = <<v[1] * 2 + v[2]>>
<1> SUFFICES ASSUME NEW m, NEW mem, Complete(m), NEW c \in 1 .. Len(m.vals), NEW kind, NEW v,
                    kind = Kinds(m)[c], v = m.vals[c]
             PROVE
        /\ kind \in {"string", "name"} => Pieces(AsRead(m, mem), Kinds(m))[c] = encodeString(v)
        /\ kind \in {"int", "count"} => Pieces(AsRead(m, mem), Kinds(m))[c] = encodeInt(v)
        /\ kind \in {"long", "length", "time"} => Pieces(AsRead(m, mem), Kinds(m))[c] = encodeLong(v)
        /\ kind = "challenge" => Pieces(AsRead(m, mem), Kinds(m))[c] = v
        /\ kind \in {"nonce", "key"} => Pieces(AsRead(m, mem), Kinds(m))[c] = FieldRead(v, kind, mem)
        /\ kind = "ack" => Pieces(AsRead(m, mem), Kinds(m))[c] = <<v[1] * 2 + v[2]>>
  OBVIOUS
<1> DEFINE x == Pieces(AsRead(m, mem), Kinds(m))[c]
<1>1. x = Wire(FieldRead(v, kind, mem), kind)
  BY PieceIs
<1> HIDE DEF x
<1>2. kind \in {"string", "name"} => x = encodeString(v)
  BY <1>1 DEF Wire, FieldRead
<1>3. kind \in {"int", "count"} => x = encodeInt(v)
  BY <1>1 DEF Wire, FieldRead
<1>4. kind \in {"long", "length", "time"} => x = encodeLong(v)
  BY <1>1 DEF Wire, FieldRead
<1>5. kind = "challenge" => x = v
  BY <1>1 DEF Wire, FieldRead
<1>6. kind = "ack" => x = <<v[1] * 2 + v[2]>>
  BY <1>1 DEF Wire, FieldRead
<1>7. kind \in {"nonce", "key"} => x = FieldRead(v, kind, mem)
  BY <1>1 DEF Wire
<1> QED
  BY <1>2, <1>3, <1>4, <1>5, <1>6, <1>7 DEF x

\* What encode writes is, as far as the header says, the payload of the fields
\* as they are read.
Whole(m, mem) ==
    /\ encodeMiddle(m) \in Seq(Byte) /\ getPayloadLength(m) \in Nat
    /\ getPayloadLength(m) <= Len(encodeMiddle(m)) + ENCRYPTED_SYM_LENGTH
    /\ BytesOf(encodeMiddle(m), getPayloadLength(m), mem) = PayloadOf(m, AsRead(m, mem))

\* So it is when encode writes it itself, and as long.
LEMMA WholeAsItIs ==
    ASSUME NEW m, Object(m), make(m), NEW mem \in Memory,
           encodeMiddle(m) = PayloadOf(m, AsRead(m, mem)),
           Len(encodeMiddle(m)) = getPayloadLength(m)
    PROVE  Whole(m, mem)
<1> DEFINE M == encodeMiddle(m)
           n == getPayloadLength(m)
<1>1. Fitting(m, AsRead(m, mem))
  BY ObjectFits
<1>2. M \in Seq(Byte)
  BY <1>1, ReadBack
<1> HIDE DEF M, n
<1>3. Len(M) = n
  BY DEF M, n
<1>4. n \in Nat /\ n <= Len(M) + 128
  BY <1>2, <1>3
<1>5. BytesOf(M, n, mem) = M
  BY <1>2, <1>3, BytesWithin
<1> QED
  BY <1>2, <1>4, <1>5 DEF Whole, M, n, ENCRYPTED_SYM_LENGTH

\* What is known of each field of an object.
LEMMA FieldKnown ==
    \A m : Object(m) => \A c \in 1 .. Len(m.vals) : Argument(m.vals[c], Kinds(m)[c])
<1> SUFFICES ASSUME NEW m, Object(m), NEW c \in 1 .. Len(m.vals)
             PROVE  Argument(m.vals[c], Kinds(m)[c])
  OBVIOUS
<1>1. Complete(m) /\ \A i \in DOMAIN m.vals : Argument(m.vals[i], Kinds(m)[i])
  BY DEF Object
<1>2. DOMAIN m.vals = 1 .. Len(m.vals)
  BY <1>1, ValsAre
<1> QED
  BY <1>1, <1>2

\* What that says of its bytes.
LEMMA ArgumentBytes ==
    \A v, kind : Argument(v, kind) =>
        /\ kind \in {"string", "name", "challenge", "nonce", "key"} => v \in Seq(Byte)
        /\ kind \in {"int", "count"} => v \in Int32
        /\ kind \in {"long", "time", "length"} => v[1] \in Int32 /\ v[2] \in Int32
        /\ kind = "key" => v # << >>
<1> SUFFICES ASSUME NEW v, NEW kind, Argument(v, kind)
             PROVE
        /\ kind \in {"string", "name", "challenge", "nonce", "key"} => v \in Seq(Byte)
        /\ kind \in {"int", "count"} => v \in Int32
        /\ kind \in {"long", "time", "length"} => v[1] \in Int32 /\ v[2] \in Int32
        /\ kind = "key" => v # << >>
  OBVIOUS
<1>1. kind \in {"string", "name", "challenge"} => v \in Seq(Byte)
  BY DEF Argument
<1>2. kind = "nonce" => v \in Seq(Byte)
  BY DEF Argument
<1>3. kind \in {"int", "count"} => v \in Int32
  BY DEF Argument
<1>4. kind \in {"long", "time", "length"} => v[1] \in Int32 /\ v[2] \in Int32
  BY DEF Argument
<1>5. kind = "key" => v \in Seq(Byte) /\ v # << >>
  BY DEF Argument
<1> QED
  BY <1>1, <1>2, <1>3, <1>4, <1>5

\* Login: a name and a key, of the class of the server as of the client.
LEMMA LoginWhole ==
    ASSUME NEW m, Object(m), make(m), m.type = "Login", NEW mem \in Memory
    PROVE  Whole(m, mem)
<1> DEFINE C == Pieces(AsRead(m, mem), Kinds(m))
           v == m.vals
           name == v[1]
           key == v[2]
<1>1. Complete(m)
  BY DEF Object
<1>2. First(m) = 2 /\ Kinds(m)[1] = "name" /\ Kinds(m)[2] = "key" /\ Count(m) = 0
  BY <1>1, FirstKinds DEF Count
<1>3. 1 \in 1 .. Len(v) /\ 2 \in 1 .. Len(v)
  <2>1. Len(v) = First(m) + 7 * Count(m)
    BY <1>1, Codes6
  <2> HIDE DEF v
  <2>2. Len(v) = 2
    BY <1>2, <2>1
  <2> QED
    BY <2>2
<1>4. C[1] = encodeString(name) /\ C[2] = FieldRead(key, "key", mem)
  <2>1. C[1] = encodeString(name)
    BY <1>1, <1>2, <1>3, PieceOf
  <2>2. C[2] = FieldRead(key, "key", mem)
    BY <1>1, <1>2, <1>3, PieceOf
  <2> QED
    BY <2>1, <2>2
<1>5. name \in Seq(Byte) /\ key \in Seq(Byte) /\ key # << >>
  <2>1. Argument(name, "name") /\ Argument(key, "key")
    BY <1>2, <1>3, FieldKnown
  <2>2. name \in Seq(Byte)
    BY <2>1, ArgumentBytes
  <2>3. key \in Seq(Byte) /\ key # << >>
    BY <2>1, ArgumentBytes
  <2> QED
    BY <2>2, <2>3
<1>6. setKey(key[1], Tail(key))
  BY DEF make, makeLogin
<1>7. PayloadOf(m, AsRead(m, mem)) = Cat(C[1], C[2])
  BY <1>2 DEF PayloadOf, Middle, Heads
<1>8. encodeMiddle(m) = encodeString(name) \o <<key[1]>> \o getKey(v)
  BY DEF encodeMiddle, loginMiddle
<1>9. getPayloadLength(m) = loginLength(v)
  BY DEF getPayloadLength
<1>10. getKey(v) = (IF key[1] = 1 THEN Tail(key) ELSE << >>)
       /\ loginLength(v) = INT_SIZE + Len(name) + 1
            + (CASE key[1] = 0 -> 0 [] key[1] = 1 -> ASYMMETRIC_LENGTH
                 [] key[1] = 2 -> ENCRYPTED_SYM_LENGTH)
  BY DEF getKey, loginLength
<1> DEFINE k1 == <<key[1]>>
           rest1 == getKey(v)
           s == encodeString(name)
<1> HIDE DEF name, key, C, rest1
<1>11. Len(key) \in Nat /\ Len(key) >= 1 /\ key[1] \in Byte /\ Tail(key) \in Seq(Byte)
       /\ Len(Tail(key)) = Len(key) - 1 /\ key = <<key[1]>> \o Tail(key)
       /\ k1 \in Seq(Byte)
  <2>1. Len(key) \in Nat /\ Len(key) >= 1 /\ key[1] \in Byte /\ Tail(key) \in Seq(Byte)
        /\ Len(Tail(key)) = Len(key) - 1
    BY <1>5
  <2>2. key = <<key[1]>> \o Tail(key)
    <3> DEFINE x == <<key[1]>>
               t == Tail(key)
               z == x \o t
    <3>1. x \in Seq(Byte) /\ Len(x) = 1 /\ x[1] = key[1]
      BY <2>1
    <3>2. t \in Seq(Byte) /\ Len(t) = Len(key) - 1 /\ \A i \in 1 .. Len(t) : t[i] = key[i + 1]
      BY <1>5, <2>1
    <3> HIDE DEF x, t
    <3>7. z \in Seq(Byte) /\ Len(z) = Len(x) + Len(t)
          /\ \A i \in 1 .. Len(x) + Len(t) : z[i] = IF i <= Len(x) THEN x[i] ELSE t[i - Len(x)]
      <4>1. x \in Seq(Byte) /\ t \in Seq(Byte)
        BY <3>1, <3>2
      <4> QED
        BY ONLY <4>1, ConcatProperties, SMTT(20)
    <3>3. z \in Seq(Byte) /\ Len(z) = 1 + Len(t)
          /\ \A i \in 1 .. 1 + Len(t) : z[i] = IF i <= 1 THEN x[i] ELSE t[i - 1]
      <4> HIDE DEF z
      <4> QED
        BY <3>1, <3>7
    <3>4. Len(z) = Len(key)
      BY <2>1, <3>2, <3>3
    <3>5. \A i \in 1 .. Len(key) : z[i] = key[i]
      <4> SUFFICES ASSUME NEW i \in 1 .. Len(key) PROVE z[i] = key[i]
        OBVIOUS
      <4> HIDE DEF z
      <4>1. z[i] = IF i <= 1 THEN x[i] ELSE t[i - 1]
        BY <3>2, <3>3, <2>1
      <4>2. i = 1 \/ (i > 1 /\ i - 1 \in 1 .. Len(t) /\ (i - 1) + 1 = i)
        BY <3>2, <2>1
      <4> QED
        BY <3>1, <3>2, <4>1, <4>2
    <3> HIDE DEF z
    <3>6. z = key
      BY <1>5, <3>3, <3>4, <3>5, SeqEqual
    <3> QED
      BY <3>6 DEF z, x, t
  <2>3. k1 \in Seq(Byte)
    BY <2>1
  <2> QED
    BY <2>1, <2>2, <2>3
<1> DEFINE w == Cat(k1, rest1)
           n == IF key[1] = 0 THEN 1 ELSE IF key[1] = 1 THEN 272 ELSE 129
<1>12. /\ rest1 \in Seq(Byte) /\ w \in Seq(Byte) /\ n \in Nat
       /\ n <= Len(w) + ENCRYPTED_SYM_LENGTH
       /\ BytesOf(w, n, mem) = FieldRead(key, "key", mem)
       /\ loginLength(v) = 4 + Len(name) + n
  <2>0. k1 \in Seq(Byte) /\ Len(k1) = 1 /\ Len(name) \in Nat
    BY <1>5, <1>11
  <2>1. CASE key[1] = 1
    <3>1. rest1 = Tail(key) /\ w = key
      BY <1>10, <1>11, <2>1 DEF Cat, rest1
    <3>2. Len(Tail(key)) = 271
      BY <1>6, <2>1 DEF setKey, ASYMMETRIC_LENGTH
    <3>9. n = 272
      BY <2>1
    <3>10. Len(key) = 272
      <4>1. Len(Tail(key)) = Len(key) - 1 /\ Len(key) \in Nat
        BY <1>11
      <4> QED
        BY <3>2, <4>1
    <3>3. Len(key) = 272 /\ n = 272
      BY <3>9, <3>10
    <3>4. BytesOf(key, n, mem) = key
      <4> HIDE DEF n
      <4>1. \A k : k = Len(key) => BytesOf(key, k, mem) = key
        BY <1>5, BytesWithin
      <4> QED
        BY <3>3, <4>1
    <3>5. FieldRead(key, "key", mem) = key
      BY <2>1 DEF FieldRead
    <3>6. loginLength(v) = 4 + Len(name) + 1 + 271
      BY <1>10, <2>1 DEF INT_SIZE, ASYMMETRIC_LENGTH
    <3>7. 4 + Len(name) + 1 + 271 = 4 + Len(name) + n
      BY <2>0, <3>3
    <3>8. n \in Nat /\ n <= Len(key) + ENCRYPTED_SYM_LENGTH
      BY <3>3 DEF ENCRYPTED_SYM_LENGTH
    <3> HIDE DEF w, n
    <3> QED
      BY <1>5, <1>11, <3>1, <3>4, <3>5, <3>6, <3>7, <3>8
  <2>2. CASE key[1] # 1
    <3>1. rest1 = << >> /\ rest1 \in Seq(Byte)
      BY <1>10, <2>2 DEF rest1
    <3>2. w = k1
      BY <2>0, <3>1 DEF Cat
    <3>3. CASE key[1] = 0
      <4>1. n = 1 /\ k1 = <<0>>
        BY <3>3
      <4>2. BytesOf(k1, n, mem) = k1
        BY <2>0, <4>1, BytesWithin
      <4>3. FieldRead(key, "key", mem) = <<0>>
        BY <3>3 DEF FieldRead
      <4>4. loginLength(v) = 4 + Len(name) + 1 + 0
        BY <1>10, <3>3 DEF INT_SIZE
      <4>5. 4 + Len(name) + 1 + 0 = 4 + Len(name) + n
        BY <2>0, <4>1
      <4>6. n \in Nat /\ n <= Len(k1) + ENCRYPTED_SYM_LENGTH
        BY <2>0, <4>1 DEF ENCRYPTED_SYM_LENGTH
      <4> HIDE DEF w, n
      <4> QED
        BY <2>0, <3>1, <3>2, <4>1, <4>2, <4>3, <4>4, <4>5, <4>6
    <3>4. CASE key[1] = 2
      <4>1. n = 129 /\ n = 1 + ENCRYPTED_SYM_LENGTH /\ k1 = <<2>>
        BY <3>4 DEF ENCRYPTED_SYM_LENGTH
      <4>2. FieldRead(key, "key", mem) = BytesOf(<<2>>, 1 + ENCRYPTED_SYM_LENGTH, mem)
        BY <3>4 DEF FieldRead
      <4>3. loginLength(v) = 4 + Len(name) + 1 + 128
        BY <1>10, <3>4 DEF INT_SIZE, ENCRYPTED_SYM_LENGTH
      <4>4. 4 + Len(name) + 1 + 128 = 4 + Len(name) + n
        BY <2>0, <4>1
      <4>5. n \in Nat /\ n <= Len(k1) + ENCRYPTED_SYM_LENGTH
        BY <2>0, <4>1 DEF ENCRYPTED_SYM_LENGTH
      <4> HIDE DEF w, n
      <4> QED
        BY <2>0, <3>1, <3>2, <4>1, <4>2, <4>3, <4>4, <4>5
    <3> QED
      BY <1>6, <2>2, <3>3, <3>4 DEF setKey
  <2> QED
    BY <2>1, <2>2
<1>13. s \in Seq(Byte) /\ Len(s) = 4 + Len(name) /\ Len(name) \in Nat
  BY <1>5, StringLength DEF INT_SIZE
<1>14. encodeMiddle(m) = Cat(Cat(s, k1), rest1)
  BY <1>8 DEF Cat, rest1
<1> HIDE DEF s, k1
<1>15. encodeMiddle(m) = Cat(s, w)
  BY <1>11, <1>12, <1>13, <1>14, CatRegroup
<1> HIDE DEF w, n, v
<1>16. encodeMiddle(m) \in Seq(Byte) /\ Len(encodeMiddle(m)) = Len(s) + Len(w)
  BY <1>12, <1>13, <1>15, CatLength
<1>17. getPayloadLength(m) = Len(s) + n
  BY <1>9, <1>12, <1>13
<1>20. /\ getPayloadLength(m) \in Nat
       /\ getPayloadLength(m) <= Len(encodeMiddle(m)) + ENCRYPTED_SYM_LENGTH
  BY <1>12, <1>13, <1>16, <1>17 DEF ENCRYPTED_SYM_LENGTH
<1>18. BytesOf(encodeMiddle(m), getPayloadLength(m), mem) = Cat(s, BytesOf(w, n, mem))
  <2>1. \A i, k \in Nat : i <= Len(w) + ENCRYPTED_SYM_LENGTH /\ k = Len(s) + i =>
            BytesOf(Cat(s, w), k, mem) = Cat(s, BytesOf(w, i, mem))
    <3>1. s \in Seq(Byte) /\ w \in Seq(Byte)
      BY <1>12, <1>13
    <3> QED
      BY <3>1, BytesAfter, ZenonT(30)
  <2> QED
    BY <1>12, <1>15, <1>17, <1>20, <2>1
<1>19. PayloadOf(m, AsRead(m, mem)) = Cat(s, BytesOf(w, n, mem))
  BY <1>4, <1>7, <1>12 DEF s
<1> QED
  BY <1>16, <1>18, <1>19, <1>20 DEF Whole

\* Challenge: the bytes of the challenge.
LEMMA ChallengeWhole ==
    ASSUME NEW m, Object(m), make(m), m.type = "Challenge", NEW mem \in Memory
    PROVE  Whole(m, mem)
<1> DEFINE C == Pieces(AsRead(m, mem), Kinds(m))
           v == m.vals
<1>1. Complete(m)
  BY DEF Object
<1>2. First(m) = 1 /\ Kinds(m)[1] = "challenge" /\ Count(m) = 0
  BY <1>1, FirstKinds DEF Count
<1>3. 1 \in 1 .. Len(v)
  <2>1. Len(v) = First(m) + 7 * Count(m)
    BY <1>1, Codes6
  <2> HIDE DEF v
  <2> QED
    BY <1>2, <2>1
<1>4. C[1] = v[1]
  BY <1>1, <1>2, <1>3, PieceOf
<1>5. Len(v[1]) = CHALLENGE_LENGTH
  BY DEF make, makeChallenge, setChallenge
<1>6. PayloadOf(m, AsRead(m, mem)) = C[1]
  BY <1>2 DEF PayloadOf, Middle, Heads
<1>7. encodeMiddle(m) = v[1]
  BY DEF encodeMiddle, challengeMiddle
<1>8. getPayloadLength(m) = CHALLENGE_LENGTH
  BY DEF getPayloadLength
<1>9. encodeMiddle(m) = PayloadOf(m, AsRead(m, mem))
  BY <1>4, <1>6, <1>7
<1>10. Len(encodeMiddle(m)) = getPayloadLength(m)
  BY <1>5, <1>7, <1>8
<1> QED
  BY <1>9, <1>10, WholeAsItIs

\* ACK: one byte for the error and the sender.
LEMMA AckWhole ==
    ASSUME NEW m, Object(m), make(m), m.type = "ACK", NEW mem \in Memory
    PROVE  Whole(m, mem)
<1> DEFINE C == Pieces(AsRead(m, mem), Kinds(m))
           v == m.vals
<1>1. Complete(m)
  BY DEF Object
<1>2. First(m) = 1 /\ Kinds(m)[1] = "ack" /\ Count(m) = 0
  BY <1>1, FirstKinds DEF Count
<1>3. 1 \in 1 .. Len(v)
  <2>1. Len(v) = First(m) + 7 * Count(m)
    BY <1>1, Codes6
  <2> HIDE DEF v
  <2> QED
    BY <1>2, <2>1
<1>4. C[1] = <<v[1][1] * 2 + v[1][2]>>
  BY <1>1, <1>2, <1>3, PieceOf
<1>6. PayloadOf(m, AsRead(m, mem)) = C[1]
  BY <1>2 DEF PayloadOf, Middle, Heads
<1>7. encodeMiddle(m) = <<v[1][1] * 2 + v[1][2]>>
  BY DEF encodeMiddle, ackMiddle
<1>8. getPayloadLength(m) = 1
  BY DEF getPayloadLength
<1>9. Len(encodeMiddle(m)) = 1
  BY <1>7
<1>10. encodeMiddle(m) = PayloadOf(m, AsRead(m, mem))
  BY <1>4, <1>6, <1>7
<1>11. Len(encodeMiddle(m)) = getPayloadLength(m)
  BY <1>8, <1>9
<1> QED
  BY <1>10, <1>11, WholeAsItIs

\* Poll: a name and the time since which texts are asked for.
LEMMA PollWhole ==
    ASSUME NEW m, Object(m), make(m), m.type = "Poll", NEW mem \in Memory
    PROVE  Whole(m, mem)
<1> DEFINE C == Pieces(AsRead(m, mem), Kinds(m))
           v == m.vals
           name == v[1]
           time == v[2]
<1>1. Complete(m)
  BY DEF Object
<1>2. First(m) = 2 /\ Kinds(m)[1] = "name" /\ Kinds(m)[2] = "long" /\ Count(m) = 0
  BY <1>1, FirstKinds DEF Count
<1>3. 1 \in 1 .. Len(v) /\ 2 \in 1 .. Len(v)
  <2>1. Len(v) = First(m) + 7 * Count(m)
    BY <1>1, Codes6
  <2> HIDE DEF v
  <2>2. Len(v) = 2
    BY <1>2, <2>1
  <2> QED
    BY <2>2
<1>4. C[1] = encodeString(name)
  BY <1>1, <1>2, <1>3, PieceOf
<1>5. C[2] = encodeLong(time)
  BY <1>1, <1>2, <1>3, PieceOf
<1>6. name \in Seq(Byte) /\ time[1] \in Int32 /\ time[2] \in Int32
  <2>1. Argument(name, "name") /\ Argument(time, "long")
    BY <1>2, <1>3, FieldKnown
  <2>2. name \in Seq(Byte)
    BY <2>1, ArgumentBytes
  <2>3. time[1] \in Int32 /\ time[2] \in Int32
    BY <2>1, ArgumentBytes
  <2> QED
    BY <2>2, <2>3
<1>7. PayloadOf(m, AsRead(m, mem)) = Cat(C[1], C[2])
  BY <1>2 DEF PayloadOf, Middle, Heads
<1>8. encodeMiddle(m) = Cat(encodeString(name), encodeLong(time))
  BY DEF encodeMiddle, pollMiddle, Cat
<1>9. getPayloadLength(m) = 4 + Len(name) + 8
  BY DEF getPayloadLength, pollLength, INT_SIZE, LONG_SIZE
<1> DEFINE s == encodeString(name)
           t == encodeLong(time)
           n == Len(name)
<1>10. s \in Seq(Byte) /\ Len(s) = 4 + n /\ n \in Nat
  <2>1. \A x \in Seq(Byte) : Len(x) \in Nat
    OBVIOUS
  <2>2. n \in Nat /\ Len(s) = INT_SIZE + n /\ s \in Seq(Byte)
    BY <1>6, <2>1, StringLength, Zenon
  <2> HIDE DEF s, n
  <2> QED
    BY <2>2 DEF INT_SIZE
<1>11. t \in Seq(Byte) /\ Len(t) = 8
  BY <1>6, LongBytes DEF Octets, LONG_SIZE
<1> HIDE DEF s, t, n, C, v
<1>12. Len(Cat(s, t)) = Len(s) + Len(t)
  BY <1>10, <1>11, CatLength
<1>13. Len(encodeMiddle(m)) = getPayloadLength(m)
  <2>1. Len(encodeMiddle(m)) = (4 + n) + 8
    BY <1>8, <1>10, <1>11, <1>12 DEF s, t
  <2>2. (4 + n) + 8 = 4 + n + 8
    BY <1>10
  <2>3. getPayloadLength(m) = 4 + n + 8
    BY <1>9 DEF n
  <2> QED
    BY <2>1, <2>2, <2>3
<1>14. encodeMiddle(m) = PayloadOf(m, AsRead(m, mem))
  BY <1>4, <1>5, <1>7, <1>8 DEF C
<1> QED
  BY <1>13, <1>14, WholeAsItIs

\* Response: a name, the answer to the challenge and the nonce.
LEMMA ResponseWhole ==
    ASSUME NEW m, Object(m), make(m), m.type = "Response", NEW mem \in Memory
    PROVE  Whole(m, mem)
<1> DEFINE C == Pieces(AsRead(m, mem), Kinds(m))
           v == m.vals
           name == v[1]
           hash == v[2]
           nonce == v[3]
<1>1. Complete(m)
  BY DEF Object
<1>2. /\ First(m) = 3 /\ Kinds(m)[1] = "name" /\ Kinds(m)[2] = "string"
      /\ Kinds(m)[3] = "nonce" /\ Count(m) = 0
  BY <1>1, FirstKinds DEF Count
<1>3. 1 \in 1 .. Len(v) /\ 2 \in 1 .. Len(v) /\ 3 \in 1 .. Len(v)
  <2>1. Len(v) = First(m) + 7 * Count(m)
    BY <1>1, Codes6
  <2> HIDE DEF v
  <2>2. Len(v) = 3
    BY <1>2, <2>1
  <2> QED
    BY <2>2
<1>4. C[1] = encodeString(name)
  BY <1>1, <1>2, <1>3, PieceOf
<1>5. C[2] = encodeString(hash)
  BY <1>1, <1>2, <1>3, PieceOf
<1>14. C[3] = BytesOf(nonce, 8, mem)
  <2>1. C[3] = FieldRead(nonce, "nonce", mem)
    BY <1>1, <1>2, <1>3, PieceOf
  <2> HIDE DEF C, nonce
  <2> QED
    BY <2>1 DEF FieldRead, LONG_SIZE
<1>6. name \in Seq(Byte) /\ hash \in Seq(Byte) /\ nonce \in Seq(Byte)
  <2>1. Argument(name, "name") /\ Argument(hash, "string") /\ Argument(nonce, "nonce")
    BY <1>2, <1>3, FieldKnown
  <2>2. name \in Seq(Byte)
    BY <2>1, ArgumentBytes
  <2>3. hash \in Seq(Byte)
    BY <2>1, ArgumentBytes
  <2>4. nonce \in Seq(Byte)
    BY <2>1, ArgumentBytes
  <2> QED
    BY <2>2, <2>3, <2>4
<1>7. PayloadOf(m, AsRead(m, mem)) = Cat(Cat(C[1], C[2]), C[3])
  BY <1>2 DEF PayloadOf, Middle, Heads
<1>8. encodeMiddle(m) = Cat(Cat(encodeString(name), encodeString(hash)), nonce)
  BY DEF encodeMiddle, responseMiddle, Cat
<1>9. getPayloadLength(m) = 4 * 2 + Len(name) + Len(hash) + 8
  BY DEF getPayloadLength, responseLength, INT_SIZE, LONG_SIZE
<1> DEFINE s == encodeString(name)
           t == encodeString(hash)
           n == Len(name)
           h == Len(hash)
<1>16. \A x \in Seq(Byte) :
         encodeString(x) \in Seq(Byte) /\ Len(encodeString(x)) = 4 + Len(x) /\ Len(x) \in Nat
  <2> SUFFICES ASSUME NEW x \in Seq(Byte)
               PROVE  /\ encodeString(x) \in Seq(Byte)
                      /\ Len(encodeString(x)) = 4 + Len(x) /\ Len(x) \in Nat
    OBVIOUS
  <2>1. Len(x) \in Nat
    OBVIOUS
  <2> QED
    BY <2>1, StringLength DEF INT_SIZE
<1>10. s \in Seq(Byte) /\ Len(s) = 4 + n /\ n \in Nat
  BY <1>6, <1>16
<1>11. t \in Seq(Byte) /\ Len(t) = 4 + h /\ h \in Nat
  BY <1>6, <1>16
<1> HIDE DEF s, t, n, h, C, v, nonce
<1>12. Cat(s, t) \in Seq(Byte) /\ Len(Cat(s, t)) = Len(s) + Len(t)
  BY <1>10, <1>11, CatLength
<1> DEFINE st == Cat(s, t)
           M == encodeMiddle(m)
           p == getPayloadLength(m)
<1>15. M = Cat(st, nonce) /\ Len(M) = Len(st) + Len(nonce) /\ M \in Seq(Byte)
  <2>1. M = Cat(st, nonce)
    BY <1>8 DEF s, t
  <2> HIDE DEF st, M
  <2>2. st \in Seq(Byte)
    BY <1>12 DEF st
  <2> QED
    BY <1>6, <2>1, <2>2, CatLength
<1> HIDE DEF st, M, p
<1>13. st \in Seq(Byte) /\ Len(st) = 8 + n + h
  BY <1>10, <1>11, <1>12 DEF st
<1>17. p = Len(st) + 8 /\ p \in Nat
  <2>1. p = 4 * 2 + n + h + 8
    BY <1>9 DEF p, n, h
  <2> QED
    BY <1>10, <1>11, <1>13, <2>1
<1>18. 8 \in Nat /\ 8 <= Len(nonce) + ENCRYPTED_SYM_LENGTH /\ p <= Len(M) + ENCRYPTED_SYM_LENGTH
  <2>1. Len(nonce) \in Nat /\ Len(st) \in Nat
    BY <1>6, <1>13
  <2> QED
    BY <1>15, <1>17, <2>1 DEF ENCRYPTED_SYM_LENGTH
<1>19. BytesOf(M, p, mem) = Cat(st, BytesOf(nonce, 8, mem))
  BY <1>6, <1>13, <1>15, <1>17, <1>18, BytesAfter
<1>20. PayloadOf(m, AsRead(m, mem)) = Cat(st, BytesOf(nonce, 8, mem))
  BY <1>4, <1>5, <1>7, <1>14 DEF st, s, t
<1> QED
  BY <1>15, <1>17, <1>18, <1>19, <1>20 DEF Whole, M, p

\* A text of a PollResponse and its seven pieces.
LEMMA TextPieces ==
    \A m, mem : Object(m) => \A j \in 1 .. Count(m) :
        /\ encodeMessage(Msgs(m)[j]) = Seven(Pieces(AsRead(m, mem), Kinds(m)), 4 + 7 * (j - 1))
        /\ encodeMessage(Msgs(m)[j]) \in Seq(Byte)
        /\ Len(encodeMessage(Msgs(m)[j])) = msgLength(Msgs(m)[j])
<1> SUFFICES ASSUME NEW m, NEW mem, Object(m), NEW j \in 1 .. Count(m)
             PROVE
        /\ encodeMessage(Msgs(m)[j]) = Seven(Pieces(AsRead(m, mem), Kinds(m)), 4 + 7 * (j - 1))
        /\ encodeMessage(Msgs(m)[j]) \in Seq(Byte)
        /\ Len(encodeMessage(Msgs(m)[j])) = msgLength(Msgs(m)[j])
  OBVIOUS
<1> DEFINE C == Pieces(AsRead(m, mem), Kinds(m))
           u == Msgs(m)[j]
           w == 4 + 7 * (j - 1)
<1>1. Complete(m)
  BY DEF Object
<1>2. ASSUME NEW x \in 1 .. 7
      PROVE  /\ u[x] = m.vals[w + x] /\ Kinds(m)[w + x] = MsgFormat[x]
             /\ w + x \in 1 .. Len(m.vals)
  BY <1>1, TextAt
<1> HIDE DEF u, w, C
<1>3. ASSUME NEW x \in 1 .. 7 PROVE Argument(u[x], MsgFormat[x])
  BY <1>2, FieldKnown
<1>4. /\ MsgFormat[1] = "name" /\ MsgFormat[2] = "name" /\ MsgFormat[3] = "string"
      /\ MsgFormat[4] = "length" /\ MsgFormat[5] = "int" /\ MsgFormat[6] = "count"
      /\ MsgFormat[7] = "time"
  BY DEF MsgFormat
<1>5. ASSUME NEW x \in 1 .. 7
      PROVE  /\ MsgFormat[x] \in {"string", "name"} => C[w + x] = encodeString(u[x])
             /\ MsgFormat[x] \in {"int", "count"} => C[w + x] = encodeInt(u[x])
             /\ MsgFormat[x] \in {"long", "length", "time"} => C[w + x] = encodeLong(u[x])
  <2> DEFINE c == w + x
             kind == MsgFormat[x]
             y == u[x]
  <2>1. c \in 1 .. Len(m.vals) /\ kind = Kinds(m)[c] /\ y = m.vals[c]
    BY <1>2
  <2> HIDE DEF c, kind, y
  <2>2. /\ kind \in {"string", "name"} => C[c] = encodeString(y)
        /\ kind \in {"int", "count"} => C[c] = encodeInt(y)
        /\ kind \in {"long", "length", "time"} => C[c] = encodeLong(y)
    BY <1>1, <2>1, PieceOf DEF C
  <2> QED
    BY <2>2 DEF c, kind, y
<1>6. /\ C[w + 1] = encodeString(u[1]) /\ C[w + 2] = encodeString(u[2])
      /\ C[w + 3] = encodeString(u[3]) /\ C[w + 4] = encodeLong(u[4])
      /\ C[w + 5] = encodeInt(u[5]) /\ C[w + 6] = encodeInt(u[6])
      /\ C[w + 7] = encodeLong(u[7])
  <2>1. C[w + 1] = encodeString(u[1])
    BY <1>4, <1>5
  <2>2. C[w + 2] = encodeString(u[2])
    BY <1>4, <1>5
  <2>3. C[w + 3] = encodeString(u[3])
    BY <1>4, <1>5
  <2>4. C[w + 4] = encodeLong(u[4])
    BY <1>4, <1>5
  <2>5. C[w + 5] = encodeInt(u[5])
    BY <1>4, <1>5
  <2>6. C[w + 6] = encodeInt(u[6])
    BY <1>4, <1>5
  <2>7. C[w + 7] = encodeLong(u[7])
    BY <1>4, <1>5
  <2> QED
    BY <2>1, <2>2, <2>3, <2>4, <2>5, <2>6, <2>7
<1>7. encodeMessage(u) = Seven(C, w)
  BY <1>6 DEF encodeMessage, Seven
<1>8. /\ u[1] \in Seq(Byte) /\ u[2] \in Seq(Byte) /\ u[3] \in Seq(Byte)
      /\ u[4][1] \in Int32 /\ u[4][2] \in Int32 /\ u[5] \in Int32 /\ u[6] \in Int32
      /\ u[7][1] \in Int32 /\ u[7][2] \in Int32
  <2>1. Argument(u[1], "name") /\ Argument(u[2], "name") /\ Argument(u[3], "string")
    BY <1>3, <1>4
  <2>2. Argument(u[4], "length") /\ Argument(u[7], "time")
    BY <1>3, <1>4
  <2>3. Argument(u[5], "int") /\ Argument(u[6], "count")
    BY <1>3, <1>4
  <2>4. u[1] \in Seq(Byte) /\ u[2] \in Seq(Byte) /\ u[3] \in Seq(Byte)
    BY <2>1, ArgumentBytes
  <2>5. u[4][1] \in Int32 /\ u[4][2] \in Int32 /\ u[7][1] \in Int32 /\ u[7][2] \in Int32
    BY <2>2, ArgumentBytes
  <2>6. u[5] \in Int32 /\ u[6] \in Int32
    BY <2>3, ArgumentBytes
  <2> QED
    BY <2>4, <2>5, <2>6
<1>9. encodeMessage(u) \in Seq(Byte) /\ Len(encodeMessage(u)) = msgLength(u)
  BY <1>8, TextLength
<1> QED
  BY <1>7, <1>9 DEF u, w, C

\* PollResponse: three counts after the name, and every text.
LEMMA PollResponseWhole ==
    ASSUME NEW m, Object(m), make(m), m.type = "PollResponse", NEW mem \in Memory
    PROVE  Whole(m, mem)
<1> DEFINE C == Pieces(AsRead(m, mem), Kinds(m))
           v == m.vals
           k == Count(m)
           E == [i \in DOMAIN Msgs(m) |-> encodeMessage(Msgs(m)[i])]
           lengths == [i \in DOMAIN Msgs(m) |-> msgLength(Msgs(m)[i])]
           F == FlattenSeq(E)
           name == v[1]
           s1 == encodeString(name)
           s2 == encodeInt(v[2])
           s3 == encodeInt(v[3])
           s4 == encodeInt(v[4])
<1>1. Complete(m)
  BY DEF Object
<1>2. /\ First(m) = 4 /\ Kinds(m)[1] = "name" /\ Kinds(m)[2] = "count"
      /\ Kinds(m)[3] = "count" /\ Kinds(m)[4] = "int"
  BY <1>1, FirstKinds
<1>3. k \in Nat /\ k = v[4] /\ Len(Msgs(m)) = k /\ DOMAIN Msgs(m) = 1 .. k
  <2>1. k \in Nat
    BY <1>1, Codes6
  <2>2. k = v[4]
    BY DEF Count
  <2>3. Len(Msgs(m)) = k /\ DOMAIN Msgs(m) = 1 .. k
    BY <1>1, TextsAre
  <2> QED
    BY <2>1, <2>2, <2>3
<1>4. ASSUME NEW c \in 1 .. 4 PROVE c \in 1 .. Len(v)
  <2>1. Len(v) = First(m) + 7 * k
    BY <1>1, Codes6
  <2>2. k \in Nat
    BY <1>3
  <2> HIDE DEF v, k
  <2>3. Len(v) = 4 + 7 * k
    BY <1>2, <2>1
  <2> QED
    BY <2>2, <2>3
<1>5. C[1] = s1 /\ C[2] = s2 /\ C[3] = s3 /\ C[4] = s4
  <2>0. 1 \in 1 .. Len(v) /\ 2 \in 1 .. Len(v) /\ 3 \in 1 .. Len(v) /\ 4 \in 1 .. Len(v)
    <3> HIDE DEF v
    <3> QED
      BY <1>4
  <2>1. C[1] = s1
    BY <1>1, <1>2, <2>0, PieceOf
  <2>2. C[2] = s2
    BY <1>1, <1>2, <2>0, PieceOf
  <2>3. C[3] = s3
    BY <1>1, <1>2, <2>0, PieceOf
  <2>4. C[4] = s4
    BY <1>1, <1>2, <2>0, PieceOf
  <2> QED
    BY <2>1, <2>2, <2>3, <2>4
<1>6. name \in Seq(Byte) /\ v[2] \in Int32 /\ v[3] \in Int32 /\ v[4] \in Int32
  <2>0. 1 \in 1 .. Len(v) /\ 2 \in 1 .. Len(v) /\ 3 \in 1 .. Len(v) /\ 4 \in 1 .. Len(v)
    <3> HIDE DEF v
    <3> QED
      BY <1>4
  <2>1. Argument(name, "name") /\ Argument(v[2], "count") /\ Argument(v[3], "count")
        /\ Argument(v[4], "int")
    BY <1>2, <2>0, FieldKnown
  <2>2. name \in Seq(Byte)
    BY <2>1, ArgumentBytes
  <2>3. v[2] \in Int32 /\ v[3] \in Int32 /\ v[4] \in Int32
    BY <2>1, ArgumentBytes
  <2> QED
    BY <2>2, <2>3
<1>7. /\ s1 \in Seq(Byte) /\ Len(s1) = 4 + Len(name) /\ Len(name) \in Nat
      /\ s2 \in Seq(Byte) /\ Len(s2) = 4 /\ s3 \in Seq(Byte) /\ Len(s3) = 4
      /\ s4 \in Seq(Byte) /\ Len(s4) = 4
  <2>1. v[2] \in Int /\ v[3] \in Int /\ v[4] \in Int
    BY <1>6, SmallInt
  <2>2. /\ s2 \in Seq(Byte) /\ Len(s2) = 4 /\ s3 \in Seq(Byte) /\ Len(s3) = 4
        /\ s4 \in Seq(Byte) /\ Len(s4) = 4
    BY <2>1, IntBytes DEF INT_SIZE
  <2>3. s1 \in Seq(Byte) /\ Len(s1) = INT_SIZE + Len(name)
    BY <1>6, StringLength
  <2>4. Len(name) \in Nat
    BY <1>6
  <2> QED
    BY <2>2, <2>3, <2>4 DEF INT_SIZE
<1>8. ASSUME NEW j \in 1 .. k
      PROVE  /\ E[j] = Seven(C, 4 + 7 * (j - 1)) /\ E[j] \in Seq(Byte)
             /\ lengths[j] = Len(E[j])
  <2>1. E[j] = encodeMessage(Msgs(m)[j]) /\ lengths[j] = msgLength(Msgs(m)[j])
    BY <1>3
  <2> QED
    BY <2>1, TextPieces
<1>9. E = Texts7(C, k) /\ E \in [1 .. k -> Seq(Byte)] /\ Len(E) = k /\ Len(lengths) = k
  <2>1. E = [j \in 1 .. k |-> E[j]] /\ lengths = [j \in 1 .. k |-> lengths[j]]
    BY <1>3
  <2> HIDE DEF E, lengths, k, C
  <2>2. E = [j \in 1 .. k |-> Seven(C, 4 + 7 * (j - 1))]
    BY <1>8, <2>1
  <2>3. E \in [1 .. k -> Seq(Byte)]
    BY <1>8, <2>1
  <2>4. Len(E) = k /\ Len(lengths) = k
    BY <1>3, <2>1
  <2> QED
    BY <2>2, <2>3, <2>4 DEF Texts7
<1> HIDE DEF E, lengths, C, k
<1>10. F \in Seq(Byte) /\ Total(lengths) = Len(F)
  <2>1. \A i \in 1 .. k : lengths[i] = Len(E[i])
    BY <1>8
  <2>2. k \in Nat /\ E \in [1 .. k -> Seq(Byte)] /\ Len(E) = k /\ Len(lengths) = k
    BY <1>3, <1>9
  <2>3. FlattenSeq(E) \in Seq(Byte) /\ Total(lengths) = Len(FlattenSeq(E))
    BY <2>1, <2>2, TotalLength
  <2> QED
    BY <2>3
<1>11. PayloadOf(m, AsRead(m, mem)) = Cat(Cat(Cat(Cat(C[1], C[2]), C[3]), C[4]), F)
  <2>1. PayloadOf(m, AsRead(m, mem)) = Cat(Heads(C, 4), FlattenSeq(Texts7(C, k)))
    BY <1>2 DEF PayloadOf, Middle, C, k
  <2>2. Heads(C, 4) = Cat(Cat(Cat(C[1], C[2]), C[3]), C[4])
    BY DEF Heads
  <2> QED
    BY <1>9, <2>1, <2>2
<1>12. encodeMiddle(m) = Cat(Cat(Cat(s1, s2), s3), Cat(s4, F))
  <2>1. encodeMiddle(m) = pollResponseMiddle(m)
    BY DEF encodeMiddle
  <2>2. encodeMsgList(m) = s4 \o F
    BY <1>3 DEF encodeMsgList, E
  <2>3. pollResponseMiddle(m) = ((s1 \o s2) \o s3) \o encodeMsgList(m)
    BY DEF pollResponseMiddle
  <2> QED
    BY <2>1, <2>2, <2>3 DEF Cat
<1>13. getPayloadLength(m) = 4 * 4 + Len(name) + Total(lengths)
  BY DEF getPayloadLength, pollResponseLength, INT_SIZE, lengths
<1> HIDE DEF F, s1, s2, s3, s4
<1> DEFINE c2 == Cat(s1, s2)
           c3 == Cat(c2, s3)
           c4 == Cat(c3, s4)
           c5 == Cat(c4, F)
           n == Len(name)
<1>14. c2 \in Seq(Byte) /\ Len(c2) = Len(s1) + Len(s2)
  BY <1>7, CatLength
<1> HIDE DEF c2
<1>15. c3 \in Seq(Byte) /\ Len(c3) = Len(c2) + Len(s3)
  BY <1>7, <1>14, CatLength
<1> HIDE DEF c3
<1>16. c4 \in Seq(Byte) /\ Len(c4) = Len(c3) + Len(s4) /\ Cat(c3, Cat(s4, F)) = Cat(c4, F)
  <2>1. c4 \in Seq(Byte) /\ Len(c4) = Len(c3) + Len(s4)
    BY <1>7, <1>15, CatLength
  <2>2. s4 \in Seq(Byte) /\ c3 \in Seq(Byte) /\ F \in Seq(Byte)
    BY <1>7, <1>10, <1>15
  <2>3. Cat(c3, Cat(s4, F)) = Cat(Cat(c3, s4), F)
    BY <2>2, CatRegroup
  <2> QED
    BY <2>1, <2>3
<1> HIDE DEF c4
<1>17. Len(c5) = Len(c4) + Len(F) /\ Len(F) \in Nat
  <2>1. c4 \in Seq(Byte) /\ F \in Seq(Byte)
    BY <1>10, <1>16
  <2>2. Len(c5) = Len(c4) + Len(F)
    BY <2>1, CatLength
  <2> QED
    BY <2>1, <2>2
<1> HIDE DEF c5, name, v, n
<1>18. encodeMiddle(m) = c5
  BY <1>12, <1>16 DEF c2, c3, c5
<1>19. Len(encodeMiddle(m)) = (((4 + n) + 4 + 4) + 4) + Len(F)
  BY <1>7, <1>14, <1>15, <1>16, <1>17, <1>18 DEF n
<1>20. (((4 + n) + 4 + 4) + 4) + Len(F) = 4 * 4 + n + Len(F)
  BY <1>7, <1>17 DEF n
<1>21. Len(encodeMiddle(m)) = getPayloadLength(m)
  BY <1>10, <1>13, <1>19, <1>20 DEF n
<1>22. PayloadOf(m, AsRead(m, mem)) = c5
  BY <1>5, <1>11 DEF c2, c3, c4, c5
<1>23. encodeMiddle(m) = PayloadOf(m, AsRead(m, mem))
  BY <1>18, <1>22
<1> QED
  BY <1>21, <1>23, WholeAsItIs

\* So for every class.
LEMMA ObjectWhole ==
    \A m : \A mem \in Memory : Object(m) /\ make(m) => Whole(m, mem)
<1> SUFFICES ASSUME NEW m, NEW mem \in Memory, Object(m), make(m) PROVE Whole(m, mem)
  OBVIOUS
<1>1. m.type \in {"Login", "Challenge", "Response", "ACK", "Poll", "PollResponse"}
  BY DEF Object, Complete
<1> QED
  BY <1>1, LoginWhole, ChallengeWhole, ResponseWhole, AckWhole, PollWhole, PollResponseWhole

-----------------------------------------------------------------------------
(* The header.                                                             *)

\* The ten bytes that every message begins with.
LEMMA HeaderBytes == HEADER \in Seq(Byte) /\ Len(HEADER) = 10 /\ TOTAL_HEADER_LENGTH = 19
<1>1. Len(HEADER) = 10
  BY DEF HEADER
<1>2. HEADER \in Seq(Byte)
  <2>1. \A i \in 1 .. 10 : HEADER[i] \in Byte
    BY DEF HEADER, Byte
  <2>2. HEADER \in Seq(Int) /\ Len(HEADER) = 10
    BY DEF HEADER
  <2>3. HEADER = [i \in 1 .. 10 |-> HEADER[i]]
    BY <2>2
  <2>4. HEADER \in [1 .. 10 -> Byte]
    BY <2>1, <2>3
  <2>5. \A n \in Nat : [1 .. n -> Byte] \subseteq Seq(Byte)
    OBVIOUS
  <2> QED
    BY <2>4, <2>5
<1> QED
  BY <1>1, <1>2 DEF TOTAL_HEADER_LENGTH, LONG_SIZE

\* The parts of what is put together, by their places.
LEMMA PartsAt ==
    \A b, x, y \in Seq(Byte) : \A p, e \in Nat \ {0} :
        Held(b, p, Cat(x, y)) /\ e = p + Len(x) => Held(b, p, x) /\ Held(b, e, y)
<1> SUFFICES ASSUME NEW b \in Seq(Byte), NEW x \in Seq(Byte), NEW y \in Seq(Byte),
                    NEW p \in Nat \ {0}, Held(b, p, Cat(x, y))
             PROVE  Held(b, p, x) /\ Held(b, p + Len(x), y)
  OBVIOUS
<1>1. Held(b, p, x \o y) /\ Len(b) \in Nat
  BY DEF Cat
<1> QED
  BY <1>1, HeldParts

\* Cutting out by places.
LEMMA IsAt ==
    \A b, x \in Seq(Byte) : \A p \in Nat \ {0} : \A e :
        Held(b, p, x) /\ e = p - 1 + Len(x) => SubSeq(b, p, e) = x
BY HeldIs

\* What decodeHeader finds.
LEMMA HeaderBack ==
    \A type \in Codes : \A x \in Octets(8) : \A M \in Seq(Byte) : \A b :
        b = Cat(Cat(Cat(HEADER, <<type>>), x), M) =>
        /\ b \in Seq(Byte) /\ Len(b) = 19 + Len(M)
        /\ GoodHeader(b) /\ HeaderType(b) = type /\ LengthOf(b) = x
        /\ SubSeq(b, 20, Len(b)) = M
        /\ Len(Cat(Cat(HEADER, <<type>>), x)) = 19 /\ Cat(Cat(HEADER, <<type>>), x) \in Seq(Byte)
<1> SUFFICES ASSUME NEW type \in Codes, NEW x \in Octets(8), NEW M \in Seq(Byte), NEW b,
                    b = Cat(Cat(Cat(HEADER, <<type>>), x), M)
             PROVE
        /\ b \in Seq(Byte) /\ Len(b) = 19 + Len(M)
        /\ GoodHeader(b) /\ HeaderType(b) = type /\ LengthOf(b) = x
        /\ SubSeq(b, 20, Len(b)) = M
        /\ Len(Cat(Cat(HEADER, <<type>>), x)) = 19 /\ Cat(Cat(HEADER, <<type>>), x) \in Seq(Byte)
  OBVIOUS
<1> DEFINE t == <<type>>
           h1 == Cat(HEADER, t)
           h2 == Cat(h1, x)
<1>1. HEADER \in Seq(Byte) /\ Len(HEADER) = 10
  BY HeaderBytes
<1>2. t \in Seq(Byte) /\ Len(t) = 1 /\ t[1] = type
  <2>1. type \in Byte
    BY DEF Codes, Byte
  <2> QED
    BY <2>1
<1>3. x \in Seq(Byte) /\ Len(x) = 8
  BY DEF Octets
<1> HIDE DEF t
<1>4. h1 \in Seq(Byte) /\ Len(h1) = 11
  <2>1. h1 \in Seq(Byte) /\ Len(h1) = Len(HEADER) + Len(t)
    BY <1>1, <1>2, CatLength
  <2> HIDE DEF h1
  <2> QED
    BY <1>1, <1>2, <2>1
<1> HIDE DEF h1
<1>5. h2 \in Seq(Byte) /\ Len(h2) = 19
  <2>1. h2 \in Seq(Byte) /\ Len(h2) = Len(h1) + Len(x)
    BY <1>3, <1>4, CatLength
  <2> HIDE DEF h2
  <2> QED
    BY <1>3, <1>4, <2>1
<1> HIDE DEF h2
<1>6. b = Cat(h2, M)
  BY DEF h2, h1, t
<1>7. b \in Seq(Byte) /\ Len(b) = 19 + Len(M) /\ Len(M) \in Nat /\ Len(b) \in Nat
  <2>1. b \in Seq(Byte) /\ Len(b) = Len(h2) + Len(M)
    BY <1>5, <1>6, CatLength
  <2>2. Len(M) \in Nat
    OBVIOUS
  <2> QED
    BY <1>5, <2>1, <2>2
<1>8. Held(b, 1, b)
  BY <1>7, HeldSelf
<1>9. Held(b, 1, h2) /\ Held(b, 20, M)
  <2>1. Held(b, 1, Cat(h2, M)) /\ 20 = 1 + Len(h2) /\ 1 \in Nat \ {0} /\ 20 \in Nat \ {0}
    BY <1>5, <1>6, <1>8
  <2>2. \A p, e \in Nat \ {0} :
          Held(b, p, Cat(h2, M)) /\ e = p + Len(h2) => Held(b, p, h2) /\ Held(b, e, M)
    BY <1>5, <1>7, PartsAt
  <2> QED
    BY <2>1, <2>2
<1>10. Held(b, 1, h1) /\ Held(b, 12, x)
  <2>1. Held(b, 1, Cat(h1, x)) /\ 12 = 1 + Len(h1) /\ 1 \in Nat \ {0} /\ 12 \in Nat \ {0}
    BY <1>4, <1>9 DEF h2
  <2>2. \A p, e \in Nat \ {0} :
          Held(b, p, Cat(h1, x)) /\ e = p + Len(h1) => Held(b, p, h1) /\ Held(b, e, x)
    BY <1>3, <1>4, <1>7, PartsAt
  <2> QED
    BY <2>1, <2>2
<1>11. Held(b, 1, HEADER) /\ Held(b, 11, t)
  <2>1. Held(b, 1, Cat(HEADER, t)) /\ 11 = 1 + Len(HEADER)
        /\ 1 \in Nat \ {0} /\ 11 \in Nat \ {0}
    BY <1>1, <1>10 DEF h1
  <2>2. \A p, e \in Nat \ {0} :
          Held(b, p, Cat(HEADER, t)) /\ e = p + Len(HEADER) => Held(b, p, HEADER) /\ Held(b, e, t)
    BY <1>1, <1>2, <1>7, PartsAt
  <2> QED
    BY <2>1, <2>2
<1>12. GoodHeader(b)
  <2>1. Len(HEADER) = 1 - 1 + Len(HEADER) /\ 1 \in Nat \ {0}
    BY <1>1
  <2>2. \A p \in Nat \ {0} : \A e :
          Held(b, p, HEADER) /\ e = p - 1 + Len(HEADER) => SubSeq(b, p, e) = HEADER
    BY <1>1, <1>7, IsAt
  <2>3. SubSeq(b, 1, Len(HEADER)) = HEADER
    BY <1>11, <2>1, <2>2
  <2> QED
    BY <2>3 DEF GoodHeader
<1>13. HeaderType(b) = type
  <2>1. b[11 - 1 + 1] = t[1]
    BY <1>2, <1>11 DEF Held
  <2>2. 11 - 1 + 1 = 11
    OBVIOUS
  <2> QED
    BY <1>2, <2>1, <2>2 DEF HeaderType
<1>14. LengthOf(b) = x
  <2>1. 12 + 8 - 1 = 12 - 1 + Len(x) /\ 12 \in Nat \ {0}
    BY <1>3
  <2>2. \A p \in Nat \ {0} : \A e :
          Held(b, p, x) /\ e = p - 1 + Len(x) => SubSeq(b, p, e) = x
    BY <1>3, <1>7, IsAt
  <2>3. SubSeq(b, 12, 12 + 8 - 1) = x
    BY <1>10, <2>1, <2>2
  <2> QED
    BY <2>3 DEF LengthOf, LongAt, LONG_SIZE
<1>15. SubSeq(b, 20, Len(b)) = M
  <2>1. Len(b) = 20 - 1 + Len(M) /\ 20 \in Nat \ {0}
    BY <1>7
  <2>2. \A p \in Nat \ {0} : \A e :
          Held(b, p, M) /\ e = p - 1 + Len(M) => SubSeq(b, p, e) = M
    BY <1>7, IsAt
  <2> QED
    BY <1>9, <2>1, <2>2
<1> QED
  BY <1>5, <1>7, <1>12, <1>13, <1>14, <1>15 DEF h2, h1, t

-----------------------------------------------------------------------------
(* encode, send and decode.                                                *)

\* How far the object is on its way, and what is there of it.
CodecInv ==
    /\ message \in Samples
    /\ step \in {"made", "encoded", "sent", "read"} => make(message)
    /\ step = "encoded" => bytes = encode(message)
    /\ step \in {"sent", "read"} =>
         \E mem \in Heap : bytes = BytesOf(encode(message), getTotalMsgLength(message), mem)
    /\ step = "read" =>
         back = Construct(HeaderType(bytes), SubSeq(bytes, TOTAL_HEADER_LENGTH + 1, Len(bytes)))

\* What an object that was made looks like on its way.
LEMMA Sent ==
    \A m : \A mem \in Memory : \A b :
      Object(m) /\ make(m) /\ b = BytesOf(encode(m), getTotalMsgLength(m), mem) =>
        /\ Len(b) = 19 + getPayloadLength(m) /\ getPayloadLength(m) \in Nat
        /\ HeaderType(b) = TypeCode(m.type)
        /\ Construct(TypeCode(m.type), SubSeq(b, TOTAL_HEADER_LENGTH + 1, Len(b)))
             = [ok |-> TRUE, p |-> getPayloadLength(m) + 1, vals |-> AsRead(m, mem)]
<1> SUFFICES ASSUME NEW m, NEW mem \in Memory, NEW b, Object(m), make(m),
                    b = BytesOf(encode(m), getTotalMsgLength(m), mem)
             PROVE
        /\ Len(b) = 19 + getPayloadLength(m) /\ getPayloadLength(m) \in Nat
        /\ HeaderType(b) = TypeCode(m.type)
        /\ Construct(TypeCode(m.type), SubSeq(b, TOTAL_HEADER_LENGTH + 1, Len(b)))
             = [ok |-> TRUE, p |-> getPayloadLength(m) + 1, vals |-> AsRead(m, mem)]
  OBVIOUS
<1> DEFINE M == encodeMiddle(m)
           type == TypeCode(m.type)
           n == getPayloadLength(m)
           x == encodeLong(Long(n))
           P == BytesOf(M, n, mem)
           h == Cat(Cat(HEADER, <<type>>), x)
<1>1. /\ Complete(m) /\ Fitting(m, AsRead(m, mem)) /\ P = PayloadOf(m, AsRead(m, mem))
      /\ M \in Seq(Byte) /\ n \in Nat /\ n <= Len(M) + ENCRYPTED_SYM_LENGTH
  <2>1. Complete(m)
    BY DEF Object
  <2>2. Fitting(m, AsRead(m, mem))
    BY ObjectFits
  <2>3. Whole(m, mem)
    BY ObjectWhole
  <2> QED
    BY <2>1, <2>2, <2>3 DEF Whole
<1>2. P \in Seq(Byte) /\ Construct(type, P) = [ok |-> TRUE, p |-> Len(P) + 1, vals |-> AsRead(m, mem)]
  BY <1>1, ReadBack
<1>3. type \in Codes
  BY <1>1, Codes6
<1>4. Len(P) = n
  <2> HIDE DEF M, n
  <2> QED
    BY <1>1, BytesFound
<1>5. x \in Octets(8)
  <2> DEFINE i == encodeInt(0)
             j == encodeInt(n)
  <2>1. x = i \o j
    BY DEF encodeLong, Long
  <2> HIDE DEF n
  <2>2. i \in Seq(Byte) /\ Len(i) = 4 /\ j \in Seq(Byte) /\ Len(j) = 4
    BY <1>1, IntBytes DEF INT_SIZE
  <2> HIDE DEF x, i, j
  <2>3. x \in Seq(Byte) /\ Len(x) = 8
    BY <2>1, <2>2, Halves
  <2> QED
    BY <2>3 DEF Octets
<1>6. encode(m) = Cat(h, M)
  BY DEF encode, encodeHeader, Cat
<1>7. getTotalMsgLength(m) = n + 19
  BY HeaderBytes DEF getTotalMsgLength
<1> HIDE DEF M, type, n, x, P
<1>8. \A Q \in Seq(Byte) : \A c : c = Cat(h, Q) =>
        /\ c \in Seq(Byte) /\ Len(c) = 19 + Len(Q) /\ HeaderType(c) = type
        /\ SubSeq(c, 20, Len(c)) = Q
        /\ Len(h) = 19 /\ h \in Seq(Byte)
  <2>1. \A x1 \in Octets(8) : \A M1 \in Seq(Byte) : \A b1 :
          b1 = Cat(Cat(Cat(HEADER, <<type>>), x1), M1) =>
            /\ b1 \in Seq(Byte) /\ Len(b1) = 19 + Len(M1)
            /\ GoodHeader(b1) /\ HeaderType(b1) = type /\ LengthOf(b1) = x1
            /\ SubSeq(b1, 20, Len(b1)) = M1
            /\ Len(Cat(Cat(HEADER, <<type>>), x1)) = 19 /\ Cat(Cat(HEADER, <<type>>), x1) \in Seq(Byte)
    BY <1>3, HeaderBack, Zenon
  <2> QED
    BY <1>5, <2>1, Zenon
<1> HIDE DEF h
<1>9. Len(h) = 19 /\ h \in Seq(Byte)
  BY <1>2, <1>8
<1>10. n + 19 = Len(h) + n /\ n + 19 \in Nat
  BY <1>1, <1>9
<1>11. b = Cat(h, P)
  <2>1. b = BytesOf(Cat(h, M), n + 19, mem)
    BY <1>6, <1>7
  <2>2. BytesOf(Cat(h, M), n + 19, mem) = Cat(h, BytesOf(M, n, mem))
    <3>1. \A i, k \in Nat : i <= Len(M) + ENCRYPTED_SYM_LENGTH /\ k = Len(h) + i =>
              BytesOf(Cat(h, M), k, mem) = Cat(h, BytesOf(M, i, mem))
      BY <1>1, <1>9, BytesAfter, ZenonT(30)
    <3> QED
      BY <1>1, <1>10, <3>1
  <2> QED
    BY <2>1, <2>2 DEF P
<1>12. Len(b) = 19 + Len(P) /\ HeaderType(b) = type /\ SubSeq(b, 20, Len(b)) = P
  BY <1>2, <1>8, <1>11
<1>13. TOTAL_HEADER_LENGTH + 1 = 20
  BY HeaderBytes
<1> QED
  BY <1>1, <1>2, <1>4, <1>12, <1>13 DEF n, type

\* It holds when no object was made, ...
LEMMA CodecInitInv == ASSUME CodecInit PROVE CodecInv
BY DEF CodecInit, CodecInv

\* ... and every step keeps it: what Send hands over is what encode wrote, as
\* far as getTotalMsgLength goes, and decode reads that.
LEMMA CodecNextInv == ASSUME CodecInv, [CodecNext]_codecVars PROVE CodecInv'
<1>1. CASE New
  BY <1>1 DEF New, CodecInv
<1>2. CASE Encode
  BY <1>2 DEF Encode, CodecInv
<1>3. CASE Send
  <2>1. step = "encoded" /\ step' = "sent" /\ message' = message /\ back' = back
    BY <1>3 DEF Send
  <2>2. bytes = encode(message) /\ make(message) /\ message \in Samples
    BY <2>1 DEF CodecInv
  <2>3. \E mem \in Heap : bytes' = BytesOf(encode(message), getTotalMsgLength(message), mem)
    BY <1>3, <2>2 DEF Send
  <2> QED
    BY <2>1, <2>2, <2>3 DEF CodecInv
<1>4. CASE DecodeObject
  <2>1. step = "sent" /\ message' = message /\ bytes' = bytes
    BY <1>4 DEF DecodeObject
  <2>2. /\ make(message) /\ message \in Samples
        /\ \E mem \in Heap : bytes = BytesOf(encode(message), getTotalMsgLength(message), mem)
    BY <2>1 DEF CodecInv
  <2>3. CASE step' = "refused"
    BY <2>1, <2>2, <2>3 DEF CodecInv
  <2>4. CASE /\ step' = "read"
             /\ back' = Construct(HeaderType(bytes),
                                  SubSeq(bytes, TOTAL_HEADER_LENGTH + 1, Len(bytes)))
    BY <2>1, <2>2, <2>4 DEF CodecInv
  <2> QED
    BY <1>4, <2>3, <2>4 DEF DecodeObject
<1>5. CASE UNCHANGED codecVars
  BY <1>5 DEF codecVars, CodecInv
<1> QED
  BY <1>1, <1>2, <1>3, <1>4, <1>5 DEF CodecNext

\* Whatever object of the server's classes the setters let be made, and whatever
\* lies behind its buffer: encoded, sent by its length and decoded it comes back
\* without an exception, field by field and to the last byte of its payload, but
\* for a symmetric key and a nonce that is not of eight bytes, in which encode
\* and getTotalMsgLength disagree.
THEOREM RoundTripAlways == CodecSpec => []RoundTrip
<1>1. CodecInv => RoundTrip
  <2> SUFFICES ASSUME CodecInv, step = "read"
               PROVE  /\ back.ok /\ \E behind \in Heap : back.vals = AsRead(message, behind)
                      /\ back.p + TOTAL_HEADER_LENGTH = Len(bytes) + 1
    BY DEF RoundTrip
  <2>1. /\ make(message) /\ Object(message)
        /\ back = Construct(HeaderType(bytes), SubSeq(bytes, TOTAL_HEADER_LENGTH + 1, Len(bytes)))
    BY SamplesAssumption DEF CodecInv
  <2>2. PICK mem \in Heap : bytes = BytesOf(encode(message), getTotalMsgLength(message), mem)
    BY DEF CodecInv
  <2>3. mem \in Memory
    BY HeapAssumption
  <2> DEFINE n == getPayloadLength(message)
  <2>4. back = [ok |-> TRUE, p |-> n + 1, vals |-> AsRead(message, mem)]
        /\ Len(bytes) = 19 + n /\ n \in Nat
    BY <2>1, <2>2, <2>3, Sent
  <2> HIDE DEF n
  <2>5. back.p + TOTAL_HEADER_LENGTH = Len(bytes) + 1
    BY <2>4, HeaderBytes
  <2> QED
    BY <2>4, <2>5
<1> QED
  BY <1>1, CodecInitInv, CodecNextInv, PTL DEF CodecSpec

=============================================================================
