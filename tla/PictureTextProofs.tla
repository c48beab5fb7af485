--------------------------- MODULE PictureTextProofs ---------------------------
(***************************************************************************)
(* Proofs about PictureText: the encoding is undone by its definition, the *)
(* texts of chunks make the text of the whole, and from both the safety    *)
(* invariants of the module, for every size of chunk and every picture.    *)
(***************************************************************************)
EXTENDS PictureText, SequenceTheorems, TLAPS

-----------------------------------------------------------------------------
(* Arithmetic of groups.                                                   *)

LEMMA Split3 ==
    ASSUME NEW n \in Nat
    PROVE  /\ n \div 3 \in Nat /\ n % 3 \in 0..2
           /\ n = 3 * (n \div 3) + (n % 3)
    OBVIOUS

LEMMA Split4 ==
    ASSUME NEW n \in Nat
    PROVE  /\ n \div 4 \in Nat /\ n % 4 \in 0..3
           /\ n = 4 * (n \div 4) + (n % 4)
    OBVIOUS

(* Three bytes come back from their four items.                            *)
LEMMA GroupComesBack ==
    ASSUME NEW x \in Byte, NEW y \in Byte, NEW z \in Byte
    PROVE  LET b == <<x, y, z>>
           IN  /\ First(b) \in 0..63 /\ Second(b) \in 0..63 /\ Third(b) \in 0..63 /\ Fourth(b) \in 0..63
               /\ x = (First(b) * 4) + (Second(b) \div 16)
               /\ y = ((Second(b) % 16) * 16) + (Third(b) \div 4)
               /\ z = ((Third(b) % 4) * 64) + Fourth(b)
    BY DEF Byte, First, Second, Third, Fourth

LEMMA OutSizeType ==
    ASSUME NEW n \in Nat
    PROVE  OutSize(n) \in Nat
    BY Split3 DEF OutSize

-----------------------------------------------------------------------------
(* The text of a sequence of bytes, group by group.                        *)

(* Character j of group g is an element of the text's domain, and of no    *)
(* other group.                                                            *)
LEMMA PlaceInGroup ==
    ASSUME NEW g \in Nat, NEW j \in 1..4
    PROVE  /\ (((4 * g) + j) - 1) \div 4 = g
           /\ ((((4 * g) + j) - 1) % 4) + 1 = j
    OBVIOUS

LEMMA WholeGroupAt ==
    ASSUME NEW data \in Seq(Byte), NEW g \in Nat, g < Len(data) \div 3, NEW j \in 1..4
    PROVE  /\ (4 * g) + j \in DOMAIN Encode(data)
           /\ Encode(data)[(4 * g) + j] = WholeGroup(data, g)[j]
<1>1. Len(data) \in Nat
    OBVIOUS
<1>2. (4 * g) + j \in 1..OutSize(Len(data))
    BY <1>1, Split3 DEF OutSize
<1> QED
    BY <1>2, PlaceInGroup DEF Encode

LEMMA LastGroupAt ==
    ASSUME NEW data \in Seq(Byte), Len(data) % 3 # 0, NEW j \in 1..4
    PROVE  /\ (4 * (Len(data) \div 3)) + j \in DOMAIN Encode(data)
           /\ Encode(data)[(4 * (Len(data) \div 3)) + j] = LastGroup(data)[j]
<1> DEFINE g == Len(data) \div 3
<1>1. Len(data) \in Nat /\ g \in Nat
    BY Split3
<1>2. (4 * g) + j \in 1..OutSize(Len(data))
    BY <1>1, Split3 DEF OutSize
<1> QED
    BY <1>1, <1>2, PlaceInGroup DEF Encode

(* Every place in a text is in a whole group or in the last one.           *)
LEMMA PlaceOf ==
    ASSUME NEW n \in Nat, NEW k \in 1..OutSize(n)
    PROVE  \E g \in Nat, j \in 1..4 :
             /\ k = (4 * g) + j
             /\ g < n \div 3 \/ (g = n \div 3 /\ n % 3 # 0)
<1> DEFINE g == (k - 1) \div 4
           j == ((k - 1) % 4) + 1
<1>1. k - 1 \in Nat
    OBVIOUS
<1>2. g \in Nat /\ j \in 1..4 /\ k = (4 * g) + j
    BY <1>1, Split4
<1>3. g < n \div 3 \/ (g = n \div 3 /\ n % 3 # 0)
    BY <1>2, Split3 DEF OutSize
<1> QED
    BY <1>2, <1>3

(* The items of a whole group are six-bit values; the three bytes of the   *)
(* group come back from them.                                              *)
LEMMA WholeGroupItems ==
    ASSUME NEW data \in Seq(Byte), NEW g \in Nat, g < Len(data) \div 3
    PROVE  LET w == WholeGroup(data, g)
           IN  /\ \A j \in 1..4 : w[j] \in 0..63
               /\ data[(3 * g) + 1] = (w[1] * 4) + (w[2] \div 16)
               /\ data[(3 * g) + 2] = ((w[2] % 16) * 16) + (w[3] \div 4)
               /\ data[(3 * g) + 3] = ((w[3] % 4) * 64) + w[4]
<1> DEFINE x == data[(3 * g) + 1]
           y == data[(3 * g) + 2]
           z == data[(3 * g) + 3]
           b == <<x, y, z>>
           w == WholeGroup(data, g)
<1>1. (3 * g) + 3 <= Len(data)
    BY Split3
<1>2. x \in Byte /\ y \in Byte /\ z \in Byte
    BY <1>1
<1>3. w = <<First(b), Second(b), Third(b), Fourth(b)>>
    BY DEF WholeGroup, Items, First, Second, Third, Fourth
<1> HIDE DEF x, y, z
<1>4. /\ First(b) \in 0..63 /\ Second(b) \in 0..63 /\ Third(b) \in 0..63 /\ Fourth(b) \in 0..63
      /\ x = (First(b) * 4) + (Second(b) \div 16)
      /\ y = ((Second(b) % 16) * 16) + (Third(b) \div 4)
      /\ z = ((Third(b) % 4) * 64) + Fourth(b)
    BY <1>2, GroupComesBack
<1>5. w[1] = First(b) /\ w[2] = Second(b) /\ w[3] = Third(b) /\ w[4] = Fourth(b)
    BY <1>3
<1>6. \A j \in 1..4 : w[j] \in 0..63
  <2> SUFFICES ASSUME NEW j \in 1..4 PROVE w[j] \in 0..63
      OBVIOUS
  <2>1. j = 1 \/ j = 2 \/ j = 3 \/ j = 4
      OBVIOUS
  <2> QED
      BY <2>1, <1>4, <1>5
<1>7. /\ x = (w[1] * 4) + (w[2] \div 16)
      /\ y = ((w[2] % 16) * 16) + (w[3] \div 4)
      /\ z = ((w[3] % 4) * 64) + w[4]
    BY <1>4, <1>5
<1> QED
    BY <1>6, <1>7 DEF x, y, z

LEMMA SixBits == /\ Pad \in 0..Pad
                 /\ \A v \in 0..63 : v \in 0..Pad /\ v # Pad
    BY DEF Pad

(* The same of the last group, as far as it has bytes.                     *)
LEMMA LastGroupItems ==
    ASSUME NEW data \in Seq(Byte), Len(data) % 3 # 0
    PROVE  LET w == LastGroup(data)
               n == Len(data)
           IN  /\ \A j \in 1..4 : w[j] \in 0..Pad
               /\ w[4] = Pad
               /\ n % 3 = 1 => /\ w[3] = Pad
                              /\ data[n] = (w[1] * 4) + (w[2] \div 16)
               /\ n % 3 = 2 => /\ w[3] # Pad
                              /\ data[n - 1] = (w[1] * 4) + (w[2] \div 16)
                              /\ data[n] = ((w[2] % 16) * 16) + (w[3] \div 4)
<1> DEFINE n == Len(data)
           w == LastGroup(data)
<1>1. n \in Nat /\ n % 3 \in {1, 2}
    BY Split3
<1>2. CASE n % 3 = 1
  <2> DEFINE x == data[n]
             b == <<x, 0, 0>>
  <2>1. n >= 1 /\ 0 \in Byte
      BY <1>1, <1>2 DEF Byte
  <2>9. x \in Byte
      BY <2>1
  <2>2. w = <<First(b), Second(b), Pad, Pad>>
      BY <1>2 DEF LastGroup
  <2> HIDE DEF x
  <2>3. First(b) \in 0..63 /\ Second(b) \in 0..63 /\ x = (First(b) * 4) + (Second(b) \div 16)
      BY <2>1, <2>9, GroupComesBack
  <2>4. w[1] = First(b) /\ w[2] = Second(b) /\ w[3] = Pad /\ w[4] = Pad
      BY <2>2
  <2> HIDE DEF w, b
  <2>5. \A j \in 1..4 : w[j] \in 0..Pad
    <3> SUFFICES ASSUME NEW j \in 1..4 PROVE w[j] \in 0..Pad
        OBVIOUS
    <3>1. j = 1 \/ j = 2 \/ j = 3 \/ j = 4
        OBVIOUS
    <3> QED
        BY <3>1, <2>3, <2>4, SixBits
  <2>6. data[n] = (w[1] * 4) + (w[2] \div 16)
      BY <2>3, <2>4 DEF x
  <2> QED
      BY <1>2, <2>4, <2>5, <2>6 DEF w
<1>3. CASE n % 3 = 2
  <2> DEFINE x == data[n - 1]
             y == data[n]
             b == <<x, y, 0>>
  <2>1. n >= 2 /\ 0 \in Byte
      BY <1>1, <1>3 DEF Byte
  <2>9. x \in Byte /\ y \in Byte
      BY <2>1
  <2>2. w = <<First(b), Second(b), Third(b), Pad>>
      BY <1>3 DEF LastGroup
  <2> HIDE DEF x, y
  <2>3. /\ First(b) \in 0..63 /\ Second(b) \in 0..63 /\ Third(b) \in 0..63
        /\ x = (First(b) * 4) + (Second(b) \div 16)
        /\ y = ((Second(b) % 16) * 16) + (Third(b) \div 4)
      BY <2>1, <2>9, GroupComesBack
  <2>4. w[1] = First(b) /\ w[2] = Second(b) /\ w[3] = Third(b) /\ w[4] = Pad
      BY <2>2
  <2> HIDE DEF w, b
  <2>5. \A j \in 1..4 : w[j] \in 0..Pad
    <3> SUFFICES ASSUME NEW j \in 1..4 PROVE w[j] \in 0..Pad
        OBVIOUS
    <3>1. j = 1 \/ j = 2 \/ j = 3 \/ j = 4
        OBVIOUS
    <3> QED
        BY <3>1, <2>3, <2>4, SixBits
  <2>6. w[3] # Pad
      BY <2>3, <2>4, SixBits
  <2>7. /\ x = (w[1] * 4) + (w[2] \div 16)
        /\ y = ((w[2] % 16) * 16) + (w[3] \div 4)
      BY <2>3, <2>4
  <2>8. /\ data[n - 1] = (w[1] * 4) + (w[2] \div 16)
        /\ data[n] = ((w[2] % 16) * 16) + (w[3] \div 4)
      BY <2>7 DEF x, y
  <2> QED
      BY <1>3, <2>4, <2>5, <2>6, <2>8 DEF w
<1> QED
    BY <1>1, <1>2, <1>3

LEMMA EncodeType ==
    ASSUME NEW data \in Seq(Byte)
    PROVE  Encode(data) \in Seq(0..Pad)
<1> DEFINE n == Len(data)
<1>1. n \in Nat /\ OutSize(n) \in Nat
    BY OutSizeType
<1>2. ASSUME NEW k \in 1..OutSize(n) PROVE Encode(data)[k] \in 0..Pad
  <2>1. PICK g \in Nat, j \in 1..4 :
          /\ k = (4 * g) + j
          /\ g < n \div 3 \/ (g = n \div 3 /\ n % 3 # 0)
      BY <1>1, PlaceOf
  <2>2. CASE g < n \div 3
    <3>1. Encode(data)[k] = WholeGroup(data, g)[j]
        BY <2>1, <2>2, WholeGroupAt
    <3>2. WholeGroup(data, g)[j] \in 0..63
        BY <2>1, <2>2, WholeGroupItems
    <3> QED
        BY <3>1, <3>2, SixBits
  <2>3. CASE g = n \div 3 /\ n % 3 # 0
      BY <2>1, <2>3, LastGroupAt, LastGroupItems
  <2> QED
      BY <2>1, <2>2, <2>3
<1>3. Encode(data) = [k \in 1..OutSize(n) |-> Encode(data)[k]]
    BY DEF Encode
<1> DEFINE t == Encode(data)
           size == OutSize(n)
           Items64 == 0..Pad
<1> HIDE DEF n, t, size, Items64
<1>4. t \in [1..size -> Items64]
    BY <1>2, <1>3 DEF t, size, Items64
<1>5. t \in Seq(Items64)
    BY <1>1, <1>4 DEF size
<1> QED
    BY <1>5 DEF t, Items64

-----------------------------------------------------------------------------
(* The decoder gets every sequence of bytes back from its text.            *)
THEOREM RoundTrip ==
    ASSUME NEW data \in Seq(Byte)
    PROVE  Decode(Encode(data)) = data
<1> DEFINE n == Len(data)
           code == Encode(data)
           m == n \div 3
<1>1. n \in Nat /\ m \in Nat /\ n = (3 * m) + (n % 3) /\ n % 3 \in 0..2
    BY Split3
<1>2. code \in Seq(0..Pad) /\ Len(code) = OutSize(n)
    BY <1>1, EncodeType, OutSizeType DEF Encode
<1>3. DecodedSize(code) = n
  <2>1. CASE n = 0
      BY <1>1, <1>2, <2>1 DEF DecodedSize, OutSize
  <2>2. CASE n # 0 /\ n % 3 = 0
    <3>1. m - 1 \in Nat /\ m - 1 < m
        BY <1>1, <2>2
    <3>2. code[(4 * (m - 1)) + 3] # Pad /\ code[(4 * (m - 1)) + 4] # Pad
      <4> DEFINE w == WholeGroup(data, m - 1)
      <4>1. w[3] \in 0..63 /\ w[4] \in 0..63
          BY <3>1, WholeGroupItems
      <4>2. code[(4 * (m - 1)) + 3] = w[3] /\ code[(4 * (m - 1)) + 4] = w[4]
          BY <3>1, WholeGroupAt
      <4> QED
          BY <4>1, <4>2, SixBits
    <3>3. OutSize(n) = 4 * m /\ OutSize(n) \div 4 = m
        BY <1>1, <2>2 DEF OutSize
    <3> QED
        BY <1>1, <1>2, <2>2, <3>1, <3>2, <3>3 DEF DecodedSize
  <2>3. CASE n % 3 # 0
    <3>1. /\ code[(4 * m) + 3] = LastGroup(data)[3]
          /\ code[(4 * m) + 4] = LastGroup(data)[4]
        BY <2>3, LastGroupAt
    <3>2. OutSize(n) = (4 * m) + 4 /\ OutSize(n) \div 4 = m + 1
        BY <1>1, <2>3 DEF OutSize
    <3>3. /\ code[(4 * m) + 4] = Pad
          /\ n % 3 = 1 <=> code[(4 * m) + 3] = Pad
        BY <1>1, <2>3, <3>1, LastGroupItems
    <3> QED
        BY <1>1, <1>2, <2>3, <3>2, <3>3 DEF DecodedSize
  <2> QED
      BY <2>1, <2>2, <2>3
<1>4. ASSUME NEW i \in 1..n PROVE Decode(code)[i] = data[i]
  <2> DEFINE g == (i - 1) \div 3
             c == (i - 1) % 3
  <2>1. g \in Nat /\ c \in 0..2 /\ i = (3 * g) + c + 1
      BY <1>1, Split3
  <2>2. Decode(code)[i] =
          CASE c = 0 -> (code[(4 * g) + 1] * 4) + (code[(4 * g) + 2] \div 16)
            [] c = 1 -> ((code[(4 * g) + 2] % 16) * 16) + (code[(4 * g) + 3] \div 4)
            [] c = 2 -> ((code[(4 * g) + 3] % 4) * 64) + code[(4 * g) + 4]
      BY <1>3 DEF Decode
  <2>3. CASE g < m
    <3>1. \A j \in 1..4 : code[(4 * g) + j] = WholeGroup(data, g)[j]
        BY <2>1, <2>3, WholeGroupAt
    <3> DEFINE w == WholeGroup(data, g)
    <3>2. /\ data[(3 * g) + 1] = (w[1] * 4) + (w[2] \div 16)
          /\ data[(3 * g) + 2] = ((w[2] % 16) * 16) + (w[3] \div 4)
          /\ data[(3 * g) + 3] = ((w[3] % 4) * 64) + w[4]
        BY <2>1, <2>3, WholeGroupItems
    <3> HIDE DEF w
    <3>3. /\ code[(4 * g) + 1] = w[1] /\ code[(4 * g) + 2] = w[2]
          /\ code[(4 * g) + 3] = w[3] /\ code[(4 * g) + 4] = w[4]
        BY <3>1 DEF w
    <3> HIDE DEF code, g, c
    <3>4. c = 0 \/ c = 1 \/ c = 2
        BY <2>1
    <3>5. CASE c = 0
        BY <2>1, <2>2, <3>2, <3>3, <3>5
    <3>6. CASE c = 1
        BY <2>1, <2>2, <3>2, <3>3, <3>6
    <3>7. CASE c = 2
        BY <2>1, <2>2, <3>2, <3>3, <3>7
    <3> QED
        BY <3>4, <3>5, <3>6, <3>7
  <2>4. CASE g = m
    <3>1. n % 3 # 0 /\ c < n % 3
        BY <1>1, <2>1, <2>4
    <3>2. \A j \in 1..4 : code[(4 * g) + j] = LastGroup(data)[j]
        BY <2>4, <3>1, LastGroupAt
    <3> DEFINE w == LastGroup(data)
    <3>3. /\ n % 3 = 1 => data[n] = (w[1] * 4) + (w[2] \div 16)
          /\ n % 3 = 2 => /\ data[n - 1] = (w[1] * 4) + (w[2] \div 16)
                         /\ data[n] = ((w[2] % 16) * 16) + (w[3] \div 4)
        BY <3>1, LastGroupItems
    <3> HIDE DEF w
    <3>4. /\ code[(4 * g) + 1] = w[1] /\ code[(4 * g) + 2] = w[2]
          /\ code[(4 * g) + 3] = w[3]
        BY <3>2 DEF w
    <3>5. \/ n % 3 = 1 /\ c = 0 /\ i = n
          \/ n % 3 = 2 /\ c = 0 /\ i = n - 1
          \/ n % 3 = 2 /\ c = 1 /\ i = n
        BY <1>1, <2>1, <2>4, <3>1
    <3> HIDE DEF code, g, c
    <3> QED
        BY <2>2, <3>3, <3>4, <3>5
  <2>5. g < m \/ g = m
      BY <1>1, <2>1
  <2> QED
      BY <2>3, <2>4, <2>5
<1>5. Decode(code) = [i \in 1..n |-> Decode(code)[i]]
    BY <1>3 DEF Decode
<1>6. data = [i \in 1..n |-> data[i]]
    OBVIOUS
<1> QED
    BY <1>4, <1>5, <1>6

LEMMA Joined ==
    ASSUME NEW S, NEW s \in Seq(S), NEW t \in Seq(S)
    PROVE  /\ s \o t \in Seq(S) /\ Len(s \o t) = Len(s) + Len(t)
           /\ \A k \in 1..(Len(s) + Len(t)) :
                (s \o t)[k] = IF k <= Len(s) THEN s[k] ELSE t[k - Len(s)]
    OBVIOUS

LEMMA JoinedSizes ==
    ASSUME NEW x \in Nat, NEW n \in Nat, x % 3 = 0
    PROVE  /\ x = 3 * (x \div 3) /\ x \div 3 \in Nat
           /\ (x + n) \div 3 = (x \div 3) + (n \div 3)
           /\ (x + n) % 3 = n % 3
           /\ OutSize(x) = 4 * (x \div 3)
           /\ OutSize(x + n) = (4 * (x \div 3)) + OutSize(n)
    BY DEF OutSize

(* A text has the length the code computes.                                *)
LEMMA EncodeLength ==
    ASSUME NEW data \in Seq(Byte)
    PROVE  Len(Encode(data)) = OutSize(Len(data))
<1>1. OutSize(Len(data)) \in Nat
    BY OutSizeType
<1>2. DOMAIN Encode(data) = 1..OutSize(Len(data))
    BY DEF Encode
<1>3. Encode(data) \in Seq(0..Pad)
    BY EncodeType
<1> HIDE DEF Encode
<1> QED
    BY <1>1, <1>2, <1>3

(* The texts of two pieces make the text of the whole, one after the       *)
(* other, when the first has whole groups only.                            *)
THEOREM TextsJoin ==
    ASSUME NEW a \in Seq(Byte), NEW b \in Seq(Byte), Len(a) % 3 = 0
    PROVE  Encode(a \o b) = Encode(a) \o Encode(b)
<1> DEFINE p == Len(a) \div 3
           n == Len(b)
           m == n \div 3
           ab == a \o b
           l == Len(ab)
<1>1. /\ p \in Nat /\ Len(a) = 3 * p
      /\ n \in Nat /\ m \in Nat /\ n = (3 * m) + (n % 3) /\ n % 3 \in 0..2
    BY Split3
<1>2. /\ ab \in Seq(Byte) /\ l = Len(a) + n
      /\ \A i \in 1..Len(a) : ab[i] = a[i]
      /\ \A i \in 1..n : ab[Len(a) + i] = b[i]
    OBVIOUS
<1>a. Len(a) \in Nat
    OBVIOUS
<1> HIDE DEF ab, l, n
<1>b. /\ (Len(a) + n) \div 3 = p + m /\ (Len(a) + n) % 3 = n % 3
      /\ OutSize(Len(a)) = 4 * p /\ OutSize(Len(a) + n) = (4 * p) + OutSize(n)
    BY <1>a, <1>1, JoinedSizes
<1>3. l \in Nat /\ l \div 3 = p + m /\ l % 3 = n % 3
    BY <1>a, <1>b, <1>1, <1>2
<1>4. OutSize(Len(a)) = 4 * p /\ OutSize(l) = (4 * p) + OutSize(n) /\ OutSize(n) \in Nat
    BY <1>b, <1>1, <1>2, OutSizeType
<1> HIDE DEF p, m
<1>5. /\ Encode(a) \in Seq(0..Pad) /\ Len(Encode(a)) = 4 * p
      /\ Encode(b) \in Seq(0..Pad) /\ Len(Encode(b)) = OutSize(n)
      /\ Encode(ab) \in Seq(0..Pad) /\ Len(Encode(ab)) = (4 * p) + OutSize(n)
    BY <1>2, <1>4, EncodeType, EncodeLength DEF n, l
<1>6. ASSUME NEW k \in 1..OutSize(l)
      PROVE  Encode(ab)[k] = IF k <= 4 * p THEN Encode(a)[k] ELSE Encode(b)[k - (4 * p)]
  <2>1. PICK g \in Nat, j \in 1..4 :
          /\ k = (4 * g) + j
          /\ g < l \div 3 \/ (g = l \div 3 /\ l % 3 # 0)
      BY <1>3, PlaceOf
  <2>2. CASE g < p
    <3>1. Encode(ab)[k] = WholeGroup(ab, g)[j]
      <4>1. g < Len(ab) \div 3
          BY <1>1, <1>3, <2>1, <2>2 DEF l
      <4> QED
          BY <1>2, <2>1, <4>1, WholeGroupAt
    <3>2. Encode(a)[k] = WholeGroup(a, g)[j] /\ k <= 4 * p
      <4>1. g < Len(a) \div 3
          BY <2>2 DEF p
      <4>2. Encode(a)[k] = WholeGroup(a, g)[j]
          BY <2>1, <4>1, WholeGroupAt
      <4>3. k <= 4 * p
          BY <1>1, <2>1, <2>2
      <4> QED
          BY <4>2, <4>3
    <3>3. /\ ab[(3 * g) + 1] = a[(3 * g) + 1] /\ ab[(3 * g) + 2] = a[(3 * g) + 2]
          /\ ab[(3 * g) + 3] = a[(3 * g) + 3]
        BY <1>1, <1>2, <2>2
    <3>4. WholeGroup(ab, g) = WholeGroup(a, g)
        BY <3>3 DEF WholeGroup
    <3> QED
        BY <3>1, <3>2, <3>4
  <2>3. CASE p <= g /\ g < p + m
    <3> DEFINE h == g - p
    <3>0. h \in Nat /\ h < m /\ g = p + h
        BY <1>1, <2>1, <2>3
    <3>1. Encode(ab)[k] = WholeGroup(ab, g)[j]
      <4>1. g < Len(ab) \div 3
          BY <1>1, <1>3, <2>1, <2>3 DEF l
      <4> QED
          BY <1>2, <2>1, <4>1, WholeGroupAt
    <3>2. Encode(b)[(4 * h) + j] = WholeGroup(b, h)[j]
        BY <1>1, <3>0, WholeGroupAt DEF m, n
    <3>3. k - (4 * p) = (4 * h) + j /\ ~(k <= 4 * p)
        BY <1>1, <2>1, <3>0
    <3>4. /\ ab[(3 * g) + 1] = b[(3 * h) + 1] /\ ab[(3 * g) + 2] = b[(3 * h) + 2]
          /\ ab[(3 * g) + 3] = b[(3 * h) + 3]
      <4>1. /\ (3 * h) + 1 \in 1..n /\ (3 * h) + 2 \in 1..n /\ (3 * h) + 3 \in 1..n
            /\ (3 * g) + 1 = Len(a) + ((3 * h) + 1)
            /\ (3 * g) + 2 = Len(a) + ((3 * h) + 2)
            /\ (3 * g) + 3 = Len(a) + ((3 * h) + 3)
        <5> HIDE DEF h
        <5>1. (3 * h) + 3 <= n
            BY <1>1, <3>0
        <5>2. 3 * g = (3 * p) + (3 * h)
            BY <1>1, <2>1, <3>0
        <5> QED
            BY <1>1, <2>1, <3>0, <5>1, <5>2
      <4> DEFINE x == (3 * h) + 1
                 y == (3 * h) + 2
                 z == (3 * h) + 3
      <4>2. x \in 1..n /\ y \in 1..n /\ z \in 1..n
          BY <4>1
      <4> HIDE DEF x, y, z
      <4>3. ab[Len(a) + x] = b[x] /\ ab[Len(a) + y] = b[y] /\ ab[Len(a) + z] = b[z]
          BY <1>2, <4>2
      <4> QED
          BY <4>1, <4>3 DEF x, y, z
    <3>5. WholeGroup(ab, g) = WholeGroup(b, h)
        BY <3>4 DEF WholeGroup
    <3> QED
        BY <3>1, <3>2, <3>3, <3>5
  <2>4. CASE g = p + m /\ n % 3 # 0
    <3>1. Encode(ab)[k] = LastGroup(ab)[j]
        BY <1>2, <1>3, <2>1, <2>4, LastGroupAt DEF l
    <3>2. Encode(b)[(4 * m) + j] = LastGroup(b)[j]
        BY <2>4, LastGroupAt DEF m, n
    <3>3. k - (4 * p) = (4 * m) + j /\ ~(k <= 4 * p)
        BY <1>1, <2>1, <2>4
    <3>4. n \in 1..n /\ ab[l] = b[n]
      <4>1. n \in 1..n
          BY <1>1, <2>4
      <4> QED
          BY <1>2, <4>1
    <3>5. n % 3 = 2 => ab[l - 1] = b[n - 1]
      <4>1. n % 3 = 2 => n - 1 \in 1..n /\ l - 1 = Len(a) + (n - 1)
          BY <1>1, <1>2
      <4> QED
          BY <1>2, <4>1
    <3>6. LastGroup(ab) = LastGroup(b)
      <4>1. CASE n % 3 = 1
          BY <1>3, <3>4, <4>1 DEF LastGroup, l, n
      <4>2. CASE n % 3 = 2
        <5>1. LastGroup(ab) = <<First(<<ab[l - 1], ab[l], 0>>), Second(<<ab[l - 1], ab[l], 0>>),
                                Third(<<ab[l - 1], ab[l], 0>>), Pad>>
            BY <1>3, <4>2 DEF LastGroup, l
        <5>2. LastGroup(b) = <<First(<<b[n - 1], b[n], 0>>), Second(<<b[n - 1], b[n], 0>>),
                               Third(<<b[n - 1], b[n], 0>>), Pad>>
            BY <4>2 DEF LastGroup, n
        <5> QED
            BY <3>4, <3>5, <4>2, <5>1, <5>2
      <4> QED
          BY <1>1, <2>4, <4>1, <4>2
    <3> QED
        BY <3>1, <3>2, <3>3, <3>6
  <2> QED
      BY <1>1, <1>3, <2>1, <2>2, <2>3, <2>4
<1>7. ASSUME NEW k \in 1..((4 * p) + OutSize(n))
      PROVE  Encode(ab)[k] = (Encode(a) \o Encode(b))[k]
  <2>1. (Encode(a) \o Encode(b))[k] = IF k <= 4 * p THEN Encode(a)[k] ELSE Encode(b)[k - (4 * p)]
    <3> DEFINE S == 0..Pad
               s == Encode(a)
               t == Encode(b)
    <3> HIDE DEF S, s, t
    <3>1. s \in Seq(S) /\ t \in Seq(S) /\ Len(s) = 4 * p /\ Len(t) = OutSize(n)
        BY <1>5 DEF S, s, t
    <3>2. (s \o t)[k] = IF k <= Len(s) THEN s[k] ELSE t[k - Len(s)]
        BY <3>1, Joined
    <3> QED
        BY <3>1, <3>2 DEF s, t
  <2> QED
      BY <1>4, <1>6, <2>1
<1>8. /\ Encode(a) \o Encode(b) \in Seq(0..Pad)
      /\ Len(Encode(a) \o Encode(b)) = (4 * p) + OutSize(n)
    BY <1>5, Joined
<1>9. Encode(ab) = Encode(a) \o Encode(b)
    BY <1>1, <1>4, <1>5, <1>7, <1>8, SeqEqual
<1> QED
    BY <1>9 DEF ab

-----------------------------------------------------------------------------
(* The inductive invariant.                                                *)

Kinds == {"stop", "length", "data", "start", "reset"}

PartSet ==
    [part : {"head"}, kind : Kinds]
    \cup [part : {"head"}, kind : {"length"}, value : Nat]
    \cup [part : {"body"}, bytes : Seq(Byte)]

CommandSet == {Stop, GetLength, Start, Reset} \cup [kind : {"data"}, from : Nat, n : Nat]

Arriving == [what : PartSet, age : 0..Late]
Delayed == [what : PartSet, age : 1..Late]

DriverTypes ==
    /\ bus_busy \in BOOLEAN
    /\ rxbuf \in [got : Seq(PartSet), state : {"receiving", "done", "error"}]
    /\ cmd \in CommandSet
    /\ res \in {"success", "error", "timeout"}
    /\ phase \in {"idle", "sending", "waiting", "returned"}
    /\ coming \in Seq(Arriving)
    /\ frame \in Pictures
    /\ unsent \in BOOLEAN /\ late \in BOOLEAN /\ astray \in BOOLEAN

StreamTypes ==
    /\ stage \in {"idle", "stop", "length", "read", "start", "reset"}
    /\ total_size \in Nat /\ completed_chunks \in Nat
    /\ stage = "read" => StartAddr < total_size
    /\ text \in Seq(0..Pad)
    /\ high \in Nat
    /\ finished \in BOOLEAN /\ halted \in BOOLEAN

(* The buffer is as full as its state says, and a command that succeeded   *)
(* has filled it.                                                          *)
BufferFill ==
    /\ Len(rxbuf.got) <= PartsOf(cmd)
    /\ rxbuf.state = "done" => Len(rxbuf.got) = PartsOf(cmd)
    /\ rxbuf.state = "receiving" => Len(rxbuf.got) < PartsOf(cmd)
    /\ phase = "returned" /\ res = "success" => rxbuf.state = "done"

(* The command in progress is that of the stage.                           *)
CommandOfStage == phase # "idle" => stage # "idle" /\ cmd = CommandOf(stage)

TypeInv == DriverTypes /\ StreamTypes /\ BufferFill /\ CommandOfStage

BusInv ==
    /\ IsLive => bus_busy
    /\ bus_busy /\ ~IsLive => unsent
    /\ astray => unsent

LEMMA ChunkIsPositive == ChunkSize \in Nat /\ ChunkSize >= 3
    BY ChunkSizeAssumption

(* The allocator rounds one character more than the text up to four.       *)
LEMMA BlockFits == Block \in Nat /\ Block = OutSize(ChunkSize) + 4
<1> DEFINE e == OutSize(ChunkSize)
<1>1. e \in Nat /\ (e + 1) % 4 = 1
    BY ChunkIsPositive, ChunkSizeAssumption, Split3 DEF OutSize
<1> HIDE DEF e
<1>2. Usable(e + 1) = e + 4
    BY <1>1 DEF Usable
<1> QED
    BY <1>1, <1>2 DEF e, Block

LEMMA CommandType ==
    ASSUME StreamTypes, NEW s \in {"stop", "length", "read", "start", "reset"}, s = stage
    PROVE  CommandOf(s) \in CommandSet
<1>1. CASE s = "read"
  <2>1. StartAddr \in Nat /\ StartAddr < total_size
      BY <1>1, ChunkIsPositive DEF StreamTypes, StartAddr
  <2>2. NumberOfBytes \in Nat
      BY <2>1, ChunkIsPositive DEF StreamTypes, NumberOfBytes
  <2> QED
      BY <1>1, <2>1, <2>2 DEF CommandOf, CommandSet, GetData
<1>2. CASE s # "read"
    BY <1>2 DEF CommandOf, CommandSet
<1> QED
    BY <1>1, <1>2

LEMMA AnswerType ==
    ASSUME DriverTypes
    PROVE  /\ AnswerTo(cmd) \in Seq(PartSet)
           /\ Len(AnswerTo(cmd)) = PartsOf(cmd)
<1>1. frame \in Seq(Byte) /\ Len(frame) \in Nat /\ 0 \in Byte
    BY PicturesAssumption DEF DriverTypes, Byte
<1>2. CASE cmd.kind = "data"
  <2>1. cmd.from \in Nat /\ cmd.n \in Nat
      BY <1>2 DEF DriverTypes, CommandSet, Stop, GetLength, Start, Reset
  <2>2. FrameBytes(cmd.from, cmd.n) \in [1..cmd.n -> Byte]
    <3> SUFFICES ASSUME NEW i \in 1..cmd.n
                 PROVE  (IF cmd.from + i <= Len(frame) THEN frame[cmd.from + i] ELSE 0) \in Byte
        BY DEF FrameBytes
    <3>1. cmd.from + i \in Nat /\ cmd.from + i >= 1
        BY <2>1
    <3> QED
        BY <1>1, <3>1
  <2>3. FrameBytes(cmd.from, cmd.n) \in Seq(Byte)
      BY <2>1, <2>2
  <2>4. Body(FrameBytes(cmd.from, cmd.n)) \in PartSet
      BY <2>3 DEF Body, PartSet
  <2>5. HeadOf(cmd) \in PartSet
      BY <1>2 DEF HeadOf, PartSet, Kinds
  <2>6. AnswerTo(cmd) = <<HeadOf(cmd), Body(FrameBytes(cmd.from, cmd.n))>>
      BY <1>2 DEF AnswerTo
  <2> QED
      BY <1>2, <2>4, <2>5, <2>6 DEF PartsOf
<1>3. CASE cmd.kind = "length"
  <2>1. LengthHead(Len(frame)) \in PartSet
      BY <1>1 DEF LengthHead, PartSet
  <2>2. AnswerTo(cmd) = <<LengthHead(Len(frame))>>
      BY <1>3 DEF AnswerTo
  <2> QED
      BY <1>3, <2>1, <2>2 DEF PartsOf
<1>4. CASE cmd.kind \notin {"data", "length"}
  <2>1. HeadOf(cmd) \in PartSet
      BY <1>4 DEF DriverTypes, CommandSet, Stop, GetLength, Start, Reset, HeadOf, PartSet, Kinds
  <2>2. AnswerTo(cmd) = <<HeadOf(cmd)>>
      BY <1>4 DEF AnswerTo
  <2> QED
      BY <1>4, <2>1, <2>2 DEF PartsOf
<1> QED
    BY <1>2, <1>3, <1>4

LEMMA TypeInit == Init => TypeInv /\ BusInv
<1> SUFFICES ASSUME Init PROVE TypeInv /\ BusInv
    OBVIOUS
<1>1. <<>> \in Seq(PartSet) /\ <<>> \in Seq(Arriving) /\ <<>> \in Seq(0..Pad)
    OBVIOUS
<1>2. DriverTypes
    BY <1>1 DEF Init, VcInit, DriverTypes, EmptyBuffer, CommandSet
<1>3. StreamTypes
    BY <1>1 DEF Init, StreamTypes
<1>4. BufferFill /\ CommandOfStage /\ BusInv
    BY DEF Init, VcInit, BufferFill, CommandOfStage, BusInv, EmptyBuffer, PartsOf, Reset, IsLive
<1> QED
    BY <1>2, <1>3, <1>4 DEF TypeInv

(* What a step of the driver does to types that are not the stream's.      *)
LEMMA ExecuteTypes ==
    ASSUME DriverTypes, NEW c \in CommandSet, Execute(c)
    PROVE  DriverTypes' /\ BufferFill' /\ coming' \in Seq(Delayed)
<1>1. PICK old \in 0..Len(coming) :
        /\ \A i \in DOMAIN coming : i <= old <=> coming[i].age >= Late
        /\ coming' = [i \in 1..(Len(coming) - old) |-> [coming[old + i] EXCEPT !.age = @ + 1]]
    BY DEF Execute
<1>2. coming \in Seq(Arriving) /\ Len(coming) \in Nat
    BY DEF DriverTypes
<1> DEFINE m == Len(coming) - old
<1>3. m \in Nat
    BY <1>2
<1>4. \A i \in 1..m : coming'[i] \in Delayed
  <2> SUFFICES ASSUME NEW i \in 1..m
               PROVE  coming'[i] \in Delayed
      OBVIOUS
  <2>1. old + i \in DOMAIN coming /\ ~(old + i <= old)
      BY <1>2, <1>3
  <2>2. coming[old + i] \in Arriving
      BY <1>2, <2>1
  <2>3. ~(coming[old + i].age >= Late)
      BY <1>1, <2>1
  <2>4. coming[old + i].age + 1 \in 1..Late
      BY <2>2, <2>3, LateAssumption DEF Arriving
  <2>5. coming'[i] = [coming[old + i] EXCEPT !.age = coming[old + i].age + 1]
      BY <1>1
  <2> HIDE DEF m
  <2> QED
      BY <2>2, <2>4, <2>5 DEF Arriving, Delayed
<1>5. coming' = [i \in 1..m |-> coming'[i]]
    BY <1>1
<1>6. coming' \in Seq(Delayed)
  <2> DEFINE T == Delayed
             next == coming'
  <2> HIDE DEF m, T, next
  <2>1. next = [i \in 1..m |-> next[i]] /\ \A i \in 1..m : next[i] \in T
      BY <1>4, <1>5 DEF next, T
  <2>2. next \in [1..m -> T]
      BY <2>1
  <2>3. next \in Seq(T)
      BY <1>3, <2>2
  <2> QED
      BY <2>3 DEF next, T
<1>7. coming' \in Seq(Arriving)
  <2>1. Delayed \subseteq Arriving
      BY LateAssumption DEF Arriving, Delayed
  <2> QED
      BY <1>6, <2>1, SeqMonotonic
<1>8. DriverTypes'
    BY <1>7 DEF Execute, DriverTypes, EmptyBuffer, witness
<1>9. BufferFill'
    BY DEF Execute, BufferFill, EmptyBuffer, PartsOf
<1> QED
    BY <1>6, <1>8, <1>9

LEMMA SentTypes ==
    ASSUME DriverTypes, BufferFill, Sent
    PROVE  DriverTypes' /\ BufferFill'
<1>1. coming' \in Seq(Arriving)
  <2> DEFINE answer == AnswerTo(cmd)
             fresh == [i \in DOMAIN answer |-> [what |-> answer[i], age |-> 0]]
  <2>1. coming \in Seq(Arriving) /\ answer \in Seq(PartSet)
      BY AnswerType DEF DriverTypes
  <2>2. fresh \in Seq(Arriving)
    <3>1. DOMAIN answer = 1..Len(answer) /\ Len(answer) \in Nat
        BY <2>1
    <3>2. \A i \in 1..Len(answer) : [what |-> answer[i], age |-> 0] \in Arriving
        BY <2>1, LateAssumption DEF Arriving
    <3> HIDE DEF answer
    <3> QED
        BY <3>1, <3>2
  <2>3. coming' = coming \/ coming' = coming \o fresh
      BY DEF Sent, camera
  <2> HIDE DEF fresh
  <2>4. coming \o fresh \in Seq(Arriving)
      BY <2>1, <2>2, Joined
  <2> QED
      BY <2>1, <2>3, <2>4
<1>2. frame' \in Pictures
    BY DEF Sent, camera, DriverTypes
<1> QED
    BY <1>1, <1>2 DEF Sent, DriverTypes, BufferFill, witness

LEMMA SendFailsTypes ==
    ASSUME DriverTypes, BufferFill, SendFails
    PROVE  DriverTypes' /\ BufferFill'
    BY DEF SendFails, DriverTypes, BufferFill, camera

LEMMA WaitEndsTypes ==
    ASSUME DriverTypes, BufferFill, WaitEnds
    PROVE  DriverTypes' /\ BufferFill'
<1>1. res' \in {"success", "error", "timeout"} /\ (res' = "success" => rxbuf.state = "done")
    BY DEF WaitEnds, Verified
<1> QED
    BY <1>1 DEF WaitEnds, DriverTypes, BufferFill, BusyAfterWait, camera, witness

LEMMA ArrivesTypes ==
    ASSUME DriverTypes, BufferFill, NEW intact \in BOOLEAN, Arrives(intact)
    PROVE  DriverTypes' /\ BufferFill'
<1> DEFINE x == Head(coming)
<1>1. coming # <<>> /\ coming \in Seq(Arriving)
    BY DEF Arrives, DriverTypes
<1>2. x \in Arriving /\ coming' \in Seq(Arriving)
    BY <1>1 DEF Arrives
<1> HIDE DEF x
<1>3. Append(rxbuf.got, x.what) \in Seq(PartSet)
      /\ Len(Append(rxbuf.got, x.what)) = Len(rxbuf.got) + 1
    BY <1>2 DEF DriverTypes, Arriving
<1>4. rxbuf' \in [got : Seq(PartSet), state : {"receiving", "done", "error"}]
    BY <1>3 DEF Arrives, DriverTypes, x
<1>5. BufferFill'
  <2>0. Len(rxbuf.got) \in Nat /\ PartsOf(cmd) \in {1, 2}
      BY DEF DriverTypes, PartsOf
  <2>1. CASE rxbuf' = rxbuf
      BY <2>1 DEF BufferFill, Arrives
  <2>2. CASE rxbuf' # rxbuf /\ ~intact
    <3>1. rxbuf'.got = rxbuf.got /\ rxbuf'.state = "error" /\ phase # "returned"
        BY <2>2 DEF Arrives, DriverTypes, IsLive
    <3> QED
        BY <3>1 DEF BufferFill, Arrives
  <2>3. CASE rxbuf' # rxbuf /\ intact
    <3>1. /\ rxbuf'.got = Append(rxbuf.got, x.what)
          /\ rxbuf'.state = IF Len(rxbuf.got) + 1 >= PartsOf(cmd) THEN "done" ELSE "receiving"
          /\ rxbuf.state = "receiving" /\ phase # "returned"
        BY <1>3, <2>3 DEF Arrives, IsLive, x
    <3>2. Len(rxbuf'.got) = Len(rxbuf.got) + 1 /\ Len(rxbuf.got) < PartsOf(cmd)
        BY <1>3, <3>1 DEF BufferFill
    <3>3. phase' = phase /\ cmd' = cmd /\ PartsOf(cmd)' = PartsOf(cmd)
        BY DEF Arrives
    <3> QED
        BY <2>0, <3>1, <3>2, <3>3 DEF BufferFill
  <2> QED
      BY <2>1, <2>2, <2>3
<1>6. late' \in BOOLEAN /\ astray' \in BOOLEAN
    BY DEF Arrives
<1> QED
    BY <1>2, <1>4, <1>5, <1>6 DEF Arrives, DriverTypes

LEMMA IsLostTypes ==
    ASSUME DriverTypes, BufferFill, IsLost
    PROVE  DriverTypes' /\ BufferFill'
<1>1. coming' \in Seq(Arriving)
    BY DEF IsLost, DriverTypes
<1> QED
    BY <1>1 DEF IsLost, DriverTypes, BufferFill, driver, witness

(* A step of the driver keeps the types; one of the camera task is left to *)
(* it.                                                                     *)
LEMMA DriverTypesKept ==
    ASSUME TypeInv, Next
    PROVE  DriverTypes' /\ BufferFill'
<1> USE DEF TypeInv
<1>1. CASE RunCommand
  <2>1. CommandOf(stage) \in CommandSet
      BY <1>1, CommandType DEF RunCommand, StreamTypes
  <2> QED
      BY <1>1, <2>1, ExecuteTypes DEF RunCommand
<1>2. CASE TakePicture \/ StreamTimesOut
    BY <1>2 DEF TakePicture, StreamTimesOut, vcvars, driver, camera, witness, DriverTypes, BufferFill
<1>3. ASSUME NEW s, Return(s) PROVE DriverTypes' /\ BufferFill'
    BY <1>3 DEF Return, camera, witness, DriverTypes, BufferFill
<1>4. CASE Stopped \/ LengthKnown \/ ChunkRead \/ ChunkNotRead \/ Started \/ WasReset
    BY <1>3, <1>4 DEF Stopped, LengthKnown, ChunkRead, ChunkNotRead, Started, WasReset
<1>5. CASE DriverStep
    BY <1>5, SentTypes, SendFailsTypes, WaitEndsTypes DEF DriverStep
<1>6. CASE UartStep
    BY <1>6, ArrivesTypes, IsLostTypes DEF UartStep
<1> QED
    BY <1>1, <1>2, <1>4, <1>5, <1>6 DEF Next

(* What a chunk that was read has, and where the next one starts.          *)
LEMMA ChunkFacts ==
    ASSUME TypeInv, stage = "read"
    PROVE  /\ StartAddr \in Nat /\ NumberOfBytes \in 1..ChunkSize
           /\ StartAddr + NumberOfBytes <= total_size
           /\ IsLast(completed_chunks + 1) => StartAddr + NumberOfBytes = total_size
           /\ ~IsLast(completed_chunks + 1) =>
                /\ NumberOfBytes = ChunkSize
                /\ (completed_chunks + 1) * ChunkSize = StartAddr + NumberOfBytes
                /\ StartAddr + NumberOfBytes < total_size
<1> DEFINE here == completed_chunks * ChunkSize
           there == (completed_chunks + 1) * ChunkSize
<1>1. /\ completed_chunks \in Nat /\ total_size \in Nat /\ ChunkSize \in Nat /\ ChunkSize >= 3
      /\ here < total_size
    BY ChunkIsPositive DEF TypeInv, StreamTypes, StartAddr
<1>2. here \in Nat /\ there = here + ChunkSize
    BY <1>1
<1> HIDE DEF here, there
<1>3. /\ StartAddr = here
      /\ NumberOfBytes = IF total_size - here > ChunkSize THEN ChunkSize ELSE total_size - here
      /\ IsLast(completed_chunks + 1) <=> there >= total_size
    BY DEF StartAddr, NumberOfBytes, IsLast, here, there
<1> QED
    BY <1>1, <1>2, <1>3 DEF there

LEMMA DataType ==
    ASSUME TypeInv, phase = "returned", stage = "read", res = "success"
    PROVE  rxbuf.got \in Seq(PartSet) /\ Len(rxbuf.got) = 2 /\ Data \in Seq(Byte)
<1>1. cmd.kind = "data"
    BY DEF TypeInv, CommandOfStage, CommandOf, GetData
<1>2. rxbuf.got \in Seq(PartSet) /\ Len(rxbuf.got) = 2
    BY <1>1 DEF TypeInv, BufferFill, DriverTypes, PartsOf
<1>3. rxbuf.got[2] \in PartSet
    BY <1>2
<1>4. rxbuf.got[2].part = "body" => rxbuf.got[2].bytes \in Seq(Byte)
    BY <1>3 DEF PartSet
<1> QED
    BY <1>2, <1>4 DEF Data

LEMMA StreamTypesKept ==
    ASSUME TypeInv, Next
    PROVE  StreamTypes' /\ CommandOfStage'
<1>1. ASSUME UNCHANGED stream, CommandOfStage' PROVE StreamTypes' /\ CommandOfStage'
    BY <1>1 DEF stream, TypeInv, StreamTypes, StartAddr
<1>2. CASE RunCommand
    BY <1>1, <1>2 DEF RunCommand, Execute, stream, CommandOfStage, CommandOf, StartAddr, NumberOfBytes
<1>3. CASE TakePicture
    BY <1>3 DEF TypeInv, TakePicture, vcvars, driver, StreamTypes, StartAddr, CommandOfStage
<1>4. CASE StreamTimesOut
    BY <1>4 DEF TypeInv, StreamTimesOut, vcvars, driver, StreamTypes, StartAddr, CommandOfStage
<1>5. ASSUME NEW s, Return(s) PROVE phase = "returned" /\ CommandOfStage' /\ stage' = s
    BY <1>5 DEF Return, CommandOfStage
<1>6. CASE Stopped
    BY <1>5, <1>6 DEF Stopped, TypeInv, StreamTypes, StartAddr
<1>7. CASE LengthKnown
  <2>1. CASE UNCHANGED <<total_size, completed_chunks, text>> /\ stage' = "reset"
      BY <1>5, <1>7, <2>1 DEF LengthKnown, TypeInv, StreamTypes, StartAddr
  <2>2. CASE ~(UNCHANGED <<total_size, completed_chunks, text>> /\ stage' = "reset")
    <3> DEFINE size == IF "value" \in DOMAIN rxbuf.got[1] THEN rxbuf.got[1].value ELSE 0
    <3>1. /\ res = "success" /\ size # 0 /\ stage' = "read" /\ phase = "returned"
          /\ total_size' = size /\ completed_chunks' = 0 /\ text' = <<>>
          /\ UNCHANGED <<finished, high, halted>>
        BY <1>5, <1>7, <2>2 DEF LengthKnown
    <3>2. size \in Nat
      <4>1. rxbuf.got \in Seq(PartSet) /\ Len(rxbuf.got) = PartsOf(cmd)
          BY <3>1 DEF TypeInv, BufferFill, DriverTypes
      <4>2. rxbuf.got[1] \in PartSet
          BY <4>1 DEF PartsOf
      <4> QED
          BY <4>2 DEF PartSet
    <3>3. StartAddr' = 0
        BY <3>1, ChunkIsPositive DEF StartAddr
    <3>4. <<>> \in Seq(0..Pad)
        OBVIOUS
    <3> QED
        BY <1>5, <1>7, <3>1, <3>2, <3>3, <3>4 DEF LengthKnown, TypeInv, StreamTypes
  <2> QED
      BY <2>1, <2>2
<1>8. CASE ChunkRead
  <2>1. stage = "read" /\ phase = "returned" /\ res = "success" /\ CommandOfStage'
      BY <1>5, <1>8 DEF ChunkRead
  <2>2. completed_chunks' \in Nat /\ total_size' = total_size
        /\ (stage' = "read" => StartAddr' < total_size')
        /\ stage' \in {"start", "read"} /\ finished' \in BOOLEAN /\ halted' \in BOOLEAN
    <3>1. /\ completed_chunks' = completed_chunks + 1 /\ total_size' = total_size
          /\ stage' = IF IsLast(completed_chunks + 1) THEN "start" ELSE "read"
          /\ finished' = IsLast(completed_chunks + 1) /\ halted' \in {TRUE, halted}
        BY <1>8 DEF ChunkRead, Return
    <3>2. StartAddr' = (completed_chunks + 1) * ChunkSize
        BY <3>1 DEF StartAddr
    <3>3. completed_chunks' \in Nat /\ finished' \in BOOLEAN /\ halted' \in BOOLEAN
      <4>1. completed_chunks' \in Nat
          BY <3>1 DEF TypeInv, StreamTypes
      <4>2. finished' \in BOOLEAN
          BY <3>1 DEF IsLast
      <4>3. halted \in BOOLEAN
          BY DEF TypeInv, StreamTypes
      <4>4. halted' \in BOOLEAN
          BY <3>1, <4>3
      <4> QED
          BY <4>1, <4>2, <4>4
    <3>4. ~IsLast(completed_chunks + 1) => StartAddr' < total_size'
        BY <2>1, <3>1, <3>2, ChunkFacts
    <3> QED
        BY <3>1, <3>3, <3>4
  <2>3. text' \in Seq(0..Pad)
    <3>1. Encode(Data) \in Seq(0..Pad)
        BY <2>1, DataType, EncodeType
    <3>2. text \in Seq(0..Pad)
        BY DEF TypeInv, StreamTypes
    <3>3. text \o Encode(Data) \in Seq(0..Pad)
      <4> DEFINE S == 0..Pad
                 t == Encode(Data)
      <4> HIDE DEF S, t
      <4>1. text \in Seq(S) /\ t \in Seq(S)
          BY <3>1, <3>2 DEF S, t
      <4>2. text \o t \in Seq(S)
          BY <4>1, Joined
      <4> QED
          BY <4>2 DEF S, t
    <3>4. text' = text \/ text' = text \o Encode(Data)
        BY <1>8 DEF ChunkRead
    <3> QED
        BY <3>2, <3>3, <3>4
  <2>4. high' \in Nat
    <3>1. Written(NumberOfBytes) \in Nat
        BY <2>1, ChunkFacts, Split3 DEF Written
    <3>2. high' \in {high, Written(NumberOfBytes), Block + 1}
        BY <1>8 DEF ChunkRead
    <3> QED
        BY <3>1, <3>2, BlockFits DEF TypeInv, StreamTypes
  <2>5. total_size \in Nat
      BY DEF TypeInv, StreamTypes
  <2> QED
      BY <2>1, <2>2, <2>3, <2>4, <2>5 DEF StreamTypes
<1>9. CASE ChunkNotRead
    BY <1>5, <1>9 DEF ChunkNotRead, TypeInv, StreamTypes, StartAddr
<1>10. CASE Started \/ WasReset
    BY <1>5, <1>10 DEF Started, WasReset, TypeInv, StreamTypes, StartAddr
<1>11. CASE (DriverStep \/ UartStep) /\ UNCHANGED stream
  <2>1. cmd' = cmd /\ (phase' # "idle" => phase # "idle")
      BY <1>11 DEF DriverStep, UartStep, Sent, SendFails, WaitEnds, Arrives, IsLost, driver
  <2>2. CommandOfStage'
      BY <1>11, <2>1 DEF TypeInv, CommandOfStage, CommandOf, StartAddr, NumberOfBytes, stream
  <2> QED
      BY <1>1, <1>11, <2>2
<1> QED
    BY <1>2, <1>3, <1>4, <1>6, <1>7, <1>8, <1>9, <1>10, <1>11 DEF Next

LEMMA BusKept ==
    ASSUME TypeInv, BusInv, Next
    PROVE  BusInv'
<1>1. CASE RunCommand
    BY <1>1 DEF RunCommand, Execute, BusInv, IsLive, witness
<1>2. CASE TakePicture \/ StreamTimesOut
    BY <1>2 DEF TakePicture, StreamTimesOut, BusInv, IsLive, vcvars, driver, witness
<1>3. ASSUME NEW s, Return(s) PROVE BusInv'
    BY <1>3 DEF Return, BusInv, IsLive, witness
<1>4. CASE Stopped \/ LengthKnown \/ ChunkRead \/ ChunkNotRead \/ Started \/ WasReset
    BY <1>3, <1>4 DEF Stopped, LengthKnown, ChunkRead, ChunkNotRead, Started, WasReset
<1>5. CASE DriverStep
    BY <1>5 DEF DriverStep, Sent, SendFails, WaitEnds, BusyAfterWait, BusInv, IsLive, witness
<1>6. CASE UartStep
  <2>1. UNCHANGED <<bus_busy, phase, unsent>> /\ (astray' => astray \/ (bus_busy /\ ~IsLive))
    <3>1. ASSUME NEW intact \in BOOLEAN, Arrives(intact)
          PROVE  UNCHANGED <<bus_busy, phase, unsent>> /\ (astray' => astray \/ (bus_busy /\ ~IsLive))
        BY <3>1, Zenon DEF Arrives
    <3>2. ASSUME IsLost
          PROVE  UNCHANGED <<bus_busy, phase, unsent, astray>>
        BY <3>2 DEF IsLost, driver, witness
    <3> QED
        BY <1>6, <3>1, <3>2 DEF UartStep
  <2> QED
      BY <2>1 DEF BusInv, IsLive
<1> QED
    BY <1>1, <1>2, <1>4, <1>5, <1>6 DEF Next

-----------------------------------------------------------------------------
(* What is collected is the answer, as long as no earlier one comes late.  *)

Answer == AnswerTo(cmd)
IsFresh(i) == i \in DOMAIN coming /\ coming[i].age = 0
OfAnswer(p) == p = Answer[1] \/ p = Answer[Len(Answer)]

Collected ==
    /\ rxbuf.got # <<>> => OfAnswer(rxbuf.got[1])
    /\ Len(rxbuf.got) = 2 => Len(Answer) = 2 /\ rxbuf.got[1] = Answer[1] /\ rxbuf.got[2] = Answer[2]

StillToCome ==
    /\ \A i \in DOMAIN coming : IsFresh(i) => OfAnswer(coming[i].what)
    /\ \A i, j \in DOMAIN coming :
         i < j /\ IsFresh(i) /\ IsFresh(j) =>
           Len(Answer) = 2 /\ coming[i].what = Answer[1] /\ coming[j].what = Answer[2]
    /\ \A i \in DOMAIN coming :
         IsFresh(i) /\ rxbuf.got # <<>> =>
           /\ Len(Answer) = 2 /\ Len(rxbuf.got) = 1
           /\ rxbuf.got[1] = Answer[1] /\ coming[i].what = Answer[2]

AnswerInv ==
    ~late =>
      /\ phase = "sending" => rxbuf.got = <<>> /\ \A i \in DOMAIN coming : ~IsFresh(i)
      /\ phase = "waiting" => StillToCome
      /\ phase # "idle" => Collected

LEMMA AnswerInit == Init => AnswerInv
    BY DEF Init, VcInit, AnswerInv

LEMMA AnswerAfterSent ==
    ASSUME TypeInv, AnswerInv, Sent
    PROVE  AnswerInv'
<1> SUFFICES ASSUME ~late PROVE StillToCome' /\ Collected' /\ phase' = "waiting"
    BY DEF Sent, AnswerInv, witness
<1>1. /\ phase = "sending" /\ phase' = "waiting" /\ cmd' = cmd /\ rxbuf' = rxbuf
      /\ rxbuf.got = <<>> /\ \A i \in DOMAIN coming : ~IsFresh(i)
    BY DEF Sent, AnswerInv
<1>2. Answer' = Answer
  <2>1. CASE cmd.kind = "stop"
      BY <1>1, <2>1 DEF Answer, AnswerTo, HeadOf
  <2>2. CASE cmd.kind # "stop"
    <3>1. frame' = frame
        BY <2>2 DEF Sent, camera
    <3> QED
        BY <1>1, <3>1 DEF Answer, AnswerTo, LengthHead, HeadOf, Body, FrameBytes
  <2> QED
      BY <2>1, <2>2
<1>3. Answer \in Seq(PartSet) /\ Len(Answer) \in {1, 2} /\ coming \in Seq(Arriving)
    BY AnswerType DEF TypeInv, DriverTypes, Answer, PartsOf
<1>4. CASE coming' = coming
    BY <1>1, <1>2, <1>4 DEF StillToCome, Collected, IsFresh, OfAnswer
<1>5. CASE coming' # coming
  <2> DEFINE fresh == [i \in DOMAIN Answer |-> [what |-> Answer[i], age |-> 0]]
             n == Len(coming)
  <2>1. coming' = coming \o fresh
      BY <1>5 DEF Sent, camera, Answer
  <2>2. /\ n \in Nat /\ DOMAIN coming' = 1..(n + Len(Answer))
        /\ \A i \in 1..n : coming'[i] = coming[i]
        /\ \A i \in 1..Len(Answer) : coming'[n + i] = [what |-> Answer[i], age |-> 0]
    <3>1. fresh \in Seq([what : PartSet, age : {0}]) /\ Len(fresh) = Len(Answer)
      <4> HIDE DEF Answer
      <4>1. DOMAIN Answer = 1..Len(Answer) /\ Len(Answer) \in Nat
          BY <1>3
      <4>2. \A i \in 1..Len(Answer) : [what |-> Answer[i], age |-> 0] \in [what : PartSet, age : {0}]
          BY <1>3
      <4> QED
          BY <4>1, <4>2
    <3>2. \A i \in 1..Len(Answer) : fresh[i] = [what |-> Answer[i], age |-> 0]
        BY <1>3
    <3> HIDE DEF fresh
    <3> QED
        BY <1>3, <2>1, <3>1, <3>2
  <2> HIDE DEF fresh, n
  <2>3. \A i \in DOMAIN coming' :
          IsFresh(i)' => \E k \in 1..Len(Answer) : i = n + k /\ coming'[i].what = Answer[k]
    <3> SUFFICES ASSUME NEW i \in DOMAIN coming', IsFresh(i)'
                 PROVE  \E k \in 1..Len(Answer) : i = n + k /\ coming'[i].what = Answer[k]
        OBVIOUS
    <3>1. i \notin 1..n
        BY <1>1, <1>3, <2>2 DEF IsFresh, n
    <3> DEFINE k == i - n
    <3>2. k \in 1..Len(Answer) /\ i = n + k
        BY <1>3, <2>2, <3>1
    <3> HIDE DEF k
    <3>3. coming'[n + k] = [what |-> Answer[k], age |-> 0]
        BY <2>2, <3>2
    <3> QED
        BY <3>2, <3>3
  <2>4. \A k \in 1..Len(Answer) : k = 1 \/ k = Len(Answer)
    <3>1. CASE Len(Answer) = 1
        BY <3>1
    <3>2. CASE Len(Answer) = 2
        BY <3>2
    <3> QED
        BY <1>3, <3>1, <3>2
  <2>5. StillToCome'
    <3>1. \A i \in DOMAIN coming' : IsFresh(i)' => OfAnswer(coming'[i].what)
        BY <2>3, <2>4 DEF OfAnswer
    <3>2. ASSUME NEW i \in DOMAIN coming', NEW j \in DOMAIN coming', i < j, IsFresh(i)', IsFresh(j)'
          PROVE  Len(Answer) = 2 /\ coming'[i].what = Answer[1] /\ coming'[j].what = Answer[2]
      <4>1. PICK k \in 1..Len(Answer) : i = n + k /\ coming'[i].what = Answer[k]
          BY <2>3, <3>2
      <4>2. PICK l \in 1..Len(Answer) : j = n + l /\ coming'[j].what = Answer[l]
          BY <2>3, <3>2
      <4>3. k = 1 /\ l = 2 /\ Len(Answer) = 2
          BY <1>3, <2>2, <3>2, <4>1, <4>2
      <4> QED
          BY <4>1, <4>2, <4>3
    <3> QED
        BY <1>1, <1>2, <3>1, <3>2 DEF StillToCome, OfAnswer
  <2>6. Collected'
      BY <1>1 DEF Collected
  <2> QED
      BY <1>1, <2>5, <2>6
<1> QED
    BY <1>1, <1>4, <1>5

LEMMA AnswerAfterArrival ==
    ASSUME TypeInv, BusInv, AnswerInv, phase = "waiting", coming # <<>>,
           coming' = Tail(coming),
           UNCHANGED <<cmd, frame, phase>>,
           \/ rxbuf'.got = rxbuf.got
           \/ rxbuf'.got = Append(rxbuf.got, Head(coming).what) /\ IsFresh(1) /\ rxbuf.state = "receiving",
           ~late
    PROVE  StillToCome' /\ Collected'
<1>1. /\ coming \in Seq(Arriving) /\ Len(coming) \in Nat /\ Len(coming) >= 1
      /\ rxbuf.got \in Seq(PartSet) /\ Len(rxbuf.got) \in Nat
    BY DEF TypeInv, DriverTypes
<1>2. DOMAIN coming' = 1..(Len(coming) - 1) /\ \A i \in DOMAIN coming' : coming'[i] = coming[i + 1]
    BY <1>1
<1>3. \A i \in DOMAIN coming' :
        i + 1 \in DOMAIN coming /\ 1 < i + 1 /\ (IsFresh(i)' => IsFresh(i + 1))
    BY <1>1, <1>2 DEF IsFresh
<1>4. Answer' = Answer
    BY DEF Answer, AnswerTo, LengthHead, HeadOf, Body, FrameBytes
<1>5. StillToCome /\ Collected
    BY DEF AnswerInv
<1>6. Len(Answer) = PartsOf(cmd) /\ Len(Answer) \in {1, 2}
    BY AnswerType DEF TypeInv, Answer, PartsOf
<1>7. \A i \in DOMAIN coming' : IsFresh(i)' => OfAnswer(coming'[i].what)
    BY <1>2, <1>3, <1>5 DEF StillToCome
<1>8. \A i, j \in DOMAIN coming' :
         i < j /\ IsFresh(i)' /\ IsFresh(j)' =>
           Len(Answer) = 2 /\ coming'[i].what = Answer[1] /\ coming'[j].what = Answer[2]
  <2> SUFFICES ASSUME NEW i \in DOMAIN coming', NEW j \in DOMAIN coming', i < j, IsFresh(i)', IsFresh(j)'
               PROVE  Len(Answer) = 2 /\ coming'[i].what = Answer[1] /\ coming'[j].what = Answer[2]
      OBVIOUS
  <2>1. i + 1 < j + 1
      BY <1>1, <1>2
  <2> QED
      BY <1>2, <1>3, <1>5, <2>1 DEF StillToCome
<1>9. CASE rxbuf'.got = rxbuf.got
  <2>1. Collected'
      BY <1>4, <1>5, <1>9 DEF Collected, OfAnswer
  <2>2. \A i \in DOMAIN coming' :
         IsFresh(i)' /\ rxbuf.got # <<>> =>
           /\ Len(Answer) = 2 /\ Len(rxbuf.got) = 1
           /\ rxbuf.got[1] = Answer[1] /\ coming'[i].what = Answer[2]
      BY <1>2, <1>3, <1>5 DEF StillToCome
  <2> QED
      BY <1>4, <1>7, <1>8, <1>9, <2>1, <2>2 DEF StillToCome, OfAnswer
<1>10. CASE rxbuf'.got # rxbuf.got
  <2> DEFINE p == coming[1].what
  <2>1. rxbuf'.got = Append(rxbuf.got, p) /\ IsFresh(1) /\ 1 \in DOMAIN coming /\ rxbuf.state = "receiving"
      BY <1>1, <1>10
  <2>2. Len(rxbuf.got) < Len(Answer)
      BY <1>6, <2>1 DEF TypeInv, BufferFill
  <2>3. CASE rxbuf.got = <<>>
    <3>1. rxbuf'.got = <<p>> /\ OfAnswer(p)
        BY <1>5, <2>1, <2>3 DEF StillToCome
    <3>2. Collected'
        BY <1>4, <3>1 DEF Collected, OfAnswer
    <3>3. ASSUME NEW i \in DOMAIN coming', IsFresh(i)'
          PROVE  /\ Len(Answer) = 2 /\ Len(rxbuf'.got) = 1
                 /\ rxbuf'.got[1] = Answer[1] /\ coming'[i].what = Answer[2]
        BY <1>2, <1>3, <1>5, <2>1, <3>1, <3>3 DEF StillToCome
    <3> QED
        BY <1>4, <1>7, <1>8, <3>2, <3>3 DEF StillToCome, OfAnswer
  <2>4. CASE rxbuf.got # <<>>
    <3>1. Len(Answer) = 2 /\ Len(rxbuf.got) = 1 /\ rxbuf.got[1] = Answer[1] /\ p = Answer[2]
        BY <1>5, <2>1, <2>4 DEF StillToCome
    <3>2. Len(rxbuf'.got) = 2 /\ rxbuf'.got[1] = Answer[1] /\ rxbuf'.got[2] = Answer[2]
        BY <1>1, <2>1, <3>1
    <3>3. Collected'
        BY <1>4, <3>1, <3>2 DEF Collected, OfAnswer
    <3>4. ASSUME NEW i \in DOMAIN coming', IsFresh(i)' PROVE FALSE
      <4>1. coming[1].what = Answer[1] /\ coming[i + 1].what = Answer[2]
          BY <1>3, <1>5, <2>1, <3>4 DEF StillToCome
      <4>2. Answer[1] # Answer[2]
        <5>1. cmd.kind = "data"
            BY <1>6, <3>1 DEF PartsOf
        <5> QED
            BY <5>1 DEF Answer, AnswerTo, HeadOf, Body
      <4> QED
          BY <3>1, <4>1, <4>2
    <3> QED
        BY <1>4, <1>7, <1>8, <3>3, <3>4 DEF StillToCome, OfAnswer
  <2> QED
      BY <2>3, <2>4
<1> QED
    BY <1>9, <1>10

LEMMA AnswerKept ==
    ASSUME TypeInv, BusInv, AnswerInv, Next
    PROVE  AnswerInv'
<1>1. CASE RunCommand
  <2>1. CommandOf(stage) \in CommandSet
      BY <1>1, CommandType DEF RunCommand, TypeInv, StreamTypes
  <2>2. coming' \in Seq(Delayed)
      BY <1>1, <2>1, ExecuteTypes DEF RunCommand, TypeInv
  <2>3. \A i \in DOMAIN coming' : coming'[i] \in Delayed
      BY <2>2
  <2>4. \A i \in DOMAIN coming' : ~IsFresh(i)'
      BY <2>3, LateAssumption DEF IsFresh, Delayed
  <2> QED
      BY <1>1, <2>4 DEF RunCommand, Execute, EmptyBuffer, AnswerInv, Collected
<1>2. CASE TakePicture \/ StreamTimesOut
  <2>1. UNCHANGED <<vcvars>>
      BY <1>2 DEF TakePicture, StreamTimesOut
  <2>2. Answer' = Answer
      BY <2>1 DEF vcvars, driver, camera, Answer, AnswerTo, LengthHead, HeadOf, Body, FrameBytes
  <2> QED
      BY <2>1, <2>2 DEF vcvars, driver, camera, witness, AnswerInv, StillToCome, Collected, IsFresh, OfAnswer
<1>3. ASSUME NEW s, Return(s) PROVE AnswerInv'
    BY <1>3 DEF Return, AnswerInv
<1>4. CASE Stopped \/ LengthKnown \/ ChunkRead \/ ChunkNotRead \/ Started \/ WasReset
    BY <1>3, <1>4 DEF Stopped, LengthKnown, ChunkRead, ChunkNotRead, Started, WasReset
<1>5. CASE Sent
    BY <1>5, AnswerAfterSent
<1>6. CASE SendFails \/ WaitEnds
  <2>1. /\ UNCHANGED <<rxbuf, cmd, camera, late>> /\ phase' = "returned"
        /\ phase # "idle"
      BY <1>6 DEF SendFails, WaitEnds, witness
  <2>2. Answer' = Answer
      BY <2>1 DEF camera, Answer, AnswerTo, LengthHead, HeadOf, Body, FrameBytes
  <2> QED
      BY <2>1, <2>2 DEF AnswerInv, Collected, OfAnswer
<1>7. ASSUME NEW intact \in BOOLEAN, Arrives(intact) PROVE AnswerInv'
  <2> SUFFICES ASSUME ~late' PROVE AnswerInv'
      BY DEF AnswerInv
  <2>1. /\ UNCHANGED <<cmd, frame, phase>> /\ coming # <<>> /\ coming' = Tail(coming)
        /\ coming \in Seq(Arriving) /\ ~late
      BY <1>7 DEF Arrives, TypeInv, DriverTypes
  <2>2. coming[1] \in Arriving /\ Head(coming) = coming[1] /\ 1 \in DOMAIN coming
      BY <2>1
  <2>3. bus_busy => IsFresh(1)
    <3>1. bus_busy => ~(coming[1].age > 0)
        BY <1>7, <2>2 DEF Arrives
    <3> QED
        BY <2>2, <3>1, LateAssumption DEF IsFresh, Arriving
  <2>4. Answer' = Answer
      BY <2>1 DEF Answer, AnswerTo, LengthHead, HeadOf, Body, FrameBytes
  <2>5. CASE phase = "sending"
      BY <2>2, <2>3, <2>1, <2>5 DEF AnswerInv, BusInv, IsLive
  <2>6. CASE phase = "waiting"
    <3>1. \/ rxbuf'.got = rxbuf.got
          \/ rxbuf'.got = Append(rxbuf.got, Head(coming).what) /\ bus_busy /\ rxbuf.state = "receiving"
      <4>1. rxbuf \in [got : Seq(PartSet), state : {"receiving", "done", "error"}]
          BY DEF TypeInv, DriverTypes
      <4> QED
          BY <1>7, <4>1 DEF Arrives
    <3>2. StillToCome' /\ Collected'
        BY <2>1, <2>3, <2>6, <3>1, AnswerAfterArrival
    <3> QED
        BY <2>1, <2>6, <3>2 DEF AnswerInv
  <2>7. CASE phase \notin {"sending", "waiting"}
    <3>1. rxbuf' = rxbuf
        BY <1>7, <2>7 DEF Arrives, IsLive
    <3> QED
        BY <2>1, <2>4, <2>7, <3>1 DEF AnswerInv, Collected, OfAnswer
  <2> QED
      BY <2>5, <2>6, <2>7
<1>8. CASE IsLost
  <2>1. /\ UNCHANGED <<rxbuf, cmd, frame, phase, late>> /\ coming # <<>> /\ coming' = Tail(coming)
      BY <1>8 DEF IsLost, driver, witness
  <2>2. Answer' = Answer
      BY <2>1 DEF Answer, AnswerTo, LengthHead, HeadOf, Body, FrameBytes
  <2> SUFFICES ASSUME ~late PROVE AnswerInv'
      BY <2>1 DEF AnswerInv
  <2>3. CASE phase = "waiting"
      BY <2>1, <2>3, AnswerAfterArrival DEF AnswerInv
  <2>4. CASE phase # "waiting"
    <3>1. coming \in Seq(Arriving)
        BY DEF TypeInv, DriverTypes
    <3>2. \A i \in DOMAIN coming' : i + 1 \in DOMAIN coming /\ coming'[i] = coming[i + 1]
        BY <2>1, <3>1
    <3>3. (\A i \in DOMAIN coming : ~IsFresh(i)) => \A i \in DOMAIN coming' : ~IsFresh(i)'
        BY <3>2 DEF IsFresh
    <3> QED
        BY <2>1, <2>2, <2>4, <3>3 DEF AnswerInv, Collected, OfAnswer
  <2> QED
      BY <2>3, <2>4
<1> QED
    BY <1>1, <1>2, <1>4, <1>5, <1>6, <1>7, <1>8 DEF Next, DriverStep, UartStep

-----------------------------------------------------------------------------
(* The text so far is that of the picture so far.                          *)

StreamInv ==
    ~late /\ ~halted =>
      /\ stage = "read" => total_size = Len(frame) /\ text = Encode(SubSeq(frame, 1, StartAddr))
      /\ finished => stage \in {"start", "reset", "idle"} /\ text = Encode(frame)

HighInv == high <= Block \/ (halted /\ total_size - StartAddr + ChunkSize \in {1, 2})

LEMMA ChunksHaveWholeGroups ==
    ASSUME NEW k \in Nat
    PROVE  k * ChunkSize \in Nat /\ (k * ChunkSize) % 3 = 0
<1> DEFINE c == ChunkSize \div 3
           m == k * c
<1>1. c \in Nat /\ ChunkSize = 3 * c
    BY ChunkSizeAssumption, Split3
<1>2. m \in Nat
    BY <1>1
<1>3. k * ChunkSize = 3 * m
    BY <1>1
<1> HIDE DEF m
<1> QED
    BY <1>2, <1>3

LEMMA FrameIsBytes == TypeInv => frame \in Seq(Byte)
    BY PicturesAssumption DEF TypeInv, DriverTypes

(* The chunk that was read is the next piece of the picture.               *)
LEMMA DataIsNext ==
    ASSUME TypeInv, AnswerInv, ~late, phase = "returned", stage = "read", res = "success",
           total_size = Len(frame)
    PROVE  Data = SubSeq(frame, StartAddr + 1, StartAddr + NumberOfBytes)
<1>1. cmd = GetData(StartAddr, NumberOfBytes)
    BY DEF TypeInv, CommandOfStage, CommandOf
<1>2. Answer = <<HeadOf(cmd), Body(FrameBytes(StartAddr, NumberOfBytes))>>
    BY <1>1 DEF Answer, AnswerTo, GetData
<1>3. Len(rxbuf.got) = 2
    BY DataType
<1>4. rxbuf.got[2] = Body(FrameBytes(StartAddr, NumberOfBytes))
    BY <1>2, <1>3 DEF AnswerInv, Collected
<1>5. Data = FrameBytes(StartAddr, NumberOfBytes)
    BY <1>4 DEF Data, Body
<1>6. /\ StartAddr \in Nat /\ NumberOfBytes \in Nat
      /\ StartAddr + NumberOfBytes <= Len(frame) /\ frame \in Seq(Byte)
    BY ChunkFacts, ChunkIsPositive, FrameIsBytes
<1>7. \A i \in 1..NumberOfBytes : StartAddr + i <= Len(frame)
    BY <1>6
<1>8. FrameBytes(StartAddr, NumberOfBytes) = [i \in 1..NumberOfBytes |-> frame[StartAddr + i]]
    BY <1>7 DEF FrameBytes
<1> DEFINE a == StartAddr
           n == NumberOfBytes
<1> HIDE DEF a, n
<1>9. SubSeq(frame, a + 1, a + n) = [i \in 1..n |-> frame[a + i]]
  <2>1. a \in Nat /\ n \in Nat /\ a + n <= Len(frame) /\ Len(frame) \in Nat
      BY <1>6 DEF a, n
  <2>2. SubSeq(frame, a + 1, a + n) = [i \in 1..((a + n) - (a + 1) + 1) |-> frame[i + (a + 1) - 1]]
      BY <1>6, <2>1, SubSeqProperties
  <2>3. (a + n) - (a + 1) + 1 = n /\ \A i \in 1..n : i + (a + 1) - 1 = a + i
      BY <2>1
  <2> QED
      BY <2>2, <2>3
<1> QED
    BY <1>5, <1>8, <1>9 DEF a, n

LEMMA TextGrows ==
    ASSUME NEW p \in Seq(Byte), NEW a \in Nat, NEW n \in Nat, a % 3 = 0, a + n <= Len(p)
    PROVE  Encode(SubSeq(p, 1, a)) \o Encode(SubSeq(p, a + 1, a + n)) = Encode(SubSeq(p, 1, a + n))
<1>1. /\ SubSeq(p, 1, a) \in Seq(Byte) /\ Len(SubSeq(p, 1, a)) = a
      /\ SubSeq(p, a + 1, a + n) \in Seq(Byte)
      /\ SubSeq(p, 1, a) \o SubSeq(p, a + 1, a + n) = SubSeq(p, 1, a + n)
  <2>1. Len(p) \in Nat /\ a <= Len(p)
      OBVIOUS
  <2>2. \A i \in 1..a : i \in 1..Len(p)
      BY <2>1
  <2>3. SubSeq(p, 1, a) \in Seq(Byte) /\ Len(SubSeq(p, 1, a)) = a
      BY <2>1, <2>2
  <2>4. SubSeq(p, a + 1, a + n) \in Seq(Byte)
      BY <2>1
  <2>5. SubSeq(p, 1, a) \o SubSeq(p, a + 1, a + n) = SubSeq(p, 1, a + n)
      BY <2>1, ConcatAdjacentSubSeq
  <2> QED
      BY <2>3, <2>4, <2>5
<1> QED
    BY <1>1, TextsJoin

LEMMA StreamInit == Init => StreamInv /\ HighInv
<1>1. OutSize(ChunkSize) \in Nat
    BY OutSizeType, ChunkIsPositive
<1> QED
    BY <1>1, BlockFits DEF Init, StreamInv, HighInv

LEMMA StreamKept ==
    ASSUME TypeInv, AnswerInv, StreamInv, Next
    PROVE  StreamInv'
<1> SUFFICES ASSUME ~late', ~halted' PROVE StreamInv'
    BY DEF StreamInv
<1>1. CASE (DriverStep \/ UartStep) /\ UNCHANGED stream
  <2>1. ~late
      BY <1>1, Zenon DEF DriverStep, UartStep, Sent, SendFails, WaitEnds, Arrives, IsLost, witness
  <2>2. CASE frame' = frame
      BY <1>1, <2>1, <2>2 DEF StreamInv, stream, StartAddr
  <2>3. CASE frame' # frame
    <3>1. phase = "sending" /\ cmd.kind = "stop"
        BY <1>1, <2>3 DEF DriverStep, UartStep, Sent, SendFails, WaitEnds, Arrives, IsLost, camera
    <3>2. stage = "stop"
        BY <3>1 DEF TypeInv, StreamTypes, CommandOfStage, CommandOf, GetLength, GetData, Start, Reset
    <3> QED
        BY <1>1, <2>1, <3>2 DEF StreamInv, stream
  <2> QED
      BY <2>2, <2>3
<1>2. CASE RunCommand
    BY <1>2 DEF RunCommand, Execute, stream, witness, StreamInv, StartAddr
<1>3. CASE TakePicture
    BY <1>3 DEF TakePicture, vcvars, camera, witness, StreamInv, StartAddr
<1>4. CASE StreamTimesOut
    BY <1>4 DEF StreamTimesOut, vcvars, camera, witness, StreamInv, StartAddr
<1>5. ASSUME NEW s, Return(s)
      PROVE  phase = "returned" /\ stage' = s /\ UNCHANGED <<frame, late>>
    BY <1>5 DEF Return, camera, witness
<1>6. CASE Stopped
    BY <1>5, <1>6 DEF Stopped, StreamInv, StartAddr
<1>7. CASE ChunkNotRead
    BY <1>5, <1>7 DEF ChunkNotRead, StreamInv, StartAddr
<1>8. CASE Started \/ WasReset
    BY <1>5, <1>8 DEF Started, WasReset, StreamInv, StartAddr
<1>9. CASE LengthKnown
  <2>1. CASE stage' = "reset" /\ UNCHANGED text
      BY <1>5, <1>9, <2>1 DEF LengthKnown, StreamInv
  <2>2. CASE ~(stage' = "reset" /\ UNCHANGED text)
    <3>1. /\ res = "success" /\ phase = "returned" /\ stage = "length"
          /\ total_size' = (IF "value" \in DOMAIN rxbuf.got[1] THEN rxbuf.got[1].value ELSE 0)
          /\ completed_chunks' = 0 /\ text' = <<>> /\ frame' = frame /\ late' = late
          /\ finished' = finished /\ halted' = halted
        BY <1>5, <1>9, <2>2 DEF LengthKnown
    <3>2. cmd = GetLength
        BY <3>1 DEF TypeInv, CommandOfStage, CommandOf
    <3>3. Answer = <<LengthHead(Len(frame))>>
        BY <3>2 DEF Answer, AnswerTo, GetLength
    <3>4. rxbuf.got[1] = LengthHead(Len(frame))
      <4>1. Len(rxbuf.got) = 1
          BY <3>1, <3>2 DEF TypeInv, BufferFill, PartsOf, GetLength
      <4>2. rxbuf.got # <<>>
          BY <4>1
      <4> QED
          BY <3>1, <3>3, <4>2 DEF AnswerInv, Collected, OfAnswer
    <3>5. total_size' = Len(frame)
        BY <3>1, <3>4 DEF LengthHead
    <3>6. StartAddr' = 0
        BY <3>1, ChunkIsPositive DEF StartAddr
    <3>7. text' = Encode(SubSeq(frame, 1, 0))
      <4>1. SubSeq(frame, 1, 0) = <<>>
          BY FrameIsBytes, SubSeqEmpty
      <4>2. Len(<<>>) = 0 /\ OutSize(0) = 0
          BY DEF OutSize
      <4>3. Encode(<<>>) = <<>>
          BY <4>2 DEF Encode
      <4> QED
          BY <3>1, <4>1, <4>3
    <3>8. ~finished
        BY <3>1 DEF StreamInv
    <3> QED
        BY <3>1, <3>5, <3>6, <3>7, <3>8 DEF StreamInv
  <2> QED
      BY <2>1, <2>2
<1>10. CASE ChunkRead
  <2> DEFINE a == StartAddr
             n == NumberOfBytes
             isLast == IsLast(completed_chunks + 1)
  <2>1. /\ stage = "read" /\ res = "success" /\ phase = "returned"
        /\ UNCHANGED <<frame, late, total_size>> /\ completed_chunks' = completed_chunks + 1
        /\ stage' = (IF isLast THEN "start" ELSE "read") /\ finished' = isLast
      BY <1>5, <1>10 DEF ChunkRead
  <2>2. ~halted /\ text' = text \o Encode(Data)
      BY <1>10 DEF ChunkRead
  <2>3. total_size = Len(frame) /\ text = Encode(SubSeq(frame, 1, a))
      BY <2>1, <2>2 DEF StreamInv
  <2>4. Data = SubSeq(frame, a + 1, a + n)
      BY <2>1, <2>3, DataIsNext
  <2>5. a \in Nat /\ a % 3 = 0 /\ n \in Nat /\ a + n <= Len(frame) /\ frame \in Seq(Byte)
    <3>1. a % 3 = 0
        BY ChunksHaveWholeGroups DEF TypeInv, StreamTypes, StartAddr
    <3>2. a \in Nat /\ n \in Nat /\ a + n <= Len(frame)
        BY <2>1, <2>3, ChunkFacts, ChunkIsPositive
    <3> QED
        BY <3>1, <3>2, FrameIsBytes
  <2>6. text' = Encode(SubSeq(frame, 1, a + n))
    <3> HIDE DEF a, n
    <3> QED
        BY <2>2, <2>3, <2>4, <2>5, TextGrows
  <2>7. CASE isLast
    <3>1. a + n = Len(frame)
        BY <2>1, <2>3, <2>7, ChunkFacts
    <3>2. SubSeq(frame, 1, a + n) = frame
        BY <2>5, <3>1, SubSeqFull
    <3> QED
        BY <2>1, <2>6, <2>7, <3>2 DEF StreamInv
  <2>8. CASE ~isLast
    <3>1. StartAddr' = a + n
        BY <2>1, <2>8, ChunkFacts DEF StartAddr
    <3> QED
        BY <2>1, <2>3, <2>6, <2>8, <3>1 DEF StreamInv
  <2> QED
      BY <2>7, <2>8
<1> QED
    BY <1>1, <1>2, <1>3, <1>4, <1>6, <1>7, <1>8, <1>9, <1>10 DEF Next

(* A chunk is written to four characters more than the text of a full one, *)
(* which has a length that is a multiple of four.                          *)
LEMMA WrittenBound ==
    ASSUME NEW n \in 1..ChunkSize
    PROVE  Written(n) <= OutSize(ChunkSize) + 4
<1>1. ChunkSize \in Nat /\ ChunkSize = 3 * (ChunkSize \div 3) /\ ChunkSize % 3 = 0
    BY ChunkSizeAssumption, Split3
<1>2. n \in Nat /\ n <= ChunkSize
    BY <1>1
<1>3. n \div 3 <= ChunkSize \div 3 /\ (n % 3 # 0 => n \div 3 + 1 <= ChunkSize \div 3)
    BY <1>1, <1>2, Split3
<1>4. n \div 3 \in Nat /\ ChunkSize \div 3 \in Nat
    BY <1>1, <1>2, Split3
<1> QED
    BY <1>1, <1>3, <1>4 DEF Written, OutSize

LEMMA HighKept ==
    ASSUME TypeInv, HighInv, Next
    PROVE  HighInv'
<1>0. high <= Block
    BY DEF HighInv, Next
<1>1. CASE high' = high
    BY <1>0, <1>1, BlockFits DEF HighInv, Block, Usable, OutSize
<1>2. CASE high' # high
  <2>1. /\ ChunkRead
        /\ \/ NumberOfBytes >= 3 /\ high' = Written(NumberOfBytes)
           \/ NumberOfBytes < 3 /\ halted'
      BY <1>2, ChunkFacts DEF Next, TakePicture, RunCommand, Stopped, LengthKnown, ChunkRead, ChunkNotRead,
                  Started, WasReset, StreamTimesOut, stream
  <2>2. NumberOfBytes \in 1..ChunkSize
      BY <2>1, ChunkFacts DEF ChunkRead
  <2>3. CASE high' = Written(NumberOfBytes)
    <3>1. Written(NumberOfBytes) <= Block
        BY <2>2, BlockFits, WrittenBound
    <3> QED
        BY <2>3, <3>1 DEF HighInv, Block, Usable, OutSize
  <2>4. CASE NumberOfBytes < 3 /\ halted'
    <3>1. /\ total_size \in Nat /\ completed_chunks \in Nat /\ ChunkSize \in Nat /\ ChunkSize >= 3
          /\ total_size' = total_size /\ completed_chunks' = completed_chunks + 1
        BY <2>1, ChunkIsPositive DEF TypeInv, StreamTypes, ChunkRead
    <3>2. StartAddr \in Nat /\ StartAddr' = StartAddr + ChunkSize
        BY <3>1 DEF StartAddr
    <3>3. total_size - StartAddr \in {1, 2}
        BY <2>2, <2>4, <3>1, <3>2 DEF NumberOfBytes
    <3>4. total_size' - StartAddr' + ChunkSize \in {1, 2}
        BY <3>1, <3>2, <3>3
    <3> QED
        BY <2>4, <3>4 DEF HighInv
  <2> QED
      BY <2>1, <2>3, <2>4
<1> QED
    BY <1>1, <1>2

-----------------------------------------------------------------------------
Inv == TypeInv /\ BusInv /\ AnswerInv /\ StreamInv /\ HighInv

LEMMA Invariance == Spec => []Inv
<1>1. Init => Inv
    BY TypeInit, AnswerInit, StreamInit DEF Inv
<1>2. Inv /\ [Next]_vars => Inv'
  <2>1. CASE Next
      BY <2>1, DriverTypesKept, StreamTypesKept, BusKept, AnswerKept, StreamKept, HighKept DEF Inv, TypeInv
  <2>2. CASE UNCHANGED vars
    <3>1. Answer' = Answer
        BY <2>2 DEF vars, vcvars, driver, camera, Answer, AnswerTo, LengthHead, HeadOf, Body, FrameBytes
    <3> USE <2>2 DEF vars, vcvars, driver, camera, witness, stream
    <3>2. Inv => TypeInv' /\ BusInv'
        BY DEF Inv, TypeInv, DriverTypes, StreamTypes, BufferFill, CommandOfStage, CommandOf,
               StartAddr, NumberOfBytes, BusInv, IsLive
    <3>3. Inv => AnswerInv'
        BY <3>1 DEF Inv, AnswerInv, StillToCome, Collected, IsFresh, OfAnswer
    <3>4. Inv => StreamInv' /\ HighInv'
        BY DEF Inv, StreamInv, HighInv, StartAddr
    <3> QED
        BY <3>2, <3>3, <3>4 DEF Inv
  <2> QED
      BY <2>1, <2>2
<1> QED
    BY <1>1, <1>2, PTL DEF Spec

(* Every variable keeps its type, and no chunk beyond the picture is asked *)
(* for.                                                                    *)
THEOREM TypeCorrect == Spec => []TypeOK
<1>1. Inv => TypeOK
  <2> SUFFICES ASSUME Inv PROVE TypeOK
      OBVIOUS
  <2>a. coming \in Seq(Arriving)
      BY DEF Inv, TypeInv, DriverTypes
  <2>b. \A i \in DOMAIN coming : coming[i] \in Arriving
      BY <2>a, ElementOfSeq
  <2>1. \A i \in DOMAIN coming : coming[i].age \in 0..Late
      BY <2>b DEF Arriving
  <2> QED
      BY <2>1 DEF Inv, TypeInv, DriverTypes, StreamTypes, BufferFill, TypeOK
<1> QED
    BY <1>1, Invariance, PTL

(* For every chunk size that is a multiple of three and every picture, the *)
(* text the chunks make decodes to the picture.                            *)
THEOREM TextsArePictures == Spec => []TextIsPicture
<1>1. Inv => TextIsPicture
    BY RoundTrip, FrameIsBytes DEF Inv, StreamInv, TextIsPicture
<1> QED
    BY <1>1, Invariance, PTL

(* The interrupt writes to a function that has returned only after a       *)
(* command could not be sent.                                              *)
THEOREM BuffersAreLive == Spec => []BytesGoToLiveBuffers
<1>1. Inv => BytesGoToLiveBuffers
    BY DEF Inv, BusInv, BytesGoToLiveBuffers
<1> QED
    BY <1>1, Invariance, PTL

(* For every chunk size that is a multiple of three and every picture, the *)
(* encoder leaves its block only with a last chunk of one or two bytes.    *)
THEOREM EncoderStaysInBlock == Spec => []EncodeStaysInBlock
<1>1. Inv => EncodeStaysInBlock
  <2> SUFFICES ASSUME Inv, high > Block
               PROVE  total_size - (completed_chunks - 1) * ChunkSize \in {1, 2}
      BY DEF EncodeStaysInBlock
  <2>1. total_size - StartAddr + ChunkSize \in {1, 2}
    <3>1. high \in Nat /\ Block \in Nat
        BY BlockFits DEF Inv, TypeInv, StreamTypes
    <3> QED
        BY <3>1 DEF Inv, HighInv
  <2>2. (completed_chunks - 1) * ChunkSize = StartAddr - ChunkSize /\ StartAddr \in Nat
      BY ChunkIsPositive DEF Inv, TypeInv, StreamTypes, StartAddr
  <2>3. total_size \in Nat /\ ChunkSize \in Nat
      BY ChunkIsPositive DEF Inv, TypeInv, StreamTypes
  <2> QED
      BY <2>1, <2>2, <2>3
<1> QED
    BY <1>1, Invariance, PTL

=============================================================================
