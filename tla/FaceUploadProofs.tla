-------------------------- MODULE FaceUploadProofs --------------------------
(***************************************************************************)
(* Proofs about FaceUpload, for any number of tries, sizes of pictures and *)
(* of payloads, uploads and restarts.                                      *)
(*                                                                         *)
(* A chunk is numbered after it has been counted (Numbered), so that none  *)
(* ends a picture of size 0 (FinalNeedsSize).  After the recognition of an *)
(* upload the size is 0, and until the upload ends no header is accepted:  *)
(* the one still in the body has two ids (RecognisedOnce).                 *)
(*                                                                         *)
(* The failures of a function are bounded by the stage it has reached      *)
(* (WithinBudget); so is what a payload may exceed its limit by, since     *)
(* only a failure keeps a full body from being sent (PayloadBounded).      *)
(*                                                                         *)
(* NewChunks, the loop of the server, is a recursive function of a prefix  *)
(* of the body. That such a function exists, and that it takes all chunks  *)
(* of a run of new ones (NewChunksOfRun), is by Induction, which follows   *)
(* from the library's well-founded order of the natural numbers.           *)
(*                                                                         *)
(* The body always ends in the chunks counted last, in order (BodyShape),  *)
(* and while an upload is clean the server has a first part of the picture *)
(* with no gap between that part and the body (CleanUpload). A repeated    *)
(* write or request sends only chunks the server has already.              *)
(***************************************************************************)
EXTENDS FaceUpload, WellFoundedInduction, SequenceTheorems, TLAPS

NumberedChunks == [key : (Nat \ {0}) \cup {CheckInKey}, picture : Nat]

BodyTyped == body \in [size : Int, ids : 0..2, data : Seq(NumberedChunks)]

Numbered ==
    /\ picture.number \in Nat
    /\ image_size \in Nat
    /\ total_sent \in Nat
    /\ stage = "data" => total_sent # 0

IInv == BodyTyped /\ Numbered

-----------------------------------------------------------------------------
(* Induction on the natural numbers, from the library's well-founded order:*)
(* every nonempty set of them has a least element.                         *)
LEMMA Least ==
    ASSUME NEW S, S \subseteq Nat, S # {}
    PROVE  \E n \in S : \A m \in S : n <= m
<1> DEFINE Below == {p \in Nat \X Nat : p[1] < p[2]}
<1>1. IsWellFoundedOn(Below, Nat)
    BY NatLessThanWellFounded, Zenon DEF OpToRel
<1>2. ASSUME NEW x \in S, NEW y \in S, <<y, x>> \notin Below
      PROVE  x <= y
    BY <1>2
<1>3. \E x \in S : \A y \in S : ~(<<y, x>> \in Below)
    <2> HIDE DEF Below
    <2> QED BY <1>1, WFMin, Zenon
<1> QED
    <2> HIDE DEF Below
    <2> QED BY <1>2, <1>3, Zenon

LEMMA Induction ==
    ASSUME NEW S, 0 \in S, \A n \in Nat : n \in S => n + 1 \in S
    PROVE  Nat \subseteq S
<1> SUFFICES ASSUME {n \in Nat : n \notin S} # {} PROVE FALSE
    OBVIOUS
<1>1. PICK n \in {k \in Nat : k \notin S} : \A m \in {k \in Nat : k \notin S} : n <= m
    BY Least
<1>2. n \in Nat \ {0} /\ n - 1 \in Nat /\ n - 1 \in S
    BY <1>1
<1> QED
    BY <1>1, <1>2

(* The chunks taken from the first n, by the recursion of NewChunks.       *)
IsTaken(f, data, keys, n) ==
    f = [i \in 0..n |->
          IF i = 0 THEN <<>>
          ELSE IF data[i].key \in keys THEN f[i - 1] ELSE Append(f[i - 1], data[i])]

(* The recursion defines a function.                                       *)
LEMMA TakenExists ==
    ASSUME NEW data, NEW keys
    PROVE  \A n \in Nat : \E f : IsTaken(f, data, keys, n)
<1> DEFINE S == {n \in Nat : \E f : IsTaken(f, data, keys, n)}
<1>1. 0 \in S
  <2>1. IsTaken([i \in 0..0 |-> <<>>], data, keys, 0)
      BY DEF IsTaken
  <2> QED
      BY <2>1
<1>2. ASSUME NEW n \in Nat, n \in S
      PROVE  n + 1 \in S
  <2>1. PICK f : IsTaken(f, data, keys, n)
      BY <1>2
  <2> DEFINE last == IF data[n + 1].key \in keys THEN f[n] ELSE Append(f[n], data[n + 1])
             g == [i \in 0..(n + 1) |-> IF i = n + 1 THEN last ELSE f[i]]
  <2>2. ASSUME NEW i \in 0..(n + 1)
        PROVE  g[i] = IF i = 0 THEN <<>>
                      ELSE IF data[i].key \in keys THEN g[i - 1] ELSE Append(g[i - 1], data[i])
    <3>1. CASE i = n + 1
        BY <3>1
    <3>2. CASE i \in 0..n
      <4>1. f[i] = IF i = 0 THEN <<>>
                   ELSE IF data[i].key \in keys THEN f[i - 1] ELSE Append(f[i - 1], data[i])
          BY <2>1, <3>2 DEF IsTaken
      <4>2. g[i] = f[i] /\ (i # 0 => g[i - 1] = f[i - 1])
          BY <3>2
      <4> QED
          BY <4>1, <4>2
    <3> QED
        BY <3>1, <3>2
  <2>3. IsTaken(g, data, keys, n + 1)
    <3> HIDE DEF last
    <3>1. g = [i \in 0..(n + 1) |-> g[i]]
        OBVIOUS
    <3> HIDE DEF g
    <3> QED
        BY <2>2, <3>1 DEF IsTaken
  <2> QED
      BY <2>3
<1> HIDE DEF S
<1>3. Nat \subseteq S
    BY <1>1, <1>2, Induction
<1> QED
    BY <1>3 DEF S

LEMMA NewChunksTaken ==
    ASSUME NEW data, NEW keys, Len(data) \in Nat
    PROVE  \E f : IsTaken(f, data, keys, Len(data)) /\ NewChunks(data, keys) = f[Len(data)]
<1> DEFINE taken == CHOOSE f : IsTaken(f, data, keys, Len(data))
<1>1. IsTaken(taken, data, keys, Len(data))
    BY TakenExists, Zenon
<1>2. NewChunks(data, keys) = taken[Len(data)]
    BY DEF NewChunks, IsTaken
<1> QED
    BY <1>1, <1>2

LEMMA NewChunksTyped ==
    ASSUME NEW T, NEW data \in Seq(T), NEW keys
    PROVE  NewChunks(data, keys) \in Seq(T)
<1>1. PICK f : IsTaken(f, data, keys, Len(data)) /\ NewChunks(data, keys) = f[Len(data)]
    BY NewChunksTaken
<1>2. ASSUME NEW i \in 0..Len(data)
      PROVE  f[i] = IF i = 0 THEN <<>>
                    ELSE IF data[i].key \in keys THEN f[i - 1] ELSE Append(f[i - 1], data[i])
    BY <1>1 DEF IsTaken
<1> DEFINE S == {i \in Nat : i <= Len(data) => f[i] \in Seq(T)}
<1>3. 0 \in S
  <2>1. 0 \in 0..Len(data) /\ <<>> \in Seq(T)
      OBVIOUS
  <2>2. f[0] = <<>>
      BY <1>2, <2>1
  <2> QED
      BY <2>1, <2>2
<1>4. ASSUME NEW i \in Nat, i \in S PROVE i + 1 \in S
  <2> SUFFICES ASSUME i + 1 <= Len(data) PROVE f[i + 1] \in Seq(T)
      OBVIOUS
  <2>1. f[i] \in Seq(T) /\ data[i + 1] \in T
      BY <1>4
  <2>2. f[i + 1] = IF data[i + 1].key \in keys THEN f[i] ELSE Append(f[i], data[i + 1])
      BY <1>2
  <2> QED
      BY <2>1, <2>2
<1> HIDE DEF S
<1>5. Nat \subseteq S
    BY <1>3, <1>4, Induction
<1> QED
    BY <1>1, <1>5 DEF S

-----------------------------------------------------------------------------
(* The chunks a + 1 to m of a picture.                                     *)
Run(number, a, m) == [i \in 1..(m - a) |-> [key |-> a + i, picture |-> number]]

LEMMA RunFacts ==
    ASSUME NEW p \in Nat, NEW a \in Nat, NEW m \in Nat, a <= m
    PROVE  /\ Run(p, a, m) \in Seq(NumberedChunks)
           /\ Len(Run(p, a, m)) = m - a
           /\ DOMAIN Run(p, a, m) = 1..(m - a)
           /\ \A i \in 1..(m - a) : Run(p, a, m)[i] = [key |-> a + i, picture |-> p]
<1>1. \A i \in 1..(m - a) : [key |-> a + i, picture |-> p] \in NumberedChunks
    BY DEF NumberedChunks
<1>2. m - a \in Nat
    OBVIOUS
<1> QED
    BY <1>1, <1>2 DEF Run

LEMMA RunIsEmpty ==
    ASSUME NEW p \in Nat, NEW a \in Nat, NEW m \in Nat, m <= a
    PROVE  Run(p, a, m) = <<>>
<1>1. 1..(m - a) = {}
    OBVIOUS
<1> QED
    BY <1>1 DEF Run

LEMMA RunAppend ==
    ASSUME NEW p \in Nat, NEW a \in Nat, NEW m \in Nat, a <= m
    PROVE  Append(Run(p, a, m), [key |-> m + 1, picture |-> p]) = Run(p, a, m + 1)
<1> DEFINE new == [key |-> m + 1, picture |-> p]
           long == Append(Run(p, a, m), new)
<1>1. /\ Run(p, a, m) \in Seq(NumberedChunks) /\ Len(Run(p, a, m)) = m - a
      /\ \A i \in 1..(m - a) : Run(p, a, m)[i] = [key |-> a + i, picture |-> p]
    BY RunFacts
<1>2. m + 1 \in Nat /\ a <= m + 1 /\ (m + 1) - a = (m - a) + 1 /\ m - a \in Nat
    OBVIOUS
<1>3. /\ Run(p, a, m + 1) \in Seq(NumberedChunks) /\ Len(Run(p, a, m + 1)) = (m + 1) - a
      /\ \A i \in 1..((m + 1) - a) : Run(p, a, m + 1)[i] = [key |-> a + i, picture |-> p]
  <2> DEFINE n == m + 1
  <2>1. n \in Nat /\ a <= n
      BY <1>2
  <2> HIDE DEF n
  <2>2. /\ Run(p, a, n) \in Seq(NumberedChunks) /\ Len(Run(p, a, n)) = n - a
        /\ \A i \in 1..(n - a) : Run(p, a, n)[i] = [key |-> a + i, picture |-> p]
      BY <2>1, RunFacts
  <2> QED
      BY <2>2 DEF n
<1>4. new \in NumberedChunks
    BY DEF NumberedChunks
<1>5. /\ long \in Seq(NumberedChunks) /\ Len(long) = (m - a) + 1
      /\ \A i \in 1..(m - a) : long[i] = Run(p, a, m)[i]
      /\ long[(m - a) + 1] = new
    BY <1>1, <1>4, AppendProperties
<1>6. ASSUME NEW i \in 1..((m - a) + 1)
      PROVE  long[i] = [key |-> a + i, picture |-> p]
  <2> HIDE DEF long
  <2>1. CASE i = (m - a) + 1
    <3>1. a + i = m + 1
        BY <2>1
    <3> QED
        BY <1>5, <2>1, <3>1
  <2>2. CASE i \in 1..(m - a)
      BY <1>1, <1>5, <2>2
  <2> QED
      BY <1>2, <2>1, <2>2
<1> HIDE DEF long
<1>7. \A i \in 1..Len(long) : long[i] = Run(p, a, m + 1)[i]
    BY <1>2, <1>3, <1>5, <1>6
<1>8. long = Run(p, a, m + 1)
    BY <1>2, <1>3, <1>5, <1>7, SeqEqual
<1> QED
    BY <1>8 DEF long

LEMMA RunConcat ==
    ASSUME NEW p \in Nat, NEW k \in Nat, NEW m \in Nat, k <= m
    PROVE  Run(p, 0, k) \o Run(p, k, m) = Run(p, 0, m)
<1> DEFINE both == Run(p, 0, k) \o Run(p, k, m)
<1>1. /\ Run(p, 0, k) \in Seq(NumberedChunks) /\ Len(Run(p, 0, k)) = k
      /\ \A i \in 1..k : Run(p, 0, k)[i] = [key |-> i, picture |-> p]
  <2>1. /\ Run(p, 0, k) \in Seq(NumberedChunks) /\ Len(Run(p, 0, k)) = k - 0
        /\ \A i \in 1..(k - 0) : Run(p, 0, k)[i] = [key |-> 0 + i, picture |-> p]
    <3>1. 0 \in Nat /\ 0 <= k
        OBVIOUS
    <3> QED
        BY <3>1, RunFacts, Zenon
  <2> QED
      BY <2>1
<1>2. /\ Run(p, k, m) \in Seq(NumberedChunks) /\ Len(Run(p, k, m)) = m - k
      /\ \A i \in 1..(m - k) : Run(p, k, m)[i] = [key |-> k + i, picture |-> p]
    BY RunFacts
<1>3. /\ Run(p, 0, m) \in Seq(NumberedChunks) /\ Len(Run(p, 0, m)) = m
      /\ \A i \in 1..m : Run(p, 0, m)[i] = [key |-> i, picture |-> p]
  <2>1. /\ Run(p, 0, m) \in Seq(NumberedChunks) /\ Len(Run(p, 0, m)) = m - 0
        /\ \A i \in 1..(m - 0) : Run(p, 0, m)[i] = [key |-> 0 + i, picture |-> p]
    <3>1. 0 \in Nat /\ 0 <= m
        OBVIOUS
    <3> QED
        BY <3>1, RunFacts, Zenon
  <2> QED
      BY <2>1
<1>4. /\ both \in Seq(NumberedChunks) /\ Len(both) = k + (m - k)
      /\ \A i \in 1..(k + (m - k)) : both[i] = IF i <= k THEN Run(p, 0, k)[i] ELSE Run(p, k, m)[i - k]
  <2>1. /\ both \in Seq(NumberedChunks)
        /\ Len(both) = Len(Run(p, 0, k)) + Len(Run(p, k, m))
        /\ \A i \in 1..(Len(Run(p, 0, k)) + Len(Run(p, k, m))) :
              both[i] = IF i <= Len(Run(p, 0, k)) THEN Run(p, 0, k)[i]
                        ELSE Run(p, k, m)[i - Len(Run(p, 0, k))]
      BY <1>1, <1>2, ConcatProperties, Zenon
  <2> QED
      BY <1>1, <1>2, <2>1, Zenon
<1> HIDE DEF both
<1>5. ASSUME NEW i \in 1..m PROVE both[i] = [key |-> i, picture |-> p]
  <2>1. CASE i <= k
    <3>1. i \in 1..k /\ i \in 1..(k + (m - k))
        BY <2>1
    <3>2. both[i] = Run(p, 0, k)[i]
        BY <1>4, <2>1, <3>1
    <3> QED
        BY <1>1, <3>1, <3>2
  <2>2. CASE i > k
    <3>1. i - k \in 1..(m - k) /\ k + (i - k) = i
        BY <2>2
    <3>2. i \in 1..(k + (m - k)) /\ ~(i <= k)
        BY <2>2
    <3>3. both[i] = Run(p, k, m)[i - k]
        BY <1>4, <3>2
    <3> QED
        BY <1>2, <3>1, <3>3
  <2> QED
      BY <2>1, <2>2
<1>6. both = Run(p, 0, m)
  <2>1. k + (m - k) = m
      OBVIOUS
  <2>2. both \in Seq(NumberedChunks) /\ Len(both) = m
      BY <1>4, <2>1
  <2>3. \A i \in 1..Len(both) : both[i] = Run(p, 0, m)[i]
      BY <1>3, <1>5, <2>2
  <2> QED
      BY <1>3, <2>2, <2>3, SeqEqual
<1> QED
    BY <1>6 DEF both

LEMMA RunKeys ==
    ASSUME NEW p \in Nat, NEW a \in Nat, NEW m \in Nat, a <= m
    PROVE  KeysOf(Run(p, a, m)) = (a + 1)..m
<1>1. /\ DOMAIN Run(p, a, m) = 1..(m - a)
      /\ \A i \in 1..(m - a) : Run(p, a, m)[i].key = a + i
  <2>1. \A i \in 1..(m - a) : Run(p, a, m)[i] = [key |-> a + i, picture |-> p]
      BY RunFacts
  <2>2. DOMAIN Run(p, a, m) = 1..(m - a)
      BY RunFacts
  <2>3. ASSUME NEW i \in 1..(m - a) PROVE Run(p, a, m)[i].key = a + i
    <3>1. Run(p, a, m)[i] = [key |-> a + i, picture |-> p]
        BY <2>1
    <3> QED
        BY <3>1
  <2> QED
      BY <2>2, <2>3
<1>2. ASSUME NEW k \in (a + 1)..m PROVE k \in KeysOf(Run(p, a, m))
  <2>1. k - a \in 1..(m - a) /\ a + (k - a) = k
      OBVIOUS
  <2>2. Run(p, a, m)[k - a].key = k
      BY <1>1, <2>1
  <2> QED
      BY <1>1, <2>1, <2>2 DEF KeysOf, ToSet
<1>3. ASSUME NEW k \in KeysOf(Run(p, a, m)) PROVE k \in (a + 1)..m
  <2>1. PICK i \in 1..(m - a) : k = Run(p, a, m)[i].key
      BY <1>1 DEF KeysOf, ToSet
  <2> QED
      BY <1>1, <2>1
<1> QED
    BY <1>2, <1>3

(* Of chunks that follow each other, the server takes those it has not.    *)
LEMMA NewChunksOfRun ==
    ASSUME NEW p \in Nat, NEW a \in Nat, NEW k \in Nat, NEW m \in Nat, a <= k, k <= m
    PROVE  NewChunks(Run(p, a, m), 1..k) = Run(p, k, m)
<1> DEFINE data == Run(p, a, m)
<1>1. Len(data) = m - a /\ \A i \in 1..(m - a) : data[i] = [key |-> a + i, picture |-> p]
  <2>1. /\ Len(Run(p, a, m)) = m - a
        /\ \A i \in 1..(m - a) : Run(p, a, m)[i] = [key |-> a + i, picture |-> p]
    <3>1. a <= m
        OBVIOUS
    <3> QED
        BY <3>1, RunFacts
  <2> QED
      BY <2>1, Zenon
<1>2. PICK f : IsTaken(f, data, 1..k, m - a) /\ NewChunks(data, 1..k) = f[m - a]
  <2>1. m - a \in Nat
      OBVIOUS
  <2> QED
      BY <1>1, <2>1, NewChunksTaken
<1>3. ASSUME NEW i \in 0..(m - a)
      PROVE  f[i] = IF i = 0 THEN <<>>
                    ELSE IF data[i].key \in 1..k THEN f[i - 1] ELSE Append(f[i - 1], data[i])
    BY <1>2 DEF IsTaken
<1> HIDE DEF data
<1> DEFINE S == {i \in Nat : i <= m - a => f[i] = Run(p, k, a + i)}
<1>4. 0 \in S
  <2>1. Run(p, k, a) = <<>>
      BY RunIsEmpty
  <2> QED
      BY <1>3, <2>1
<1>5. ASSUME NEW i \in Nat, i \in S PROVE i + 1 \in S
  <2> SUFFICES ASSUME i + 1 <= m - a PROVE f[i + 1] = Run(p, k, a + (i + 1))
      OBVIOUS
  <2>1. f[i] = Run(p, k, a + i)
      BY <1>5
  <2>2. data[i + 1] = [key |-> a + i + 1, picture |-> p]
      BY <1>1
  <2>3. f[i + 1] = IF a + i + 1 \in 1..k THEN f[i] ELSE Append(f[i], data[i + 1])
    <3>1. i + 1 \in 0..(m - a) /\ i + 1 # 0 /\ (i + 1) - 1 = i
        OBVIOUS
    <3>2. data[i + 1].key = a + i + 1
        BY <2>2
    <3> QED
        BY <1>3, <3>1, <3>2
  <2>4. CASE a + i + 1 <= k
    <3>1. Run(p, k, a + i) = <<>> /\ Run(p, k, a + (i + 1)) = <<>>
        BY <2>4, RunIsEmpty
    <3> QED
        BY <2>1, <2>3, <2>4, <3>1
  <2>5. CASE k < a + i + 1
    <3>1. a + i \in Nat /\ k <= a + i /\ a + (i + 1) = (a + i) + 1
        BY <2>5
    <3>2. Append(Run(p, k, a + i), [key |-> (a + i) + 1, picture |-> p]) = Run(p, k, (a + i) + 1)
        BY <3>1, RunAppend
    <3>3. f[i + 1] = Append(f[i], data[i + 1])
        BY <2>3, <2>5
    <3> QED
        BY <2>1, <2>2, <3>1, <3>2, <3>3
  <2> QED
      BY <2>4, <2>5
<1> HIDE DEF S
<1>6. Nat \subseteq S
    BY <1>4, <1>5, Induction
<1>7. f[m - a] = Run(p, k, m)
  <2>1. m - a \in S /\ m - a <= m - a /\ a + (m - a) = m
      BY <1>6
  <2> QED
      BY <2>1 DEF S
<1> QED
    BY <1>2, <1>7 DEF data

-----------------------------------------------------------------------------
(* A chunk that ends a picture has the size the header gave.               *)
LEMMA FinalNeedsSize ==
    ASSUME NEW b \in [size : Int, ids : 0..2, data : Seq(NumberedChunks)],
           ~HasHeader(b), size \in {Undefined, 0}
    PROVE  FinalIndex(b) = 0
<1>1. SizeIn(b) \in {Undefined, 0}
    BY DEF SizeIn
<1>2. ASSUME NEW i \in DOMAIN b.data
      PROVE  b.data[i].key \in (Nat \ {0}) \cup {CheckInKey}
    <2>1. b.data \in Seq(NumberedChunks)
        OBVIOUS
    <2>2. b.data[i] \in NumberedChunks
        BY <2>1
    <2> QED
        BY <2>2 DEF NumberedChunks
<1>3. \A i \in DOMAIN b.data : b.data[i].key # SizeIn(b)
    BY <1>1, <1>2 DEF Undefined, CheckInKey
<1> QED
    BY <1>3 DEF FinalIndex

LEMMA InitEstablishes == Init => IInv
<1>1. <<>> \in Seq(NumberedChunks)
    OBVIOUS
<1>2. EmptyBody \in [size : Int, ids : 0..2, data : Seq(NumberedChunks)]
    BY <1>1 DEF EmptyBody, Undefined
<1>3. Init => BodyTyped
    BY <1>2 DEF Init, BodyTyped
<1>4. Init => Numbered
    BY DEF Init, Numbered, NoPicture
<1> QED
    BY <1>3, <1>4 DEF IInv

(* What a command may leave in the body is a body.                         *)
LEMMA BodiesAreTyped ==
    ASSUME BodyTyped, Numbered
    PROVE  /\ EmptyBody \in [size : Int, ids : 0..2, data : Seq(NumberedChunks)]
           /\ WithSize(body) \in [size : Int, ids : 0..2, data : Seq(NumberedChunks)]
           /\ WithId(body) \in [size : Int, ids : 0..2, data : Seq(NumberedChunks)]
           /\ stage = "data" =>
                WithChunk(body) \in [size : Int, ids : 0..2, data : Seq(NumberedChunks)]
<1>1. EmptyBody \in [size : Int, ids : 0..2, data : Seq(NumberedChunks)]
    <2>1. <<>> \in Seq(NumberedChunks)
        OBVIOUS
    <2> QED BY <2>1 DEF EmptyBody, Undefined
<1>2. WithSize(body) \in [size : Int, ids : 0..2, data : Seq(NumberedChunks)]
    BY DEF WithSize, BodyTyped, Numbered, Undefined, Unmatched
<1>3. WithId(body) \in [size : Int, ids : 0..2, data : Seq(NumberedChunks)]
    BY DEF WithId, BodyTyped
<1>4. ASSUME stage = "data"
      PROVE  WithChunk(body) \in [size : Int, ids : 0..2, data : Seq(NumberedChunks)]
    <2> DEFINE chunk == [key |-> total_sent, picture |-> picture.number]
    <2>1. chunk \in NumberedChunks
        BY <1>4 DEF Numbered, NumberedChunks
    <2>2. body.data \in Seq(NumberedChunks)
        BY DEF BodyTyped
    <2>3. Append(body.data, chunk) \in Seq(NumberedChunks)
        BY <2>1, <2>2
    <2> QED
        BY <2>3 DEF WithChunk, BodyTyped
<1> QED
    BY <1>1, <1>2, <1>3, <1>4

LEMMA CheckInsKeepTypes ==
    ASSUME BodyTyped, CheckIns
    PROVE  BodyTyped'
<1> DEFINE new == [key |-> CheckInKey, picture |-> 0]
<1>1. PICK base \in {body, EmptyBody}, n \in {1, 2} :
          \/ body' = [base EXCEPT !.ids = n]
          \/ body' = [base EXCEPT !.ids = n, !.data = Append(@, new)]
    BY DEF CheckIns
<1>2. base \in [size : Int, ids : 0..2, data : Seq(NumberedChunks)]
  <2>1. <<>> \in Seq(NumberedChunks)
      OBVIOUS
  <2>2. EmptyBody \in [size : Int, ids : 0..2, data : Seq(NumberedChunks)]
      BY <2>1 DEF EmptyBody, Undefined
  <2> QED
      BY <1>1, <2>2 DEF BodyTyped
<1>3. new \in NumberedChunks
    BY DEF NumberedChunks
<1> HIDE DEF new
<1>4. Append(base.data, new) \in Seq(NumberedChunks)
  <2>1. base.data \in Seq(NumberedChunks)
      BY <1>2
  <2> QED
      BY <1>3, <2>1, AppendProperties
<1>5. CASE body' = [base EXCEPT !.ids = n]
    BY <1>1, <1>2, <1>5 DEF BodyTyped
<1>6. CASE body' = [base EXCEPT !.ids = n, !.data = Append(@, new)]
  <2> DEFINE longer == Append(base.data, new)
  <2>1. body' = [size |-> base.size, ids |-> n, data |-> longer]
      BY <1>2, <1>6
  <2>2. longer \in Seq(NumberedChunks)
      BY <1>4
  <2> HIDE DEF longer
  <2> QED
      BY <1>2, <2>1, <2>2 DEF BodyTyped
<1> QED
    BY <1>1, <1>5, <1>6

LEMMA StepKeeps ==
    ASSUME IInv, [Next]_vars
    PROVE  IInv'
<1> USE DEF IInv
<1>1. CASE StartUpload
    <2>1. \A n \in Sizes : n \in Nat
        BY ParametersAssumption
    <2>2. BodyTyped'
        BY <1>1, CheckInsKeepTypes DEF StartUpload
    <2> QED
        BY <1>1, <2>1, <2>2 DEF StartUpload, Numbered
<1>2. ASSUME NEW after, NEW next, Command(after, next), next # "data",
             after \in [size : Int, ids : 0..2, data : Seq(NumberedChunks)]
      PROVE  IInv'
    <2>1. BodyTyped'
        BY <1>2 DEF Command, BodyTyped
    <2>2. stage' \in {next, stage}
        BY <1>2 DEF Command, Succeeds, Fails
    <2> QED
        BY <1>2, <2>1, <2>2 DEF Command, Numbered
<1>3. ASSUME NEW next, Post(next), next # "data"
      PROVE  IInv'
    <2>1. stage' \in {next, stage}
        BY <1>3 DEF Post, Succeeds, Fails
    <2> QED
        BY <1>3, <2>1 DEF Post, BodyTyped, Numbered
<1>4. CASE ConnectStep
    BY <1>2, <1>3, <1>4, BodiesAreTyped DEF ConnectStep, BodyTyped
<1>5. CASE FunctionReturns
    BY <1>5 DEF FunctionReturns, TakePictureReturns, BodyTyped, Numbered
<1>6. CASE SendChunk
    BY <1>6 DEF SendChunk, BodyTyped, Numbered
<1>7. CASE StreamEnds
    BY <1>7 DEF StreamEnds, TakePictureReturns, BodyTyped, Numbered
<1>8. CASE WriteChunk
    <2>1. PICK next \in {"chunk_id", "returned"} : Command(WithChunk(body), next)
        BY <1>8 DEF WriteChunk
    <2> QED
        BY <1>2, <1>8, <2>1, BodiesAreTyped DEF WriteChunk
<1>9. CASE SendPayload
    BY <1>2, <1>3, <1>9, BodiesAreTyped DEF SendPayload
<1>10. CASE JobStep
    BY <1>10 DEF JobStep, ReadText, WritePicture, PictureNotWritten, ClearText, device,
       BodyTyped, Numbered
<1>11. CASE ServerRestarts
    BY <1>11 DEF ServerRestarts, device, BodyTyped, Numbered
<1>12. CASE UNCHANGED vars
    BY <1>12 DEF vars, device, BodyTyped, Numbered
<1> QED
    BY <1>1, <1>4, <1>5, <1>6, <1>7, <1>8, <1>9, <1>10, <1>11, <1>12 DEF Next, DeviceStep

-----------------------------------------------------------------------------
(* How far past the limit the count of failures can be at each stage: the  *)
(* stages before it have left it at the limit or added one failure each.   *)
Excess ==
    [s \in Stages |->
       CASE s \in {"idle", "streaming", "setup", "data"} -> 0
         [] s \in {"start", "chunk_id"} -> 1
         [] s \in {"clear", "chunk_post"} -> 2
         [] s \in {"size", "chunk_clear"} -> 3
         [] s = "id" -> 4
         [] s = "post" -> 5
         [] s = "returned" -> 6]

WithinBudget == stage \in Stages /\ tries \in Nat /\ tries < NumTries + Excess[stage]

(* A failure or an answer that leads from a stage to one of more excess    *)
(* keeps within the budget.                                                *)
LEMMA AttemptWithinBudget ==
    ASSUME WithinBudget, NEW next \in Stages,
           Fails(next) \/ Succeeds(next),
           Excess[stage] \in 0..6, Excess[next] \in 0..6, Excess[stage] < Excess[next]
    PROVE  WithinBudget'
<1> USE ParametersAssumption
<1>1. CASE Succeeds(next)
    BY <1>1 DEF Succeeds, WithinBudget
<1>2. CASE Fails(next)
    <2>1. CASE Spent(tries')
        BY <1>2, <2>1 DEF Fails, WithinBudget
    <2>2. CASE ~Spent(tries')
        BY <1>2, <2>2 DEF Fails, WithinBudget, Spent
    <2> QED BY <2>1, <2>2
<1> QED
    BY <1>1, <1>2

LEMMA CommandWithinBudget ==
    ASSUME WithinBudget, NEW next \in Stages, NEW after,
           Command(after, next) \/ Post(next),
           Excess[stage] \in 0..6, Excess[next] \in 0..6, Excess[stage] < Excess[next]
    PROVE  WithinBudget'
<1>1. Fails(next) \/ Succeeds(next)
    BY DEF Command, Post
<1> QED
    BY <1>1, AttemptWithinBudget

LEMMA StepWithinBudget ==
    ASSUME WithinBudget, [Next]_vars
    PROVE  WithinBudget'
<1> USE ParametersAssumption
<1>1. CASE StartUpload
    BY <1>1 DEF StartUpload, WithinBudget, Excess, Stages
<1>2. CASE ConnectStep
    <2>1. \/ stage = "setup" /\ Command(body, "start")
          \/ stage = "start" /\ Command(body, "clear")
          \/ stage = "clear" /\ Command(EmptyBody, "size")
          \/ stage = "size" /\ Command(WithSize(body), "id")
          \/ stage = "id" /\ Command(WithId(body), "post")
          \/ stage = "post" /\ Post("returned")
        BY <1>2 DEF ConnectStep
    <2>2. CASE stage = "setup"
        BY <2>1, <2>2, CommandWithinBudget DEF Excess, Stages
    <2>3. CASE stage = "start"
        BY <2>1, <2>3, CommandWithinBudget DEF Excess, Stages
    <2>4. CASE stage = "clear"
        BY <2>1, <2>4, CommandWithinBudget DEF Excess, Stages
    <2>5. CASE stage = "size"
        BY <2>1, <2>5, CommandWithinBudget DEF Excess, Stages
    <2>6. CASE stage = "id"
        BY <2>1, <2>6, CommandWithinBudget DEF Excess, Stages
    <2>7. CASE stage = "post"
        BY <2>1, <2>7, CommandWithinBudget DEF Excess, Stages
    <2> QED
        BY <2>1, <2>2, <2>3, <2>4, <2>5, <2>6, <2>7
<1>3. CASE FunctionReturns
    BY <1>3 DEF FunctionReturns, TakePictureReturns, WithinBudget, Excess, Stages
<1>4. CASE SendChunk
    BY <1>4 DEF SendChunk, WithinBudget, Excess, Stages
<1>5. CASE StreamEnds
    BY <1>5 DEF StreamEnds, TakePictureReturns, WithinBudget, Excess, Stages
<1>6. CASE WriteChunk
    <2>1. PICK next \in {"chunk_id", "returned"} : Command(WithChunk(body), next)
        BY <1>6 DEF WriteChunk
    <2>2. /\ stage = "data" /\ next \in Stages
          /\ Excess[stage] \in 0..6 /\ Excess[next] \in 0..6 /\ Excess[stage] < Excess[next]
        BY <1>6 DEF WriteChunk, Excess, Stages
    <2> QED
        BY <2>1, <2>2, AttemptWithinBudget DEF Command
<1>7. CASE SendPayload
    <2>1. CASE stage = "chunk_id"
        BY <1>7, <2>1, CommandWithinBudget DEF SendPayload, Excess, Stages
    <2>2. CASE stage = "chunk_post"
        BY <1>7, <2>2, CommandWithinBudget DEF SendPayload, Excess, Stages
    <2>3. CASE stage = "chunk_clear"
        BY <1>7, <2>3, CommandWithinBudget DEF SendPayload, Excess, Stages
    <2> QED
        BY <1>7, <2>1, <2>2, <2>3 DEF SendPayload
<1>8. CASE JobStep
    BY <1>8 DEF JobStep, ReadText, WritePicture, PictureNotWritten, ClearText, device, WithinBudget
<1>9. CASE ServerRestarts
    BY <1>9 DEF ServerRestarts, device, WithinBudget
<1>10. CASE UNCHANGED vars
    BY <1>10 DEF vars, device, WithinBudget
<1> QED
    BY <1>1, <1>2, <1>3, <1>4, <1>5, <1>6, <1>7, <1>8, <1>9, <1>10 DEF Next, DeviceStep

-----------------------------------------------------------------------------
(* Types                                                                   *)

ServerTyped ==
    /\ size \in Int
    /\ oldKey \subseteq Keys
    /\ text \in Seq(NumberedChunks)
    /\ jobs \subseteq [number : Nat, pc : {"read", "write", "clear"}]
    /\ restarts \in 0..MaxRestarts
    /\ finals \in Nat
    /\ recognised \in BOOLEAN
    /\ gave_up \in BOOLEAN
    /\ clean \in BOOLEAN

Connecting == {"setup", "start", "clear", "size", "id", "post"}

Counted ==
    /\ picture \in [number : Nat, chunks : Nat]
    /\ image_size \in {0, picture.chunks}
    /\ total_sent <= picture.chunks
    /\ stage # "idle" => picture.chunks \in Sizes
    /\ stage \in Connecting \cup {"idle"} => total_sent = 0

(* Every failure to write the chunk adds to the payload, and there are     *)
(* fewer than NumTries of them.                                            *)
PayloadBounded ==
    /\ current_payload \in Nat
    /\ stage = "data" => current_payload < MaxPayload + tries
    /\ stage \in {"chunk_id", "chunk_post"} => current_payload <= MaxPayload + NumTries
    /\ stage = "chunk_clear" => current_payload = 0
    /\ stage \notin {"data", "chunk_id", "chunk_post"} => current_payload < MaxPayload

LEMMA FinalIndexIsOne ==
    ASSUME NEW b
    PROVE  \/ FinalIndex(b) = 0
           \/ /\ FinalIndex(b) \in DOMAIN b.data
              /\ b.data[FinalIndex(b)].key = SizeIn(b) /\ SizeIn(b) \notin KeysIn(b)
<1> DEFINE final == {i \in DOMAIN b.data : b.data[i].key = SizeIn(b) /\ SizeIn(b) \notin KeysIn(b)}
<1>1. CASE final = {}
    BY <1>1 DEF FinalIndex
<1>2. CASE final # {}
  <2>1. (CHOOSE i \in final : TRUE) \in final
      BY <1>2
  <2>2. FinalIndex(b) = CHOOSE i \in final : TRUE
      BY <1>2 DEF FinalIndex
  <2> QED
      BY <2>1, <2>2
<1> QED
    BY <1>1, <1>2

LEMMA KeysAreTyped ==
    ASSUME NEW data \in Seq(NumberedChunks)
    PROVE  KeysOf(data) \subseteq Keys
<1>1. \A i \in DOMAIN data : data[i] \in NumberedChunks
    OBVIOUS
<1> QED
    BY <1>1 DEF KeysOf, ToSet, NumberedChunks, Keys

(* What the server keeps after a request has its type.                     *)
LEMMA RequestTyped ==
    ASSUME BodyTyped, ServerTyped, CheckFacePost(body)
    PROVE  /\ size' \in Int /\ oldKey' \subseteq Keys /\ text' \in Seq(NumberedChunks)
           /\ jobs' \subseteq [number : Nat, pc : {"read", "write", "clear"}] /\ finals' \in Nat
           /\ recognised' \in BOOLEAN
<1> DEFINE f == FinalIndex(body)
           before == SubSeq(body.data, 1, f)
           after == SubSeq(body.data, f + 1, Len(body.data))
<1>1. body.data \in Seq(NumberedChunks) /\ Len(body.data) \in Nat
    BY DEF BodyTyped
<1>2. SizeIn(body) \in Int /\ KeysIn(body) \subseteq Keys
    BY DEF SizeIn, KeysIn, BodyTyped, ServerTyped
<1>3. f = 0 \/ f \in 1..Len(body.data)
    BY <1>1, FinalIndexIsOne
<1>4. f # 0 => before \in Seq(NumberedChunks) /\ after \in Seq(NumberedChunks)
  <2> SUFFICES ASSUME f # 0 PROVE before \in Seq(NumberedChunks) /\ after \in Seq(NumberedChunks)
      OBVIOUS
  <2>1. f \in 1..Len(body.data)
      BY <1>3
  <2> HIDE DEF f
  <2>2. \A i \in 1..Len(body.data) : body.data[i] \in NumberedChunks
      BY <1>1
  <2>3. /\ \A i \in 1..f : body.data[i] \in NumberedChunks
        /\ \A i \in (f + 1)..Len(body.data) : body.data[i] \in NumberedChunks
      BY <1>1, <2>1, <2>2
  <2>4. 1 \in Int /\ f \in Int /\ f + 1 \in Int /\ Len(body.data) \in Int
      BY <1>1, <2>1
  <2> QED
      BY <2>3, <2>4, SubSeqProperties
<1> HIDE DEF f, before, after
<1>5. Appended(body) \in Seq(NumberedChunks)
  <2>1. CASE f = 0
      BY <1>1, <2>1, NewChunksTyped DEF Appended, f
  <2>2. CASE f # 0
    <3>1. NewChunks(before, KeysIn(body)) \in Seq(NumberedChunks)
        BY <1>4, <2>2, NewChunksTyped
    <3>2. NewChunks(before, KeysIn(body)) \o after \in Seq(NumberedChunks)
        BY <1>4, <2>2, <3>1, ConcatProperties
    <3> QED
        BY <2>2, <3>2 DEF Appended, f, before, after
  <2> QED
      BY <2>1, <2>2
<1>6. KeysAfter(body) \subseteq Keys
  <2>1. CASE f = 0
      BY <1>1, <1>2, <2>1, KeysAreTyped DEF KeysAfter, f
  <2>2. CASE f # 0
      BY <1>4, <2>2, KeysAreTyped DEF KeysAfter, f, after
  <2> QED
      BY <2>1, <2>2
<1>7. text \o Appended(body) \in Seq(NumberedChunks)
    BY <1>5, ConcatProperties DEF ServerTyped
<1>8. size' \in Int /\ oldKey' \subseteq Keys /\ text' \in Seq(NumberedChunks)
    BY <1>2, <1>6, <1>7 DEF CheckFacePost, ServerTyped, SizeAfter
<1>9. finals' \in Nat /\ jobs' \subseteq [number : Nat, pc : {"read", "write", "clear"}]
  <2>1. [number |-> finals, pc |-> "read"] \in [number : Nat, pc : {"read", "write", "clear"}]
      BY DEF ServerTyped
  <2>2. jobs' = jobs \/ jobs' = jobs \cup {[number |-> finals, pc |-> "read"]}
      BY DEF CheckFacePost
  <2> QED
      BY <2>1, <2>2 DEF CheckFacePost, ServerTyped
<1>10. recognised' \in BOOLEAN
  <2>1. recognised \in BOOLEAN
      BY DEF ServerTyped
  <2>2. recognised' \in {recognised, TRUE}
      BY <2>1 DEF CheckFacePost
  <2> QED
      BY <2>1, <2>2
<1> QED
    BY <1>8, <1>9, <1>10

(* What every command and every request does to the device.                *)
LEMMA AttemptEffect ==
    ASSUME NEW next, Fails(next) \/ Succeeds(next), gave_up \in BOOLEAN
    PROVE  /\ stage' \in {stage, next}
           /\ tries' \in {tries, tries + 1}
           /\ gave_up' \in BOOLEAN
           /\ ~gave_up' => ~gave_up /\ (Fails(next) => stage' = stage)
<1>1. CASE Fails(next)
  <2>1. /\ stage' \in {stage, next} /\ gave_up' \in BOOLEAN
        /\ ~gave_up' => ~gave_up /\ stage' = stage
      BY <1>1, Zenon DEF Fails
  <2>2. tries' \in {tries, tries + 1}
      BY <1>1 DEF Fails
  <2> QED
      BY <2>1, <2>2
<1>2. CASE Succeeds(next) /\ ~Fails(next)
    BY <1>2, Zenon DEF Succeeds
<1> QED
    BY <1>1, <1>2

(* One of the stages of the device is tried.                               *)
Attempt(next) ==
    /\ Fails(next) \/ Succeeds(next)
    /\ UNCHANGED <<image_size, picture, total_sent, restarts>>
    /\ \/ UNCHANGED <<server, finals, recognised>>
       \/ CheckFacePost(body)
    /\ clean' \in BOOLEAN

NextOf ==
    [setup |-> "start", start |-> "clear", clear |-> "size", size |-> "id", id |-> "post",
     post |-> "returned", chunk_id |-> "chunk_post", chunk_post |-> "chunk_clear",
     chunk_clear |-> "returned"]

LEMMA StepsAreAttempts ==
    ASSUME ServerTyped, ConnectStep \/ SendPayload \/ WriteChunk
    PROVE  \/ /\ stage \in DOMAIN NextOf /\ Attempt(NextOf[stage])
              /\ \/ UNCHANGED current_payload
                 \/ stage = "chunk_post" /\ current_payload' = IF stage' = stage THEN current_payload ELSE 0
           \/ /\ stage = "data"
              /\ \E next \in {"chunk_id", "returned"} : Attempt(next)
<1>1. ASSUME NEW after, NEW next, Command(after, next) PROVE Attempt(next)
  <2>1. gave_up' \in BOOLEAN
      BY <1>1, AttemptEffect DEF Command, ServerTyped
  <2> QED
      BY <1>1, <2>1 DEF Command, Attempt, ServerTyped
<1>2. ASSUME NEW next, Post(next) PROVE Attempt(next)
  <2>1. gave_up' \in BOOLEAN
      BY <1>2, AttemptEffect DEF Post, ServerTyped
  <2> QED
      BY <1>2, <2>1 DEF Post, Attempt, ServerTyped
<1>3. CASE ConnectStep
    BY <1>1, <1>2, <1>3 DEF ConnectStep, NextOf
<1>4. CASE SendPayload
    BY <1>1, <1>2, <1>4 DEF SendPayload, NextOf
<1>5. CASE WriteChunk
    BY <1>1, <1>5 DEF WriteChunk
<1> QED
    BY <1>3, <1>4, <1>5

LEMMA AttemptTyped ==
    ASSUME BodyTyped, ServerTyped, NEW next, Attempt(next)
    PROVE  ServerTyped'
<1>1. gave_up' \in BOOLEAN
    BY AttemptEffect DEF Attempt, ServerTyped
<1>2. CASE UNCHANGED <<server, finals, recognised>>
    BY <1>1, <1>2 DEF Attempt, ServerTyped, server
<1>3. CASE CheckFacePost(body)
    BY <1>1, <1>3, RequestTyped DEF Attempt, ServerTyped
<1> QED
    BY <1>2, <1>3 DEF Attempt

LEMMA StepServerTyped ==
    ASSUME BodyTyped, ServerTyped, [Next]_vars
    PROVE  ServerTyped'
<1>1. CASE ConnectStep \/ SendPayload \/ WriteChunk
    BY <1>1, StepsAreAttempts, AttemptTyped
<1>2. CASE StartUpload
    BY <1>2 DEF StartUpload, ServerTyped, server, history
<1>3. CASE FunctionReturns \/ StreamEnds
    BY <1>3 DEF FunctionReturns, StreamEnds, TakePictureReturns, ServerTyped, server, history
<1>4. CASE SendChunk
    BY <1>4 DEF SendChunk, ServerTyped, server, history
<1>5. CASE JobStep
  <2>1. PICK job \in jobs : ReadText(job) \/ WritePicture(job) \/ PictureNotWritten(job) \/ ClearText(job)
      BY <1>5 DEF JobStep
  <2>2. /\ [job EXCEPT !.pc = "write"] \in [number : Nat, pc : {"read", "write", "clear"}]
        /\ [job EXCEPT !.pc = "clear"] \in [number : Nat, pc : {"read", "write", "clear"}]
      BY DEF ServerTyped
  <2>3. jobs' \subseteq [number : Nat, pc : {"read", "write", "clear"}]
      BY <2>1, <2>2 DEF ReadText, WritePicture, PictureNotWritten, ClearText, ServerTyped
  <2>4. text' \in Seq(NumberedChunks)
    <3>1. <<>> \in Seq(NumberedChunks)
        OBVIOUS
    <3> QED
        BY <2>1, <3>1 DEF ReadText, WritePicture, PictureNotWritten, ClearText, ServerTyped
  <2> QED
      BY <2>1, <2>3, <2>4 DEF ReadText, WritePicture, PictureNotWritten, ClearText, history,
         ServerTyped
<1>6. CASE ServerRestarts
  <2>1. restarts' \in 0..MaxRestarts /\ size' \in Int
      BY <1>6, ParametersAssumption DEF ServerRestarts, ServerTyped, Undefined
  <2>2. /\ oldKey' = {} /\ jobs' = {} /\ clean' = FALSE
        /\ UNCHANGED <<text, finals, recognised, gave_up>>
      BY <1>6 DEF ServerRestarts
  <2> QED
      BY <2>1, <2>2, Zenon DEF ServerTyped
<1>7. CASE UNCHANGED vars
    BY <1>7 DEF vars, server, history, ServerTyped
<1> QED
    BY <1>1, <1>2, <1>3, <1>4, <1>5, <1>6, <1>7 DEF Next, DeviceStep

LEMMA StepCounted ==
    ASSUME ServerTyped, Counted, Numbered, WithinBudget, [Next]_vars
    PROVE  Counted'
<1>1. CASE ConnectStep \/ SendPayload \/ WriteChunk
  <2>1. CASE stage \in DOMAIN NextOf /\ Attempt(NextOf[stage])
    <3>1. stage' \in {stage, NextOf[stage]} /\ UNCHANGED <<image_size, picture, total_sent>>
        BY <2>1, AttemptEffect DEF Attempt, ServerTyped
    <3> QED
        BY <2>1, <3>1 DEF Counted, NextOf, Connecting
  <2>2. CASE stage = "data" /\ \E next \in {"chunk_id", "returned"} : Attempt(next)
    <3>1. stage' \in {"data", "chunk_id", "returned"} /\ UNCHANGED <<image_size, picture, total_sent>>
        BY <2>2, AttemptEffect DEF Attempt, ServerTyped
    <3> QED
        BY <2>2, <3>1 DEF Counted, Connecting
  <2> QED
      BY <1>1, <2>1, <2>2, StepsAreAttempts
<1>2. CASE StartUpload
  <2>1. PICK n \in Sizes : /\ picture' = [number |-> picture.number + 1, chunks |-> n]
                           /\ image_size' \in {0, n}
      BY <1>2 DEF StartUpload
  <2>2. n \in Nat
      BY ParametersAssumption
  <2>3. picture'.chunks = n /\ picture' \in [number : Nat, chunks : Nat]
      BY <2>1, <2>2 DEF Counted
  <2>4. total_sent' = 0 /\ stage' = "setup"
      BY <1>2 DEF StartUpload, Counted
  <2> QED
      BY <2>1, <2>2, <2>3, <2>4 DEF Counted
<1>3. CASE FunctionReturns \/ StreamEnds
    BY <1>3 DEF FunctionReturns, StreamEnds, TakePictureReturns, Counted, Connecting
<1>4. CASE SendChunk
    BY <1>4 DEF SendChunk, Counted, Connecting, Numbered
<1>5. CASE JobStep
    BY <1>5 DEF JobStep, ReadText, WritePicture, PictureNotWritten, ClearText, device, Counted
<1>6. CASE ServerRestarts
    BY <1>6 DEF ServerRestarts, device, Counted
<1>7. CASE UNCHANGED vars
    BY <1>7 DEF vars, device, Counted
<1> QED
    BY <1>1, <1>2, <1>3, <1>4, <1>5, <1>6, <1>7 DEF Next, DeviceStep

LEMMA StepPayload ==
    ASSUME ServerTyped, WithinBudget, PayloadBounded, [Next]_vars
    PROVE  PayloadBounded'
<1> USE ParametersAssumption
<1>1. CASE ConnectStep \/ SendPayload
  <2>1. stage \in DOMAIN NextOf /\ Attempt(NextOf[stage])
      BY <1>1, StepsAreAttempts DEF ConnectStep, SendPayload
  <2>2. stage' \in {stage, NextOf[stage]}
      BY <2>1, AttemptEffect DEF Attempt, ServerTyped
  <2>3. IF stage = "chunk_post" THEN current_payload' = IF stage' = stage THEN current_payload ELSE 0
                                ELSE current_payload' = current_payload
      BY <1>1 DEF ConnectStep, SendPayload
  <2>4. stage' # "data"
      BY <2>1, <2>2 DEF NextOf
  <2> QED
      BY <2>1, <2>2, <2>3, <2>4 DEF PayloadBounded, NextOf
<1>2. CASE WriteChunk
  <2>1. PICK failed \in {0, 1} :
          LET payload == current_payload + failed
              next == IF PostIsDue(payload + 1) THEN "chunk_id" ELSE "returned"
          IN  /\ Command(WithChunk(body), next)
              /\ failed = tries' - tries
              /\ current_payload' = IF stage' = "data" THEN payload ELSE payload + 1
      BY <1>2 DEF WriteChunk
  <2> DEFINE payload == current_payload + failed
             next == IF PostIsDue(payload + 1) THEN "chunk_id" ELSE "returned"
  <2>2. /\ stage = "data" /\ tries \in Nat /\ tries < NumTries /\ current_payload \in Nat
        /\ current_payload < MaxPayload + tries
      BY <1>2 DEF WriteChunk, WithinBudget, Excess, Stages, PayloadBounded
  <2>3. Fails(next) \/ Succeeds(next)
      BY <2>1 DEF Command
  <2>4. tries' = tries + failed
      BY <2>1, <2>2, <2>3 DEF Fails, Succeeds
  <2>5. stage' \in {"data", next} /\ next \in {"chunk_id", "returned"}
      BY <2>2, <2>3 DEF Fails, Succeeds
  <2>6. next = "returned" => payload + 1 < MaxPayload
      BY <2>2 DEF PostIsDue
  <2>7. current_payload' = IF stage' = "data" THEN payload ELSE payload + 1
      BY <2>1
  <2> HIDE DEF next
  <2>8. CASE stage' = "data"
      BY <2>2, <2>4, <2>7, <2>8 DEF PayloadBounded
  <2>9. CASE stage' = "chunk_id"
      BY <2>2, <2>7, <2>9 DEF PayloadBounded
  <2>10. CASE stage' = "returned"
      BY <2>2, <2>5, <2>6, <2>7, <2>10 DEF PayloadBounded
  <2> QED
      BY <2>5, <2>8, <2>9, <2>10
<1>3. CASE StartUpload
    BY <1>3 DEF StartUpload, PayloadBounded
<1>4. CASE FunctionReturns \/ StreamEnds
    BY <1>4 DEF FunctionReturns, StreamEnds, TakePictureReturns, PayloadBounded
<1>5. CASE SendChunk
    BY <1>5 DEF SendChunk, PayloadBounded, WithinBudget
<1>6. CASE JobStep
    BY <1>6 DEF JobStep, ReadText, WritePicture, PictureNotWritten, ClearText, device, PayloadBounded
<1>7. CASE ServerRestarts
    BY <1>7 DEF ServerRestarts, device, PayloadBounded
<1>8. CASE UNCHANGED vars
    BY <1>8 DEF vars, device, PayloadBounded
<1> QED
    BY <1>1, <1>2, <1>3, <1>4, <1>5, <1>6, <1>7, <1>8 DEF Next, DeviceStep

Typed == IInv /\ WithinBudget /\ ServerTyped /\ Counted /\ PayloadBounded

LEMMA TypedInvariance == Spec => []Typed
<1>1. Init => Typed
  <2> SUFFICES ASSUME Init PROVE Typed
      OBVIOUS
  <2>1. IInv
      BY InitEstablishes
  <2>2. WithinBudget /\ PayloadBounded
      BY ParametersAssumption DEF Init, WithinBudget, Excess, Stages, PayloadBounded
  <2>3. ServerTyped
    <3>1. <<>> \in Seq(NumberedChunks)
        OBVIOUS
    <3>2. size \in Int /\ restarts \in 0..MaxRestarts /\ finals \in Nat
        BY ParametersAssumption DEF Init, Undefined
    <3>3. oldKey = {} /\ text = <<>> /\ jobs = {} /\ recognised = FALSE /\ gave_up = FALSE
          /\ clean = FALSE
        BY DEF Init
    <3> QED
        BY <3>1, <3>2, <3>3, Zenon DEF ServerTyped
  <2>4. Counted
      BY DEF Init, Counted, NoPicture
  <2> QED
      BY <2>1, <2>2, <2>3, <2>4 DEF Typed
<1>2. Typed /\ [Next]_vars => Typed'
  <2> SUFFICES ASSUME Typed, [Next]_vars PROVE Typed'
      OBVIOUS
  <2> QED
      BY StepKeeps, StepWithinBudget, StepServerTyped, StepCounted, StepPayload DEF Typed, IInv
<1> QED
    BY <1>1, <1>2, PTL DEF Spec

-----------------------------------------------------------------------------
(* The body of the module while every stage has been answered              *)

(* Chunks of a picture that follow each other up to the m-th.              *)
EndsAt(number, data, m) == Len(data) <= m /\ data = Run(number, m - Len(data), m)

(* While the chunk is written it may be in the body already.               *)
BodyShape ==
    ~gave_up =>
      /\ stage \in {"size", "id", "post"} =>
            body.data = <<>> /\ (body.size \in Sizes => body.size = picture.chunks)
      /\ stage \in {"id", "post"} => body.size # Undefined
      /\ stage \in {"post", "chunk_post"} => body.ids # 0
      /\ stage \in {"returned", "streaming", "chunk_id", "chunk_post", "chunk_clear"} =>
            EndsAt(picture.number, body.data, total_sent)
      /\ stage = "data" =>
            \/ EndsAt(picture.number, body.data, total_sent - 1)
            \/ EndsAt(picture.number, body.data, total_sent) /\ body.data # <<>>
      /\ stage \in {"returned", "streaming", "data", "chunk_id"} /\ body.size # Undefined =>
            body.ids # 0
      /\ stage \in {"chunk_post", "chunk_clear"} /\ body.size # Undefined => body.ids = 2

LEMMA NoneEndAt ==
    ASSUME NEW p \in Nat, NEW m \in Nat
    PROVE  EndsAt(p, <<>>, m) /\ Len(<<>>) = 0
<1>1. Len(<<>>) = 0 /\ m - 0 = m
    OBVIOUS
<1>2. Run(p, m, m) = <<>>
    BY RunIsEmpty
<1> QED
    BY <1>1, <1>2 DEF EndsAt

LEMMA EndsAtFacts ==
    ASSUME NEW p \in Nat, NEW m \in Nat, NEW data \in Seq(NumberedChunks), EndsAt(p, data, m)
    PROVE  /\ m - Len(data) \in Nat /\ m - Len(data) <= m
           /\ KeysOf(data) = (m - Len(data) + 1)..m
<1>1. m - Len(data) \in Nat /\ m - Len(data) <= m
    BY LenProperties DEF EndsAt
<1> DEFINE a == m - Len(data)
<1>2. data = Run(p, a, m)
    BY DEF EndsAt
<1> HIDE DEF a
<1>3. KeysOf(Run(p, a, m)) = (a + 1)..m
    BY <1>1, RunKeys DEF a
<1> QED
    BY <1>1, <1>2, <1>3 DEF a

(* Writing the chunk, for the first time or again.                         *)
LEMMA ChunkIsWritten ==
    ASSUME Typed, stage = "data"
    PROVE  /\ WithChunk(body).size = body.size /\ WithChunk(body).ids = body.ids
           /\ EndsAt(picture.number, body.data, total_sent - 1) =>
                /\ EndsAt(picture.number, WithChunk(body).data, total_sent)
                /\ WithChunk(body).data # <<>>
                /\ Len(WithChunk(body).data) = Len(body.data) + 1
           /\ EndsAt(picture.number, body.data, total_sent) /\ body.data # <<>> =>
                WithChunk(body) = body
<1> DEFINE p == picture.number
           chunk == [key |-> total_sent, picture |-> picture.number]
<1>1. /\ body.data \in Seq(NumberedChunks) /\ body \in [size : Int, ids : 0..2, data : Seq(NumberedChunks)]
      /\ p \in Nat /\ total_sent \in Nat \ {0} /\ chunk \in NumberedChunks
    BY DEF Typed, IInv, BodyTyped, Numbered, NumberedChunks
<1>2. WithChunk(body) = IF total_sent \in KeysOf(body.data) THEN body
                        ELSE [body EXCEPT !.data = Append(@, chunk)]
    BY DEF WithChunk
<1> HIDE DEF chunk, p
<1>3. WithChunk(body).size = body.size /\ WithChunk(body).ids = body.ids
    BY <1>1, <1>2
<1>4. ASSUME EndsAt(p, body.data, total_sent - 1)
      PROVE  /\ EndsAt(p, WithChunk(body).data, total_sent)
             /\ WithChunk(body).data # <<>>
             /\ Len(WithChunk(body).data) = Len(body.data) + 1
  <2> DEFINE m == total_sent - 1
             a == m - Len(body.data)
  <2>1. m \in Nat /\ m + 1 = total_sent
      BY <1>1
  <2>2. a \in Nat /\ a <= m /\ KeysOf(body.data) = (a + 1)..m /\ body.data = Run(p, a, m)
      BY <1>1, <1>4, <2>1, EndsAtFacts DEF EndsAt
  <2> HIDE DEF m
  <2>3. total_sent \notin KeysOf(body.data)
    <3> HIDE DEF a
    <3>1. total_sent \notin (a + 1)..m
        BY <2>1
    <3> QED
        BY <2>2, <3>1
  <2>4. WithChunk(body).data = Append(body.data, chunk)
      BY <1>1, <1>2, <2>3
  <2>5. chunk = [key |-> m + 1, picture |-> p]
      BY <2>1 DEF chunk, p
  <2>6. a \in Nat /\ a <= m /\ body.data = Run(p, a, m)
      BY <2>2
  <2>7. Len(Append(body.data, chunk)) = Len(body.data) + 1 /\ Append(body.data, chunk) # <<>>
      BY <1>1, AppendProperties
  <2>8. total_sent - (Len(body.data) + 1) = a /\ Len(body.data) + 1 <= total_sent
    <3>1. Len(body.data) \in Nat
        BY <1>1, LenProperties
    <3> QED
        BY <2>1, <2>2, <3>1
  <2> HIDE DEF a
  <2>9. Append(body.data, chunk) = Run(p, a, m + 1)
      BY <1>1, <2>1, <2>5, <2>6, RunAppend
  <2>10. Append(body.data, chunk) = Run(p, a, total_sent)
      BY <2>1, <2>9
  <2> QED
      BY <2>4, <2>7, <2>8, <2>10 DEF EndsAt
<1>5. ASSUME EndsAt(p, body.data, total_sent), body.data # <<>>
      PROVE  WithChunk(body) = body
  <2>1. KeysOf(body.data) = (total_sent - Len(body.data) + 1)..total_sent
      BY <1>1, <1>5, EndsAtFacts
  <2>2. Len(body.data) \in Nat \ {0}
      BY <1>1, <1>5, EmptySeq
  <2>3. total_sent \in KeysOf(body.data)
      BY <1>1, <2>1, <2>2
  <2> QED
      BY <1>2, <2>3
<1> QED
    BY <1>3, <1>4, <1>5 DEF p

(* A command of a picture that is not given up leaves its stage answered,  *)
(* or has had its effect or none.                                          *)
LEMMA CommandEffect ==
    ASSUME NEW after, NEW next, Command(after, next), ServerTyped, ~gave_up'
    PROVE  /\ ~gave_up /\ gave_up' = gave_up /\ clean' = clean
           /\ \/ stage' = next /\ body' = after
              \/ stage' = stage /\ body' \in {body, after}
           /\ UNCHANGED <<image_size, picture, total_sent, size, oldKey, text, jobs, finals,
                           recognised>>
<1>1. gave_up = FALSE /\ gave_up' = FALSE
  <2>1. gave_up' = gave_up \/ gave_up' = (gave_up \/ Spent(tries'))
      BY Zenon DEF Command, Fails, Succeeds
  <2> QED
      BY <2>1 DEF ServerTyped
<1>2. \/ Succeeds(next) /\ body' = after
      \/ Fails(next) /\ body' \in {body, after}
    BY DEF Command
<1>3. Fails(next) => stage' = stage
    BY <1>1, Zenon DEF Fails
<1>4. Succeeds(next) => stage' = next
    BY DEF Succeeds
<1>5. /\ clean' = (clean /\ ~gave_up')
      /\ UNCHANGED <<image_size, picture, total_sent, size, oldKey, text, jobs, finals,
                           recognised>>
    BY DEF Command, server
<1>6. clean' = clean
    BY <1>1, <1>5 DEF ServerTyped
<1> QED
    BY <1>1, <1>2, <1>3, <1>4, <1>5, <1>6, Zenon

LEMMA PostEffect ==
    ASSUME NEW next, Post(next), ServerTyped, ~gave_up'
    PROVE  /\ ~gave_up /\ gave_up' = gave_up
           /\ UNCHANGED <<image_size, picture, total_sent, body>>
           /\ \/ /\ stage' = stage /\ clean' = clean
                 /\ UNCHANGED <<size, oldKey, text, jobs, finals, recognised>>
              \/ /\ stage' \in {stage, next} /\ clean' = (clean \/ StartsClean(body))
                 /\ CheckFacePost(body)
<1>1. gave_up = FALSE /\ gave_up' = FALSE
  <2>1. gave_up' = gave_up \/ gave_up' = (gave_up \/ Spent(tries'))
      BY Zenon DEF Post, Fails, Succeeds
  <2> QED
      BY <2>1 DEF ServerTyped
<1>2. Fails(next) => stage' = stage
    BY <1>1, Zenon DEF Fails
<1>3. Succeeds(next) => stage' = next
    BY DEF Succeeds
<1>4. UNCHANGED <<image_size, picture, total_sent, body>>
    BY DEF Post
<1>5. CASE Fails(next) /\ clean' = (clean /\ ~gave_up') /\ UNCHANGED <<server, finals, recognised>>
    BY <1>1, <1>2, <1>4, <1>5 DEF server, ServerTyped
<1>6. CASE /\ CheckFacePost(body)
           /\ (Status(body) = "200" /\ Succeeds(next)) \/ Fails(next)
           /\ clean' = ((clean \/ StartsClean(body)) /\ ~gave_up')
    BY <1>1, <1>2, <1>3, <1>4, <1>6, Zenon
<1> QED
    BY <1>5, <1>6 DEF Post

LEMMA StepBodyShape ==
    ASSUME Typed, BodyShape, [Next]_vars
    PROVE  BodyShape'
<1> SUFFICES ASSUME ~gave_up' PROVE BodyShape'
    BY DEF BodyShape
<1>0. /\ ServerTyped /\ picture.number \in Nat /\ total_sent \in Nat
      /\ body \in [size : Int, ids : 0..2, data : Seq(NumberedChunks)] /\ image_size \in Nat
      /\ image_size \in {0, picture.chunks}
      /\ stage \in Connecting \cup {"idle"} => total_sent = 0
    BY DEF Typed, IInv, ServerTyped, BodyTyped, Numbered, Counted
<1>1. CASE StartUpload
    BY <1>1 DEF StartUpload, BodyShape
<1>2. CASE ConnectStep
  <2>1. CASE stage \in {"setup", "start"}
    <3>1. stage' \in {"setup", "start", "clear"}
        BY <1>0, <1>2, <2>1, CommandEffect DEF ConnectStep
    <3> QED
        BY <3>1 DEF BodyShape
  <2>2. CASE stage = "clear"
    <3>1. stage' = "clear" \/ (stage' = "size" /\ body' = EmptyBody)
        BY <1>0, <1>2, <2>2, CommandEffect DEF ConnectStep
    <3>2. Undefined \notin Sizes
        BY ParametersAssumption DEF Undefined
    <3> QED
        BY <3>1, <3>2 DEF BodyShape, EmptyBody
  <2>3. CASE stage = "size"
    <3>1. /\ ~gave_up /\ UNCHANGED picture
          /\ \/ stage' = "id" /\ body' = WithSize(body)
             \/ stage' = "size" /\ body' \in {body, WithSize(body)}
        BY <1>0, <1>2, <2>3, CommandEffect DEF ConnectStep
    <3>2. /\ WithSize(body).data = body.data /\ WithSize(body).size # Undefined
          /\ WithSize(body).size \in Sizes => WithSize(body).size = picture.chunks
        BY <1>0, ParametersAssumption DEF WithSize, Undefined, Unmatched
    <3> QED
        BY <2>3, <3>1, <3>2 DEF BodyShape
  <2>4. CASE stage = "id"
    <3>1. /\ ~gave_up /\ UNCHANGED picture
          /\ \/ stage' = "post" /\ body' = WithId(body)
             \/ stage' = "id" /\ body' \in {body, WithId(body)}
        BY <1>0, <1>2, <2>4, CommandEffect DEF ConnectStep
    <3>2. WithId(body).data = body.data /\ WithId(body).size = body.size /\ WithId(body).ids # 0
        BY <1>0 DEF WithId
    <3> QED
        BY <2>4, <3>1, <3>2 DEF BodyShape
  <2>5. CASE stage = "post"
    <3>1. ~gave_up /\ UNCHANGED <<picture, total_sent, body>> /\ stage' \in {"post", "returned"}
        BY <1>2, <2>5, PostEffect DEF ConnectStep, Typed
    <3>2. EndsAt(picture.number, <<>>, total_sent)
        BY <1>0, NoneEndAt
    <3> QED
        BY <2>5, <3>1, <3>2 DEF BodyShape
  <2> QED
      BY <1>2, <2>1, <2>2, <2>3, <2>4, <2>5 DEF ConnectStep
<1>3. CASE FunctionReturns
  <2>1. CASE stage' = "idle"
      BY <2>1 DEF BodyShape
  <2>2. CASE stage' # "idle"
      BY <1>3, <2>2 DEF FunctionReturns, TakePictureReturns, history, BodyShape
  <2> QED
      BY <2>1, <2>2
<1>4. CASE SendChunk
  <2>1. /\ stage = "streaming" /\ stage' = "data" /\ total_sent' = total_sent + 1
        /\ UNCHANGED <<picture, body, gave_up>>
      BY <1>4 DEF SendChunk, history
  <2>2. total_sent' - 1 = total_sent
      BY <1>0, <2>1
  <2> QED
      BY <2>1, <2>2 DEF BodyShape
<1>5. CASE StreamEnds
    BY <1>5 DEF StreamEnds, TakePictureReturns, BodyShape
<1>6. CASE WriteChunk
  <2>1. PICK next \in {"chunk_id", "returned"} : Command(WithChunk(body), next)
      BY <1>6 DEF WriteChunk
  <2>2. /\ stage = "data" /\ ~gave_up /\ UNCHANGED <<picture, total_sent>>
        /\ \/ stage' \in {"chunk_id", "returned"} /\ body' = WithChunk(body)
           \/ stage' = "data" /\ body' \in {body, WithChunk(body)}
      BY <1>0, <1>6, <2>1, CommandEffect DEF WriteChunk
  <2>3. /\ WithChunk(body).size = body.size /\ WithChunk(body).ids = body.ids
        /\ EndsAt(picture.number, WithChunk(body).data, total_sent)
        /\ WithChunk(body).data # <<>>
      BY <2>2, ChunkIsWritten DEF BodyShape
  <2> QED
      BY <2>2, <2>3 DEF BodyShape
<1>7. CASE SendPayload
  <2>1. CASE stage = "chunk_id"
    <3>1. /\ ~gave_up /\ UNCHANGED <<picture, total_sent>>
          /\ \/ stage' = "chunk_post" /\ body' = WithId(body)
             \/ stage' = "chunk_id" /\ body' \in {body, WithId(body)}
        BY <1>0, <1>7, <2>1, CommandEffect DEF SendPayload
    <3>2. /\ WithId(body).data = body.data /\ WithId(body).size = body.size /\ WithId(body).ids # 0
          /\ body.ids # 0 => WithId(body).ids = 2
        BY <1>0 DEF WithId
    <3> QED
        BY <2>1, <3>1, <3>2 DEF BodyShape
  <2>2. CASE stage = "chunk_post"
    <3>1. ~gave_up /\ UNCHANGED <<picture, total_sent, body>> /\ stage' \in {"chunk_post", "chunk_clear"}
        BY <1>7, <2>2, PostEffect DEF SendPayload, Typed
    <3> QED
        BY <2>2, <3>1 DEF BodyShape
  <2>3. CASE stage = "chunk_clear"
    <3>1. /\ ~gave_up /\ UNCHANGED <<picture, total_sent>>
          /\ \/ stage' = "returned" /\ body' = EmptyBody
             \/ stage' = "chunk_clear" /\ body' \in {body, EmptyBody}
        BY <1>0, <1>7, <2>3, CommandEffect DEF SendPayload
    <3>2. EndsAt(picture.number, <<>>, total_sent)
        BY <1>0, NoneEndAt
    <3> QED
        BY <2>3, <3>1, <3>2 DEF BodyShape, EmptyBody
  <2> QED
      BY <1>7, <2>1, <2>2, <2>3 DEF SendPayload
<1>8. CASE JobStep
    BY <1>8 DEF JobStep, ReadText, WritePicture, PictureNotWritten, ClearText, device, history, BodyShape
<1>9. CASE ServerRestarts
    BY <1>9 DEF ServerRestarts, device, BodyShape
<1>10. CASE UNCHANGED vars
    BY <1>10 DEF vars, device, history, BodyShape
<1> QED
    BY <1>1, <1>2, <1>3, <1>4, <1>5, <1>6, <1>7, <1>8, <1>9, <1>10 DEF Next, DeviceStep

-----------------------------------------------------------------------------
(* An upload starts one recognition                                        *)

(* After it, and until the upload ends, nothing gives the server a size.   *)
RecognisedOnce ==
    recognised /\ ~gave_up =>
      /\ stage \in {"returned", "streaming", "data", "chunk_id", "chunk_post", "chunk_clear"}
      /\ size \in {Undefined, 0}
      /\ body.size # Undefined => body.ids = 2

(* A request that starts a recognition is the first to and carries its own *)
(* picture; it leaves no size and no header to be accepted.                *)
LEMMA RequestRecognisesOnce ==
    ASSUME Typed, BodyShape, RecognisedOnce, ~gave_up, stage \in {"post", "chunk_post"},
           CheckFacePost(body)
    PROVE  /\ finals' # finals => body.data[FinalIndex(body)].picture = picture.number
           /\ recognised => finals' = finals /\ size' = size /\ recognised'
           /\ ~recognised /\ recognised' =>
                 stage = "chunk_post" /\ size' = 0 /\ (body.size # Undefined => body.ids = 2)
<1> DEFINE f == FinalIndex(body)
<1>0. /\ picture.number \in Nat /\ total_sent \in Nat
      /\ body \in [size : Int, ids : 0..2, data : Seq(NumberedChunks)]
      /\ body.data \in Seq(NumberedChunks)
    BY DEF Typed, IInv, BodyTyped, Numbered
<1>1. /\ f = 0 => finals' = finals /\ size' = SizeIn(body)
      /\ f # 0 /\ ~Throws(body) => size' = 0
      /\ Throws(body) => finals' = finals /\ size' = SizeIn(body)
      /\ (f = 0 \/ Throws(body)) => (recognised' <=> recognised)
      /\ recognised => recognised'
    BY Zenon DEF CheckFacePost, SizeAfter
<1>2. CASE stage = "post"
  <2>1. body.data = <<>> /\ ~recognised
      BY <1>2 DEF BodyShape, RecognisedOnce
  <2>2. f = 0
    <3>1. DOMAIN body.data = {}
        BY <2>1
    <3> QED
        BY <3>1, FinalIndexIsOne
  <2> QED
      BY <1>1, <2>1, <2>2
<1>3. CASE stage = "chunk_post"
  <2>1. EndsAt(picture.number, body.data, total_sent) /\ (body.size # Undefined => body.ids = 2)
      BY <1>3 DEF BodyShape
  <2>2. ~HasHeader(body)
      BY <2>1 DEF HasHeader
  <2>3. SizeIn(body) = size
      BY <2>2 DEF SizeIn
  <2>4. recognised => f = 0
    <3> SUFFICES ASSUME recognised PROVE f = 0
        OBVIOUS
    <3>1. size \in {Undefined, 0}
        BY DEF RecognisedOnce
    <3> QED
        BY <1>0, <2>2, <3>1, FinalNeedsSize
  <2>5. f # 0 => body.data[f].picture = picture.number
    <3> SUFFICES ASSUME f # 0 PROVE body.data[f].picture = picture.number
        OBVIOUS
    <3>1. f \in DOMAIN body.data
        BY FinalIndexIsOne
    <3> HIDE DEF f
    <3> DEFINE a == total_sent - Len(body.data)
    <3>2. a \in Nat /\ a <= total_sent /\ body.data = Run(picture.number, a, total_sent)
        BY <1>0, <2>1, EndsAtFacts DEF EndsAt
    <3> HIDE DEF a
    <3>3. \A i \in DOMAIN Run(picture.number, a, total_sent) :
             Run(picture.number, a, total_sent)[i] = [key |-> a + i, picture |-> picture.number]
        BY DEF Run
    <3>4. body.data[f] = [key |-> a + f, picture |-> picture.number]
        BY <3>1, <3>2, <3>3
    <3> QED
        BY <3>4
  <2> HIDE DEF f
  <2>6. finals' # finals => f # 0
      BY <1>1, Zenon
  <2>7. recognised => finals' = finals /\ size' = size /\ recognised'
      BY <1>1, <2>3, <2>4, Zenon
  <2>8. ~recognised /\ recognised' => size' = 0
      BY <1>1, Zenon
  <2> QED
      BY <1>3, <2>1, <2>5, <2>6, <2>7, <2>8 DEF f
<1> QED
    BY <1>2, <1>3

RecognisesOnce ==
    finals' # finals /\ ~gave_up =>
      ~recognised /\ body.data[FinalIndex(body)].picture = picture.number

LEMMA PostRecognisesOnce ==
    ASSUME Typed, BodyShape, RecognisedOnce, stage \in {"post", "chunk_post"},
           NEW next, Post(next), next \in {"returned", "chunk_clear"}
    PROVE  RecognisedOnce' /\ RecognisesOnce
<1>1. RecognisesOnce
  <2> SUFFICES ASSUME finals' # finals, ~gave_up
               PROVE  ~recognised /\ body.data[FinalIndex(body)].picture = picture.number
      BY DEF RecognisesOnce
  <2>1. CheckFacePost(body)
      BY DEF Post
  <2> QED
      BY <2>1, RequestRecognisesOnce
<1>2. RecognisedOnce'
  <2> SUFFICES ASSUME recognised', ~gave_up'
               PROVE  /\ stage' \in {"returned", "streaming", "data", "chunk_id", "chunk_post",
                                     "chunk_clear"}
                      /\ size' \in {Undefined, 0}
                      /\ body'.size # Undefined => body'.ids = 2
      BY Zenon DEF RecognisedOnce
  <2>1. /\ ~gave_up /\ body' = body
        /\ \/ stage' = stage /\ UNCHANGED <<size, recognised>>
           \/ stage' \in {stage, next} /\ CheckFacePost(body)
      BY PostEffect DEF Typed
  <2>2. CASE stage' = stage /\ UNCHANGED <<size, recognised>>
      BY <2>1, <2>2 DEF RecognisedOnce
  <2>3. CASE stage' \in {stage, next} /\ CheckFacePost(body)
    <3>1. CASE recognised
        BY <2>1, <2>3, <3>1, RequestRecognisesOnce DEF RecognisedOnce
    <3>2. CASE ~recognised
        BY <2>1, <2>3, <3>2, RequestRecognisesOnce
    <3> QED
        BY <3>1, <3>2
  <2> QED
      BY <2>1, <2>2, <2>3
<1> QED
    BY <1>1, <1>2

(* A command of the stages after the connection leaves the size and, when  *)
(* the header is still in the body, its two ids.                           *)
LEMMA CommandRecognisesNone ==
    ASSUME Typed, RecognisedOnce, NEW after, NEW next, Command(after, next),
           recognised => /\ next \in {"chunk_id", "chunk_post", "returned"}
                         /\ \/ after \in {EmptyBody, WithId(body)}
                            \/ after = WithChunk(body) /\ stage = "data"
    PROVE  RecognisedOnce' /\ RecognisesOnce
<1>1. finals' = finals
    BY DEF Command
<1>2. RecognisedOnce'
  <2> SUFFICES ASSUME recognised', ~gave_up'
               PROVE  /\ stage' \in {"returned", "streaming", "data", "chunk_id", "chunk_post",
                                     "chunk_clear"}
                      /\ size' \in {Undefined, 0}
                      /\ body'.size # Undefined => body'.ids = 2
      BY Zenon DEF RecognisedOnce
  <2>1. /\ ~gave_up /\ UNCHANGED <<size, recognised>>
        /\ stage' \in {next, stage} /\ body' \in {body, after}
      BY CommandEffect DEF Typed
  <2>2. /\ recognised
        /\ stage \in {"returned", "streaming", "data", "chunk_id", "chunk_post", "chunk_clear"}
        /\ size \in {Undefined, 0} /\ (body.size # Undefined => body.ids = 2)
      BY <2>1 DEF RecognisedOnce
  <2>3. after.size # Undefined => after.ids = 2
    <3>1. CASE after = EmptyBody
        BY <3>1 DEF EmptyBody
    <3>2. CASE after = WithId(body)
      <4>1. after.size = body.size /\ (body.ids # 0 => after.ids = 2)
          BY <3>2 DEF WithId, Typed, IInv, BodyTyped
      <4> QED
          BY <2>2, <4>1
    <3>3. CASE after = WithChunk(body) /\ stage = "data"
      <4>1. after.size = body.size /\ after.ids = body.ids
          BY <3>3, ChunkIsWritten
      <4> QED
          BY <2>2, <4>1
    <3> QED
        BY <2>2, <3>1, <3>2, <3>3
  <2> QED
      BY <2>1, <2>2, <2>3
<1> QED
    BY <1>1, <1>2 DEF RecognisesOnce

LEMMA StepRecognisesOnce ==
    ASSUME Typed, BodyShape, RecognisedOnce, [Next]_vars
    PROVE  RecognisedOnce' /\ RecognisesOnce
<1>1. ASSUME ~recognised', finals' = finals PROVE RecognisedOnce' /\ RecognisesOnce
    BY <1>1, Zenon DEF RecognisedOnce, RecognisesOnce
<1>2. ASSUME gave_up \/ ~recognised, UNCHANGED <<recognised, gave_up, finals>>
      PROVE  RecognisedOnce' /\ RecognisesOnce
    BY <1>2, Zenon DEF RecognisedOnce, RecognisesOnce
<1>3. CASE StartUpload
  <2>1. stage = "idle" /\ UNCHANGED <<recognised, gave_up, finals>>
      BY <1>3 DEF StartUpload, history
  <2>2. gave_up \/ ~recognised
      BY <2>1 DEF RecognisedOnce
  <2> QED
      BY <1>2, <2>1, <2>2, Zenon
<1>4. CASE ConnectStep /\ stage # "post"
  <2>1. PICK after, next : Command(after, next)
      BY <1>4 DEF ConnectStep
  <2>2. stage \notin {"returned", "streaming", "data", "chunk_id", "chunk_post", "chunk_clear"}
      BY <1>4 DEF ConnectStep
  <2>3. CASE recognised
    <3>1. gave_up
        BY <2>2, <2>3 DEF RecognisedOnce
    <3>2. gave_up' /\ finals' = finals
        BY <2>1, <3>1, Zenon DEF Command, Fails, Succeeds
    <3> QED
        BY <3>2, Zenon DEF RecognisedOnce, RecognisesOnce
  <2>4. CASE ~recognised
      BY <2>1, <2>4, CommandRecognisesNone
  <2> QED
      BY <2>3, <2>4
<1>5. CASE ConnectStep /\ stage = "post"
    BY <1>5, PostRecognisesOnce DEF ConnectStep
<1>6. CASE FunctionReturns \/ StreamEnds
  <2>1. CASE TakePictureReturns
    <3>1. ~recognised' /\ finals' = finals
        BY <2>1 DEF TakePictureReturns
    <3> QED
        BY <1>1, <3>1
  <2>2. CASE ~TakePictureReturns
    <3>1. stage' = "streaming" /\ UNCHANGED <<body, size, recognised, gave_up, finals>>
        BY <1>6, <2>2 DEF FunctionReturns, StreamEnds, server, history
    <3> QED
        BY <3>1 DEF RecognisedOnce, RecognisesOnce
  <2> QED
      BY <2>1, <2>2
<1>7. CASE SendChunk
  <2>1. stage' = "data" /\ UNCHANGED <<body, size, recognised, gave_up, finals>>
      BY <1>7 DEF SendChunk, server, history
  <2> QED
      BY <2>1 DEF RecognisedOnce, RecognisesOnce
<1>8. CASE WriteChunk
  <2>1. PICK next \in {"chunk_id", "returned"} : Command(WithChunk(body), next)
      BY <1>8 DEF WriteChunk
  <2>2. stage = "data"
      BY <1>8 DEF WriteChunk
  <2> QED
      BY <2>1, <2>2, CommandRecognisesNone
<1>9. CASE SendPayload
  <2>1. CASE stage = "chunk_post"
    <3>1. Post("chunk_clear")
        BY <1>9, <2>1 DEF SendPayload
    <3> QED
        BY <2>1, <3>1, PostRecognisesOnce
  <2>2. CASE stage = "chunk_id"
    <3>1. Command(WithId(body), "chunk_post")
        BY <1>9, <2>2 DEF SendPayload
    <3> QED
        BY <2>2, <3>1, CommandRecognisesNone
  <2>3. CASE stage = "chunk_clear"
      BY <1>9, <2>3, CommandRecognisesNone DEF SendPayload
  <2> QED
      BY <1>9, <2>1, <2>2, <2>3 DEF SendPayload
<1>10. CASE JobStep
  <2>1. UNCHANGED <<stage, body, size, recognised, gave_up, finals>>
      BY <1>10 DEF JobStep, ReadText, WritePicture, PictureNotWritten, ClearText, device, history
  <2> QED
      BY <2>1 DEF RecognisedOnce, RecognisesOnce
<1>11. CASE ServerRestarts
  <2>1. size' = Undefined /\ UNCHANGED <<stage, body, recognised, gave_up, finals>>
      BY <1>11 DEF ServerRestarts, device
  <2> QED
      BY <2>1 DEF RecognisedOnce, RecognisesOnce
<1>12. CASE UNCHANGED vars
  <2>1. UNCHANGED <<stage, body, size, recognised, gave_up, finals>>
      BY <1>12 DEF vars, device, server, history
  <2> QED
      BY <2>1 DEF RecognisedOnce, RecognisesOnce
<1> QED
    BY <1>3, <1>4, <1>5, <1>6, <1>7, <1>8, <1>9, <1>10, <1>11, <1>12 DEF Next, DeviceStep

-----------------------------------------------------------------------------
(* A picture that found the server clean                                   *)

Whole(number, m) == Run(number, 0, m)

(* The server has the first Len(text) chunks, in order and once.           *)
Receiving ==
    /\ size = picture.chunks
    /\ oldKey = 1..Len(text)
    /\ text = Whole(picture.number, Len(text))
    /\ Len(text) < picture.chunks
    /\ jobs = {}

(* No chunk is missing between those and the ones in the module's body.    *)
NoneMissing ==
    /\ Len(text) <= total_sent
    /\ stage \in {"returned", "streaming", "chunk_id", "chunk_post"} =>
          total_sent - Len(body.data) <= Len(text)
    /\ stage = "chunk_clear" => Len(text) = total_sent
    /\ stage = "data" =>
          /\ Len(text) < total_sent
          /\ \/ /\ EndsAt(picture.number, body.data, total_sent - 1)
                /\ (total_sent - 1) - Len(body.data) <= Len(text)
             \/ /\ EndsAt(picture.number, body.data, total_sent) /\ body.data # <<>>
                /\ total_sent - Len(body.data) <= Len(text)

Received == size = 0 /\ total_sent = picture.chunks

CleanUpload ==
    clean =>
      /\ ~gave_up
      /\ stage \in {"post", "returned", "streaming", "data", "chunk_id", "chunk_post", "chunk_clear"}
      /\ \/ Receiving /\ NoneMissing
         \/ Received /\ stage \in {"chunk_post", "chunk_clear", "returned", "streaming"}
      /\ stage = "post" => HasHeader(body) /\ body.size = picture.chunks /\ text = <<>>

(* The request with the size.                                              *)
LEMMA HeaderIsReceived ==
    ASSUME Typed, CheckFacePost(body), HasHeader(body), body.size \in Sizes, body.data = <<>>,
           text = <<>>, jobs = {}
    PROVE  /\ size' = body.size /\ oldKey' = {} /\ text' = <<>> /\ jobs' = {} /\ finals' = finals
<1>1. SizeIn(body) = body.size /\ KeysIn(body) = {} /\ body.ids = 1
    BY DEF HasHeader, SizeIn, KeysIn
<1>2. ~Throws(body)
    BY <1>1 DEF Throws
<1>3. DOMAIN body.data = {} /\ Len(body.data) = 0
    BY DEF Typed
<1>4. FinalIndex(body) = 0
    BY <1>3 DEF FinalIndex
<1>5. KeysOf(body.data) = {}
    BY <1>3 DEF KeysOf, ToSet
<1>6. NewChunks(body.data, {}) = <<>>
  <2>1. PICK f : IsTaken(f, body.data, {}, 0) /\ NewChunks(body.data, {}) = f[0]
      BY <1>3, NewChunksTaken
  <2>2. 0 \in 0..0
      OBVIOUS
  <2> QED
      BY <2>1, <2>2 DEF IsTaken
<1>7. Appended(body) = <<>> /\ KeysAfter(body) = {} /\ SizeAfter(body) = body.size
    BY <1>1, <1>4, <1>5, <1>6 DEF Appended, KeysAfter, SizeAfter
<1> QED
    BY <1>2, <1>4, <1>7 DEF CheckFacePost

(* A request with chunks of which the server has none but the first ones.  *)
LEMMA ChunksAreReceived ==
    ASSUME Typed, CheckFacePost(body), ~HasHeader(body), body.ids # 0, Receiving,
           EndsAt(picture.number, body.data, total_sent),
           total_sent - Len(body.data) <= Len(text), Len(text) <= total_sent
    PROVE  /\ total_sent < picture.chunks =>
                /\ size' = picture.chunks /\ oldKey' = 1..total_sent
                /\ text' = Whole(picture.number, total_sent) /\ jobs' = {} /\ finals' = finals
           /\ total_sent = picture.chunks =>
                size' = 0 /\ text' = Whole(picture.number, picture.chunks)
<1> DEFINE p == picture.number
           c == picture.chunks
           t == total_sent
           k == Len(text)
           a == total_sent - Len(body.data)
           data == body.data
<1>1. /\ data \in Seq(NumberedChunks) /\ text \in Seq(NumberedChunks) /\ p \in Nat /\ c \in Nat
      /\ t \in Nat /\ k \in Nat /\ t <= c /\ k < c /\ k <= t /\ a <= k
      /\ size = c /\ oldKey = 1..k /\ text = Run(p, 0, k) /\ jobs = {}
    BY LenProperties DEF Typed, IInv, BodyTyped, Numbered, ServerTyped, Counted, Receiving, Whole
<1>2. a \in Nat /\ a <= t /\ data = Run(p, a, t) /\ Len(data) = t - a /\ Len(data) \in Nat
  <2>1. a \in Nat /\ a <= t
      BY <1>1, EndsAtFacts
  <2>2. Len(data) \in Nat
      BY <1>1, LenProperties
  <2> QED
      BY <1>1, <2>1, <2>2 DEF EndsAt
<1> HIDE DEF p, c, t, k, a, data
<1>3. DOMAIN data = 1..(t - a) /\ \A i \in 1..(t - a) : data[i].key = a + i
  <2>1. /\ DOMAIN Run(p, a, t) = 1..(t - a)
        /\ \A i \in 1..(t - a) : Run(p, a, t)[i] = [key |-> a + i, picture |-> p]
    <3>1. p \in Nat /\ a \in Nat /\ t \in Nat /\ a <= t
        BY <1>1, <1>2
    <3> QED
        BY <3>1, RunFacts
  <2>2. ASSUME NEW i \in 1..(t - a) PROVE data[i].key = a + i
    <3>1. data[i] = [key |-> a + i, picture |-> p]
        BY <1>2, <2>1
    <3> QED
        BY <3>1
  <2> QED
      BY <1>2, <2>1, <2>2
<1>4. KeysOf(data) = (a + 1)..t
    BY <1>1, <1>2, RunKeys
<1>5. SizeIn(body) = c /\ KeysIn(body) = 1..k
    BY <1>1 DEF SizeIn, KeysIn
<1>6. ~Throws(body)
    BY <1>1, <1>5 DEF Throws, Undefined
<1>7. NewChunks(data, 1..k) = Run(p, k, t)
    BY <1>1, <1>2, NewChunksOfRun
<1>8. text \o Run(p, k, t) = Run(p, 0, t)
    BY <1>1, RunConcat
<1>9. CASE t < c
  <2>1. FinalIndex(body) = 0
    <3> SUFFICES ASSUME FinalIndex(body) # 0 PROVE FALSE
        OBVIOUS
    <3>1. FinalIndex(body) \in DOMAIN data /\ data[FinalIndex(body)].key = c
        BY <1>5, FinalIndexIsOne DEF data
    <3>2. FinalIndex(body) \in 1..(t - a) /\ a + FinalIndex(body) = c
        BY <1>3, <3>1
    <3> QED
        BY <1>1, <1>2, <1>9, <3>2
  <2>2. Appended(body) = Run(p, k, t)
      BY <1>5, <1>7, <2>1 DEF Appended, data
  <2>3. KeysAfter(body) = 1..t
    <3>1. 1..k \cup (a + 1)..t = 1..t
        BY <1>1, <1>2
    <3> QED
        BY <1>4, <1>5, <2>1, <3>1 DEF KeysAfter, data
  <2>4. SizeAfter(body) = c
      BY <1>5, <2>1 DEF SizeAfter
  <2>5. /\ size' = c /\ oldKey' = 1..t /\ text' = Run(p, 0, t) /\ jobs' = {} /\ finals' = finals
      BY <1>1, <1>6, <1>8, <2>1, <2>2, <2>3, <2>4 DEF CheckFacePost
  <2> QED
      BY <1>1, <1>9, <2>5 DEF Whole, p, c, t
<1>10. CASE t = c
  <2>1. c - a \in 1..(t - a) /\ a + (c - a) = c /\ t - a = c - a
      BY <1>1, <1>2, <1>10
  <2>2. c - a \in DOMAIN data /\ data[c - a].key = c
      BY <1>3, <2>1
  <2>3. c \notin 1..k
      BY <1>1
  <2> DEFINE final == {i \in DOMAIN data : data[i].key = c /\ c \notin 1..k}
  <2>4. FinalIndex(body) = CHOOSE i \in final : TRUE
    <3>1. final # {}
        BY <2>2, <2>3
    <3>2. FinalIndex(body) = IF final = {} THEN 0 ELSE CHOOSE i \in final : TRUE
        BY <1>5 DEF FinalIndex, data
    <3> QED
        BY <3>1, <3>2
  <2>5. FinalIndex(body) \in 1..(t - a) /\ data[FinalIndex(body)].key = c
    <3>1. (CHOOSE i \in final : TRUE) \in final
        BY <2>2, <2>3
    <3> QED
        BY <1>3, <2>4, <3>1
  <2> HIDE DEF final
  <2>6. FinalIndex(body) = Len(data) /\ FinalIndex(body) # 0 /\ FinalIndex(body) \in Nat
    <3>1. a + FinalIndex(body) = c
        BY <1>3, <2>5
    <3> QED
        BY <1>1, <1>2, <1>10, <2>5, <3>1
  <2>7. SubSeq(data, 1, Len(data)) = data
      BY <1>1, SubSeqFull
  <2>8. SubSeq(data, Len(data) + 1, Len(data)) = <<>>
    <3>1. Len(data) + 1 \in Int /\ Len(data) \in Int /\ Len(data) < Len(data) + 1
        BY <1>2
    <3> QED
        BY <3>1, SubSeqEmpty
  <2>9. Appended(body) = Run(p, k, t) \o <<>>
    <3>1. Appended(body) = NewChunks(SubSeq(data, 1, Len(data)), 1..k)
                             \o SubSeq(data, Len(data) + 1, Len(data))
        BY <1>5, <2>6 DEF Appended, data
    <3> QED
        BY <1>7, <2>7, <2>8, <3>1
  <2>10. Run(p, k, t) \o <<>> = Run(p, k, t)
    <3>1. Run(p, k, t) \in Seq(NumberedChunks)
        BY <1>1, RunFacts
    <3> QED
        BY <3>1, ConcatEmptySeq
  <2>11. SizeAfter(body) = 0
      BY <2>6 DEF SizeAfter
  <2>12. size' = 0 /\ text' = Run(p, 0, t)
      BY <1>6, <1>8, <2>9, <2>10, <2>11 DEF CheckFacePost
  <2> QED
      BY <1>1, <1>10, <2>12 DEF Whole, p, c, t
<1> QED
    BY <1>1, <1>9, <1>10 DEF t, c

(* The next state of a clean upload is one, and a recognition it starts is *)
(* of the whole picture.                                                   *)
StaysClean ==
    /\ CleanUpload'
    /\ finals' # finals /\ clean' => text' = Whole(picture.number, picture.chunks)

LEMMA StepCleanUpload ==
    ASSUME Typed, BodyShape, CleanUpload, [Next]_vars
    PROVE  StaysClean
<1>0. /\ ServerTyped /\ picture.number \in Nat /\ picture.chunks \in Nat
      /\ total_sent \in Nat /\ total_sent <= picture.chunks
      /\ body \in [size : Int, ids : 0..2, data : Seq(NumberedChunks)]
      /\ Len(body.data) \in Nat /\ Len(text) \in Nat
      /\ stage \in Connecting \cup {"idle"} => total_sent = 0
    BY LenProperties DEF Typed, IInv, ServerTyped, BodyTyped, Numbered, Counted
<1>1. ~clean' => StaysClean
    BY Zenon DEF CleanUpload, StaysClean
<1>2. ASSUME UNCHANGED <<stage, picture, total_sent, body, size, oldKey, text, jobs, finals>>,
             clean' = clean, gave_up' = gave_up
      PROVE  StaysClean
  <2>1. (Receiving' <=> Receiving) /\ (NoneMissing' <=> NoneMissing) /\ (Received' <=> Received)
      BY <1>2 DEF Receiving, NoneMissing, Received
  <2> QED
      BY <1>2, <2>1 DEF CleanUpload, HasHeader, StaysClean
<1>3. CASE StartUpload
  <2>1. stage = "idle" /\ clean' = clean /\ finals' = finals
      BY <1>3 DEF StartUpload, history
  <2> QED
      BY <1>1, <2>1, Zenon DEF CleanUpload
<1>4. CASE ConnectStep /\ stage # "post"
  <2>1. stage \in Connecting \ {"post"} /\ \E after, next : Command(after, next)
      BY <1>4 DEF ConnectStep, Connecting
  <2>2. clean' => clean
      BY <2>1 DEF Command
  <2>3. ~clean
      BY <2>1 DEF CleanUpload, Connecting
  <2> QED
      BY <1>1, <2>2, <2>3, Zenon
<1>5. CASE ConnectStep /\ stage = "post"
  <2>1. Post("returned")
      BY <1>5 DEF ConnectStep
  <2>2. CASE gave_up'
    <3>1. ~clean'
        BY <2>1, <2>2 DEF Post
    <3> QED
        BY <1>1, <3>1, Zenon
  <2>3. CASE ~gave_up'
    <3>1. /\ ~gave_up /\ gave_up' = gave_up /\ UNCHANGED <<picture, total_sent, body>> /\ stage' \in {"post", "returned"}
          /\ \/ /\ stage' = stage /\ clean' = clean
                /\ UNCHANGED <<size, oldKey, text, jobs, finals>>
             \/ clean' = (clean \/ StartsClean(body)) /\ CheckFacePost(body)
        BY <1>5, <2>1, <2>3, PostEffect, <1>0
    <3>2. CASE stage' = stage /\ clean' = clean /\ UNCHANGED <<size, oldKey, text, jobs, finals>>
      <4>1. UNCHANGED <<stage, picture, total_sent, body, size, oldKey, text, jobs, finals>>
          BY <3>1, <3>2
      <4> QED
          BY <1>2, <3>1, <3>2, <4>1, Zenon
    <3>3. CASE clean' = (clean \/ StartsClean(body)) /\ CheckFacePost(body)
      <4> SUFFICES ASSUME clean' PROVE StaysClean
          BY <1>1, Zenon
      <4>1. body.data = <<>> /\ body.ids # 0 /\ total_sent = 0
          BY <1>0, <1>5, <3>1 DEF BodyShape, Connecting
      <4>2. /\ HasHeader(body) /\ body.size = picture.chunks /\ picture.chunks \in Sizes
            /\ text = <<>> /\ jobs = {}
        <5>1. CASE clean
          <6>1. HasHeader(body) /\ body.size = picture.chunks /\ text = <<>> /\ jobs = {}
              BY <1>5, <5>1 DEF CleanUpload, Receiving
          <6>2. picture.chunks \in Sizes
              BY <1>5 DEF Typed, Counted
          <6> QED
              BY <6>1, <6>2
        <5>2. CASE StartsClean(body)
            BY <1>5, <3>1, <5>2 DEF StartsClean, BodyShape
        <5> QED
            BY <3>3, <5>1, <5>2
      <4>3. /\ size' = picture.chunks /\ oldKey' = {} /\ text' = <<>> /\ jobs' = {} /\ finals' = finals
          BY <3>3, <4>1, <4>2, HeaderIsReceived
      <4>4. Receiving'
        <5>1. Len(<<>>) = 0 /\ 1..0 = {}
            OBVIOUS
        <5>2. Whole(picture.number, 0) = <<>>
            BY <1>0, RunIsEmpty DEF Whole
        <5>3. 0 < picture.chunks
          <6>1. picture.chunks \in Nat \ {0}
              BY <4>2, ParametersAssumption
          <6> QED
              BY <6>1
        <5> QED
            BY <3>1, <4>3, <5>1, <5>2, <5>3 DEF Receiving
      <4>5. NoneMissing'
        <5>1. Len(<<>>) = 0
            OBVIOUS
        <5> QED
            BY <3>1, <4>1, <4>3, <5>1 DEF NoneMissing
      <4> QED
          BY <2>3, <3>1, <4>2, <4>3, <4>4, <4>5 DEF CleanUpload, HasHeader, StaysClean
    <3> QED
        BY <3>1, <3>2, <3>3
  <2> QED
      BY <2>2, <2>3
<1>6. CASE FunctionReturns
  <2>1. CASE ~clean'
      BY <1>1, <2>1, Zenon
  <2>2. CASE clean'
    <3>1. /\ stage = "returned" /\ stage' = "streaming"
          /\ UNCHANGED <<picture, total_sent, body, size, oldKey, text, jobs, finals, gave_up, clean>>
        BY <1>6, <2>2 DEF FunctionReturns, TakePictureReturns, server, history
    <3>2. (Receiving' <=> Receiving) /\ (Received' <=> Received) /\ (NoneMissing => NoneMissing')
        BY <3>1 DEF Receiving, Received, NoneMissing
    <3> QED
        BY <3>1, <3>2 DEF CleanUpload, StaysClean
  <2> QED
      BY <2>1, <2>2
<1>7. CASE SendChunk
  <2>1. /\ stage = "streaming" /\ stage' = "data" /\ total_sent' = total_sent + 1
        /\ total_sent < picture.chunks
        /\ UNCHANGED <<picture, body, size, oldKey, text, jobs, finals, gave_up, clean>>
      BY <1>7 DEF SendChunk, server, history
  <2> SUFFICES ASSUME clean PROVE StaysClean
      BY <2>1 DEF CleanUpload, StaysClean
  <2>2. Receiving /\ NoneMissing /\ ~gave_up
      BY <1>0, <2>1 DEF CleanUpload, Received
  <2>3. EndsAt(picture.number, body.data, total_sent)
      BY <2>1, <2>2 DEF BodyShape
  <2>4. Receiving'
      BY <2>1, <2>2 DEF Receiving
  <2>5. NoneMissing'
    <3>1. total_sent' - 1 = total_sent /\ Len(text) < total_sent' /\ Len(text) <= total_sent'
        BY <1>0, <2>1, <2>2 DEF NoneMissing
    <3>2. total_sent - Len(body.data) <= Len(text)
        BY <2>1, <2>2 DEF NoneMissing
    <3> QED
        BY <2>1, <2>3, <3>1, <3>2 DEF NoneMissing
  <2> QED
      BY <2>1, <2>2, <2>4, <2>5 DEF CleanUpload, StaysClean
<1>8. CASE StreamEnds
  <2>1. ~clean'
      BY <1>8 DEF StreamEnds, TakePictureReturns
  <2> QED
      BY <1>1, <2>1, Zenon
<1>9. CASE WriteChunk
  <2>1. PICK next \in {"chunk_id", "returned"} : Command(WithChunk(body), next)
      BY <1>9 DEF WriteChunk
  <2>2. stage = "data" /\ finals' = finals /\ (clean' => clean /\ ~gave_up')
      BY <1>9, <2>1 DEF WriteChunk, Command
  <2> SUFFICES ASSUME clean' PROVE StaysClean
      BY <1>1, Zenon
  <2>3. /\ ~gave_up' /\ UNCHANGED <<picture, total_sent, size, oldKey, text, jobs>>
        /\ \/ stage' \in {"chunk_id", "returned"} /\ body' = WithChunk(body)
           \/ stage' = "data" /\ body' \in {body, WithChunk(body)}
      BY <1>0, <2>1, <2>2, CommandEffect
  <2>4. Receiving /\ NoneMissing
      BY <2>2 DEF CleanUpload
  <2>5. Receiving'
      BY <2>3, <2>4 DEF Receiving
  <2>6. /\ EndsAt(picture.number, WithChunk(body).data, total_sent) /\ WithChunk(body).data # <<>>
        /\ total_sent - Len(WithChunk(body).data) <= Len(text)
    <3>1. CASE /\ EndsAt(picture.number, body.data, total_sent - 1)
               /\ (total_sent - 1) - Len(body.data) <= Len(text)
      <4>1. /\ EndsAt(picture.number, WithChunk(body).data, total_sent) /\ WithChunk(body).data # <<>>
            /\ Len(WithChunk(body).data) = Len(body.data) + 1
          BY <2>2, <3>1, ChunkIsWritten
      <4>2. total_sent - (Len(body.data) + 1) <= Len(text)
          BY <1>0, <3>1
      <4> QED
          BY <4>1, <4>2
    <3>2. CASE /\ EndsAt(picture.number, body.data, total_sent) /\ body.data # <<>>
               /\ total_sent - Len(body.data) <= Len(text)
      <4>1. WithChunk(body) = body
          BY <2>2, <3>2, ChunkIsWritten
      <4> QED
          BY <3>2, <4>1
    <3> QED
        BY <2>2, <2>4, <3>1, <3>2 DEF NoneMissing
  <2>7. NoneMissing'
      BY <2>2, <2>3, <2>4, <2>6 DEF NoneMissing
  <2> QED
      BY <2>2, <2>3, <2>5, <2>7 DEF CleanUpload, StaysClean
<1>10. CASE SendPayload /\ stage # "chunk_post"
  <2>1. PICK after \in {WithId(body), EmptyBody}, next \in {"chunk_post", "returned"} :
          /\ Command(after, next)
          /\ \/ stage = "chunk_id" /\ after = WithId(body) /\ next = "chunk_post"
             \/ stage = "chunk_clear" /\ after = EmptyBody /\ next = "returned"
      BY <1>10 DEF SendPayload
  <2>2. finals' = finals /\ (clean' => clean /\ ~gave_up')
      BY <2>1 DEF Command
  <2> SUFFICES ASSUME clean' PROVE StaysClean
      BY <1>1, Zenon
  <2>3. /\ ~gave_up' /\ UNCHANGED <<picture, total_sent, size, oldKey, text, jobs>>
        /\ \/ stage' = next /\ body' = after
           \/ stage' = stage /\ body' \in {body, after}
      BY <1>0, <2>1, <2>2, CommandEffect
  <2>4. (Receiving' <=> Receiving) /\ (Received' <=> Received)
      BY <2>3 DEF Receiving, Received
  <2>5. WithId(body).data = body.data /\ EmptyBody.data = <<>> /\ Len(<<>>) = 0
      BY <1>0 DEF WithId, EmptyBody
  <2>6. NoneMissing => NoneMissing'
      BY <1>0, <2>1, <2>3, <2>5 DEF NoneMissing
  <2> QED
      BY <2>1, <2>2, <2>3, <2>4, <2>6 DEF CleanUpload, StaysClean
<1>11. CASE SendPayload /\ stage = "chunk_post"
  <2>1. Post("chunk_clear")
      BY <1>11 DEF SendPayload
  <2> SUFFICES ASSUME clean' PROVE StaysClean
      BY <1>1, Zenon
  <2>2. ~gave_up'
      BY <2>1 DEF Post
  <2>3. /\ ~gave_up /\ gave_up' = gave_up /\ UNCHANGED <<picture, total_sent, body>>
        /\ \/ /\ stage' = stage /\ clean' = clean
              /\ UNCHANGED <<size, oldKey, text, jobs, finals>>
           \/ /\ stage' \in {"chunk_post", "chunk_clear"} /\ clean' = (clean \/ StartsClean(body))
              /\ CheckFacePost(body)
      BY <1>0, <1>11, <2>1, <2>2, PostEffect
  <2>4. CASE stage' = stage /\ clean' = clean /\ UNCHANGED <<size, oldKey, text, jobs, finals>>
    <3>1. UNCHANGED <<stage, picture, total_sent, body, size, oldKey, text, jobs, finals>>
        BY <2>3, <2>4
    <3> QED
        BY <1>2, <2>3, <2>4, <3>1, Zenon
  <2>5. CASE /\ stage' \in {"chunk_post", "chunk_clear"} /\ clean' = (clean \/ StartsClean(body))
             /\ CheckFacePost(body)
    <3>1. ~HasHeader(body) /\ body.ids # 0 /\ EndsAt(picture.number, body.data, total_sent)
        BY <1>11, <2>3 DEF BodyShape, HasHeader
    <3>2. clean
        BY <2>5, <3>1 DEF StartsClean
    <3>3. CASE Receiving /\ NoneMissing
      <4>1. total_sent - Len(body.data) <= Len(text) /\ Len(text) <= total_sent
          BY <1>11, <3>3 DEF NoneMissing
      <4>2. /\ total_sent < picture.chunks =>
                 /\ size' = picture.chunks /\ oldKey' = 1..total_sent
                 /\ text' = Whole(picture.number, total_sent) /\ jobs' = {} /\ finals' = finals
            /\ total_sent = picture.chunks =>
                 size' = 0 /\ text' = Whole(picture.number, picture.chunks)
          BY <2>5, <3>1, <3>3, <4>1, ChunksAreReceived
      <4>3. CASE total_sent < picture.chunks
        <5>1. Len(Whole(picture.number, total_sent)) = total_sent
          <6>1. 0 \in Nat /\ 0 <= total_sent /\ total_sent - 0 = total_sent
              BY <1>0
          <6>2. Len(Run(picture.number, 0, total_sent)) = total_sent - 0
              BY <1>0, <6>1, RunFacts, Zenon
          <6> QED
              BY <6>1, <6>2 DEF Whole
        <5>2. Receiving'
            BY <2>3, <4>2, <4>3, <5>1 DEF Receiving
        <5>3. NoneMissing'
            BY <1>0, <2>3, <2>5, <4>2, <4>3, <5>1 DEF NoneMissing
        <5> QED
            BY <2>2, <2>5, <4>2, <4>3, <5>2, <5>3 DEF CleanUpload, StaysClean
      <4>4. CASE total_sent = picture.chunks
        <5>1. Received'
            BY <2>3, <4>2, <4>4 DEF Received
        <5> QED
            BY <2>2, <2>5, <4>2, <4>4, <5>1 DEF CleanUpload, StaysClean
      <4> QED
          BY <1>0, <4>3, <4>4
    <3>4. CASE Received
      <4>1. FinalIndex(body) = 0
          BY <1>0, <3>1, <3>4, FinalNeedsSize DEF Received
      <4>2. SizeIn(body) = 0
          BY <3>1, <3>4 DEF SizeIn, Received
      <4>3. size' = 0 /\ finals' = finals
          BY <2>5, <4>1, <4>2 DEF CheckFacePost, SizeAfter
      <4>4. Received'
          BY <2>3, <3>4, <4>3 DEF Received
      <4> QED
          BY <2>2, <2>5, <4>3, <4>4 DEF CleanUpload, StaysClean
    <3> QED
        BY <3>2, <3>3, <3>4 DEF CleanUpload
  <2> QED
      BY <2>3, <2>4, <2>5
<1>12. CASE JobStep
  <2>1. /\ jobs # {} /\ finals' = finals
        /\ UNCHANGED <<stage, picture, total_sent, body, size, gave_up, clean>>
      BY <1>12 DEF JobStep, ReadText, WritePicture, PictureNotWritten, ClearText, device, history
  <2> SUFFICES ASSUME clean PROVE StaysClean
      BY <2>1 DEF CleanUpload, StaysClean
  <2>2. Received /\ Received'
      BY <2>1 DEF CleanUpload, Receiving, Received
  <2> QED
      BY <2>1, <2>2 DEF CleanUpload, Receiving, StaysClean
<1>13. CASE ServerRestarts
  <2>1. ~clean'
      BY <1>13 DEF ServerRestarts
  <2> QED
      BY <1>1, <2>1, Zenon
<1>14. CASE UNCHANGED vars
  <2>1. /\ UNCHANGED <<stage, picture, total_sent, body, size, oldKey, text, jobs, finals>>
        /\ clean' = clean /\ gave_up' = gave_up
      BY <1>14 DEF vars, device, server, history
  <2> QED
      BY <1>2, <2>1, Zenon
<1>15. \/ StartUpload \/ ConnectStep \/ FunctionReturns \/ SendChunk \/ StreamEnds
       \/ WriteChunk \/ SendPayload \/ JobStep \/ ServerRestarts \/ UNCHANGED vars
    BY DEF Next, DeviceStep
<1> QED
    BY <1>3, <1>4, <1>5, <1>6, <1>7, <1>8, <1>9, <1>10, <1>11, <1>12, <1>13, <1>14, <1>15, Zenon

-----------------------------------------------------------------------------
(* Whatever the module and the network do, a function of the upload has at *)
(* most five failures more than the tries it was given.                    *)
THEOREM UploadGivesUpInTime == Spec => []FailuresAreBounded
<1>1. Init => WithinBudget
    BY ParametersAssumption DEF Init, WithinBudget, Excess, Stages
<1>2. WithinBudget /\ [Next]_vars => WithinBudget'
    BY StepWithinBudget
<1>3. WithinBudget => FailuresAreBounded
    BY ParametersAssumption DEF WithinBudget, FailuresAreBounded, Excess, Stages
<1> QED
    BY <1>1, <1>2, <1>3, PTL DEF Spec

(* An upload none of whose stages was given up starts at most one          *)
(* recognition, and with a chunk of its own picture, for any number of     *)
(* tries, sizes of pictures and of payloads, uploads and restarts.         *)
THEOREM UploadRecognisesOnce == Spec => OneRecognitionPerUpload
<1>1. Init => BodyShape /\ RecognisedOnce
    BY DEF Init, BodyShape, RecognisedOnce
<1>2. Typed /\ BodyShape /\ [Next]_vars => BodyShape'
    BY StepBodyShape
<1>3. Typed /\ BodyShape /\ RecognisedOnce /\ [Next]_vars => RecognisedOnce' /\ RecognisesOnce
    BY StepRecognisesOnce
<1>4. RecognisesOnce =>
        [ finals' # finals /\ ~gave_up =>
            ~recognised /\ body.data[FinalIndex(body)].picture = picture.number ]_vars
    BY DEF RecognisesOnce
<1> QED
    BY <1>1, <1>2, <1>3, <1>4, TypedInvariance, PTL DEF Spec, OneRecognitionPerUpload

(* Every variable keeps its type; the chunks counted are never more than   *)
(* the picture has, and what has been written to the module's body since   *)
(* the last request never exceeds its limit by more than the tries.        *)
THEOREM TypeCorrect == Spec => []TypeOK
<1>1. Typed => TypeOK
  <2> SUFFICES ASSUME Typed PROVE TypeOK
      OBVIOUS
  <2>1. ASSUME NEW s \in Seq(NumberedChunks) PROVE s \in Seq(Chunks)
    <3>1. ASSUME NEW i \in 1..Len(s) PROVE s[i] \in Chunks
      <4>1. s[i] \in NumberedChunks
          BY ElementOfSeq
      <4>2. NumberedChunks \subseteq Chunks
          BY DEF NumberedChunks, Chunks, Keys
      <4> QED
          BY <4>1, <4>2
    <3>2. Len(s) \in Nat /\ s = [i \in 1..Len(s) |-> s[i]]
        BY LenProperties
    <3> QED
        BY <3>1, <3>2
  <2>2. body \in [size : Int, ids : 0..2, data : Seq(Chunks)] /\ text \in Seq(Chunks)
      BY <2>1 DEF Typed, IInv, BodyTyped, ServerTyped
  <2>3. total_sent \in 0..picture.chunks /\ image_size \in Nat
      BY DEF Typed, IInv, Numbered, Counted
  <2>4. current_payload \in 0..(MaxPayload + NumTries)
      BY ParametersAssumption DEF Typed, WithinBudget, PayloadBounded, Excess, Stages
  <2>5. stage \in Stages /\ tries \in Nat
      BY DEF Typed, WithinBudget
  <2> QED
      BY <2>2, <2>3, <2>4, <2>5 DEF Typed, ServerTyped, Counted, TypeOK
<1> QED
    BY <1>1, TypedInvariance, PTL

(* A picture that found the server clean and whose stages were all         *)
(* answered in the end is in the file whole, in order and once when its    *)
(* recognition starts, however many answers were lost and commands and     *)
(* requests repeated.                                                      *)
THEOREM PicturesAreWhole == Spec => WholePictureRecognised
<1> DEFINE Recognised ==
      finals' # finals /\ clean' =>
        text' = [i \in 1..picture.chunks |-> [key |-> i, picture |-> picture.number]]
<1>1. Init => BodyShape /\ CleanUpload
    BY DEF Init, BodyShape, CleanUpload
<1>2. Typed /\ BodyShape /\ [Next]_vars => BodyShape'
    BY StepBodyShape
<1>3. Typed /\ BodyShape /\ CleanUpload /\ [Next]_vars => CleanUpload'
    BY StepCleanUpload DEF StaysClean
<1>4. Typed /\ BodyShape /\ CleanUpload /\ [Next]_vars => [Recognised]_vars
  <2>1. Typed => Whole(picture.number, picture.chunks)
                   = [i \in 1..picture.chunks |-> [key |-> i, picture |-> picture.number]]
      BY DEF Typed, IInv, Numbered, Counted, Whole, Run
  <2> QED
      BY <2>1, StepCleanUpload DEF StaysClean
<1> QED
    BY <1>1, <1>2, <1>3, <1>4, TypedInvariance, PTL DEF Spec, WholePictureRecognised
=============================================================================
