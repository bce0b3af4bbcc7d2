----------------------------- MODULE BytesProofs -----------------------------
(***************************************************************************)
(* Lemmas about the contents of files and about streams that are read in   *)
(* pieces, for the proofs about both directions of a transfer.             *)
(***************************************************************************)
EXTENDS Bytes, SequenceTheorems, TLAPS

\* A read moves no more than there is, and no more than there is room for.
LEMMA LeastBound ==
  ASSUME NEW a \in Int, NEW b \in Int
  PROVE  /\ Least(a, b) \in Int
         /\ Least(a, b) <= a /\ Least(a, b) <= b
         /\ Least(a, b) = a \/ Least(a, b) = b
  BY DEF Least

LEMMA PrefixProperties ==
  ASSUME NEW S, NEW n \in Nat, \A i \in 1..n : Data(i) \in S
  PROVE  /\ Prefix(n) \in Seq(S)
         /\ Len(Prefix(n)) = n
         /\ \A i \in 1..n : Prefix(n)[i] = Data(i)
<1>1. Prefix(n) \in [1..n -> S]
  BY DEF Prefix
<1> QED
  BY <1>1 DEF Prefix

LEMMA ZerosProperties ==
  ASSUME NEW S, NEW n \in Nat, Zero \in S
  PROVE  /\ Zeros(n) \in Seq(S)
         /\ Len(Zeros(n)) = n
         /\ \A i \in 1..n : Zeros(n)[i] = Zero
<1>1. Zeros(n) \in [1..n -> S]
  BY DEF Zeros
<1> QED
  BY <1>1 DEF Zeros

\* A sequence whose bytes are all in place is a prefix of the file.
LEMMA InPlaceIsPrefix ==
  ASSUME NEW S, NEW p \in Seq(S), \A i \in 1..Len(p) : p[i] = Data(i)
  PROVE  p = Prefix(Len(p))
<1>1. Len(p) \in Nat /\ \A i \in 1..Len(p) : Data(i) \in S
  BY ElementOfSeq, LenProperties
<1>2. /\ Prefix(Len(p)) \in Seq(S) /\ Len(Prefix(Len(p))) = Len(p)
      /\ \A i \in 1..Len(p) : Prefix(Len(p))[i] = Data(i)
  BY <1>1, PrefixProperties
<1> QED
  BY <1>2, SeqEqual

\* The front of a file is a smaller prefix of it.
LEMMA FrontOfPrefix ==
  ASSUME NEW n \in Nat, NEW m \in 0..n
  PROVE  SubSeq(Prefix(n), 1, m) = Prefix(m)
<1> DEFINE S == {Data(i) : i \in 1..n}
<1>1. \A i \in 1..n : Data(i) \in S
  OBVIOUS
<1> HIDE DEF S
<1>2. /\ Prefix(n) \in Seq(S) /\ Len(Prefix(n)) = n
      /\ \A i \in 1..n : Prefix(n)[i] = Data(i)
  BY <1>1, PrefixProperties
<1>3. /\ SubSeq(Prefix(n), 1, m) \in Seq(S) /\ Len(SubSeq(Prefix(n), 1, m)) = m
      /\ \A i \in 1..m : SubSeq(Prefix(n), 1, m)[i] = Prefix(n)[i]
  BY <1>2
<1> DEFINE p == SubSeq(Prefix(n), 1, m)
<1>4. p \in Seq(S) /\ Len(p) = m /\ \A i \in 1..Len(p) : p[i] = Data(i)
  BY <1>2, <1>3
<1> HIDE DEF p
<1>5. p = Prefix(Len(p))
  BY <1>4, InPlaceIsPrefix
<1> QED
  BY <1>4, <1>5 DEF p

\* A file that grows by its next byte.
LEMMA PrefixGrows ==
  ASSUME NEW n \in Nat
  PROVE  Prefix(n + 1) = Append(Prefix(n), Data(n + 1))
<1> DEFINE S == {Data(i) : i \in 1..(n + 1)}
<1>1. \A i \in 1..(n + 1) : Data(i) \in S
  OBVIOUS
<1> HIDE DEF S
<1>2. /\ Prefix(n) \in Seq(S) /\ Len(Prefix(n)) = n
      /\ \A i \in 1..n : Prefix(n)[i] = Data(i)
  BY <1>1, PrefixProperties
<1>3. Data(n + 1) \in S
  BY <1>1
<1>4. /\ Append(Prefix(n), Data(n + 1)) \in Seq(S)
      /\ Len(Append(Prefix(n), Data(n + 1))) = n + 1
      /\ \A i \in 1..(n + 1) : Append(Prefix(n), Data(n + 1))[i] = Data(i)
  BY <1>2, <1>3, AppendProperties
<1> QED
  BY <1>4, InPlaceIsPrefix

LEMMA PrefixOfNothing == Prefix(0) = <<>>
  BY DEF Prefix

------------------------------------------------------------------------------
(* Streams. *)

\* A read takes the front of what is unread, and leaves the rest.
LEMMA ReadSplits ==
  ASSUME NEW S, NEW r \in Seq(S), NEW k \in 0..Len(r)
  PROVE  /\ SubSeq(r, 1, k) \in Seq(S) /\ Len(SubSeq(r, 1, k)) = k
         /\ SubSeq(r, k + 1, Len(r)) \in Seq(S)
         /\ Len(SubSeq(r, k + 1, Len(r))) = Len(r) - k
         /\ \A i \in 1..k : SubSeq(r, 1, k)[i] = r[i]
         /\ \A i \in 1..(Len(r) - k) : SubSeq(r, k + 1, Len(r))[i] = r[k + i]
         /\ SubSeq(r, 1, k) \o SubSeq(r, k + 1, Len(r)) = r
<1>1. /\ SubSeq(r, 1, k) \in Seq(S) /\ Len(SubSeq(r, 1, k)) = k
      /\ \A i \in 1..k : SubSeq(r, 1, k)[i] = r[i]
  OBVIOUS
<1>2. /\ SubSeq(r, k + 1, Len(r)) \in Seq(S)
      /\ Len(SubSeq(r, k + 1, Len(r))) = Len(r) - k
      /\ \A i \in 1..(Len(r) - k) : SubSeq(r, k + 1, Len(r))[i] = r[k + i]
  OBVIOUS
<1>3. SubSeq(r, 1, k) \o SubSeq(r, k + 1, Len(r)) = r
  <2> DEFINE x == SubSeq(r, 1, k)
             y == SubSeq(r, k + 1, Len(r))
  <2>1. /\ x \in Seq(S) /\ Len(x) = k /\ \A i \in 1..k : x[i] = r[i]
        /\ y \in Seq(S) /\ Len(y) = Len(r) - k
        /\ \A i \in 1..(Len(r) - k) : y[i] = r[k + i]
        /\ Len(r) \in Nat
    BY <1>1, <1>2
  <2> HIDE DEF x, y
  <2>2. /\ x \o y \in Seq(S) /\ Len(x \o y) = Len(r)
        /\ \A i \in 1..Len(r) : (x \o y)[i] = IF i <= k THEN x[i] ELSE y[i - k]
    BY <2>1, ConcatProperties
  <2>3. \A i \in 1..Len(r) : (x \o y)[i] = r[i]
    BY <2>1, <2>2
  <2> QED
    BY <2>2, <2>3, SeqEqual DEF x, y
<1> QED
  BY <1>1, <1>2, <1>3

\* A piece from the middle of a file.
LEMMA PieceProperties ==
  ASSUME NEW S, NEW d \in Seq(S), NEW o \in Nat, NEW k \in Nat \ {0}, o + k <= Len(d)
  PROVE  /\ SubSeq(d, o + 1, o + k) \in Seq(S)
         /\ Len(SubSeq(d, o + 1, o + k)) = k
         /\ \A i \in 1..k : SubSeq(d, o + 1, o + k)[i] = d[o + i]
<1>1. \A i \in (o + 1)..(o + k) : i \in 1..Len(d)
  BY LenProperties
<1>2. SubSeq(d, o + 1, o + k) \in Seq(S)
  BY <1>1, SubSeqProperties
<1>3. /\ Len(SubSeq(d, o + 1, o + k)) = k
      /\ \A i \in 1..k : SubSeq(d, o + 1, o + k)[i] = d[o + i]
  BY <1>1, SubSeqProperties
<1> QED
  BY <1>2, <1>3

\* Concatenation as an operator the provers do not look into: they regroup
\* nested concatenations by themselves, and then find no fact about a part.
Cat(p, q) == p \o q

LEMMA CatProperties ==
  ASSUME NEW S, NEW p \in Seq(S), NEW q \in Seq(S)
  PROVE  /\ Cat(p, q) \in Seq(S)
         /\ Len(Cat(p, q)) = Len(p) + Len(q)
         /\ Len(p) \in Nat /\ Len(q) \in Nat
         /\ \A i \in 1..Len(p) : Cat(p, q)[i] = p[i]
         /\ \A i \in 1..Len(q) : Cat(p, q)[Len(p) + i] = q[i]
  BY ConcatProperties, LenProperties DEF Cat

LEMMA CatAssociative ==
  ASSUME NEW S, NEW p \in Seq(S), NEW q \in Seq(S), NEW r \in Seq(S)
  PROVE  Cat(Cat(p, q), r) = Cat(p, Cat(q, r))
  BY ConcatAssociative DEF Cat

LEMMA CatEmpty ==
  ASSUME NEW S, NEW p \in Seq(S)
  PROVE  Cat(p, <<>>) = p /\ Cat(<<>>, p) = p
  BY ConcatEmptySeq DEF Cat

\* A file that broke off: its front, padded with zeros.
LEMMA PaddedProperties ==
  ASSUME NEW S, NEW m \in Nat, NEW n \in 0..m,
         \A i \in 1..m : Data(i) \in S, Zero \in S
  PROVE  /\ Len(Cat(Prefix(n), Zeros(m - n))) = m
         /\ \A i \in 1..n : Cat(Prefix(n), Zeros(m - n))[i] = Data(i)
         /\ \A i \in (n + 1)..m : Cat(Prefix(n), Zeros(m - n))[i] = Zero
<1>1. n \in Nat /\ m - n \in Nat /\ \A i \in 1..n : Data(i) \in S
  OBVIOUS
<1>2. ASSUME NEW p \in Seq(S), NEW z \in Seq(S), Len(p) = n, Len(z) = m - n,
             \A i \in 1..n : p[i] = Data(i), \A i \in 1..(m - n) : z[i] = Zero
      PROVE  /\ Len(Cat(p, z)) = m
             /\ \A i \in 1..n : Cat(p, z)[i] = Data(i)
             /\ \A i \in (n + 1)..m : Cat(p, z)[i] = Zero
  <2>1. /\ Len(Cat(p, z)) = Len(p) + Len(z)
        /\ \A i \in 1..Len(p) : Cat(p, z)[i] = p[i]
        /\ \A i \in 1..Len(z) : Cat(p, z)[Len(p) + i] = z[i]
    BY ConcatProperties DEF Cat
  <2>2. \A i \in (n + 1)..m : Cat(p, z)[i] = Zero
    <3> TAKE i \in (n + 1)..m
    <3>1. i - n \in 1..(m - n) /\ n + (i - n) = i
      BY <1>1
    <3>2. Cat(p, z)[n + (i - n)] = z[i - n] /\ z[i - n] = Zero
      BY <1>2, <2>1, <3>1
    <3> QED
      BY <3>1, <3>2
  <2> QED
    BY <1>1, <1>2, <2>1, <2>2
<1>3. /\ Prefix(n) \in Seq(S) /\ Len(Prefix(n)) = n
      /\ \A i \in 1..n : Prefix(n)[i] = Data(i)
  BY <1>1, PrefixProperties
<1>4. /\ Zeros(m - n) \in Seq(S) /\ Len(Zeros(m - n)) = m - n
      /\ \A i \in 1..(m - n) : Zeros(m - n)[i] = Zero
  BY <1>1, ZerosProperties
<1> QED
  BY <1>2, <1>3, <1>4

\* What is read moves from the socket into the buffer, and the stream that
\* disk, buffer and socket make up stays as it was.
LEMMA ReadMoves ==
  ASSUME NEW S, NEW f \in Seq(S), NEW b \in Seq(S), NEW r \in Seq(S),
         NEW k \in 0..Len(r)
  PROVE  /\ Cat(Cat(f, Cat(b, SubSeq(r, 1, k))), SubSeq(r, k + 1, Len(r)))
              = Cat(Cat(f, b), r)
         /\ Cat(b, SubSeq(r, 1, k)) \in Seq(S)
         /\ Len(Cat(b, SubSeq(r, 1, k))) = Len(b) + k
         /\ SubSeq(r, k + 1, Len(r)) \in Seq(S)
         /\ Len(SubSeq(r, k + 1, Len(r))) = Len(r) - k
<1> DEFINE x == SubSeq(r, 1, k)
           y == SubSeq(r, k + 1, Len(r))
<1>1. /\ x \in Seq(S) /\ Len(x) = k
      /\ y \in Seq(S) /\ Len(y) = Len(r) - k
  BY ReadSplits
<1>2. Cat(x, y) = r
  BY ReadSplits DEF Cat
<1> HIDE DEF x, y
<1>3. Cat(b, x) \in Seq(S) /\ Len(Cat(b, x)) = Len(b) + k /\ Cat(f, b) \in Seq(S)
  BY <1>1, CatProperties
<1>4. Cat(f, Cat(b, x)) = Cat(Cat(f, b), x)
  BY <1>1, CatAssociative
<1>5. Cat(Cat(Cat(f, b), x), y) = Cat(Cat(f, b), Cat(x, y))
  BY <1>1, <1>3, CatAssociative
<1> QED
  BY <1>1, <1>2, <1>3, <1>4, <1>5 DEF x, y

\* A token that arrives is the last of the stream.
LEMMA ArrivalAppends ==
  ASSUME NEW S, NEW f \in Seq(S), NEW r \in Seq(S), NEW x \in S
  PROVE  Cat(f, Append(r, x)) = Append(Cat(f, r), x)
<1> DEFINE one == <<x>>
<1>1. one \in Seq(S) /\ Cat(f, r) \in Seq(S)
  BY CatProperties
<1>2. \A s \in Seq(S) : Append(s, x) = Cat(s, one)
  BY AppendIsConcat DEF Cat
<1> HIDE DEF one
<1>3. Cat(Cat(f, r), one) = Cat(f, Cat(r, one))
  BY <1>1, CatAssociative
<1> QED
  BY <1>1, <1>2, <1>3
==============================================================================
