--------------------------- MODULE StartupProofs ---------------------------
(***************************************************************************)
(* Proofs about Startup, for every set of command lines, documents and     *)
(* names.                                                                  *)
(***************************************************************************)
EXTENDS Startup, FiniteSetTheorems, SequenceTheorems, TLAPS

------------------------------------------------------------------------------
(* Induction and recursion on the length of a sequence: of the sequences    *)
(* that are not as claimed, one is shortest; and a function whose value at  *)
(* a sequence is given by those at shorter ones exists.                     *)

Below(n) == 0..n-1

LEMMA LeastNat ==
  ASSUME NEW T \in SUBSET Nat, T # {}
  PROVE  \E x \in T : \A y \in T : x <= y
<1> DEFINE TT == {Below(n) : n \in T}
<1>1. ASSUME NEW n \in T PROVE Below(n) \in FiniteSubsetsOf(Nat)
  <2>1. IsFiniteSet(0..n-1)
    BY FS_Interval
  <2>2. 0..n-1 \in SUBSET Nat
    OBVIOUS
  <2> QED
    BY <2>1, <2>2 DEF FiniteSubsetsOf, Below
<1>2. TT \subseteq FiniteSubsetsOf(Nat)
  BY <1>1
<1>3. TT # {}
  OBVIOUS
<1> HIDE DEF TT
<1>4. PICK s \in TT : \A t \in TT : <<t, s>> \notin StrictSubsetOrdering(Nat)
  <2>1. IsWellFoundedOn(StrictSubsetOrdering(Nat), FiniteSubsetsOf(Nat))
    BY FS_StrictSubsetOrderingWellFounded
  <2> QED
    BY <1>2, <1>3, <2>1, WFMin
<1>5. PICK x \in T : s = Below(x)
  BY <1>4 DEF TT
<1>6. ASSUME NEW y \in T, y < x PROVE FALSE
  <2>1. Below(y) \in TT
    BY DEF TT
  <2>2. Below(y) \in SUBSET Nat /\ s \in SUBSET Nat /\ Below(y) \subseteq s
    BY <1>5, <1>6 DEF Below
  <2>3. y \in s /\ y \notin Below(y)
    BY <1>5, <1>6 DEF Below
  <2> QED
    BY <1>4, <2>1, <2>2, <2>3 DEF StrictSubsetOrdering
<1> QED
  BY <1>6

LEMMA Shortest ==
  ASSUME NEW S, NEW Bad \in SUBSET Seq(S), Bad # {}
  PROVE  \E w \in Bad : \A v \in Bad : Len(w) <= Len(v)
<1>1. {Len(w) : w \in Bad} \in SUBSET Nat /\ {Len(w) : w \in Bad} # {}
  BY LenProperties
<1>2. PICK n \in {Len(w) : w \in Bad} : \A m \in {Len(w) : w \in Bad} : n <= m
  BY <1>1, LeastNat
<1> QED
  BY <1>2

LEMMA Rest ==
  ASSUME NEW S, NEW w \in Seq(S), w # <<>>
  PROVE  /\ w[1] \in S /\ Tail(w) \in Seq(S)
         /\ Len(w) \in Nat \ {0} /\ Len(Tail(w)) = Len(w) - 1
         /\ \A i \in 1..Len(w) - 1 : Tail(w)[i] = w[i + 1]
  BY EmptySeq, HeadTailProperties, LenProperties

\* f is what step makes of it, on the sequences shorter than n.
Solves(S, V, step, n, f) ==
    /\ f \in [Seq(S) -> V]
    /\ \A w \in Seq(S) : Len(w) < n => f[w] = step[<<w, f>>]

Contracts(S, V, step) ==
    /\ step \in [Seq(S) \X [Seq(S) -> V] -> V]
    /\ \A w \in Seq(S), g \in [Seq(S) -> V], h \in [Seq(S) -> V] :
         (\A u \in Seq(S) : Len(u) < Len(w) => g[u] = h[u]) => step[<<w, g>>] = step[<<w, h>>]

LEMMA SolutionsAgree ==
  ASSUME NEW S, NEW V, NEW step, Contracts(S, V, step), NEW n \in Nat, NEW f, NEW g,
         Solves(S, V, step, n, f), Solves(S, V, step, n, g)
  PROVE  \A w \in Seq(S) : Len(w) < n => f[w] = g[w]
<1> DEFINE Bad == {w \in Seq(S) : Len(w) < n /\ f[w] # g[w]}
<1> SUFFICES ASSUME Bad # {} PROVE FALSE
  OBVIOUS
<1>1. PICK w \in Bad : \A v \in Bad : Len(w) <= Len(v)
  BY Shortest
<1>2. w \in Seq(S) /\ Len(w) < n /\ f[w] # g[w] /\ Len(w) \in Nat
  BY LenProperties
<1>3. ASSUME NEW u \in Seq(S), Len(u) < Len(w) PROVE f[u] = g[u]
  BY <1>1, <1>2, <1>3, LenProperties
<1>4. step[<<w, f>>] = step[<<w, g>>]
  BY <1>2, <1>3 DEF Contracts, Solves
<1> QED
  BY <1>2, <1>4 DEF Solves

LEMMA SolutionsExist ==
  ASSUME NEW S, NEW V, V # {}, NEW step, Contracts(S, V, step)
  PROVE  \A n \in Nat : \E f : Solves(S, V, step, n, f)
<1> DEFINE Bad == {n \in Nat : ~\E f : Solves(S, V, step, n, f)}
<1> SUFFICES ASSUME Bad # {} PROVE FALSE
  OBVIOUS
<1>1. PICK n \in Bad : \A m \in Bad : n <= m
  BY LeastNat
<1>2. n \in Nat /\ ~\E f : Solves(S, V, step, n, f)
  OBVIOUS
<1>3. \A m \in Nat : m < n => \E f : Solves(S, V, step, m, f)
  BY <1>1, <1>2
<1> HIDE DEF Bad
<1>4. CASE n = 0
  <2>1. PICK v : v \in V
    OBVIOUS
  <2>2. Solves(S, V, step, n, [w \in Seq(S) |-> v])
    BY <1>4, <2>1, LenProperties DEF Solves
  <2> QED
    BY <1>2, <2>2
<1>5. CASE n # 0
  <2>1. PICK f : Solves(S, V, step, n - 1, f)
    BY <1>2, <1>3, <1>5
  <2> DEFINE g == [w \in Seq(S) |-> step[<<w, f>>]]
  <2>2. g \in [Seq(S) -> V]
    BY <2>1 DEF Contracts, Solves
  <2>3. ASSUME NEW w \in Seq(S), Len(w) < n PROVE g[w] = step[<<w, g>>]
    <3>1. ASSUME NEW u \in Seq(S), Len(u) < Len(w) PROVE f[u] = g[u]
      BY <1>2, <2>1, <2>3, <3>1, LenProperties DEF Solves
    <3> HIDE DEF g
    <3>2. step[<<w, f>>] = step[<<w, g>>]
      BY <2>1, <2>2, <3>1 DEF Contracts, Solves
    <3> QED
      BY <3>2 DEF g
  <2>4. Solves(S, V, step, n, g)
    BY <2>2, <2>3 DEF Solves
  <2> QED
    BY <1>2, <2>4
<1> QED
  BY <1>4, <1>5

Recursive(S, V, step, f) ==
    f \in [Seq(S) -> V] /\ \A w \in Seq(S) : f[w] = step[<<w, f>>]

LEMMA Recursion ==
  ASSUME NEW S, NEW V, V # {}, NEW step, Contracts(S, V, step)
  PROVE  \E f : Recursive(S, V, step, f)
<1> DEFINE Upto(w) == CHOOSE f : Solves(S, V, step, Len(w) + 1, f)
           F == [w \in Seq(S) |-> Upto(w)[w]]
<1>1. ASSUME NEW w \in Seq(S) PROVE Solves(S, V, step, Len(w) + 1, Upto(w))
  <2>1. Len(w) + 1 \in Nat
    BY LenProperties
  <2> QED
    BY <2>1, SolutionsExist
<1>2. \A w \in Seq(S) : F[w] = Upto(w)[w]
  OBVIOUS
<1> HIDE DEF Upto
<1>3. F \in [Seq(S) -> V]
  BY <1>1 DEF Solves
<1> HIDE DEF F
<1>4. ASSUME NEW w \in Seq(S) PROVE F[w] = step[<<w, F>>]
  <2>1. ASSUME NEW u \in Seq(S), Len(u) < Len(w) PROVE Upto(w)[u] = F[u]
    <3>1. Solves(S, V, step, Len(u) + 1, Upto(w)) /\ Len(u) + 1 \in Nat
      BY <1>1, <2>1, LenProperties DEF Solves
    <3>2. Upto(w)[u] = Upto(u)[u]
      BY <1>1, <3>1, SolutionsAgree, LenProperties
    <3> QED
      BY <1>2, <3>2
  <2>2. PICK f : f = Upto(w)
    OBVIOUS
  <2>3. Solves(S, V, step, Len(w) + 1, f) /\ Len(w) \in Nat
    BY <1>1, <2>2, LenProperties
  <2>4. f[w] = step[<<w, f>>] /\ f \in [Seq(S) -> V]
    BY <2>3 DEF Solves
  <2>5. step[<<w, f>>] = step[<<w, F>>]
    BY <1>3, <2>1, <2>2, <2>4 DEF Contracts
  <2> QED
    BY <1>2, <2>2, <2>4, <2>5
<1> QED
  BY <1>3, <1>4 DEF Recursive

------------------------------------------------------------------------------
(* getopt. *)

Scanned == [out : {"done", "usage", "version", "aborted"}, opts : SUBSET (TakesArgument \cup {"-n"}),
            left : Seq(Word)]

\* One round of getopt: the result for a line, given those for shorter lines.
Round(line, later) ==
    IF line = <<>> THEN [out |-> "done", opts |-> {}, left |-> <<>>]
    ELSE IF line[1] = "-h" THEN [out |-> "usage", opts |-> {}, left |-> <<>>]
    ELSE IF line[1] = "-v" THEN [out |-> "version", opts |-> {}, left |-> <<>>]
    ELSE IF line[1] \in {"-c", "-x"} \/ (line[1] \in TakesArgument /\ Len(line) = 1)
    THEN [out |-> "aborted", opts |-> {}, left |-> <<>>]
    ELSE IF line[1] \in TakesArgument THEN WithOption(line[1], later[Tail(Tail(line))])
    ELSE IF line[1] = "-n" THEN WithOption("-n", later[Tail(line)])
    ELSE WithArgument(line[1], later[Tail(line)])

LEMMA RoundRest ==
  ASSUME NEW line \in Seq(Word), line # <<>>
  PROVE  /\ line[1] \in Word
         /\ Tail(line) \in Seq(Word) /\ Len(Tail(line)) < Len(line)
         /\ Len(line) # 1 => /\ Tail(Tail(line)) \in Seq(Word)
                             /\ Len(Tail(Tail(line))) < Len(line)
<1>1. /\ line[1] \in Word /\ Tail(line) \in Seq(Word)
      /\ Len(Tail(line)) = Len(line) - 1 /\ Len(line) \in Nat \ {0}
  BY Rest
<1>2. ASSUME Len(line) # 1
      PROVE  /\ Tail(Tail(line)) \in Seq(Word) /\ Len(Tail(line)) \in Nat
             /\ Len(Tail(Tail(line))) = Len(Tail(line)) - 1
  <2>1. Len(<<>>) = 0
    OBVIOUS
  <2>3. Len(Tail(line)) # 0
    BY <1>1, <1>2
  <2>2. Tail(line) # <<>>
    BY <2>1, <2>3
  <2> QED
    BY <1>1, <2>2, Rest
<1> QED
  BY <1>1, <1>2

LEMMA RoundType ==
  ASSUME NEW line \in Seq(Word), NEW later,
         \A u \in Seq(Word) : Len(u) < Len(line) => later[u] \in Scanned
  PROVE  Round(line, later) \in Scanned
<1>1. CASE line = <<>> \/ line[1] \in {"-h", "-v", "-c", "-x"}
             \/ (line[1] \in TakesArgument /\ Len(line) = 1)
  BY <1>1 DEF Scanned, Round
<1>2. CASE line # <<>> /\ line[1] \in TakesArgument /\ Len(line) # 1
  <2>1. later[Tail(Tail(line))] \in Scanned /\ line[1] \in Word
    BY <1>2, RoundRest
  <2>2. Round(line, later) = WithOption(line[1], later[Tail(Tail(line))])
    BY <1>2 DEF TakesArgument, Round
  <2> QED
    BY <1>2, <2>1, <2>2 DEF Scanned, WithOption
<1>3. CASE line # <<>> /\ line[1] \notin TakesArgument \cup {"-h", "-v", "-c", "-x"}
  <2>1. later[Tail(line)] \in Scanned /\ line[1] \in Word
    BY <1>3, RoundRest
  <2>2. \/ Round(line, later) = WithOption("-n", later[Tail(line)])
        \/ Round(line, later) = WithArgument(line[1], later[Tail(line)])
    BY <1>3 DEF Round
  <2>3. WithOption("-n", later[Tail(line)]) \in Scanned
    <3>1. later[Tail(line)].opts \cup {"-n"} \in SUBSET (TakesArgument \cup {"-n"})
      BY <2>1 DEF Scanned
    <3> QED
      BY <2>1, <3>1 DEF Scanned, WithOption
  <2>4. <<line[1]>> \o later[Tail(line)].left \in Seq(Word)
    BY <2>1 DEF Scanned
  <2>5. WithArgument(line[1], later[Tail(line)]) \in Scanned
    BY <2>1, <2>4 DEF Scanned, WithArgument
  <2> QED
    BY <2>2, <2>3, <2>5
<1> QED
  BY <1>1, <1>2, <1>3

LEMMA GetOptDef == GetOpt = [line \in Seq(Word) |-> Round(line, GetOpt)]
<1> DEFINE step == [p \in Seq(Word) \X [Seq(Word) -> Scanned] |-> Round(p[1], p[2])]
<1>1. step \in [Seq(Word) \X [Seq(Word) -> Scanned] -> Scanned]
  BY RoundType
<1>2. \A line \in Seq(Word), g \in [Seq(Word) -> Scanned] :
        step[<<line, g>>] = Round(line, g)
  OBVIOUS
<1> HIDE DEF step
<1>3. ASSUME NEW line \in Seq(Word), NEW g \in [Seq(Word) -> Scanned],
             NEW h \in [Seq(Word) -> Scanned],
             \A u \in Seq(Word) : Len(u) < Len(line) => g[u] = h[u]
      PROVE  step[<<line, g>>] = step[<<line, h>>]
  <2> SUFFICES Round(line, g) = Round(line, h)
    BY <1>2
  <2>1. CASE line = <<>> \/ line[1] \in {"-h", "-v", "-c", "-x"}
               \/ (line[1] \in TakesArgument /\ Len(line) = 1)
    BY <2>1 DEF Round
  <2>2. CASE line # <<>> /\ line[1] \in TakesArgument /\ Len(line) # 1
    <3>1. g[Tail(Tail(line))] = h[Tail(Tail(line))]
      BY <1>3, <2>2, RoundRest
    <3> QED
      BY <2>2, <3>1 DEF Round
  <2>3. CASE line # <<>> /\ line[1] \notin TakesArgument \cup {"-h", "-v", "-c", "-x"}
    <3>1. g[Tail(line)] = h[Tail(line)]
      BY <1>3, <2>3, RoundRest
    <3> QED
      BY <2>3, <3>1 DEF Round
  <2> QED
    BY <2>1, <2>2, <2>3
<1>4. Contracts(Word, Scanned, step)
  BY <1>1, <1>3 DEF Contracts
<1>5. Scanned # {}
  <2>1. [out |-> "done", opts |-> {}, left |-> <<>>] \in Scanned
    BY DEF Scanned
  <2> QED
    BY <2>1
<1>6. PICK f : Recursive(Word, Scanned, step, f)
  BY <1>4, <1>5, Recursion
<1>7. f = [line \in Seq(Word) |-> Round(line, f)]
  BY <1>2, <1>6 DEF Recursive
<1> QED
  BY <1>7, Zenon DEF GetOpt, Round

LEMMA GetOptType == \A line \in Seq(Word) : GetOpt[line] \in Scanned
<1> DEFINE Bad == {line \in Seq(Word) : GetOpt[line] \notin Scanned}
<1> SUFFICES ASSUME Bad # {} PROVE FALSE
  OBVIOUS
<1>1. PICK line \in Bad : \A other \in Bad : Len(line) <= Len(other)
  BY Shortest
<1>2. line \in Seq(Word) /\ GetOpt[line] \notin Scanned
  OBVIOUS
<1>3. ASSUME NEW other \in Seq(Word), Len(other) < Len(line)
      PROVE  GetOpt[other] \in Scanned
  BY <1>1, <1>3, LenProperties
<1> QED
  BY <1>2, <1>3, RoundType, GetOptDef

------------------------------------------------------------------------------
(* decode_url undoes what a browser does to a name.                         *)

Letter == {l \in (1..255) \X BOOLEAN : MustEscape(l[1]) => l[2]}

EncodeStep(letters, later) ==
    IF letters = <<>> THEN <<>>
    ELSE (IF letters[1][2] THEN Escape(letters[1][1]) ELSE <<letters[1][1]>>)
           \o later[Tail(letters)]

DecodeStep(rest, later) ==
    IF rest = <<>> \/ (rest[1] = Percent /\ Len(rest) < 3) THEN <<>>
    ELSE IF rest[1] = Percent
    THEN <<HexPair(rest[2], rest[3])>> \o later[Tail(Tail(Tail(rest)))]
    ELSE <<rest[1]>> \o later[Tail(rest)]

LEMMA NotEmpty ==
  ASSUME NEW S, NEW w \in Seq(S), Len(w) # 0
  PROVE  w # <<>>
  BY EmptySeq

LEMMA RestOfEscape ==
  ASSUME NEW S, NEW w \in Seq(S), Len(w) >= 3
  PROVE  /\ Tail(Tail(Tail(w))) \in Seq(S)
         /\ Len(Tail(Tail(Tail(w)))) = Len(w) - 3
         /\ Len(Tail(Tail(Tail(w)))) < Len(w)
         /\ \A i \in 1..Len(w) - 3 : Tail(Tail(Tail(w)))[i] = w[i + 3]
<1>1. /\ Tail(w) \in Seq(S) /\ Len(w) \in Nat /\ Len(Tail(w)) = Len(w) - 1
      /\ \A i \in 1..Len(w) - 1 : Tail(w)[i] = w[i + 1]
  <2>1. w # <<>>
    BY NotEmpty, LenProperties
  <2> QED
    BY <2>1, Rest
<1>2. PICK u : u = Tail(w)
  OBVIOUS
<1>3. /\ Tail(u) \in Seq(S) /\ Len(Tail(u)) = Len(w) - 2
      /\ \A i \in 1..Len(w) - 2 : Tail(u)[i] = u[i + 1]
  <2>4. u \in Seq(S) /\ Len(u) # 0
    BY <1>1, <1>2
  <2>1. u # <<>>
    BY <2>4, NotEmpty
  <2>2. /\ Tail(u) \in Seq(S) /\ Len(Tail(u)) = Len(u) - 1
        /\ \A i \in 1..Len(u) - 1 : Tail(u)[i] = u[i + 1]
    BY <1>1, <1>2, <2>1, Rest
  <2>3. Len(u) - 1 = Len(w) - 2
    BY <1>1, <1>2
  <2> QED
    BY <2>2, <2>3
<1>4. PICK v : v = Tail(u)
  OBVIOUS
<1>5. /\ Tail(v) \in Seq(S) /\ Len(Tail(v)) = Len(w) - 3
      /\ \A i \in 1..Len(w) - 3 : Tail(v)[i] = v[i + 1]
  <2>1. Len(v) # 0
    BY <1>1, <1>3, <1>4
  <2>2. v # <<>>
    BY <1>3, <1>4, <2>1, NotEmpty
  <2>3. /\ Tail(v) \in Seq(S) /\ Len(Tail(v)) = Len(v) - 1
        /\ \A i \in 1..Len(v) - 1 : Tail(v)[i] = v[i + 1]
    BY <1>3, <1>4, <2>2, Rest
  <2>4. Len(v) = Len(w) - 2
    BY <1>3, <1>4
  <2>5. Len(v) - 1 = Len(w) - 3
    BY <1>1, <2>4
  <2> QED
    BY <2>3, <2>5
<1>6. ASSUME NEW i \in 1..Len(w) - 3 PROVE Tail(v)[i] = w[i + 3]
  <2>1. /\ i + 1 \in 1..Len(w) - 2 /\ i + 2 \in 1..Len(w) - 1
        /\ (i + 1) + 1 = i + 2 /\ (i + 2) + 1 = i + 3
    BY <1>1
  <2>2. Tail(v)[i] = v[i + 1]
    BY <1>5
  <2>3. v[i + 1] = u[(i + 1) + 1]
    BY <1>3, <1>4, <2>1
  <2>4. u[i + 2] = w[(i + 2) + 1]
    BY <1>1, <1>2, <2>1
  <2> QED
    BY <2>1, <2>2, <2>3, <2>4
<1>7. Len(w) - 3 < Len(w)
  BY <1>1
<1> QED
  BY <1>2, <1>4, <1>5, <1>6, <1>7

LEMMA HexPairType ==
  ASSUME NEW c \in Code, NEW d \in Code
  PROVE  HexPair(c, d) \in Code
<1>1. Hex(c) \in Int /\ Hex(d) \in Int
  BY DEF Hex, Code
<1>2. Hex(c) * 16 + Hex(d) \in Int
  BY <1>1
<1>3. \A n \in Int : n % 256 \in 0..255
  OBVIOUS
<1> QED
  BY <1>2, <1>3 DEF HexPair, Code

LEMMA EscapeType ==
  ASSUME NEW c \in Code
  PROVE  /\ UpperHex(c \div 16) \in Code /\ UpperHex(c % 16) \in Code \ {Question}
         /\ HexPair(UpperHex(c \div 16), UpperHex(c % 16)) = c
         /\ Escape(c) \in Seq(Code)
<1>1. c \div 16 \in 0..15 /\ c % 16 \in 0..15 /\ c = 16 * (c \div 16) + (c % 16)
  BY DEF Code
<1>2. ASSUME NEW d \in 0..15
      PROVE  UpperHex(d) \in Code \ {Question} /\ Hex(UpperHex(d)) = d
  BY DEF UpperHex, Hex, Code, Question
<1>3. HexPair(UpperHex(c \div 16), UpperHex(c % 16)) = c
  <2>1. HexPair(UpperHex(c \div 16), UpperHex(c % 16)) = ((c \div 16) * 16 + (c % 16)) % 256
    BY <1>1, <1>2 DEF HexPair
  <2>2. (c \div 16) * 16 + (c % 16) = c
    BY <1>1
  <2> QED
    BY <2>1, <2>2 DEF Code
<1>4. Escape(c) \in Seq(Code)
  BY <1>1, <1>2 DEF Escape, Percent, Code
<1> QED
  BY <1>1, <1>2, <1>3, <1>4

LEMMA EncodeDef == Encode = [letters \in Seq(Code \X BOOLEAN) |-> EncodeStep(letters, Encode)]
<1> DEFINE L == Code \X BOOLEAN
           V == Seq(Code)
           step == [p \in Seq(L) \X [Seq(L) -> V] |-> EncodeStep(p[1], p[2])]
<1>1. ASSUME NEW letters \in Seq(L), letters # <<>>
      PROVE  /\ letters[1] \in L /\ Tail(letters) \in Seq(L) /\ Len(letters) \in Nat
             /\ Len(Tail(letters)) < Len(letters)
  <2>1. /\ letters[1] \in L /\ Tail(letters) \in Seq(L) /\ Len(letters) \in Nat
        /\ Len(Tail(letters)) = Len(letters) - 1
    BY <1>1, Rest
  <2> QED
    BY <2>1
<1>2. ASSUME NEW letters \in Seq(L), NEW later \in [Seq(L) -> V]
      PROVE  EncodeStep(letters, later) \in V
  <2>1. CASE letters = <<>>
    BY <2>1 DEF EncodeStep
  <2>2. CASE letters # <<>>
    <3>1. letters[1][1] \in Code /\ letters[1][2] \in BOOLEAN /\ later[Tail(letters)] \in V
      BY <1>1, <2>2
    <3>2. Escape(letters[1][1]) \in Seq(Code) /\ <<letters[1][1]>> \in Seq(Code)
      BY <3>1, EscapeType
    <3> QED
      BY <2>2, <3>1, <3>2 DEF EncodeStep
  <2> QED
    BY <2>1, <2>2
<1>3. /\ step \in [Seq(L) \X [Seq(L) -> V] -> V]
      /\ \A letters \in Seq(L), g \in [Seq(L) -> V] : step[<<letters, g>>] = EncodeStep(letters, g)
  BY <1>2
<1>4. V # {}
  <2>1. <<>> \in V
    OBVIOUS
  <2> QED
    BY <2>1
<1> HIDE DEF step, L, V
<1>5. ASSUME NEW letters \in Seq(L), NEW g \in [Seq(L) -> V], NEW h \in [Seq(L) -> V],
             \A u \in Seq(L) : Len(u) < Len(letters) => g[u] = h[u]
      PROVE  step[<<letters, g>>] = step[<<letters, h>>]
  <2>1. letters # <<>> => g[Tail(letters)] = h[Tail(letters)]
    BY <1>1, <1>5
  <2>2. EncodeStep(letters, g) = EncodeStep(letters, h)
    BY <2>1 DEF EncodeStep
  <2> QED
    BY <1>3, <2>2
<1>6. PICK f : Recursive(L, V, step, f)
  <2>1. Contracts(L, V, step)
    BY <1>3, <1>5 DEF Contracts
  <2> QED
    BY <1>4, <2>1, Recursion
<1>7. f = [letters \in Seq(L) |-> EncodeStep(letters, f)]
  BY <1>3, <1>6 DEF Recursive
<1> QED
  BY <1>7, Zenon DEF Encode, EncodeStep, L

LEMMA DecodedDef == Decoded = [rest \in Seq(Code) |-> DecodeStep(rest, Decoded)]
<1> DEFINE V == Seq(Code)
           step == [p \in Seq(Code) \X [Seq(Code) -> V] |-> DecodeStep(p[1], p[2])]
<1>1. ASSUME NEW rest \in Seq(Code), rest # <<>>
      PROVE  /\ rest[1] \in Code /\ Tail(rest) \in Seq(Code) /\ Len(rest) \in Nat
             /\ Len(Tail(rest)) = Len(rest) - 1 /\ Len(Tail(rest)) < Len(rest)
  <2>1. /\ rest[1] \in Code /\ Tail(rest) \in Seq(Code) /\ Len(rest) \in Nat
        /\ Len(Tail(rest)) = Len(rest) - 1
    BY <1>1, Rest
  <2> QED
    BY <2>1
<1>2. ASSUME NEW rest \in Seq(Code), Len(rest) >= 3, rest # <<>>
      PROVE  /\ Tail(Tail(Tail(rest))) \in Seq(Code)
             /\ Len(Tail(Tail(Tail(rest)))) < Len(rest)
  BY <1>2, RestOfEscape
<1>3. ASSUME NEW rest \in Seq(Code), NEW later \in [Seq(Code) -> V]
      PROVE  DecodeStep(rest, later) \in V
  <2>1. CASE rest = <<>> \/ (rest[1] = Percent /\ Len(rest) < 3)
    BY <2>1 DEF DecodeStep
  <2>2. CASE rest # <<>> /\ rest[1] = Percent /\ Len(rest) >= 3
    <3>1. later[Tail(Tail(Tail(rest)))] \in Seq(Code)
      BY <1>2, <2>2
    <3>2. rest[2] \in Code /\ rest[3] \in Code
      BY <1>1, <2>2
    <3>3. HexPair(rest[2], rest[3]) \in Code
      BY <3>2, HexPairType
    <3> QED
      BY <2>2, <3>1, <3>3 DEF DecodeStep
  <2>3. CASE rest # <<>> /\ rest[1] # Percent
    <3>1. later[Tail(rest)] \in Seq(Code) /\ rest[1] \in Code
      BY <1>1, <2>3
    <3> QED
      BY <2>3, <3>1 DEF DecodeStep
  <2> QED
    BY <1>1, <2>1, <2>2, <2>3
<1>4. /\ step \in [Seq(Code) \X [Seq(Code) -> V] -> V]
      /\ \A rest \in Seq(Code), g \in [Seq(Code) -> V] : step[<<rest, g>>] = DecodeStep(rest, g)
  BY <1>3
<1>5. V # {}
  <2>1. <<>> \in V
    OBVIOUS
  <2> QED
    BY <2>1
<1> HIDE DEF step, V
<1>6. ASSUME NEW rest \in Seq(Code), NEW g \in [Seq(Code) -> V], NEW h \in [Seq(Code) -> V],
             \A u \in Seq(Code) : Len(u) < Len(rest) => g[u] = h[u]
      PROVE  step[<<rest, g>>] = step[<<rest, h>>]
  <2>1. rest # <<>> => g[Tail(rest)] = h[Tail(rest)]
    BY <1>1, <1>6
  <2>2. rest # <<>> /\ Len(rest) >= 3 => g[Tail(Tail(Tail(rest)))] = h[Tail(Tail(Tail(rest)))]
    BY <1>2, <1>6
  <2>3. rest # <<>> => Len(rest) < 3 \/ Len(rest) >= 3
    BY <1>1
  <2>4. DecodeStep(rest, g) = DecodeStep(rest, h)
    <3>1. CASE rest = <<>> \/ (rest[1] = Percent /\ Len(rest) < 3)
      BY <3>1 DEF DecodeStep
    <3>2. CASE rest # <<>> /\ rest[1] = Percent /\ Len(rest) >= 3
      <4>1. g[Tail(Tail(Tail(rest)))] = h[Tail(Tail(Tail(rest)))]
        BY <3>2, <2>2
      <4>2. ~ (rest = <<>> \/ (rest[1] = Percent /\ Len(rest) < 3))
        BY <3>2
      <4>3. DecodeStep(rest, g) = <<HexPair(rest[2], rest[3])>> \o g[Tail(Tail(Tail(rest)))]
        BY <3>2, <4>2, Zenon DEF DecodeStep
      <4>4. DecodeStep(rest, h) = <<HexPair(rest[2], rest[3])>> \o h[Tail(Tail(Tail(rest)))]
        BY <3>2, <4>2, Zenon DEF DecodeStep
      <4> QED
        BY <4>1, <4>3, <4>4, Zenon
    <3>3. CASE rest # <<>> /\ rest[1] # Percent
      <4>1. g[Tail(rest)] = h[Tail(rest)]
        BY <3>3, <2>1
      <4>2. DecodeStep(rest, g) = <<rest[1]>> \o g[Tail(rest)]
        BY <3>3, Zenon DEF DecodeStep
      <4>3. DecodeStep(rest, h) = <<rest[1]>> \o h[Tail(rest)]
        BY <3>3, Zenon DEF DecodeStep
      <4> QED
        BY <4>1, <4>2, <4>3, Zenon
    <3> QED
      BY <2>3, <3>1, <3>2, <3>3
  <2> QED
    BY <1>4, <2>4
<1>7. PICK f : Recursive(Code, V, step, f)
  <2>1. Contracts(Code, V, step)
    BY <1>4, <1>6 DEF Contracts
  <2> QED
    BY <1>5, <2>1, Recursion
<1>8. f = [rest \in Seq(Code) |-> DecodeStep(rest, f)]
  BY <1>4, <1>7 DEF Recursive
<1> QED
  BY <1>8, Zenon DEF Decoded, DecodeStep

LEMMA OnePlus ==
  ASSUME NEW S, NEW x \in S, NEW e \in Seq(S), NEW w, w = <<x>> \o e
  PROVE  /\ w \in Seq(S) /\ w # <<>> /\ Len(w) = Len(e) + 1
         /\ w[1] = x /\ Tail(w) = e
         /\ \A i \in 1..Len(e) : w[i + 1] = e[i]
<1>1. <<x>> \in Seq(S) /\ Len(<<x>>) = 1 /\ <<x>>[1] = x
  OBVIOUS
<1>2. Len(e) \in Nat
  BY LenProperties
<1>3. /\ w \in Seq(S) /\ Len(w) = Len(e) + 1
      /\ \A i \in 1..Len(e) + 1 : w[i] = IF i <= 1 THEN <<x>>[i] ELSE e[i - 1]
  BY <1>1, <1>2, ConcatProperties
<1>4. w[1] = x /\ \A i \in 1..Len(e) : w[i + 1] = e[i]
  BY <1>1, <1>2, <1>3
<1>5. w # <<>>
  BY <1>2, <1>3, NotEmpty
<1>6. Tail(w) = e
  <2>1. Tail(w) \in Seq(S) /\ Len(Tail(w)) = Len(e) /\ \A i \in 1..Len(e) : Tail(w)[i] = w[i + 1]
    BY <1>2, <1>3, <1>5, HeadTailProperties
  <2> QED
    BY <1>4, <2>1, SeqEqual
<1> QED
  BY <1>3, <1>4, <1>5, <1>6

Behind(S, pre, e, w) ==
    /\ w \in Seq(S) /\ w # <<>> /\ Len(w) = Len(e) + 3
    /\ w[1] = pre[1] /\ w[2] = pre[2] /\ w[3] = pre[3]
    /\ Tail(Tail(Tail(w))) = e
    /\ \A i \in 1..Len(e) : w[i + 3] = e[i]

LEMMA ThreePlus ==
  ASSUME NEW S, NEW pre \in Seq(S), Len(pre) = 3, NEW e \in Seq(S), NEW w, w = pre \o e
  PROVE  Behind(S, pre, e, w)
<1>1. Len(e) \in Nat
  BY LenProperties
<1>2. /\ w \in Seq(S) /\ Len(w) = 3 + Len(e)
      /\ \A i \in 1..3 + Len(e) : w[i] = IF i <= 3 THEN pre[i] ELSE e[i - 3]
  <2>1. /\ w \in Seq(S) /\ Len(w) = Len(pre) + Len(e)
        /\ \A i \in 1..Len(pre) + Len(e) : w[i] = IF i <= Len(pre) THEN pre[i] ELSE e[i - Len(pre)]
    BY ConcatProperties
  <2> QED
    BY <2>1
<1>3. w[1] = pre[1] /\ w[2] = pre[2] /\ w[3] = pre[3]
  BY <1>1, <1>2
<1>4. ASSUME NEW i \in 1..Len(e) PROVE w[i + 3] = e[i]
  <2>1. i + 3 \in 1..3 + Len(e) /\ ~(i + 3 <= 3) /\ (i + 3) - 3 = i
    BY <1>1
  <2> QED
    BY <1>2, <2>1
<1>5. Tail(Tail(Tail(w))) = e
  <2>1. Len(w) >= 3 /\ Len(w) - 3 = Len(e)
    BY <1>1, <1>2
  <2>2. /\ Tail(Tail(Tail(w))) \in Seq(S) /\ Len(Tail(Tail(Tail(w)))) = Len(e)
        /\ \A i \in 1..Len(e) : Tail(Tail(Tail(w)))[i] = w[i + 3]
    BY <1>2, <2>1, RestOfEscape
  <2> QED
    BY <1>4, <2>2, SeqEqual
<1>6. w # <<>> /\ Len(w) = Len(e) + 3
  <2>1. Len(w) # 0 /\ Len(w) = Len(e) + 3
    BY <1>1, <1>2
  <2> QED
    BY <1>2, <2>1, NotEmpty
<1> QED
  BY <1>2, <1>3, <1>4, <1>5, <1>6 DEF Behind

Codes(letters) == [i \in 1..Len(letters) |-> letters[i][1]]

LEMMA CodesDef ==
  ASSUME NEW letters \in Seq(Letter), letters # <<>>
  PROVE  Codes(letters) = <<letters[1][1]>> \o Codes(Tail(letters))
<1> DEFINE t == Tail(letters)
           c == letters[1][1]
           w == <<c>> \o Codes(t)
<1>1. /\ letters[1] \in Letter /\ t \in Seq(Letter) /\ Len(letters) \in Nat \ {0}
      /\ Len(t) = Len(letters) - 1 /\ \A i \in 1..Len(letters) - 1 : t[i] = letters[i + 1]
  BY Rest
<1>2. \A l \in Letter : l[1] \in Code
  BY DEF Letter, Code
<1>3. \A s \in Seq(Letter) : Codes(s) \in Seq(Code) /\ Len(Codes(s)) = Len(s)
  <2>1. ASSUME NEW s \in Seq(Letter)
        PROVE  Len(s) \in Nat /\ \A i \in 1..Len(s) : s[i] \in Letter
    BY LenProperties, ElementOfSeq
  <2>2. ASSUME NEW s \in Seq(Letter)
        PROVE  Codes(s) \in Seq(Code) /\ Len(Codes(s)) = Len(s)
    BY <1>2, <2>1, IsASeq DEF Codes
  <2> QED
    BY <2>2
<1>4. /\ w \in Seq(Code) /\ Len(w) = Len(t) + 1 /\ w[1] = c
      /\ \A i \in 1..Len(t) : w[i + 1] = Codes(t)[i]
  <2>1. c \in Code /\ Codes(t) \in Seq(Code) /\ Len(Codes(t)) = Len(t)
    BY <1>1, <1>2, <1>3
  <2> QED
    BY <2>1, OnePlus
<1> HIDE DEF w
<1>5. Codes(letters) \in Seq(Code) /\ Len(Codes(letters)) = Len(w)
  BY <1>1, <1>3, <1>4
<1>6. ASSUME NEW i \in 1..Len(letters) PROVE Codes(letters)[i] = w[i]
  <2>1. CASE i = 1
    BY <1>1, <1>4, <2>1 DEF Codes
  <2>2. CASE i # 1
    <3>1. i - 1 \in 1..Len(t) /\ (i - 1) + 1 = i
      BY <1>1, <2>2
    <3>2. w[i] = Codes(t)[i - 1] /\ t[i - 1] = letters[i]
      BY <1>1, <1>4, <3>1
    <3> QED
      BY <3>1, <3>2 DEF Codes
  <2> QED
    BY <2>1, <2>2
<1>7. Codes(letters) = w
  BY <1>1, <1>4, <1>5, <1>6, SeqEqual
<1> QED
  BY <1>7 DEF w

LEMMA LettersAreCodes ==
  /\ Letter \subseteq Code \X BOOLEAN
  /\ Seq(Letter) \subseteq Seq(Code \X BOOLEAN)
<1>1. Letter \subseteq Code \X BOOLEAN
  BY DEF Letter, Code
<1> QED
  BY <1>1, SeqMonotonic

\* What is decoded is what was encoded, and its code does not end in a `?'.
Decodes(letters) ==
    /\ Encode[letters] \in Seq(Code)
    /\ Decoded[Encode[letters]] = Codes(letters)
    /\ letters # <<>> => /\ Len(Encode[letters]) \in Nat \ {0}
                         /\ Encode[letters][Len(Encode[letters])] # Question

LEMMA NothingDecodes == Decodes(<<>>)
<1>1. <<>> \in Seq(Code) /\ <<>> \in Seq(Code \X BOOLEAN)
  OBVIOUS
<1>2. Encode[<<>>] = <<>>
  BY <1>1, EncodeDef DEF EncodeStep
<1>3. Decoded[<<>>] = <<>>
  BY <1>1, DecodedDef DEF DecodeStep
<1>4. Codes(<<>>) = <<>>
  BY DEF Codes
<1> QED
  BY <1>1, <1>2, <1>3, <1>4 DEF Decodes

\* The code w of one character and more decodes to that character and more.
Extends(w, c, e) ==
    /\ w \in Seq(Code) /\ Len(w) \in Nat \ {0}
    /\ Decoded[w] = <<c>> \o Decoded[e]
    /\ (Len(e) = 0 \/ e[Len(e)] # Question) => w[Len(w)] # Question

LEMMA EscapeExtends ==
  ASSUME NEW c \in Code, NEW e \in Seq(Code), NEW w, w = Escape(c) \o e
  PROVE  Extends(w, c, e)
<1>1. PICK a \in Code, b \in Code :
        b # Question /\ HexPair(a, b) = c /\ Escape(c) = <<Percent, a, b>>
  BY EscapeType DEF Escape
<1>2. PICK pre \in Seq(Code) :
        /\ pre = Escape(c) /\ Len(pre) = 3
        /\ pre[1] = Percent /\ pre[2] = a /\ pre[3] = b
  BY <1>1, EscapeType
<1>3. w = pre \o e
  BY <1>2
<1>4. /\ w \in Seq(Code) /\ w # <<>> /\ Len(w) = Len(e) + 3
      /\ w[1] = Percent /\ w[2] = a /\ w[3] = b /\ Tail(Tail(Tail(w))) = e
      /\ \A i \in 1..Len(e) : w[i + 3] = e[i]
  <2>1. Len(pre) = 3
    BY <1>2
  <2>2. Behind(Code, pre, e, w)
    BY <1>3, <2>1, ThreePlus
  <2> QED
    BY <1>2, <2>2 DEF Behind
<1>5. Len(e) \in Nat
  BY LenProperties
<1>6. Decoded[w] = <<c>> \o Decoded[e]
  <2>1. Decoded[w] = DecodeStep(w, Decoded)
    BY <1>4, DecodedDef
  <2>2. ~(Len(w) < 3)
    BY <1>4, <1>5
  <2>3. DecodeStep(w, Decoded) = <<HexPair(w[2], w[3])>> \o Decoded[Tail(Tail(Tail(w)))]
    BY <1>4, <2>2 DEF DecodeStep
  <2> QED
    BY <1>1, <1>4, <2>1, <2>3
<1>7. ASSUME Len(e) = 0 \/ e[Len(e)] # Question PROVE w[Len(w)] # Question
  <2>1. CASE Len(e) = 0
    BY <1>1, <1>4, <2>1
  <2>2. CASE Len(e) # 0
    <3>1. Len(e) \in 1..Len(e)
      BY <1>5, <2>2
    <3>2. w[Len(e) + 3] = e[Len(e)]
      BY <1>4, <3>1
    <3> QED
      BY <1>4, <1>7, <2>2, <3>2
  <2> QED
    BY <2>1, <2>2
<1>8. Len(w) \in Nat \ {0}
  BY <1>4, <1>5
<1> QED
  BY <1>4, <1>6, <1>7, <1>8 DEF Extends

LEMMA PlainExtends ==
  ASSUME NEW c \in Code, c \notin {Percent, Question}, NEW e \in Seq(Code),
         NEW w, w = <<c>> \o e
  PROVE  Extends(w, c, e)
<1>1. /\ w \in Seq(Code) /\ w # <<>> /\ Len(w) = Len(e) + 1 /\ w[1] = c /\ Tail(w) = e
      /\ \A i \in 1..Len(e) : w[i + 1] = e[i]
  BY OnePlus
<1>2. Len(e) \in Nat
  BY LenProperties
<1>3. Decoded[w] = <<c>> \o Decoded[e]
  <2>1. Decoded[w] = DecodeStep(w, Decoded)
    BY <1>1, DecodedDef
  <2>2. DecodeStep(w, Decoded) = <<w[1]>> \o Decoded[Tail(w)]
    BY <1>1 DEF DecodeStep
  <2> QED
    BY <1>1, <2>1, <2>2
<1>4. ASSUME Len(e) = 0 \/ e[Len(e)] # Question PROVE w[Len(w)] # Question
  <2>1. CASE Len(e) = 0
    BY <1>1, <2>1
  <2>2. CASE Len(e) # 0
    <3>1. Len(e) \in 1..Len(e)
      BY <1>2, <2>2
    <3>2. w[Len(e) + 1] = e[Len(e)]
      BY <1>1, <3>1
    <3> QED
      BY <1>1, <1>4, <2>2, <3>2
  <2> QED
    BY <2>1, <2>2
<1>5. Len(w) \in Nat \ {0}
  BY <1>1, <1>2
<1> QED
  BY <1>1, <1>3, <1>4, <1>5 DEF Extends

LEMMA OneMoreDecodes ==
  ASSUME NEW letters \in Seq(Letter), letters # <<>>, Decodes(Tail(letters))
  PROVE  Decodes(letters)
<1>1. PICK c \in Code, t \in Seq(Letter) :
        /\ c = letters[1][1] /\ t = Tail(letters)
        /\ MustEscape(c) => letters[1][2]
  <2>1. letters[1] \in Letter /\ Tail(letters) \in Seq(Letter)
    BY Rest
  <2>2. letters[1][1] \in Code /\ (MustEscape(letters[1][1]) => letters[1][2])
    BY <2>1 DEF Letter, Code
  <2> QED
    BY <2>1, <2>2
<1>2. PICK e : e = Encode[t]
  OBVIOUS
<1>3. PICK w : w = Encode[letters]
  OBVIOUS
<1>4. e \in Seq(Code) /\ Decoded[e] = Codes(t)
  BY <1>1, <1>2 DEF Decodes
<1>5. Len(e) = 0 \/ e[Len(e)] # Question
  <2>1. CASE t = <<>>
    <3>1. <<>> \in Seq(Code \X BOOLEAN) /\ Len(<<>>) = 0
      OBVIOUS
    <3>2. Encode[<<>>] = <<>>
      BY <3>1, EncodeDef DEF EncodeStep
    <3> QED
      BY <1>2, <2>1, <3>1, <3>2
  <2>2. CASE t # <<>>
    BY <1>1, <1>2, <2>2 DEF Decodes
  <2> QED
    BY <2>1, <2>2
<1>6. w = EncodeStep(letters, Encode)
  BY <1>3, LettersAreCodes, EncodeDef
<1>7. Extends(w, c, e)
  <2>1. CASE letters[1][2]
    <3>1. w = Escape(c) \o e
      BY <1>1, <1>2, <1>6, <2>1 DEF EncodeStep
    <3> QED
      BY <1>4, <3>1, EscapeExtends
  <2>2. CASE ~letters[1][2]
    <3>1. w = <<c>> \o e
      BY <1>1, <1>2, <1>6, <2>2 DEF EncodeStep
    <3>2. c \notin {Percent, Question}
      BY <1>1, <2>2 DEF MustEscape
    <3> QED
      BY <1>4, <3>1, <3>2, PlainExtends
  <2> QED
    BY <2>1, <2>2
<1>8. Codes(letters) = <<c>> \o Codes(t)
  BY <1>1, CodesDef
<1> QED
  BY <1>3, <1>4, <1>5, <1>7, <1>8 DEF Extends, Decodes

LEMMA RoundTrip == \A letters \in Seq(Letter) : Decodes(letters)
<1> DEFINE Bad == {letters \in Seq(Letter) : ~Decodes(letters)}
<1> SUFFICES ASSUME Bad # {} PROVE FALSE
  OBVIOUS
<1>1. PICK letters \in Bad : \A other \in Bad : Len(letters) <= Len(other)
  BY Shortest
<1>2. letters \in Seq(Letter) /\ ~Decodes(letters)
  OBVIOUS
<1>3. letters # <<>>
  BY <1>2, NothingDecodes
<1>4. Tail(letters) \in Seq(Letter) /\ Len(letters) \in Nat
      /\ Len(Tail(letters)) = Len(letters) - 1
  BY <1>2, <1>3, Rest
<1>5. Decodes(Tail(letters))
  <2>1. ~(Len(letters) <= Len(Tail(letters)))
    BY <1>4
  <2> QED
    BY <1>1, <1>4, <2>1
<1> QED
  BY <1>2, <1>3, <1>5, OneMoreDecodes

LEMMA TargetFound ==
  ASSUME NEW letters \in Seq(Letter), letters # <<>>
  PROVE  Target(Encode[letters]) = Codes(letters)
  BY RoundTrip DEF Decodes, Target, DecodeUrl

------------------------------------------------------------------------------
(* The invariants.  The settings are followed member by member: those that  *)
(* loop() has still to look at are the document's, and of the others every  *)
(* one has its effect.                                                      *)

Read == Whole /\ Readable(doc, style)

InputInv == \E input \in Inputs : <<args, doc, style>> = <<input.args, input.doc, input.style>>

Applying ==
    IF Read
    THEN /\ DOMAIN todo \subseteq Named(doc)
         /\ \A n \in DOMAIN todo : todo[n] = Meant(doc)[n]
         /\ {<<k>> : k \in Paths} \subseteq DOMAIN conf
         /\ \A k \in Paths :
              conf[<<k>>] = IF <<k>> \in DOMAIN todo THEN Defaults[<<k>>] ELSE PathMeant(doc, k)
         /\ port = IF <<"ListenPort">> \in DOMAIN todo THEN DefaultPort ELSE PortMeant(doc)
    ELSE DOMAIN todo = {} /\ port = DefaultPort /\ conf = Defaults

Settled ==
    IF Read
    THEN (\A k \in Paths : Setting(k) = PathMeant(doc, k)) /\ port = PortMeant(doc)
    ELSE port = DefaultPort /\ (DOMAIN conf = {} \/ conf = Defaults)

SettingsInv ==
    /\ phase \in {"options", "log", "settings"} => conf = <<>> /\ port = DefaultPort
    /\ phase = "apply" /\ ~Escaped(doc) => Applying
    /\ phase \in {"listen", "serving", "answered"} /\ ~Escaped(doc) => Settled

NumbersInv ==
    phase = "apply" => \A k \in DOMAIN todo : todo[k][1] = "num" => todo[k][2] \in Int

LogPlaced ==
    \/ \E v \in Given(doc, "LogPath") : logDir = PathOf(v)
    \/ Given(doc, "LogPath") = {} /\ logDir = Here
    \/ \E i \in DOMAIN doc :
         /\ doc[i][2][1] \in {"arr", "members"}
         /\ \E v \in FindIn(MeantBy(doc[i][2]), LogPath) : logDir = PathOf(v)

LogInv ==
    phase \in {"settings", "apply", "listen", "serving", "answered"} /\ keepLog /\ Read => LogPlaced

\* A process that becomes a server has one argument at most, keeps a log unless
\* that is -n, and applies no settings of a file that it could not read.
OptionsInv ==
    /\ OptionsAsDocumented
    /\ phase \in Server => Len(args) <= 1
    /\ args = <<"-n">> /\ phase # "options" => ~keepLog
    /\ phase = "apply" => text \notin Missing

\* A server, or how it ended.
ServerStands ==
    \/ phase \in Server \cup {"taken"}
    \/ phase \in {"unlogged", "mute"} /\ keepLog
    \/ phase = "aborted" /\ text = <<"absent">>
    \/ phase \in {"faulted", "stopped", "hung"} /\ text \notin Missing

PagesInv ==
    /\ PagesFound
    /\ phase # "answered" => asked = <<>>

ConfInv ==
    /\ phase \in {"options", "log", "settings"} => conf = <<>>
    /\ phase = "apply" => {<<"HttpPath">>, <<"DefaultPage">>} \subseteq DOMAIN conf

------------------------------------------------------------------------------
(* The inputs, which no action changes, and the command line.               *)

LEMMA InputInit == Init => InputInv
  BY DEF Init, InputInv

LEMMA Unchanged == [Next]_vars => UNCHANGED <<args, doc, style>>
<1> SUFFICES ASSUME [Next]_vars PROVE UNCHANGED <<args, doc, style>>
  OBVIOUS
<1>1. CASE ParseOptions
  BY <1>1 DEF ParseOptions, inputVars
<1>2. CASE InitLog
  BY <1>2 DEF InitLog, inputVars
<1>3. CASE NewDay
  BY <1>3 DEF NewDay
<1>4. CASE LoadSettings
  BY <1>4 DEF LoadSettings, inputVars
<1>5. CASE ApplyPort \/ ApplyPath \/ ApplyFaults \/ Applied \/ Listen
  BY <1>5 DEF ApplyPort, ApplyPath, ApplyFaults, Applied, Listen, inputVars
<1>6. CASE DefaultPageAsked \/ PageAsked
  BY <1>6 DEF DefaultPageAsked, PageAsked, inputVars
<1>7. CASE UNCHANGED vars
  BY <1>7 DEF vars, inputVars
<1> QED
  BY <1>1, <1>2, <1>3, <1>4, <1>5, <1>6, <1>7 DEF Next

LEMMA InputNext == InputInv /\ [Next]_vars => InputInv'
  BY Unchanged DEF InputInv

LEMMA InputAlways == Spec => []InputInv
  BY InputInit, InputNext, PTL DEF Spec

LEMMA Arguments == InputInv => args \in Seq(Word) /\ Len(args) \in Nat
<1>1. ASSUME InputInv PROVE args \in Seq(Word)
  BY <1>1, InputsAssumption DEF InputInv
<1> QED
  BY <1>1, LenProperties

LEMMA ServerLine ==
  ASSUME args \in Seq(Word), args \in {<<>>, <<"-n">>}
  PROVE  /\ GetOpt[args].out = "done" /\ Mode(GetOpt[args].opts, GetOpt[args].left) = "log"
         /\ args = <<"-n">> => "-n" \in GetOpt[args].opts
<1>1. GetOpt[<<>>] = [out |-> "done", opts |-> {}, left |-> <<>>]
  <2>1. <<>> \in Seq(Word)
    OBVIOUS
  <2> QED
    BY <2>1, GetOptDef DEF Round
<1>2. CASE args = <<>>
  <2>1. args # <<"-n">>
    BY <1>2
  <2> QED
    BY <1>1, <1>2, <2>1 DEF Mode
<1>3. CASE args = <<"-n">>
  <2>1. GetOpt[args] = Round(args, GetOpt)
    BY GetOptDef
  <2>2. GetOpt[args] = WithOption("-n", GetOpt[<<>>])
    BY <1>3, <2>1 DEF Round, TakesArgument
  <2>3. Len(args) = 1
    BY <1>3
  <2> QED
    BY <1>1, <2>2, <2>3 DEF WithOption, Mode
<1> QED
  BY <1>2, <1>3

LEMMA ClientLine ==
  ASSUME args \in Seq(Word), NEW o \in TakesArgument,
         args \in {<<o, "word", "ip:port">>, <<"ip:port", o, "word">>}
  PROVE  /\ GetOpt[args].out = "done" /\ Mode(GetOpt[args].opts, GetOpt[args].left) = ClientMode({o})
         /\ Len(args) = 3
<1> DEFINE none == [out |-> "done", opts |-> {}, left |-> <<>>]
<1>0. "word" \in Word /\ "ip:port" \in Word /\ o \in Word
  <2>1. <<o, "word", "ip:port">> \in Seq(Word) \/ <<"ip:port", o, "word">> \in Seq(Word)
    OBVIOUS
  <2>2. CASE <<o, "word", "ip:port">> \in Seq(Word)
    BY <2>2
  <2>3. CASE <<"ip:port", o, "word">> \in Seq(Word)
    BY <2>3
  <2> QED
    BY <2>1, <2>2, <2>3
<1>1. GetOpt[<<>>] = none
  <2>1. <<>> \in Seq(Word)
    OBVIOUS
  <2> QED
    BY <2>1, GetOptDef DEF Round
<1>2. CASE args = <<o, "word", "ip:port">>
  <2>1. GetOpt[<<"ip:port">>] = WithArgument("ip:port", none)
    <3>1. GetOpt[<<"ip:port">>] = Round(<<"ip:port">>, GetOpt)
      BY <1>0, GetOptDef
    <3> QED
      BY <1>1, <3>1 DEF Round, TakesArgument
  <2>2. GetOpt[args] = WithOption(o, GetOpt[<<"ip:port">>])
    <3>1. GetOpt[args] = Round(args, GetOpt)
      BY <1>0, <1>2, GetOptDef
    <3> QED
      BY <1>2, <3>1 DEF Round, TakesArgument
  <2>3. GetOpt[args] = [out |-> "done", opts |-> {o}, left |-> <<"ip:port">>]
    BY <2>1, <2>2 DEF WithArgument, WithOption
  <2> QED
    BY <1>2, <2>3 DEF Mode
<1>3. CASE args = <<"ip:port", o, "word">>
  <2>1. GetOpt[<<o, "word">>] = WithOption(o, none)
    <3>1. GetOpt[<<o, "word">>] = Round(<<o, "word">>, GetOpt)
      BY <1>0, GetOptDef
    <3> QED
      BY <1>1, <3>1 DEF Round, TakesArgument
  <2>2. GetOpt[args] = WithArgument("ip:port", GetOpt[<<o, "word">>])
    <3>1. GetOpt[args] = Round(args, GetOpt)
      BY <1>0, <1>3, GetOptDef
    <3> QED
      BY <1>3, <3>1 DEF Round, TakesArgument
  <2>3. GetOpt[args] = [out |-> "done", opts |-> {o}, left |-> <<"ip:port">>]
    BY <2>1, <2>2 DEF WithArgument, WithOption
  <2> QED
    BY <1>3, <2>3 DEF Mode
<1> QED
  BY <1>2, <1>3

LEMMA NoAddress ==
  ASSUME args \in Seq(Word), NEW o \in TakesArgument,
         args \in {<<o, "word">>, <<"-n", o, "word">>, <<o, "word", "-n">>}
  PROVE  /\ GetOpt[args].out = "done"
         /\ Mode(GetOpt[args].opts, GetOpt[args].left) =
              IF args = <<o, "word">> THEN "missing" ELSE "faulted"
<1> DEFINE none == [out |-> "done", opts |-> {}, left |-> <<>>]
<1>0. "word" \in Word /\ o \in Word /\ (args # <<o, "word">> => "-n" \in Word)
  <2>1. CASE args = <<o, "word">>
    BY <2>1
  <2>2. CASE args = <<"-n", o, "word">>
    BY <2>2
  <2>3. CASE args = <<o, "word", "-n">>
    BY <2>3
  <2> QED
    BY <2>1, <2>2, <2>3
<1>o. /\ ({} \cup {o}) \cup {"-n"} = {o, "-n"}
      /\ ({} \cup {"-n"}) \cup {o} = {o, "-n"}
      /\ {} \cup {o} = {o}
  OBVIOUS
<1>1. GetOpt[<<>>] = none
  <2>1. <<>> \in Seq(Word)
    OBVIOUS
  <2> QED
    BY <2>1, GetOptDef DEF Round
<1>2. GetOpt[<<o, "word">>] = WithOption(o, none)
  <2>1. GetOpt[<<o, "word">>] = Round(<<o, "word">>, GetOpt)
    BY <1>0, GetOptDef
  <2> QED
    BY <1>1, <2>1 DEF Round, TakesArgument
<1>3. CASE args = <<o, "word">>
  <2>1. GetOpt[args] = [out |-> "done", opts |-> {o}, left |-> <<>>]
    BY <1>2, <1>3 DEF WithOption
  <2> QED
    BY <1>3, <2>1 DEF Mode, TakesArgument
<1>4. CASE args = <<"-n", o, "word">>
  <2>1. GetOpt[args] = WithOption("-n", GetOpt[<<o, "word">>])
    <3>1. GetOpt[args] = Round(args, GetOpt)
      BY <1>0, <1>4, GetOptDef
    <3> QED
      BY <1>4, <3>1 DEF Round, TakesArgument
  <2>2. /\ GetOpt[args].out = "done" /\ GetOpt[args].left = <<>>
        /\ GetOpt[args].opts = ({} \cup {o}) \cup {"-n"}
    BY <1>2, <2>1 DEF WithOption
  <2>3. Len(args) = 3 /\ args # <<>> /\ args # <<o, "word">>
    BY <1>4
  <2> QED
    BY <1>4, <1>o, <2>2, <2>3 DEF Mode
<1>5. CASE args = <<o, "word", "-n">>
  <2>1. GetOpt[<<"-n">>] = WithOption("-n", none)
    <3>0. args # <<o, "word">> /\ <<"-n">> \in Seq(Word)
      BY <1>0, <1>5
    <3>1. GetOpt[<<"-n">>] = Round(<<"-n">>, GetOpt)
      BY <3>0, GetOptDef
    <3> QED
      BY <1>1, <3>1 DEF Round, TakesArgument
  <2>2. GetOpt[args] = WithOption(o, GetOpt[<<"-n">>])
    <3>1. GetOpt[args] = Round(args, GetOpt)
      BY <1>0, <1>5, GetOptDef
    <3> QED
      BY <1>5, <3>1 DEF Round, TakesArgument
  <2>3. /\ GetOpt[args].out = "done" /\ GetOpt[args].left = <<>>
        /\ GetOpt[args].opts = ({} \cup {"-n"}) \cup {o}
    BY <2>1, <2>2 DEF WithOption
  <2>4. Len(args) = 3 /\ args # <<>> /\ args # <<o, "word">>
    BY <1>5
  <2> QED
    BY <1>5, <1>o, <2>3, <2>4 DEF Mode
<1> QED
  BY <1>3, <1>4, <1>5

LEMMA AncestryDef ==
  Ancestry = [e \in Classes |->
                {e} \cup (IF e \in DOMAIN Base THEN Ancestry[Base[e]]
                          ELSE IF e \in DOMAIN StdBase THEN Ancestry[StdBase[e]] ELSE {})]
<1> DEFINE IO == {"IO_exception", "basic_exception"}
           Above(e) == IF e = "peer_exception" THEN {"socket_exception"} \cup IO
                       ELSE IF e \in {"socket_exception", "file_exception"} THEN IO
                       ELSE IF e \in {"IO_exception", "out_of_range_exception"} THEN {"basic_exception"}
                       ELSE IF e \in {"invalid_argument", "out_of_range"} THEN {"logic_error", "exception"}
                       ELSE IF e = "logic_error" THEN {"exception"} ELSE {}
           f == [e \in Classes |-> {e} \cup Above(e)]
<1>1. f = [e \in Classes |->
             {e} \cup (IF e \in DOMAIN Base THEN f[Base[e]]
                       ELSE IF e \in DOMAIN StdBase THEN f[StdBase[e]] ELSE {})]
  <2>1. ASSUME NEW e \in Classes
        PROVE  Above(e) = IF e \in DOMAIN Base THEN {Base[e]} \cup Above(Base[e])
                          ELSE IF e \in DOMAIN StdBase THEN {StdBase[e]} \cup Above(StdBase[e]) ELSE {}
    BY DEF Classes, Base, StdBase
  <2>2. /\ \A e \in DOMAIN Base : Base[e] \in Classes
        /\ \A e \in DOMAIN StdBase : StdBase[e] \in Classes
    BY DEF Classes, Base, StdBase
  <2> HIDE DEF Above
  <2> QED
    BY <2>1, <2>2
<1> HIDE DEF f
<1> QED
  BY <1>1, Zenon DEF Ancestry

LEMMA NotStandard == ~Catches("exception", "file_exception")
<1>1. /\ "file_exception" \in Classes /\ "IO_exception" \in Classes /\ "basic_exception" \in Classes
      /\ "file_exception" \in DOMAIN Base /\ Base["file_exception"] = "IO_exception"
      /\ "IO_exception" \in DOMAIN Base /\ Base["IO_exception"] = "basic_exception"
      /\ "basic_exception" \notin DOMAIN Base /\ "basic_exception" \notin DOMAIN StdBase
  BY DEF Classes, Base, StdBase
<1>2. /\ Ancestry["file_exception"] = {"file_exception"} \cup Ancestry["IO_exception"]
      /\ Ancestry["IO_exception"] = {"IO_exception"} \cup Ancestry["basic_exception"]
      /\ Ancestry["basic_exception"] = {"basic_exception"}
  BY <1>1, AncestryDef
<1> QED
  BY <1>2 DEF Catches

LEMMA Standard == Catches("exception", "invalid_argument")
<1>1. /\ "invalid_argument" \in Classes /\ "logic_error" \in Classes /\ "exception" \in Classes
      /\ "invalid_argument" \notin DOMAIN Base /\ "invalid_argument" \in DOMAIN StdBase
      /\ StdBase["invalid_argument"] = "logic_error"
      /\ "logic_error" \notin DOMAIN Base /\ "logic_error" \in DOMAIN StdBase
      /\ StdBase["logic_error"] = "exception"
  BY DEF Classes, Base, StdBase
<1>2. /\ Ancestry["invalid_argument"] = {"invalid_argument"} \cup Ancestry["logic_error"]
      /\ Ancestry["logic_error"] = {"logic_error"} \cup Ancestry["exception"]
      /\ "exception" \in Ancestry["exception"]
  BY <1>1, AncestryDef
<1> QED
  BY <1>2 DEF Catches

\* Where a phase leads to, whatever the settings are.
Later(from, to) ==
    \/ to = from
    \/ /\ from \in Server
       /\ to \in (Server \ {"log"})
                   \cup {"aborted", "unlogged", "taken", "stopped", "hung", "mute"}
    \/ from = "log" /\ to = "faulted"

LEMMA Continues ==
  ASSUME NEW out, NEW read, NEW caught, NEW fault
  PROVE  Continued(out, read, caught, fault) \in {read, caught, fault, "hung", "aborted"}
  BY DEF Continued

LEMMA OptionsEnd ==
  ASSUME InputInv, ParseOptions
  PROVE  phase' \in {"log", "faulted"} \cup Client
                      \cup {"usage", "version", "aborted", "missing", "noport"}
<1> DEFINE seen == GetOpt[args]
<1>1. phase' = IF seen.out # "done" THEN seen.out ELSE Mode(seen.opts, seen.left)
  BY DEF ParseOptions
<1>2. seen.out \in {"done", "usage", "version", "aborted"}
  BY Arguments, GetOptType DEF Scanned
<1>3. \A opts : ClientMode(opts) \in Client
  BY DEF ClientMode, Client
<1> QED
  BY <1>1, <1>2, <1>3 DEF Mode

LEMMA InitLogEnd ==
  ASSUME InitLog
  PROVE  phase = "log" /\ phase' \in {"settings", "hung", "faulted", "aborted", "unlogged"}
<1>1. CASE ~keepLog
  BY <1>1 DEF InitLog
<1>2. CASE keepLog
  <2>1. PICK out : LET then == Continued(out, "settings", "settings", "faulted")
                   IN  phase' \in IF then = "settings" THEN {then, "unlogged"} ELSE {then}
    BY <1>2 DEF InitLog
  <2> QED
    BY <2>1, Continues DEF InitLog
<1> QED
  BY <1>1, <1>2

LEMMA NewDayStep ==
  ASSUME NewDay
  PROVE  \E file \in {text, <<"absent">>} : \E out \in Outcomes(file) :
           LET then == Continued(out, "serving", "serving", "stopped")
           IN  /\ text' = file /\ then \in {"serving", "stopped", "hung", "aborted"}
               /\ \/ then = "serving" /\ phase' \in {"serving", "unlogged", "mute"}
                  \/ then = "aborted" /\ phase' \in {"aborted", "mute"}
                  \/ then \in {"stopped", "hung"} /\ phase' = then
<1>1. PICK file \in {text, <<"absent">>} : \E out \in Outcomes(file) :
        /\ text' = file
        /\ LET then == Continued(out, "serving", "serving", "stopped")
           IN  phase' \in CASE then = "serving" -> {"serving", "unlogged", "mute"}
                            [] then = "aborted" -> {"aborted", "mute"}
                            [] OTHER -> {then}
  BY DEF NewDay
<1>2. PICK out \in Outcomes(file) :
        /\ text' = file
        /\ LET then == Continued(out, "serving", "serving", "stopped")
           IN  phase' \in CASE then = "serving" -> {"serving", "unlogged", "mute"}
                            [] then = "aborted" -> {"aborted", "mute"}
                            [] OTHER -> {then}
  BY <1>1
<1>3. PICK then : then = Continued(out, "serving", "serving", "stopped")
  OBVIOUS
<1>4. then \in {"serving", "stopped", "hung", "aborted"}
  BY <1>3, Continues
<1>5. phase' \in CASE then = "serving" -> {"serving", "unlogged", "mute"}
                   [] then = "aborted" -> {"aborted", "mute"}
                   [] OTHER -> {then}
  BY <1>2, <1>3
<1>6. \/ then = "serving" /\ phase' \in {"serving", "unlogged", "mute"}
      \/ then = "aborted" /\ phase' \in {"aborted", "mute"}
      \/ then \in {"stopped", "hung"} /\ phase' = then
  BY <1>4, <1>5
<1> QED
  BY <1>2, <1>3, <1>4, <1>6

LEMMA NewDayEnd ==
  ASSUME NewDay
  PROVE  /\ phase = "serving"
         /\ phase' \in {"serving", "mute", "unlogged", "hung", "stopped", "aborted"}
<1>1. phase = "serving"
  BY DEF NewDay
<1> QED
  BY <1>1, NewDayStep

LEMMA LoadSettingsEnd ==
  ASSUME LoadSettings
  PROVE  phase = "settings" /\ phase' \in {"apply", "listen", "hung", "stopped", "aborted"}
<1>1. PICK out : phase' = Continued(out, "apply", "listen", "stopped")
  BY DEF LoadSettings
<1> QED
  BY <1>1, Continues DEF LoadSettings

LEMMA PhaseNext ==
  ASSUME [Next]_vars, phase # "options"
  PROVE  Later(phase, phase')
<1>2. CASE InitLog
  BY <1>2, InitLogEnd DEF Later, Server
<1>3. CASE NewDay
  BY <1>3, NewDayEnd DEF Later, Server
<1>4. CASE LoadSettings
  BY <1>4, LoadSettingsEnd DEF Later, Server
<1>5. CASE ApplyPort \/ ApplyPath \/ ApplyFaults \/ Applied \/ Listen
  BY <1>5 DEF ApplyPort, ApplyPath, ApplyFaults, Applied, Listen, Later, Server
<1>6. CASE DefaultPageAsked \/ PageAsked
  BY <1>6 DEF DefaultPageAsked, PageAsked, Later, Server
<1>7. CASE UNCHANGED vars
  BY <1>7 DEF vars, Later
<1> QED
  BY <1>2, <1>3, <1>4, <1>5, <1>6, <1>7 DEF Next, ParseOptions

\* How the reading of sft.json ends, by the exceptions that main catches.
LEMMA ReadsTo ==
  ASSUME SettingsRead, NEW file \in {text, <<"absent">>}, NEW out \in Outcomes(file),
         NEW read, NEW caught, NEW fault
  PROVE  LET then == Continued(out, read, caught, fault)
         IN  \/ then = read /\ file \notin Missing
             \/ then = caught
             \/ then = "aborted" /\ file = <<"absent">>
             \/ then \in {fault, "hung"} /\ file \notin Missing
<1>1. CASE file = <<"absent">>
  <2>1. out = "file_exception"
    BY <1>1 DEF Outcomes
  <2>2. Continued(out, read, caught, fault) = "aborted"
    BY <2>1, NotStandard DEF Continued
  <2> QED
    BY <1>1, <2>2
<1>2. CASE file = <<"directory">>
  <2>1. out = "invalid_argument"
    BY <1>2 DEF Outcomes
  <2>2. Continued(out, read, caught, fault) = caught
    BY <2>1, Standard DEF Continued
  <2> QED
    BY <2>2
<1>3. CASE file \notin Missing
  <2>1. file = text
    BY <1>3 DEF Missing
  <2>2. JsonParse(file).out \in Results
    BY <1>3, <2>1 DEF SettingsRead
  <2>3. out \in {"value", "invalid_argument", "faults", "hangs"}
    BY <1>3, <2>2 DEF Outcomes, Results, Missing
  <2>4. Continued(out, read, caught, fault) \in {read, caught, fault, "hung"}
    BY <2>3, Standard DEF Continued
  <2> QED
    BY <1>3, <2>4
<1> QED
  BY <1>1, <1>2, <1>3 DEF Missing

LEMMA OptionsInit == Init => OptionsInv
  BY DEF Init, OptionsInv, OptionsAsDocumented, Server

LEMMA ServerNext ==
  ASSUME SettingsRead, OptionsInv, [Next]_vars, phase \in Server
  PROVE  ServerStands' /\ (phase' = "apply" => text' \notin Missing)
<1>1. CASE InitLog
  <2>0. UNCHANGED <<text, keepLog>>
    BY <1>1 DEF InitLog, inputVars
  <2>1. CASE ~keepLog
    <3>1. phase' = "settings"
      BY <1>1, <2>1 DEF InitLog
    <3> QED
      BY <3>1 DEF ServerStands, Server
  <2>2. CASE keepLog
    <3>1. PICK out \in Outcomes(text) :
            LET then == Continued(out, "settings", "settings", "faulted")
            IN  phase' \in IF then = "settings" THEN {then, "unlogged"} ELSE {then}
      BY <1>1, <2>2 DEF InitLog
    <3>2. LET then == Continued(out, "settings", "settings", "faulted")
          IN  \/ then = "settings"
              \/ then = "aborted" /\ text = <<"absent">>
              \/ then \in {"faulted", "hung"} /\ text \notin Missing
      BY ReadsTo
    <3> QED
      BY <2>0, <2>2, <3>1, <3>2 DEF ServerStands, Server
  <2> QED
    BY <2>1, <2>2
<1>2. CASE NewDay
  <2>1. PICK file \in {text, <<"absent">>} : \E out \in Outcomes(file) :
          LET then == Continued(out, "serving", "serving", "stopped")
          IN  /\ text' = file /\ then \in {"serving", "stopped", "hung", "aborted"}
              /\ \/ then = "serving" /\ phase' \in {"serving", "unlogged", "mute"}
                 \/ then = "aborted" /\ phase' \in {"aborted", "mute"}
                 \/ then \in {"stopped", "hung"} /\ phase' = then
    BY <1>2, NewDayStep
  <2>2. PICK out \in Outcomes(file) :
          LET then == Continued(out, "serving", "serving", "stopped")
          IN  /\ text' = file /\ then \in {"serving", "stopped", "hung", "aborted"}
              /\ \/ then = "serving" /\ phase' \in {"serving", "unlogged", "mute"}
                 \/ then = "aborted" /\ phase' \in {"aborted", "mute"}
                 \/ then \in {"stopped", "hung"} /\ phase' = then
    BY <2>1
  <2>3. LET then == Continued(out, "serving", "serving", "stopped")
        IN  \/ then = "serving"
            \/ then = "aborted" /\ file = <<"absent">>
            \/ then \in {"stopped", "hung"} /\ file \notin Missing
    BY ReadsTo
  <2>4. keepLog /\ keepLog' = keepLog
    BY <1>2 DEF NewDay
  <2> QED
    BY <2>2, <2>3, <2>4 DEF ServerStands, Server
<1>3. CASE LoadSettings
  <2>1. PICK out \in Outcomes(text) : phase' = Continued(out, "apply", "listen", "stopped")
    BY <1>3 DEF LoadSettings
  <2>2. \/ phase' = "apply" /\ text \notin Missing
        \/ phase' = "listen"
        \/ phase' = "aborted" /\ text = <<"absent">>
        \/ phase' \in {"stopped", "hung"} /\ text \notin Missing
    BY <2>1, ReadsTo
  <2>3. text' = text
    BY <1>3 DEF LoadSettings, inputVars
  <2> QED
    BY <2>2, <2>3 DEF ServerStands, Server
<1>4. CASE ApplyPort \/ ApplyPath \/ ApplyFaults \/ Applied
  <2>1. phase = "apply" /\ phase' \in {"apply", "stopped", "listen"} /\ text' = text
    BY <1>4 DEF ApplyPort, ApplyPath, ApplyFaults, Applied, inputVars
  <2> QED
    BY <2>1 DEF OptionsInv, ServerStands, Server
<1>5. CASE Listen \/ DefaultPageAsked \/ PageAsked
  <2>1. phase' \in {"serving", "taken", "answered"}
    BY <1>5 DEF Listen, DefaultPageAsked, PageAsked
  <2> QED
    BY <2>1 DEF ServerStands, Server
<1>6. CASE UNCHANGED vars
  BY <1>6 DEF vars, inputVars, OptionsInv, ServerStands
<1> QED
  BY <1>1, <1>2, <1>3, <1>4, <1>5, <1>6 DEF Next, ParseOptions, Server

LEMMA OptionsStart ==
  ASSUME InputInv, OptionsInv, ParseOptions
  PROVE  OptionsInv'
<1> DEFINE seen == GetOpt[args]
<1>1. UNCHANGED <<args, text>>
  BY DEF ParseOptions, inputVars
<1>2. args \in Seq(Word) /\ Len(args) \in Nat
  BY Arguments
<1>3. /\ phase' = IF seen.out # "done" THEN seen.out ELSE Mode(seen.opts, seen.left)
      /\ keepLog' = ("-n" \notin seen.opts)
  BY DEF ParseOptions
<1>4. seen.out \in {"done", "usage", "version", "aborted"}
  BY <1>2, GetOptType DEF Scanned
<1>5. args \in {<<>>, <<"-n">>} => seen.out = "done" /\ Mode(seen.opts, seen.left) = "log"
  BY <1>2, ServerLine
<1>6. args = <<"-n">> => "-n" \in seen.opts
  BY <1>2, ServerLine
<1>7. ASSUME NEW o \in TakesArgument
      PROVE  /\ args \in {<<o, "word", "ip:port">>, <<"ip:port", o, "word">>} =>
                  seen.out = "done" /\ Mode(seen.opts, seen.left) = ClientMode({o})
             /\ args = <<o, "word">> => seen.out = "done" /\ Mode(seen.opts, seen.left) = "missing"
             /\ args \in {<<"-n", o, "word">>, <<o, "word", "-n">>} =>
                  seen.out = "done" /\ Mode(seen.opts, seen.left) = "faulted"
  <2>1. CASE args \in {<<o, "word", "ip:port">>, <<"ip:port", o, "word">>}
    <3>1. seen.out = "done" /\ Mode(seen.opts, seen.left) = ClientMode({o}) /\ Len(args) = 3
      BY <1>2, <2>1, ClientLine
    <3>2. args # <<o, "word">> /\ (o # "-n" => args # <<"-n", o, "word">>)
            /\ args # <<o, "word", "-n">>
      BY <2>1
    <3> QED
      BY <3>1, <3>2 DEF TakesArgument
  <2>2. CASE args \in {<<o, "word">>, <<"-n", o, "word">>, <<o, "word", "-n">>}
    <3>1. /\ seen.out = "done"
          /\ Mode(seen.opts, seen.left) = IF args = <<o, "word">> THEN "missing" ELSE "faulted"
      BY <1>2, <2>2, NoAddress
    <3>2. args \notin {<<o, "word", "ip:port">>, <<"ip:port", o, "word">>}
      BY <2>2 DEF TakesArgument
    <3>3. <<o, "word">> \notin {<<"-n", o, "word">>, <<o, "word", "-n">>}
      OBVIOUS
    <3> QED
      BY <3>1, <3>2, <3>3
  <2> QED
    BY <2>1, <2>2
<1> HIDE DEF seen
<1>8. \A opts : ClientMode(opts) \in Client
  BY DEF ClientMode, Client
<1>9. phase' \in Server => Len(args) <= 1
  BY <1>3, <1>4, <1>8 DEF Mode, Server, Client
<1>10. phase' # "apply"
  BY OptionsEnd DEF Client
<1>11. args = <<"-n">> => ~keepLog'
  BY <1>3, <1>6
<1>12. OptionsAsDocumented'
  <2>1. args \in {<<>>, <<"-n">>} => phase' = "log"
    BY <1>3, <1>5
  <2>2. \A o \in TakesArgument :
          /\ args \in {<<o, "word", "ip:port">>, <<"ip:port", o, "word">>} => phase' = ClientMode({o})
          /\ args = <<o, "word">> => phase' = "missing"
          /\ args \in {<<"-n", o, "word">>, <<o, "word", "-n">>} => phase' = "faulted"
    BY <1>3, <1>7
  <2> QED
    BY <1>1, <2>1, <2>2 DEF OptionsAsDocumented, Server
<1> QED
  BY <1>1, <1>9, <1>10, <1>11, <1>12 DEF OptionsInv

LEMMA OptionsNext == InputInv /\ SettingsRead /\ OptionsInv /\ [Next]_vars => OptionsInv'
<1> SUFFICES ASSUME InputInv, SettingsRead, OptionsInv, [Next]_vars PROVE OptionsInv'
  OBVIOUS
<1>1. args' = args
  BY Unchanged
<1>2. args \in Seq(Word) /\ Len(args) \in Nat
  BY Arguments
<1>3. CASE phase = "options"
  <2>1. ParseOptions \/ UNCHANGED vars
    BY <1>3 DEF Next, InitLog, NewDay, LoadSettings, ApplyPort, ApplyPath, ApplyFaults, Applied,
                Listen, DefaultPageAsked, PageAsked
  <2>2. CASE UNCHANGED vars
    BY <1>3, <2>2 DEF vars, OptionsInv, OptionsAsDocumented, Server
  <2> QED
    BY <2>1, <2>2, OptionsStart
<1>4. CASE phase \in Server
  <2>0. Len(args) <= 1 /\ (args = <<"-n">> => ~keepLog) /\ phase # "options"
    BY <1>4 DEF OptionsInv, Server
  <2>1. ServerStands' /\ (phase' = "apply" => text' \notin Missing)
    BY <1>4, ServerNext
  <2>2. keepLog' = keepLog
    BY <2>0 DEF Next, ParseOptions, InitLog, NewDay, LoadSettings, ApplyPort, ApplyPath,
                ApplyFaults, Applied, Listen, DefaultPageAsked, PageAsked, vars
  <2>3. phase' # "options"
    BY <2>1 DEF ServerStands, Server
  <2>4. \A o \in TakesArgument :
          args \notin {<<o, "word", "ip:port">>, <<"ip:port", o, "word">>, <<o, "word">>,
                       <<"-n", o, "word">>, <<o, "word", "-n">>}
    BY <1>2, <2>0
  <2>5. args' \in {<<>>, <<"-n">>} =>
          \/ phase' \in Server \cup {"taken"}
          \/ phase' \in {"unlogged", "mute"} /\ args' = <<>>
          \/ phase' = "aborted" /\ text' = <<"absent">>
          \/ phase' \in {"faulted", "stopped", "hung"} /\ text' \notin Missing
    BY <1>1, <2>0, <2>1, <2>2 DEF ServerStands
  <2>6. OptionsAsDocumented'
    BY <1>1, <2>4, <2>5 DEF OptionsAsDocumented
  <2> QED
    BY <1>1, <2>0, <2>1, <2>2, <2>6 DEF OptionsInv
<1>5. CASE phase # "options" /\ phase \notin Server
  <2>1. UNCHANGED <<phase, text, keepLog>>
    BY <1>5 DEF Next, ParseOptions, InitLog, NewDay, LoadSettings, ApplyPort, ApplyPath,
                ApplyFaults, Applied, Listen, DefaultPageAsked, PageAsked, vars, inputVars, Server
  <2>2. OptionsAsDocumented'
    BY <1>1, <2>1 DEF OptionsInv, OptionsAsDocumented
  <2> QED
    BY <1>1, <2>1, <2>2 DEF OptionsInv
<1> QED
  BY <1>3, <1>4, <1>5

\* The usage text holds for every command line, of whatever length, if the
\* parser keeps its contract: a server is started by nothing or -n, and what
\* ends it is sft.json, the log or the port; a client by an option, its argument
\* and an address in either order; and none without an address.
THEOREM OptionsHold == Spec /\ []SettingsRead => []OptionsAsDocumented
<1>1. OptionsInv => OptionsAsDocumented
  BY DEF OptionsInv
<1> QED
  BY <1>1, InputInit, InputNext, OptionsInit, OptionsNext, PTL DEF Spec

------------------------------------------------------------------------------
(* The page.                                                                *)

LEMMA PagesInit == Init => PagesInv
  BY DEF Init, PagesInv, PagesFound

LEMMA NameDecodes ==
  ASSUME NEW name \in Names, NEW escaped \in [DOMAIN name -> BOOLEAN],
         \A i \in DOMAIN name : MustEscape(name[i]) => escaped[i]
  PROVE  Target(Encode[[i \in DOMAIN name |-> <<name[i], escaped[i]>>]]) = name
<1> DEFINE letters == [i \in DOMAIN name |-> <<name[i], escaped[i]>>]
<1>1. name \in Seq(1..255) /\ name # <<>>
  BY NamesAssumption
<1>2. /\ Len(name) \in Nat \ {0} /\ DOMAIN name = 1..Len(name)
      /\ \A i \in 1..Len(name) : name[i] \in 1..255
  BY <1>1, EmptySeq, LenProperties, ElementOfSeq
<1>3. letters \in Seq(Letter) /\ Len(letters) = Len(name)
  <2>1. \A i \in 1..Len(name) : <<name[i], escaped[i]>> \in Letter
    BY <1>2 DEF Letter
  <2>2. letters = [i \in 1..Len(name) |-> <<name[i], escaped[i]>>]
    BY <1>2
  <2> QED
    BY <1>2, <2>1, <2>2, IsASeq
<1>4. letters # <<>>
  BY <1>2, <1>3, NotEmpty
<1>5. Target(Encode[letters]) = Codes(letters)
  BY <1>3, <1>4, TargetFound
<1>6. Codes(letters) = name
  <2>1. Codes(letters) = [i \in 1..Len(name) |-> name[i]]
    BY <1>2, <1>3 DEF Codes
  <2>2. name = [i \in 1..Len(name) |-> name[i]]
    BY <1>1, <1>2
  <2> QED
    BY <2>1, <2>2
<1> QED
  BY <1>5, <1>6

LEMMA PagesNext == InputInv /\ PagesInv /\ [Next]_vars => PagesInv'
<1> SUFFICES ASSUME InputInv, PagesInv, [Next]_vars PROVE PagesInv'
  OBVIOUS
<1>1. CASE PageAsked
  <2>1. PICK escaped \in [DOMAIN asked' -> BOOLEAN] :
          /\ \A i \in DOMAIN asked' : MustEscape(asked'[i]) => escaped[i]
          /\ target' = <<Setting("HttpPath"),
                        Target(Encode[[i \in DOMAIN asked' |-> <<asked'[i], escaped[i]>>]])>>
    BY <1>1 DEF PageAsked
  <2>2. asked' \in Names /\ asked' # <<>>
    BY <1>1, NamesAssumption DEF PageAsked
  <2>3. target' = <<Setting("HttpPath"), asked'>>
    BY <2>1, <2>2, NameDecodes
  <2>4. conf' = conf /\ phase' = "answered"
    BY <1>1 DEF PageAsked
  <2>5. Setting("HttpPath")' = Setting("HttpPath")
    BY <2>4 DEF Setting
  <2> QED
    BY <2>2, <2>3, <2>4, <2>5 DEF PagesInv, PagesFound
<1>2. CASE DefaultPageAsked
  <2>1. /\ conf' = conf /\ phase' = "answered" /\ asked' = asked /\ asked = <<>>
        /\ target' = <<Setting("HttpPath"), Setting("DefaultPage")>>
    BY <1>2 DEF DefaultPageAsked, PagesInv
  <2>2. \A k : Setting(k)' = Setting(k)
    BY <2>1 DEF Setting
  <2> QED
    BY <2>1, <2>2 DEF PagesInv, PagesFound
<1>3. CASE UNCHANGED vars
  BY <1>3 DEF vars, PagesInv, PagesFound, Setting
<1>4. CASE phase # "answered" /\ asked' = asked /\ phase' # "answered"
  BY <1>4 DEF PagesInv, PagesFound
<1>5. CASE Next /\ ~PageAsked /\ ~DefaultPageAsked
  <2>1. phase # "answered" /\ asked' = asked
    BY <1>5 DEF Next, ParseOptions, InitLog, NewDay, LoadSettings, ApplyPort, ApplyPath,
                ApplyFaults, Applied, Listen
  <2>2. phase' # "answered"
    <3>1. CASE ParseOptions
      BY <3>1, OptionsEnd DEF Client
    <3>2. CASE InitLog \/ NewDay \/ LoadSettings
      BY <3>2, InitLogEnd, NewDayEnd, LoadSettingsEnd
    <3>3. CASE ApplyPort \/ ApplyPath \/ ApplyFaults \/ Applied \/ Listen
      BY <3>3 DEF ApplyPort, ApplyPath, ApplyFaults, Applied, Listen
    <3> QED
      BY <1>5, <3>1, <3>2, <3>3 DEF Next
  <2> QED
    BY <1>4, <2>1, <2>2
<1> QED
  BY <1>1, <1>2, <1>3, <1>5

\* The page of a request is the one whose name the browser encoded, for every
\* name and whichever of its characters it escaped, and the default page for a
\* request that names none.
THEOREM PagesAlwaysFound == Spec => []PagesFound
<1>1. PagesInv => PagesFound
  BY DEF PagesInv
<1> QED
  BY <1>1, InputInit, InputNext, PagesInit, PagesNext, PTL DEF Spec

------------------------------------------------------------------------------
(* The settings.                                                            *)

LEMMA Meanings ==
  ASSUME InputInv, NEW i \in DOMAIN doc
  PROVE  /\ doc[i][2][1] = "num" => doc[i][2][2] \in Int
         /\ \/ /\ doc[i][2][1] \notin {"arr", "members"} \cup Containers
               /\ MeantBy(doc[i][2]) = doc[i][2]
            \/ doc[i][2][1] \in {"arr", "members"} /\ MeantBy(doc[i][2])[1] \in Containers
<1>1. PICK input \in Inputs : doc = input.doc
  BY DEF InputInv
<1> QED
  BY <1>1, InputsAssumption DEF Containers

\* i is where the document first says something of n.
FirstOf(i, n) == i \in DOMAIN doc /\ doc[i][1] = n /\ IsFirst(doc, i)

LEMMA HasFirst ==
  ASSUME InputInv, NEW n \in Named(doc)
  PROVE  \E i : FirstOf(i, n) /\ n \in DOMAIN Meant(doc) /\ Meant(doc)[n] = MeantBy(doc[i][2])
<1>1. DOMAIN doc \subseteq Nat /\ \A i \in DOMAIN doc : 1..i-1 \subseteq DOMAIN doc
  <2>1. PICK input \in Inputs : doc = input.doc
    BY DEF InputInv
  <2> QED
    BY <2>1, InputsAssumption
<1> DEFINE T == {i \in DOMAIN doc : doc[i][1] = n}
<1>2. T \in SUBSET Nat /\ T # {}
  BY <1>1 DEF Named
<1>3. PICK i \in T : \A j \in T : i <= j
  BY <1>2, LeastNat
<1>4. FirstOf(i, n)
  <2>1. i \in DOMAIN doc /\ doc[i][1] = n
    OBVIOUS
  <2>2. ASSUME NEW j \in 1..i-1 PROVE doc[j][1] # n
    BY <1>1, <1>3, <2>1
  <2> QED
    BY <2>1, <2>2 DEF FirstOf, IsFirst
<1>5. PICK i0 : /\ i0 = CHOOSE j \in DOMAIN doc : doc[j][1] = n /\ IsFirst(doc, j)
                /\ FirstOf(i0, n)
  BY <1>4 DEF FirstOf
<1>6. n \in DOMAIN Meant(doc) /\ Meant(doc)[n] = MeantBy(doc[i0][2])
  BY <1>5 DEF Meant
<1> QED
  BY <1>5, <1>6

LEMMA GivenOnce ==
  ASSUME InputInv, NEW k, <<k>> \in Named(doc)
  PROVE  \E i \in DOMAIN doc :
           /\ doc[i][1] = <<k>> /\ Given(doc, k) = {doc[i][2]}
           /\ <<k>> \in DOMAIN Meant(doc) /\ Meant(doc)[<<k>>] = MeantBy(doc[i][2])
<1>1. PICK i : FirstOf(i, <<k>>) /\ <<k>> \in DOMAIN Meant(doc) /\ Meant(doc)[<<k>>] = MeantBy(doc[i][2])
  BY HasFirst
<1>2. DOMAIN doc \subseteq Nat \ {0}
  <2>1. PICK input \in Inputs : doc = input.doc
    BY DEF InputInv
  <2> QED
    BY <2>1, InputsAssumption
<1>3. ASSUME NEW j \in DOMAIN doc, doc[j][1] = <<k>>, IsFirst(doc, j) PROVE j = i
  <2>1. i \in DOMAIN doc /\ doc[i][1] = <<k>> /\ IsFirst(doc, i)
    BY <1>1 DEF FirstOf
  <2>2. ~(j < i)
    BY <1>2, <1>3, <2>1 DEF IsFirst
  <2>3. ~(i < j)
    BY <1>2, <1>3, <2>1 DEF IsFirst
  <2> QED
    BY <1>2, <2>1, <2>2, <2>3
<1>4. Given(doc, k) = {doc[i][2]}
  BY <1>1, <1>3 DEF Given, FirstOf
<1> QED
  BY <1>1, <1>4 DEF FirstOf

LEMMA NotGiven ==
  ASSUME NEW k, <<k>> \notin Named(doc)
  PROVE  Given(doc, k) = {}
  BY DEF Given, Named

LEMMA PathNamed ==
  ASSUME InputInv, NEW k \in Paths, <<k>> \in Named(doc), Meant(doc)[<<k>>][1] = "str"
  PROVE  PathMeant(doc, k) =
           LET path == IF Meant(doc)[<<k>>][2] # <<>> THEN Meant(doc)[<<k>>][2] ELSE Defaults[<<k>>]
           IN  IF k = "DefaultPage" THEN path ELSE Slashed(path)
<1>1. PICK i \in DOMAIN doc : Given(doc, k) = {doc[i][2]} /\ Meant(doc)[<<k>>] = MeantBy(doc[i][2])
  BY GivenOnce
<1>2. Meant(doc)[<<k>>] = doc[i][2]
  BY <1>1, Meanings DEF Containers
<1>3. /\ (\E v \in Given(doc, k) : v[2] # <<>>) <=> Meant(doc)[<<k>>][2] # <<>>
      /\ (CHOOSE v \in Given(doc, k) : TRUE) = Meant(doc)[<<k>>]
  BY <1>1, <1>2
<1> QED
  BY <1>3 DEF PathMeant

LEMMA PathNotNamed ==
  ASSUME NEW k \in Paths, <<k>> \notin Named(doc)
  PROVE  PathMeant(doc, k) = Defaults[<<k>>]
<1>1. Given(doc, k) = {}
  BY NotGiven
<1>2. k # "DefaultPage" => Defaults[<<k>>] = Here
  BY DEF Paths, Defaults
<1>3. Slashed(Here) = Here
  BY DEF Slashed, Here
<1> QED
  BY <1>1, <1>2, <1>3 DEF PathMeant

LEMMA PortNamed ==
  ASSUME InputInv, <<"ListenPort">> \in Named(doc)
  PROVE  LET v == Meant(doc)[<<"ListenPort">>]
         IN  /\ PortMeant(doc) = PortOf(v)
             /\ v[1] \notin {"num"} \cup Containers => PortOf(v) = DefaultPort
<1>1. PICK i \in DOMAIN doc : /\ Given(doc, "ListenPort") = {doc[i][2]}
                              /\ Meant(doc)[<<"ListenPort">>] = MeantBy(doc[i][2])
  BY GivenOnce
<1>2. PortMeant(doc) = PortOf(doc[i][2])
  <2>1. (CHOOSE v \in Given(doc, "ListenPort") : TRUE) = doc[i][2]
    BY <1>1
  <2> QED
    BY <1>1, <2>1 DEF PortMeant
<1>3. PortOf(Meant(doc)[<<"ListenPort">>]) = PortOf(doc[i][2])
  <2>1. CASE MeantBy(doc[i][2]) = doc[i][2]
    BY <1>1, <2>1
  <2>2. CASE MeantBy(doc[i][2]) # doc[i][2]
    <3>1. doc[i][2][1] \in {"arr", "members"} /\ MeantBy(doc[i][2])[1] \in Containers
      BY <2>2, Meanings
    <3>2. PortOf(doc[i][2]) = 0 /\ PortOf(MeantBy(doc[i][2])) = 0
      BY <3>1 DEF PortOf, Containers
    <3> QED
      BY <1>1, <3>2
  <2> QED
    BY <2>1, <2>2
<1>4. ASSUME Meant(doc)[<<"ListenPort">>][1] \notin {"num"} \cup Containers
      PROVE  PortOf(Meant(doc)[<<"ListenPort">>]) = DefaultPort
  <2>1. Meant(doc)[<<"ListenPort">>][1] # "members"
    BY <1>1, <1>4, Meanings DEF Containers
  <2> QED
    BY <1>4, <2>1 DEF PortOf
<1> QED
  BY <1>2, <1>3, <1>4

LEMMA PortNotNamed ==
  ASSUME <<"ListenPort">> \notin Named(doc)
  PROVE  PortMeant(doc) = DefaultPort
  BY NotGiven DEF PortMeant

LEMMA ReadPlain == InputInv /\ Read => ~Escaped(doc)
  BY InputsAssumption DEF InputInv, Read

\* How the reading of the settings comes out, by the parser's contract.
LEMMA ReadingEnds ==
  ASSUME InputInv, SettingsRead, NEW out \in Outcomes(text)
  PROVE  /\ Read => out = "value" /\ JsonParse(text).val = <<"obj", Meant(doc)>>
         /\ ~Read /\ ~Escaped(doc) /\ out = "value" => Obj(JsonParse(text).val) = <<>>
<1>0. Written # <<>>
  BY InputsAssumption DEF InputInv, Written
<1>1. CASE text \in Missing
  BY <1>1 DEF Outcomes, Missing, Read, Whole
<1>2. CASE text \notin Missing
  <2> DEFINE read == JsonParse(text)
  <2>1. out = read.out \/ (read.out = "wild" /\ out \in {"invalid_argument", "faults", "hangs"})
    BY <1>2 DEF Outcomes, Missing
  <2>2. CASE Read
    <3>1. read.out = "value" /\ read.val = <<"obj", Meant(doc)>>
      BY <1>2, <2>2, ReadPlain DEF SettingsRead, Read, Whole
    <3> QED
      BY <2>1, <2>2, <3>1
  <2>3. CASE Whole /\ ~Read /\ ~Escaped(doc)
    <3>1. read.out = "invalid_argument"
      BY <1>2, <2>3 DEF SettingsRead, Read, Whole
    <3> QED
      BY <2>1, <2>3, <3>1
  <2>4. CASE ~Whole /\ ~Escaped(doc)
    <3>1. text # Written
      BY <1>2, <2>4 DEF Whole
    <3>2. read.out = "value" => Obj(read.val) = <<>>
      BY <1>2, <2>4, <3>1 DEF SettingsRead
    <3> QED
      BY <2>1, <2>4, <3>2 DEF Read
  <2> QED
    BY <2>2, <2>3, <2>4 DEF Read
<1> QED
  BY <1>1, <1>2

\* Nothing is kept of a number that is none.
LEMMA NumbersRead ==
  ASSUME InputInv, SettingsRead, NEW out \in Outcomes(text), out = "value"
  PROVE  LET members == Obj(JsonParse(text).val)
         IN  \A k \in DOMAIN members : members[k][1] = "num" => members[k][2] \in Int
<1>1. text \notin Missing
  BY DEF Outcomes, Missing
<1>2. CASE Read
  <2>1. Obj(JsonParse(text).val) = Meant(doc)
    BY <1>2, ReadingEnds DEF Obj
  <2>2. ASSUME NEW k \in Named(doc), Meant(doc)[k][1] = "num" PROVE Meant(doc)[k][2] \in Int
    <3>1. PICK i : FirstOf(i, k) /\ Meant(doc)[k] = MeantBy(doc[i][2])
      BY HasFirst
    <3> QED
      BY <2>2, <3>1, Meanings DEF FirstOf, Containers
  <2>3. DOMAIN Meant(doc) = Named(doc)
    BY DEF Meant
  <2> QED
    BY <2>1, <2>2, <2>3
<1>3. CASE ~Read /\ ~Escaped(doc)
  BY <1>3, ReadingEnds
<1>4. CASE ~Read /\ Escaped(doc)
  <2>1. ~(text = Written /\ Readable(doc, style))
    BY <1>1, <1>4 DEF Read, Whole
  <2> QED
    BY <1>1, <1>4, <2>1 DEF SettingsRead
<1> QED
  BY <1>2, <1>3, <1>4

LEMMA NewDaySame ==
  ASSUME NewDay, phase' = "serving"
  PROVE  text' = text
<1>1. PICK file \in {text, <<"absent">>} : \E out \in Outcomes(file) :
        LET then == Continued(out, "serving", "serving", "stopped")
        IN  /\ text' = file /\ then \in {"serving", "stopped", "hung", "aborted"}
            /\ \/ then = "serving" /\ phase' \in {"serving", "unlogged", "mute"}
               \/ then = "aborted" /\ phase' \in {"aborted", "mute"}
               \/ then \in {"stopped", "hung"} /\ phase' = then
  BY NewDayStep
<1>2. CASE file = <<"absent">>
  <2>1. Outcomes(file) = {"file_exception"}
    BY <1>2 DEF Outcomes
  <2>2. Continued("file_exception", "serving", "serving", "stopped") = "aborted"
    BY NotStandard DEF Continued
  <2> QED
    BY <1>1, <2>1, <2>2
<1>3. CASE file = text
  BY <1>1, <1>3
<1> QED
  BY <1>2, <1>3

LEMMA SettingsInit == Init => SettingsInv
  BY DEF Init, SettingsInv

LEMMA SettingsLoaded ==
  ASSUME InputInv, SettingsRead, SettingsInv, LoadSettings, ~Escaped(doc)
  PROVE  SettingsInv'
<1>1. PICK out \in Outcomes(text) :
        /\ phase' = Continued(out, "apply", "listen", "stopped")
        /\ conf' = IF out = "value" THEN Defaults ELSE conf
        /\ todo' = IF out = "value" THEN Obj(JsonParse(text).val) ELSE <<>>
  BY DEF LoadSettings
<1>2. UNCHANGED <<doc, style, text, port>> /\ conf = <<>> /\ port = DefaultPort
  BY DEF LoadSettings, inputVars, SettingsInv
<1>3. Read' = Read /\ phase' \in {"apply", "listen", "hung", "stopped", "aborted"}
  BY <1>2, LoadSettingsEnd DEF Read, Whole, Written
<1>4. phase' = "apply" => out = "value"
  BY <1>1 DEF Continued
<1>5. out = "value" => phase' = "apply"
  BY <1>1 DEF Continued
<1>6. CASE Read
  <2>1. out = "value" /\ todo' = Meant(doc) /\ conf' = Defaults /\ phase' = "apply"
    <3>1. out = "value" /\ JsonParse(text).val = <<"obj", Meant(doc)>>
      BY <1>6, ReadingEnds
    <3>2. Obj(<<"obj", Meant(doc)>>) = Meant(doc)
      BY DEF Obj
    <3> QED
      BY <1>1, <1>5, <3>1, <3>2
  <2>2. {<<k>> : k \in Paths} \subseteq DOMAIN Defaults
    BY DEF Paths, Defaults
  <2>3. DOMAIN Meant(doc) = Named(doc)
    BY DEF Meant
  <2>4. Applying'
    BY <1>2, <1>3, <1>6, <2>1, <2>2, <2>3, PathNotNamed, PortNotNamed DEF Applying
  <2> QED
    BY <2>1, <2>4 DEF SettingsInv
<1>7. CASE ~Read
  <2>1. CASE out = "value"
    <3>1. todo' = <<>> /\ conf' = Defaults /\ phase' = "apply"
      BY <1>1, <1>5, <1>7, <2>1, ReadingEnds
    <3>2. DOMAIN todo' = {}
      BY <3>1
    <3>3. Applying'
      BY <1>2, <1>3, <1>7, <3>1, <3>2 DEF Applying
    <3> QED
      BY <3>1, <3>3 DEF SettingsInv
  <2>2. CASE out # "value"
    <3>1. phase' \in {"listen", "hung", "stopped", "aborted"} /\ conf' = <<>>
      BY <1>1, <1>2, <1>3, <1>4, <2>2
    <3>2. DOMAIN conf' = {}
      BY <3>1
    <3> QED
      BY <1>2, <1>3, <1>7, <3>1, <3>2 DEF SettingsInv, Settled
  <2> QED
    BY <2>1, <2>2
<1> QED
  BY <1>6, <1>7

LEMMA PortApplied ==
  ASSUME InputInv, SettingsInv, ApplyPort, ~Escaped(doc)
  PROVE  SettingsInv'
<1> DEFINE name == <<"ListenPort">>
<1>1. /\ phase = "apply" /\ phase' = "apply" /\ UNCHANGED <<doc, style, text, conf>>
      /\ name \in DOMAIN todo
      /\ port' = IF todo[name][1] \in {"num"} \cup Containers THEN PortOf(todo[name]) ELSE port
      /\ todo' = [n \in DOMAIN todo \ {name} |-> todo[n]]
  BY DEF ApplyPort, Done, inputVars
<1>2. Applying
  BY <1>1 DEF SettingsInv
<1>3. Read' = Read
  BY <1>1 DEF Read, Whole, Written
<1>4. /\ Read /\ DOMAIN todo \subseteq Named(doc) /\ todo[name] = Meant(doc)[name]
      /\ port = DefaultPort
  BY <1>1, <1>2 DEF Applying
<1>5. port' = PortMeant(doc)
  BY <1>1, <1>4, PortNamed
<1>6. DOMAIN todo' = DOMAIN todo \ {name} /\ \A n \in DOMAIN todo' : todo'[n] = todo[n]
  BY <1>1
<1>7. \A k \in Paths : <<k>> # name
  BY DEF Paths
<1>8. Applying'
  BY <1>1, <1>2, <1>3, <1>4, <1>5, <1>6, <1>7 DEF Applying
<1> QED
  BY <1>1, <1>8 DEF SettingsInv

LEMMA PathApplied ==
  ASSUME InputInv, SettingsInv, ApplyPath, ~Escaped(doc)
  PROVE  SettingsInv'
<1>1. PICK k \in DOMAIN todo \ {<<"ListenPort">>} :
        /\ todo[k][1] = "str"
        /\ LET given == IF todo[k][2] # <<>> THEN todo[k][2]
                        ELSE IF k \in DOMAIN conf THEN conf[k] ELSE <<>>
           IN  conf' = [n \in DOMAIN conf \cup {k} |->
                          IF n # k THEN conf[n]
                          ELSE IF k = <<"DefaultPage">> THEN given ELSE Slashed(given)]
        /\ todo' = [n \in DOMAIN todo \ {k} |-> todo[n]]
  BY DEF ApplyPath, Done
<1>2. phase = "apply" /\ phase' = "apply" /\ UNCHANGED <<doc, style, text, port>>
  BY DEF ApplyPath, inputVars
<1>3. Read' = Read /\ Applying
  BY <1>2 DEF Read, Whole, Written, SettingsInv
<1>4. /\ Read /\ DOMAIN todo \subseteq Named(doc) /\ todo[k] = Meant(doc)[k]
      /\ {<<p>> : p \in Paths} \subseteq DOMAIN conf
  BY <1>1, <1>3 DEF Applying
<1>5. DOMAIN todo' = DOMAIN todo \ {k} /\ \A n \in DOMAIN todo' : todo'[n] = todo[n]
  BY <1>1
<1>6. {<<p>> : p \in Paths} \subseteq DOMAIN conf'
  BY <1>1, <1>4
<1>7. ASSUME NEW p \in Paths
      PROVE  conf'[<<p>>] = IF <<p>> \in DOMAIN todo' THEN Defaults[<<p>>] ELSE PathMeant(doc, p)
  <2>1. conf[<<p>>] = IF <<p>> \in DOMAIN todo THEN Defaults[<<p>>] ELSE PathMeant(doc, p)
    BY <1>3, <1>4 DEF Applying
  <2>2. <<p>> \in DOMAIN conf
    BY <1>4
  <2>3. CASE k # <<p>>
    <3>1. conf'[<<p>>] = conf[<<p>>]
      BY <1>1, <2>2, <2>3
    <3> QED
      BY <1>5, <2>1, <2>3, <3>1
  <2>4. CASE k = <<p>>
    <3> DEFINE path == IF todo[k][2] # <<>> THEN todo[k][2] ELSE Defaults[<<p>>]
    <3>1. conf[k] = Defaults[<<p>>]
      BY <2>1, <2>4
    <3>2. conf'[k] = IF k = <<"DefaultPage">> THEN path ELSE Slashed(path)
      BY <1>1, <2>2, <2>4, <3>1
    <3>3. k = <<"DefaultPage">> <=> p = "DefaultPage"
      BY <2>4
    <3>4. PathMeant(doc, p) = IF p = "DefaultPage" THEN path ELSE Slashed(path)
      <4>1. Meant(doc)[<<p>>] = todo[k] /\ <<p>> \in Named(doc) /\ Meant(doc)[<<p>>][1] = "str"
        BY <1>1, <1>4, <2>4
      <4> QED
        BY <4>1, PathNamed
    <3>5. <<p>> \notin DOMAIN todo'
      BY <1>5, <2>4
    <3> QED
      BY <2>4, <3>2, <3>3, <3>4, <3>5
  <2> QED
    BY <2>3, <2>4
<1>8. <<"ListenPort">> \in DOMAIN todo' <=> <<"ListenPort">> \in DOMAIN todo
  BY <1>1, <1>5
<1>9. Applying'
  <2>1. port' = IF <<"ListenPort">> \in DOMAIN todo' THEN DefaultPort ELSE PortMeant(doc)
    BY <1>2, <1>3, <1>4, <1>8 DEF Applying
  <2>2. DOMAIN todo' \subseteq Named(doc) /\ \A n \in DOMAIN todo' : todo'[n] = Meant(doc)[n]
    BY <1>3, <1>4, <1>5 DEF Applying
  <2> QED
    BY <1>2, <1>3, <1>4, <1>6, <1>7, <2>1, <2>2 DEF Applying
<1> QED
  BY <1>2, <1>9 DEF SettingsInv

LEMMA SettingsNext == InputInv /\ SettingsRead /\ SettingsInv /\ [Next]_vars => SettingsInv'
<1> SUFFICES ASSUME InputInv, SettingsRead, SettingsInv, [Next]_vars PROVE SettingsInv'
  OBVIOUS
<1>0. ASSUME UNCHANGED <<doc, style, text, conf, port>>, Settled PROVE Settled'
  BY <1>0 DEF Settled, Read, Whole, Written, Setting
<1>e. doc' = doc /\ (Escaped(doc)' <=> Escaped(doc))
  BY Unchanged
<1>1. CASE ParseOptions
  <2>1. UNCHANGED <<conf, port>> /\ conf = <<>> /\ port = DefaultPort
    BY <1>1 DEF ParseOptions, SettingsInv
  <2>2. phase' \notin {"apply", "listen", "serving", "answered"}
    BY <1>1, OptionsEnd DEF Client
  <2> QED
    BY <2>1, <2>2 DEF SettingsInv
<1>2. CASE InitLog
  BY <1>2, InitLogEnd DEF InitLog, SettingsInv
<1>3. CASE NewDay
  <2>1. phase = "serving" /\ phase' \in {"serving", "mute", "unlogged", "hung", "stopped", "aborted"}
    BY <1>3, NewDayEnd
  <2>2. CASE phase' = "serving" /\ ~Escaped(doc)
    <3>1. UNCHANGED <<doc, style, text, conf, port>>
      BY <1>3, <2>2, NewDaySame DEF NewDay
    <3>2. Settled'
      BY <1>0, <2>1, <2>2, <3>1 DEF SettingsInv
    <3> QED
      BY <2>2, <3>2 DEF SettingsInv
  <2> QED
    BY <1>e, <2>1, <2>2 DEF SettingsInv
<1>4. CASE LoadSettings
  <2>1. CASE Escaped(doc)
    BY <1>4, <1>e, <2>1, LoadSettingsEnd DEF SettingsInv
  <2> QED
    BY <1>4, <2>1, SettingsLoaded
<1>5. CASE ApplyPort \/ ApplyPath
  <2>1. CASE Escaped(doc)
    <3>1. phase' = "apply"
      BY <1>5 DEF ApplyPort, ApplyPath
    <3> QED
      BY <1>e, <2>1, <3>1 DEF SettingsInv
  <2> QED
    BY <1>5, <2>1, PortApplied, PathApplied
<1>7. CASE ApplyFaults
  BY <1>7 DEF ApplyFaults, SettingsInv
<1>8. CASE Applied
  <2>1. /\ phase = "apply" /\ phase' = "listen" /\ DOMAIN todo = {}
        /\ UNCHANGED <<doc, style, text, conf, port>>
    BY <1>8 DEF Applied, inputVars
  <2>2. ASSUME ~Escaped(doc) PROVE Settled
    <3>0. Applying
      BY <2>1, <2>2 DEF SettingsInv
    <3>1. CASE Read
      <4>1. \A k \in Paths : <<k>> \in DOMAIN conf /\ conf[<<k>>] = PathMeant(doc, k)
        BY <2>1, <3>0, <3>1 DEF Applying
      <4>2. port = PortMeant(doc)
        BY <2>1, <3>0, <3>1 DEF Applying
      <4> QED
        BY <3>1, <4>1, <4>2 DEF Setting, Settled
    <3>2. CASE ~Read
      BY <3>0, <3>2 DEF Applying, Settled
    <3> QED
      BY <3>1, <3>2
  <2>3. ~Escaped(doc) => Settled'
    BY <1>0, <2>1, <2>2
  <2> QED
    BY <1>e, <2>1, <2>3 DEF SettingsInv
<1>9. CASE Listen \/ DefaultPageAsked \/ PageAsked \/ UNCHANGED vars
  <2>1. UNCHANGED <<doc, style, text, conf, port, todo>>
    BY <1>9 DEF Listen, DefaultPageAsked, PageAsked, inputVars, vars
  <2>2. \/ phase' = phase
        \/ phase \in {"listen", "serving"} /\ phase' \in {"serving", "taken", "answered"}
    BY <1>9 DEF Listen, DefaultPageAsked, PageAsked, vars
  <2>3. Settled => Settled'
    BY <1>0, <2>1
  <2>4. Applying => Applying'
    BY <2>1 DEF Applying, Read, Whole, Written
  <2> QED
    BY <1>e, <2>1, <2>2, <2>3, <2>4 DEF SettingsInv
<1> QED
  BY <1>1, <1>2, <1>3, <1>4, <1>5, <1>7, <1>8, <1>9 DEF Next

\* A server that answers has all of the settings of its file, or none, for every
\* file without a quote in a string, if the parser keeps its contract.
THEOREM ConfiguredInFull == Spec /\ []SettingsRead => []Configured
<1>1. SettingsInv => Configured
  BY DEF SettingsInv, Settled, Configured, Read
<1> QED
  BY <1>1, InputInit, InputNext, SettingsInit, SettingsNext, PTL DEF Spec

------------------------------------------------------------------------------
(* Where the log is.                                                        *)

LEMMA LogFound ==
  ASSUME InputInv, SettingsRead, Read, logDir' \in LogPaths(text), UNCHANGED doc
  PROVE  LogPlaced'
<1> DEFINE meant == Meant(doc)
           nested == {k \in DOMAIN meant \ {LogPath} : meant[k][1] \in Containers}
           found == FindIn(JsonParse(text).val, LogPath)
<1>1. found = {MeantBy(v) : v \in Given(doc, "LogPath")} \cup UNION {FindIn(meant[k], LogPath) : k \in nested}
  BY ReadPlain DEF SettingsRead, Read, Whole
<1> HIDE DEF found
<1>2. CASE found = {}
  <2>1. Given(doc, "LogPath") = {}
    BY <1>1, <1>2
  <2>2. logDir' = Here
    BY <1>2 DEF LogPaths, found
  <2> QED
    BY <2>1, <2>2 DEF LogPlaced
<1>3. CASE found # {}
  <2>1. PICK v \in found : logDir' = PathOf(v)
    BY <1>3 DEF LogPaths, found
  <2>2. CASE v \in {MeantBy(g) : g \in Given(doc, "LogPath")}
    <3>1. PICK g \in Given(doc, "LogPath") : v = MeantBy(g)
      BY <2>2
    <3>2. PICK i \in DOMAIN doc : g = doc[i][2]
      BY DEF Given
    <3>3. PathOf(v) = PathOf(g)
      <4>1. CASE v = g
        BY <4>1
      <4>2. CASE v # g
        <5>1. v[1] # "str" /\ g[1] # "str"
          BY <3>1, <3>2, <4>2, Meanings DEF Containers
        <5> QED
          BY <5>1 DEF PathOf
      <4> QED
        BY <4>1, <4>2
    <3> QED
      BY <2>1, <3>3 DEF LogPlaced
  <2>3. CASE v \in UNION {FindIn(meant[k], LogPath) : k \in nested}
    <3>1. PICK k \in nested : v \in FindIn(meant[k], LogPath)
      BY <2>3
    <3>2. k \in Named(doc) /\ meant[k][1] \in Containers
      BY <3>1 DEF Meant
    <3>3. PICK i : FirstOf(i, k) /\ meant[k] = MeantBy(doc[i][2])
      BY <3>2, HasFirst
    <3>4. i \in DOMAIN doc /\ doc[i][2][1] \in {"arr", "members"}
      BY <3>2, <3>3, Meanings DEF FirstOf
    <3> QED
      BY <2>1, <3>1, <3>3, <3>4 DEF LogPlaced
  <2> QED
    BY <1>1, <2>2, <2>3
<1> QED
  BY <1>2, <1>3

LEMMA LogInit == Init => LogInv
  BY DEF Init, LogInv

LEMMA LogNext == InputInv /\ SettingsRead /\ LogInv /\ [Next]_vars => LogInv'
<1> SUFFICES ASSUME InputInv, SettingsRead, LogInv, [Next]_vars PROVE LogInv'
  OBVIOUS
<1>0. UNCHANGED <<doc, style>>
  BY Unchanged
<1>1. CASE ParseOptions
  <2>1. phase' \notin {"settings", "apply", "listen", "serving", "answered"}
    BY <1>1, OptionsEnd DEF Client
  <2> QED
    BY <2>1 DEF LogInv
<1>2. CASE InitLog
  <2>1. /\ UNCHANGED <<text, keepLog>>
        /\ phase' \in {"settings", "hung", "faulted", "aborted", "unlogged"}
    BY <1>2, InitLogEnd DEF InitLog, inputVars
  <2>2. CASE keepLog /\ Read
    <3>1. \A out \in Outcomes(text) : out = "value"
      BY <2>2, ReadingEnds
    <3>2. logDir' \in LogPaths(text)
      BY <1>2, <2>2, <3>1 DEF InitLog
    <3>3. LogPlaced'
      BY <1>0, <2>2, <3>2, LogFound
    <3> QED
      BY <3>3 DEF LogInv
  <2>3. CASE ~(keepLog /\ Read)
    <3>1. ~(keepLog' /\ Read')
      BY <1>0, <2>1, <2>3 DEF Read, Whole, Written
    <3> QED
      BY <3>1 DEF LogInv
  <2> QED
    BY <2>2, <2>3
<1>3. CASE NewDay
  <2>1. phase' \in {"serving", "mute", "unlogged", "hung", "stopped", "aborted"}
    BY <1>3, NewDayEnd
  <2>2. CASE phase' = "serving" /\ Read
    <3>1. text' = text
      BY <1>3, <2>2, NewDaySame
    <3>2. \A out \in Outcomes(text) : out = "value"
      BY <2>2, ReadingEnds
    <3>3. logDir' \in LogPaths(text)
      BY <1>3, <3>1, <3>2 DEF NewDay
    <3>4. LogPlaced'
      BY <1>0, <2>2, <3>3, LogFound
    <3> QED
      BY <3>4 DEF LogInv
  <2>3. CASE phase' = "serving" /\ ~Read
    <3>1. text' = text
      BY <1>3, <2>3, NewDaySame
    <3>2. ~Read'
      BY <1>0, <2>3, <3>1 DEF Read, Whole, Written
    <3> QED
      BY <3>2 DEF LogInv
  <2> QED
    BY <2>1, <2>2, <2>3 DEF LogInv
<1>4. CASE LoadSettings \/ ApplyPort \/ ApplyPath \/ ApplyFaults \/ Applied \/ Listen
            \/ DefaultPageAsked \/ PageAsked \/ UNCHANGED vars
  <2>1. UNCHANGED <<text, keepLog, logDir>>
    BY <1>4 DEF LoadSettings, ApplyPort, ApplyPath, ApplyFaults, Applied, Listen,
                DefaultPageAsked, PageAsked, vars, inputVars
  <2>2. phase' = phase \/ phase \in {"settings", "apply", "listen", "serving"}
    BY <1>4 DEF LoadSettings, ApplyPort, ApplyPath, ApplyFaults, Applied, Listen,
                DefaultPageAsked, PageAsked, vars
  <2>3. Read' = Read
    BY <1>0, <2>1 DEF Read, Whole, Written
  <2>4. LogPlaced => LogPlaced'
    BY <1>0, <2>1 DEF LogPlaced
  <2> QED
    BY <2>1, <2>2, <2>3, <2>4 DEF LogInv
<1> QED
  BY <1>1, <1>2, <1>3, <1>4 DEF Next

\* The log of a server that answers is where its settings put it, if the parser
\* keeps its contract.
THEOREM LogInPlace == Spec /\ []SettingsRead => []LogsWhereConfigured
<1>1. LogInv => LogsWhereConfigured
  BY DEF LogInv, LogPlaced, LogsWhereConfigured, Read
<1> QED
  BY <1>1, InputInit, InputNext, LogInit, LogNext, PTL DEF Spec

------------------------------------------------------------------------------
(* The type invariant.                                                      *)

TypeInv == TypeOK /\ ConfInv

LEMMA NumbersInit == Init => NumbersInv
  BY DEF Init, NumbersInv

LEMMA NumbersNext == InputInv /\ SettingsRead /\ NumbersInv /\ [Next]_vars => NumbersInv'
<1> SUFFICES ASSUME InputInv, SettingsRead, NumbersInv, [Next]_vars, phase' = "apply"
             PROVE  NumbersInv'
  BY DEF NumbersInv
<1>1. CASE LoadSettings
  <2>1. PICK out \in Outcomes(text) :
          /\ phase' = Continued(out, "apply", "listen", "stopped")
          /\ todo' = IF out = "value" THEN Obj(JsonParse(text).val) ELSE <<>>
    BY <1>1 DEF LoadSettings
  <2>2. out = "value"
    BY <2>1 DEF Continued
  <2> QED
    BY <2>1, <2>2, NumbersRead DEF NumbersInv
<1>2. CASE ApplyPort \/ ApplyPath
  <2>1. phase = "apply" /\ \E k : todo' = [n \in DOMAIN todo \ {k} |-> todo[n]]
    BY <1>2 DEF ApplyPort, ApplyPath, Done
  <2> QED
    BY <2>1 DEF NumbersInv
<1>3. CASE UNCHANGED vars
  BY <1>3 DEF vars, NumbersInv
<1>4. CASE ParseOptions
  BY <1>4, OptionsEnd DEF Client
<1>5. CASE InitLog \/ NewDay
  BY <1>5, InitLogEnd, NewDayEnd
<1>6. CASE ApplyFaults \/ Applied \/ Listen \/ DefaultPageAsked \/ PageAsked
  BY <1>6 DEF ApplyFaults, Applied, Listen, DefaultPageAsked, PageAsked
<1> QED
  BY <1>1, <1>2, <1>3, <1>4, <1>5, <1>6 DEF Next

LEMMA DefaultsType == {<<"HttpPath">>, <<"DefaultPage">>} \subseteq DOMAIN Defaults
  BY DEF Defaults

LEMMA TypeInit == Init => TypeInv
<1> SUFFICES ASSUME Init PROVE TypeInv
  OBVIOUS
<1>1. PICK input \in Inputs :
        /\ args = input.args /\ doc = input.doc /\ style = input.style
        /\ CASE input.file = "whole" -> text = Written
             [] input.file = "cut" -> \E n \in 0..Len(Written) - 1 : text = SubSeq(Written, 1, n)
             [] OTHER -> text = <<input.file>>
  BY DEF Init
<1>2. Written \in Seq(Word)
  BY <1>1, InputsAssumption DEF Written
<1>3. Len(Written) \in Nat /\ \A i \in 1..Len(Written) : Written[i] \in Word
  BY <1>2, LenProperties, ElementOfSeq
<1>4. text \in Missing \/ text = SubSeq(Written, 1, Len(text))
  <2>1. CASE input.file = "whole"
    <3>1. text = Written
      BY <1>1, <2>1
    <3> QED
      BY <1>2, <3>1, SubSeqFull
  <2>2. CASE input.file = "cut"
    <3>1. PICK n \in 0..Len(Written) - 1 : text = SubSeq(Written, 1, n)
      BY <1>1, <2>2
    <3>2. n \in Int /\ 1 \in Int /\ \A i \in 1..n : Written[i] \in Word
      BY <1>3
    <3>3. Len(SubSeq(Written, 1, n)) = IF 1 <= n THEN n - 1 + 1 ELSE 0
      BY <3>2, SubSeqProperties
    <3>4. Len(text) = n
      BY <1>3, <3>1, <3>3
    <3> QED
      BY <3>1, <3>4
  <2>3. CASE input.file \in {"absent", "directory"}
    BY <1>1, <2>3 DEF Missing
  <2> QED
    BY <2>1, <2>2, <2>3, InputsAssumption
<1>5. port \in PortNumbers /\ keepLog \in BOOLEAN /\ phase = "options"
  BY DEF Init, DefaultPort, PortNumbers
<1>6. conf = <<>> /\ DOMAIN conf = {} /\ DOMAIN todo = {}
  BY DEF Init
<1>7. InputInv
  BY InputInit
<1>8. ConfInv
  BY <1>5, <1>6 DEF ConfInv
<1>9. TypeOK
  BY <1>4, <1>5, <1>6, <1>7, Zenon DEF TypeOK, InputInv
<1> QED
  BY <1>8, <1>9 DEF TypeInv

LEMMA ConfNext == InputInv /\ ConfInv /\ [Next]_vars => ConfInv'
<1> SUFFICES ASSUME InputInv, ConfInv, [Next]_vars PROVE ConfInv'
  OBVIOUS
<1>1. CASE ParseOptions
  <2>1. conf' = conf /\ conf = <<>> /\ phase' # "apply"
    BY <1>1, OptionsEnd DEF ParseOptions, ConfInv, Client
  <2> QED
    BY <2>1 DEF ConfInv
<1>2. CASE InitLog
  BY <1>2, InitLogEnd DEF InitLog, ConfInv
<1>3. CASE NewDay
  BY <1>3, NewDayEnd DEF ConfInv
<1>4. CASE LoadSettings
  <2>1. PICK out \in Outcomes(text) :
          /\ phase' = Continued(out, "apply", "listen", "stopped")
          /\ conf' = IF out = "value" THEN Defaults ELSE conf
    BY <1>4 DEF LoadSettings
  <2>2. phase' = "apply" => out = "value"
    BY <2>1 DEF Continued
  <2>3. phase' \notin {"options", "log", "settings"}
    BY <1>4, LoadSettingsEnd
  <2> QED
    BY <2>1, <2>2, <2>3, DefaultsType DEF ConfInv
<1>5. CASE ApplyPath
  <2>1. PICK k : DOMAIN conf' = DOMAIN conf \cup {k}
    BY <1>5 DEF ApplyPath
  <2> QED
    BY <1>5, <2>1 DEF ApplyPath, ConfInv
<1>6. CASE ApplyPort \/ ApplyFaults \/ Applied \/ Listen \/ DefaultPageAsked \/ PageAsked
             \/ UNCHANGED vars
  <2>1. conf' = conf
    BY <1>6 DEF ApplyPort, ApplyFaults, Applied, Listen, DefaultPageAsked, PageAsked, vars
  <2>2. phase' = phase \/ phase' \in {"stopped", "listen", "serving", "taken", "answered"}
    BY <1>6 DEF ApplyPort, ApplyFaults, Applied, Listen, DefaultPageAsked, PageAsked, vars
  <2> QED
    BY <2>1, <2>2 DEF ConfInv
<1> QED
  BY <1>1, <1>2, <1>3, <1>4, <1>5, <1>6 DEF Next

LEMMA PhaseType ==
  ASSUME InputInv, phase \in {"options"} \cup Server \cup Ended, [Next]_vars
  PROVE  phase' \in {"options"} \cup Server \cup Ended
<1>1. CASE phase # "options"
  BY <1>1, PhaseNext DEF Later, Server, Ended
<1>2. CASE ParseOptions
  BY <1>2, OptionsEnd DEF Server, Ended
<1>3. CASE UNCHANGED vars
  BY <1>3 DEF vars
<1> QED
  BY <1>1, <1>2, <1>3 DEF Next, InitLog, NewDay, LoadSettings, ApplyPort, ApplyPath, ApplyFaults,
      Applied, Listen, DefaultPageAsked, PageAsked

LEMMA Truncated == \A n \in Int : n % 65536 \in PortNumbers
  BY DEF PortNumbers

LEMMA PortOfType ==
  ASSUME NEW v, v[1] = "num" => v[2] \in Int
  PROVE  PortOf(v) \in PortNumbers
<1>1. CASE v[1] = "num"
  <2>1. PICK n \in Int : n = v[2]
    BY <1>1
  <2>2. PortOf(v) = v[2] % 65536
    BY <1>1 DEF PortOf, Containers
  <2> QED
    BY <2>1, <2>2, Truncated
<1>2. CASE v[1] # "num"
  <2>1. PortOf(v) \in {0, 9007}
    BY <1>2 DEF PortOf, DefaultPort
  <2> QED
    BY <2>1 DEF PortNumbers
<1> QED
  BY <1>1, <1>2

LEMMA PortType ==
  ASSUME NumbersInv, port \in PortNumbers, [Next]_vars
  PROVE  port' \in PortNumbers
<1>1. CASE ApplyPort
  <2>1. PICK v : v = todo[<<"ListenPort">>]
    OBVIOUS
  <2>2. phase = "apply" /\ <<"ListenPort">> \in DOMAIN todo
    BY <1>1 DEF ApplyPort
  <2>4. v[1] = "num" => v[2] \in Int
    BY <2>1, <2>2 DEF NumbersInv
  <2>5. port' = port \/ port' = PortOf(v)
    BY <1>1, <2>1 DEF ApplyPort
  <2> QED
    BY <2>4, <2>5, PortOfType, Zenon
<1>2. CASE ParseOptions \/ InitLog \/ NewDay \/ LoadSettings \/ ApplyPath
  <2>1. port' = port
    BY <1>2 DEF ParseOptions, InitLog, NewDay, LoadSettings, ApplyPath
  <2> QED
    BY <2>1
<1>3. CASE ApplyFaults \/ Applied \/ Listen \/ DefaultPageAsked \/ PageAsked \/ UNCHANGED vars
  <2>1. port' = port
    BY <1>3 DEF ApplyFaults, Applied, Listen, DefaultPageAsked, PageAsked, vars
  <2> QED
    BY <2>1
<1> QED
  BY <1>1, <1>2, <1>3, Zenon DEF Next

LEMMA TodoType ==
  ASSUME DOMAIN todo = {} \/ phase \in {"apply", "stopped"}, [Next]_vars
  PROVE  DOMAIN todo' = {} \/ phase' \in {"apply", "stopped"}
<1>1. CASE LoadSettings
  <2>1. PICK out \in Outcomes(text) :
          /\ phase' = Continued(out, "apply", "listen", "stopped")
          /\ todo' = IF out = "value" THEN Obj(JsonParse(text).val) ELSE <<>>
    BY <1>1 DEF LoadSettings
  <2>2. CASE out = "value"
    BY <2>1, <2>2 DEF Continued
  <2>3. CASE out # "value"
    <3>1. todo' = <<>>
      BY <2>1, <2>3
    <3> QED
      BY <3>1
  <2> QED
    BY <2>2, <2>3
<1>2. CASE ApplyPort \/ ApplyPath \/ ApplyFaults
  BY <1>2 DEF ApplyPort, ApplyPath, ApplyFaults
<1>3. CASE ~(LoadSettings \/ ApplyPort \/ ApplyPath \/ ApplyFaults)
  <2>1. todo' = todo
    BY <1>3 DEF Next, ParseOptions, InitLog, NewDay, Applied, Listen, DefaultPageAsked,
                PageAsked, vars
  <2>2. phase \in {"apply", "stopped"} => DOMAIN todo = {} \/ phase' = phase
    BY <1>3 DEF Next, ParseOptions, InitLog, NewDay, Applied, Listen, DefaultPageAsked,
                PageAsked, vars
  <2> QED
    BY <2>1, <2>2
<1> QED
  BY <1>1, <1>2, <1>3

LEMMA TypeNext == InputInv /\ NumbersInv /\ TypeInv /\ [Next]_vars => TypeInv'
<1> SUFFICES ASSUME InputInv, NumbersInv, TypeInv, [Next]_vars PROVE TypeInv'
  OBVIOUS
<1>1. ConfInv'
  BY ConfNext DEF TypeInv
<1>2. UNCHANGED <<args, doc, style>> /\ Written' = Written
  BY Unchanged DEF Written
<1>3. \E input \in Inputs : <<args, doc, style>>' = <<input.args, input.doc, input.style>>
  BY <1>2 DEF InputInv
<1>4. text' \in Missing \/ text' = SubSeq(Written', 1, Len(text'))
  <2>1. text' = text \/ text' = <<"absent">>
    BY DEF Next, ParseOptions, InitLog, NewDay, LoadSettings, ApplyPort, ApplyPath, ApplyFaults,
           Applied, Listen, DefaultPageAsked, PageAsked, vars, inputVars
  <2> QED
    BY <1>2, <2>1 DEF TypeInv, TypeOK, Missing
<1>5. phase' \in {"options"} \cup Server \cup Ended
  BY PhaseType DEF TypeInv, TypeOK
<1>6. keepLog' \in BOOLEAN
  <2>1. CASE ParseOptions
    <3>1. keepLog' = ("-n" \notin GetOpt[args].opts)
      BY <2>1 DEF ParseOptions
    <3> QED
      BY <3>1, Zenon
  <2>2. CASE InitLog \/ NewDay \/ LoadSettings \/ ApplyPort \/ ApplyPath
    <3>1. keepLog' = keepLog
      BY <2>2 DEF InitLog, NewDay, LoadSettings, ApplyPort, ApplyPath
    <3> QED
      BY <3>1 DEF TypeInv, TypeOK
  <2>3. CASE ApplyFaults \/ Applied \/ Listen \/ DefaultPageAsked \/ PageAsked \/ UNCHANGED vars
    <3>1. keepLog' = keepLog
      BY <2>3 DEF ApplyFaults, Applied, Listen, DefaultPageAsked, PageAsked, vars
    <3> QED
      BY <3>1 DEF TypeInv, TypeOK
  <2> QED
    BY <2>1, <2>2, <2>3, Zenon DEF Next
<1>7. port' \in PortNumbers
  <2>1. port \in PortNumbers
    BY Zenon DEF TypeInv, TypeOK
  <2> QED
    BY <2>1, PortType, Zenon
<1>8. DOMAIN todo' = {} \/ phase' \in {"apply", "stopped"}
  BY TodoType DEF TypeInv, TypeOK
<1>9. DOMAIN conf' = {} \/ {<<"HttpPath">>, <<"DefaultPage">>} \subseteq DOMAIN conf'
  <2>1. CASE LoadSettings
    <3>1. conf' = Defaults \/ conf' = conf
      BY <2>1 DEF LoadSettings
    <3> QED
      BY <3>1, DefaultsType DEF TypeInv, TypeOK
  <2>2. CASE ApplyPath
    <3>1. PICK k : DOMAIN conf' = DOMAIN conf \cup {k}
      BY <2>2 DEF ApplyPath
    <3> QED
      BY <2>2, <3>1 DEF ApplyPath, TypeInv, ConfInv
  <2>3. CASE ~(LoadSettings \/ ApplyPath)
    <3>1. conf' = conf
      BY <2>3 DEF Next, ParseOptions, InitLog, NewDay, ApplyPort, ApplyFaults, Applied, Listen,
                  DefaultPageAsked, PageAsked, vars
    <3> QED
      BY <3>1 DEF TypeInv, TypeOK
  <2> QED
    BY <2>1, <2>2, <2>3
<1> QED
  BY <1>1, <1>3, <1>4, <1>5, <1>6, <1>7, <1>8, <1>9, Zenon DEF TypeInv, TypeOK

\* Type correctness, if the parser keeps its contract: what is kept of a port
\* is 16 bits wide, settings are looked at in their phase only, and whoever has
\* settings has a page directory and a default page.
THEOREM Typing == Spec /\ []SettingsRead => []TypeOK
<1>1. TypeInv => TypeOK
  BY DEF TypeInv
<1> QED
  BY <1>1, InputInit, InputNext, NumbersInit, NumbersNext, TypeInit, TypeNext, PTL DEF Spec
==============================================================================
