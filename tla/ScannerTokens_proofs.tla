------------------------- MODULE ScannerTokens_proofs -------------------------
(***************************************************************************)
(* For every source: the scanner implements Lexicon.  What next_token      *)
(* delivers are the words of the lexical grammar, the longest one first.   *)
(***************************************************************************)
EXTENDS ScannerLexical, Scanner_proofs

-------------------------------------------------------------------------------
(* The recursive functions of Lexicon exist.                                 *)

\* The equation of TokensFrom at p, for any function f.
NextBy(t, f, p) ==
    IF p > Len(t) THEN <<Lexical!Lexeme("EOS", <<>>)>>
    ELSE IF Lexical!Ends(t, p) = {} THEN <<Lexical!Lexeme("UNKNOWN", <<>>)>>
    ELSE LET q == Lexical!Longest(t, p)
         IN  IF Lexical!Trivial(t, p, q) THEN f[q + 1]
             ELSE <<CHOOSE x \in Lexical!LexemesOf(SubSeq(t, p, q)) : TRUE>> \o f[q + 1]

(* A set of places in a text that is not empty has a last one. *)
LEMMA LastPlace ==
    ASSUME NEW n \in Nat, NEW S \in SUBSET (1 .. n), S # {}
    PROVE  \E m \in S : \A k \in S : k <= m
  <1> DEFINE D == {n - k : k \in S}
  <1>1. D \in SUBSET Nat /\ D # {}
    <2>1. \A k \in S : k \in Int /\ k <= n
      OBVIOUS
    <2>2. \A k \in S : n - k \in Nat
      BY <2>1
    <2> QED
      BY <2>2
  <1>2. PICK d \in D : \A e \in D : d <= e
    BY <1>1, LeastNatural
  <1>3. PICK m \in S : d = n - m
    OBVIOUS
  <1>4. ASSUME NEW k \in S PROVE k <= m
    <2>1. n - k \in D
      OBVIOUS
    <2>2. k \in 1 .. n /\ m \in 1 .. n
      OBVIOUS
    <2>3. n - m <= n - k /\ k \in Int /\ m \in Int
      BY <1>2, <1>3, <2>1, <2>2
    <2> QED
      BY <2>3
  <1> QED
    BY <1>4

(* Where there is a word, there is a longest one. *)
LEMMA LongestIs ==
    ASSUME NEW t \in Seq(Char), NEW p \in 1 .. Len(t), Lexical!Ends(t, p) # {}
    PROVE  /\ Lexical!Longest(t, p) \in Lexical!Ends(t, p)
           /\ Lexical!Longest(t, p) \in p .. Len(t)
           /\ \A r \in Lexical!Ends(t, p) : r <= Lexical!Longest(t, p)
  <1> DEFINE S == Lexical!Ends(t, p)
  <1>1. Len(t) \in Nat
    OBVIOUS
  <1>2. S \in SUBSET (p .. Len(t))
    BY DEF Lexical!Ends
  <1>3. S \in SUBSET (1 .. Len(t))
    BY <1>1, <1>2
  <1>4. \E q \in S : \A r \in S : r <= q
    BY <1>1, <1>3, LastPlace
  <1>5. Lexical!Longest(t, p) = CHOOSE q \in S : \A r \in S : r <= q
    BY DEF Lexical!Longest
  <1> HIDE DEF S
  <1>6. Lexical!Longest(t, p) \in S /\ \A r \in S : r <= Lexical!Longest(t, p)
    BY <1>4, <1>5
  <1> QED
    BY <1>2, <1>6 DEF S

\* f solves the equation at the last k places and the end of the text.
TokensBy(t, f, k) == f = [p \in Len(t) + 1 - k .. Len(t) + 1 |-> NextBy(t, f, p)]

(* What solves the equation for k places can be extended to one more. *)
LEMMA TokensExtend ==
    ASSUME NEW t \in Seq(Char), NEW k \in 0 .. Len(t) - 1, NEW f, TokensBy(t, f, k)
    PROVE  \E g : TokensBy(t, g, k + 1)
  <1> DEFINE n == Len(t)
             D == n + 1 - k .. n + 1
             E == n + 1 - (k + 1) .. n + 1
             g == [p \in E |-> IF p \in D THEN f[p] ELSE NextBy(t, f, p)]
  <1>1. n \in Nat
    OBVIOUS
  <1> HIDE DEF n
  <1>2. \A p \in D : p \in E /\ g[p] = f[p] /\ f[p] = NextBy(t, f, p)
    <2>1. D \subseteq E
      BY <1>1
    <2>2. \A p \in D : f[p] = NextBy(t, f, p)
      <3>1. f = [p \in D |-> NextBy(t, f, p)]
        BY DEF TokensBy, n
      <3> HIDE DEF D
      <3> QED
        BY <3>1
    <2> QED
      BY <2>1, <2>2
  <1>3. \A p \in E : g[p] = NextBy(t, f, p)
    BY <1>2
  <1>4. ASSUME NEW p \in E PROVE NextBy(t, f, p) = NextBy(t, g, p)
    <2>1. CASE p <= n /\ Lexical!Ends(t, p) # {}
      <3> DEFINE q == Lexical!Longest(t, p)
      <3>1. p \in 1 .. n
        BY <1>1, <2>1 DEF n
      <3>2. q \in p .. n
        BY <2>1, <3>1, LongestIs DEF n
      <3>3. q + 1 \in D
        BY <1>1, <3>2
      <3>4. g[q + 1] = f[q + 1]
        BY <1>2, <3>3
      <3> HIDE DEF q, g
      <3> QED
        BY <1>1, <2>1, <3>4 DEF NextBy, q, n
    <2>2. CASE ~(p <= n) \/ Lexical!Ends(t, p) = {}
      <3>1. p > n \/ Lexical!Ends(t, p) = {}
        BY <1>1, <2>2
      <3> QED
        BY <1>1, <3>1 DEF NextBy, n
    <2> QED
      BY <2>1, <2>2
  <1>5. g = [p \in E |-> NextBy(t, g, p)]
    <2>1. g = [p \in E |-> g[p]]
      OBVIOUS
    <2>2. \A p \in E : g[p] = NextBy(t, g, p)
      BY <1>3, <1>4
    <2> HIDE DEF g, E
    <2> QED
      BY <2>1, <2>2
  <1> HIDE DEF g
  <1> QED
    BY <1>5 DEF TokensBy, n

(* So it has a solution over the whole text. *)
LEMMA TokensSolvable ==
    ASSUME NEW t \in Seq(Char), NEW m \in 0 .. Len(t)
    PROVE  \E f : TokensBy(t, f, m)
  <1> DEFINE Stuck == {k \in 0 .. Len(t) : ~\E f : TokensBy(t, f, k)}
  <1>1. SUFFICES ASSUME Stuck # {} PROVE FALSE
    OBVIOUS
  <1>2. Stuck \in SUBSET Nat
    OBVIOUS
  <1>3. PICK k \in Stuck : \A j \in Stuck : k <= j
    BY <1>1, <1>2, LeastNatural
  <1>4. k # 0
    <2> DEFINE e == Len(t) + 1
               f == [p \in {e} |-> NextBy(t, [x \in {} |-> x], p)]
    <2>1. e \in Int /\ e > Len(t) /\ e - 0 .. e = {e}
      OBVIOUS
    <2>2. \A h : NextBy(t, h, e) = <<Lexical!Lexeme("EOS", <<>>)>>
      BY <2>1 DEF NextBy
    <2> HIDE DEF e
    <2>3. f = [p \in {e} |-> NextBy(t, f, p)]
      <3>1. \A h : [p \in {e} |-> NextBy(t, h, p)] = [p \in {e} |-> <<Lexical!Lexeme("EOS", <<>>)>>]
        BY <2>2
      <3> QED
        BY <3>1
    <2> HIDE DEF f
    <2>4. TokensBy(t, f, 0)
      BY <2>1, <2>3 DEF TokensBy, e
    <2>5. 0 \in 0 .. Len(t)
      OBVIOUS
    <2> QED
      BY <2>4, <2>5
  <1>5. k - 1 \in 0 .. Len(t) - 1 /\ k - 1 \in 0 .. Len(t) /\ (k - 1) + 1 = k
    BY <1>4
  <1>6. k - 1 \notin Stuck
    BY <1>3, <1>5
  <1>7. PICK f : TokensBy(t, f, k - 1)
    BY <1>5, <1>6
  <1>8. \E g : TokensBy(t, g, (k - 1) + 1)
    BY <1>5, <1>7, TokensExtend
  <1> QED
    BY <1>3, <1>5, <1>8

(* TokensFrom is what its equation says. *)
LEMMA TokensFromIs ==
    ASSUME NEW t \in Seq(Char), NEW p \in 1 .. Len(t) + 1
    PROVE  Lexical!TokensFrom(t)[p] = NextBy(t, Lexical!TokensFrom(t), p)
  <1> DEFINE f == Lexical!TokensFrom(t)
             n == Len(t)
  <1>1. f = CHOOSE g : g = [i \in 1 .. Len(t) + 1 |-> NextBy(t, g, i)]
    BY DEF Lexical!TokensFrom, NextBy
  <1>2. n \in 0 .. Len(t) /\ n + 1 - n .. n + 1 = 1 .. n + 1
    OBVIOUS
  <1>3. \E g : TokensBy(t, g, n)
    BY <1>2, TokensSolvable
  <1>4. \E g : g = [i \in 1 .. Len(t) + 1 |-> NextBy(t, g, i)]
    BY <1>2, <1>3 DEF TokensBy
  <1> HIDE DEF f
  <1>5. f = [i \in 1 .. Len(t) + 1 |-> NextBy(t, f, i)]
    BY <1>1, <1>4
  <1>6. f[p] = NextBy(t, f, p)
    BY <1>5
  <1> QED
    BY <1>6 DEF f

\* The equation of ValuesFrom at i, for any function f.
ValuesBy(w, f, i) ==
    IF i = Len(w) THEN {<<>>}
    ELSE UNION {{Lexical!UnitValue(SubSeq(w, i, j - 1)) \o rest : rest \in f[j]} :
                   j \in {j \in i + 1 .. Len(w) : Lexical!IsUnit(SubSeq(w, i, j - 1), w[1])}}
StringBy(w, f, k) == f = [i \in Len(w) - k .. Len(w) |-> ValuesBy(w, f, i)]

(* What solves the equation for the last places can be extended to one more. *)
LEMMA ValuesExtend ==
    ASSUME NEW w \in Seq(Char), NEW k \in Nat, NEW f, StringBy(w, f, k)
    PROVE  \E g : StringBy(w, g, k + 1)
  <1> DEFINE n == Len(w)
             D == n - k .. n
             E == n - (k + 1) .. n
             g == [i \in E |-> IF i \in D THEN f[i] ELSE ValuesBy(w, f, i)]
  <1>1. n \in Nat
    OBVIOUS
  <1> HIDE DEF n
  <1>2. \A i \in D : i \in E /\ g[i] = f[i] /\ f[i] = ValuesBy(w, f, i)
    <2>1. D \subseteq E
      BY <1>1
    <2>2. \A i \in D : f[i] = ValuesBy(w, f, i)
      <3>1. f = [i \in D |-> ValuesBy(w, f, i)]
        BY DEF StringBy, n
      <3> HIDE DEF D
      <3> QED
        BY <3>1
    <2> QED
      BY <2>1, <2>2
  <1>3. \A i \in E : g[i] = ValuesBy(w, f, i)
    BY <1>2
  <1>4. ASSUME NEW i \in E PROVE ValuesBy(w, f, i) = ValuesBy(w, g, i)
    <2> DEFINE J == {j \in i + 1 .. Len(w) : Lexical!IsUnit(SubSeq(w, i, j - 1), w[1])}
               vals(h, j) == {Lexical!UnitValue(SubSeq(w, i, j - 1)) \o rest : rest \in h[j]}
    <2>1. \A j \in J : f[j] = g[j]
      <3>1. \A j \in J : j \in D
        BY <1>1 DEF n
      <3> HIDE DEF J, g, D
      <3> QED
        BY <1>2, <3>1
    <2> HIDE DEF J, g
    <2>2. \A j \in J : vals(f, j) = vals(g, j)
      BY <2>1
    <2> HIDE DEF vals
    <2>3. UNION {vals(f, j) : j \in J} = UNION {vals(g, j) : j \in J}
      BY <2>2
    <2> QED
      BY <2>3 DEF ValuesBy, vals, J
  <1>5. g = [i \in E |-> ValuesBy(w, g, i)]
    <2>1. g = [i \in E |-> g[i]]
      OBVIOUS
    <2>2. \A i \in E : g[i] = ValuesBy(w, g, i)
      BY <1>3, <1>4
    <2> HIDE DEF g, E
    <2> QED
      BY <2>1, <2>2
  <1> HIDE DEF g
  <1> QED
    BY <1>5 DEF StringBy, n

(* So it has a solution over the whole word. *)
LEMMA ValuesSolvable ==
    ASSUME NEW w \in Seq(Char), NEW m \in Nat
    PROVE  \E f : StringBy(w, f, m)
  <1> DEFINE Stuck == {k \in Nat : ~\E f : StringBy(w, f, k)}
  <1>1. SUFFICES ASSUME Stuck # {} PROVE FALSE
    OBVIOUS
  <1>2. Stuck \in SUBSET Nat
    OBVIOUS
  <1>3. PICK k \in Stuck : \A j \in Stuck : k <= j
    BY <1>1, <1>2, LeastNatural
  <1>4. k # 0
    <2> DEFINE e == Len(w)
               f == [i \in {e} |-> {<<>>}]
    <2>1. e \in Int /\ e - 0 .. e = {e}
      OBVIOUS
    <2>2. ValuesBy(w, f, e) = {<<>>}
      BY DEF ValuesBy
    <2>3. f = [i \in {e} |-> ValuesBy(w, f, i)]
      BY <2>2
    <2> HIDE DEF f
    <2>4. StringBy(w, f, 0)
      BY <2>1, <2>3 DEF StringBy
    <2> QED
      BY <2>4
  <1>5. k - 1 \in Nat /\ (k - 1) + 1 = k
    BY <1>4
  <1>6. k - 1 \notin Stuck
    BY <1>3, <1>5
  <1>7. PICK f : StringBy(w, f, k - 1)
    BY <1>5, <1>6
  <1>8. \E g : StringBy(w, g, (k - 1) + 1)
    BY <1>5, <1>7, ValuesExtend
  <1> QED
    BY <1>3, <1>5, <1>8

(* ValuesFrom is what its equation says. *)
LEMMA ValuesFromIs ==
    ASSUME NEW w \in Seq(Char), NEW i \in 2 .. Len(w)
    PROVE  Lexical!ValuesFrom(w)[i] = ValuesBy(w, Lexical!ValuesFrom(w), i)
  <1> DEFINE f == Lexical!ValuesFrom(w)
             n == Len(w)
  <1>1. f = CHOOSE g : g = [j \in 2 .. Len(w) |-> ValuesBy(w, g, j)]
    BY DEF Lexical!ValuesFrom, ValuesBy
  <1>2. n - 2 \in Nat /\ n - (n - 2) .. n = 2 .. n
    OBVIOUS
  <1>3. \E g : StringBy(w, g, n - 2)
    BY <1>2, ValuesSolvable
  <1>4. \E g : g = [j \in 2 .. Len(w) |-> ValuesBy(w, g, j)]
    BY <1>2, <1>3 DEF StringBy
  <1> HIDE DEF f
  <1>5. f = [j \in 2 .. Len(w) |-> ValuesBy(w, f, j)]
    BY <1>1, <1>4
  <1>6. f[i] = ValuesBy(w, f, i)
    BY <1>5
  <1> QED
    BY <1>6 DEF f

-------------------------------------------------------------------------------
(* Operators, and the characters words begin with.                           *)

\* The operators of one character.
Ones == Singles \union Firsts \union {<<"/", "DIV">>, <<".", "DOT">>}
Blank == Space \union NewLineChar

(* The classes of characters that words begin with are apart. *)
LEMMA Disjoint ==
    /\ \A c \in Letter : c \notin Digit \union Quote \union Blank \union {"/", NUL}
    /\ \A c \in Digit : c \notin Quote \union Blank \union {"/", NUL}
    /\ \A c \in Quote : c \notin Blank \union {"/", NUL}
    /\ "/" \notin Blank /\ NUL \notin Blank \union {"/"}
  <1>1. ASSUME NEW c \in Letter PROVE c \notin Digit \union Quote \union Blank \union {"/", NUL}
    BY ZenonT(30) DEF Letter, HexLetter, Digit, Quote, Blank, Space, NewLineChar, NUL
  <1>2. ASSUME NEW c \in Digit PROVE c \notin Quote \union Blank \union {"/", NUL}
    BY ZenonT(30) DEF Digit, Quote, Blank, Space, NewLineChar, NUL
  <1>3. ASSUME NEW c \in Quote PROVE c \notin Blank \union {"/", NUL}
    BY ZenonT(30) DEF Quote, Blank, Space, NewLineChar, NUL
  <1>4. "/" \notin Blank /\ NUL \notin Blank \union {"/"}
    BY ZenonT(30) DEF Blank, Space, NewLineChar, NUL
  <1> QED
    BY <1>1, <1>2, <1>3, <1>4, Zenon

(* The operators of Lexicon are those in the tables of scan(). *)
LEMMA OperatorsOfOne ==
    ASSUME NEW c, NEW n
    PROVE  <<n, <<c>>>> \in Lexical!Operator <=> <<c, n>> \in Ones
  <1>1. ASSUME <<n, <<c>>>> \in Lexical!Operator PROVE <<c, n>> \in Ones
    BY <1>1, ZenonT(30) DEF Lexical!Operator, Ones, Singles, Firsts
  <1>2. ASSUME <<c, n>> \in Singles PROVE <<n, <<c>>>> \in Lexical!Operator
    BY <1>2, ZenonT(30) DEF Lexical!Operator, Singles
  <1>3. ASSUME <<c, n>> \in Firsts PROVE <<n, <<c>>>> \in Lexical!Operator
    BY <1>3, ZenonT(30) DEF Lexical!Operator, Firsts
  <1>4. ASSUME <<c, n>> \in {<<"/", "DIV">>, <<".", "DOT">>} PROVE <<n, <<c>>>> \in Lexical!Operator
    BY <1>4, ZenonT(30) DEF Lexical!Operator
  <1> QED
    BY <1>1, <1>2, <1>3, <1>4, Zenon DEF Ones

LEMMA OperatorsOfTwo ==
    ASSUME NEW c, NEW d, NEW n
    PROVE  <<n, <<c, d>>>> \in Lexical!Operator
               <=> <<c, d, n>> \in Pairs \/ <<c, d, n>> = <<".", ".", "DOT2">>
  <1>1. ASSUME <<n, <<c, d>>>> \in Lexical!Operator
        PROVE  <<c, d, n>> \in Pairs \/ <<c, d, n>> = <<".", ".", "DOT2">>
    BY <1>1, ZenonT(30) DEF Lexical!Operator, Pairs
  <1>2. ASSUME <<c, d, n>> \in Pairs PROVE <<n, <<c, d>>>> \in Lexical!Operator
    BY <1>2, ZenonT(30) DEF Lexical!Operator, Pairs
  <1>3. ASSUME <<c, d, n>> = <<".", ".", "DOT2">> PROVE <<n, <<c, d>>>> \in Lexical!Operator
    BY <1>3, ZenonT(30) DEF Lexical!Operator
  <1> QED
    BY <1>1, <1>2, <1>3, Zenon

LEMMA OperatorsOfThree ==
    ASSUME NEW b, NEW c, NEW d, NEW n
    PROVE  <<n, <<b, c, d>>>> \in Lexical!Operator <=> <<n, b, c, d>> = <<"DOT3", ".", ".", ".">>
  <1>1. ASSUME <<n, <<b, c, d>>>> \in Lexical!Operator
        PROVE  <<n, b, c, d>> = <<"DOT3", ".", ".", ".">>
    BY <1>1, ZenonT(30) DEF Lexical!Operator
  <1>2. ASSUME <<n, b, c, d>> = <<"DOT3", ".", ".", ".">>
        PROVE  <<n, <<b, c, d>>>> \in Lexical!Operator
    BY <1>2, ZenonT(30) DEF Lexical!Operator
  <1> QED
    BY <1>1, <1>2, Zenon

LEMMA OperatorsAre ==
    ASSUME NEW o \in Lexical!Operator
    PROVE  \/ \E c, n : o = <<n, <<c>>>>
           \/ \E c, d, n : o = <<n, <<c, d>>>>
           \/ \E b, c, d, n : o = <<n, <<b, c, d>>>>
  BY ZenonT(30) DEF Lexical!Operator

(* The tables are functions, and their characters begin no other words. *)
LEMMA OnesAre ==
    ASSUME NEW c, NEW n, <<c, n>> \in Ones
    PROVE  /\ \A m : <<c, m>> \in Ones => n = m
           /\ c \notin Letter \union Digit \union Quote \union Blank \union {NUL}
  <1>1. ASSUME NEW d, NEW m, <<c, n>> \in Singles, <<d, m>> \in Singles PROVE (c = d /\ n = m) \/ c # d
    BY <1>1, ZenonT(30) DEF Singles
  <1>2. ASSUME NEW d, NEW m, <<c, n>> \in Firsts, <<d, m>> \in Firsts PROVE (c = d /\ n = m) \/ c # d
    BY <1>2, ZenonT(30) DEF Firsts
  <1>3. ASSUME NEW a, NEW m, NEW k, <<a, m>> \in Singles, <<a, k>> \in Firsts PROVE FALSE
    BY <1>3, ZenonT(30) DEF Singles, Firsts
  <1>4. ASSUME NEW a, NEW m, NEW k, <<a, m>> \in Singles \union Firsts,
               <<a, k>> \in {<<"/", "DIV">>, <<".", "DOT">>}
        PROVE  FALSE
    BY <1>4, ZenonT(30) DEF Singles, Firsts
  <1>5. ASSUME NEW d, NEW m, <<c, n>> \in {<<"/", "DIV">>, <<".", "DOT">>},
               <<d, m>> \in {<<"/", "DIV">>, <<".", "DOT">>}
        PROVE  (c = d /\ n = m) \/ c # d
    BY <1>5, ZenonT(30)
  <1>6. ASSUME NEW m, <<c, m>> \in Ones PROVE n = m
    <2> DEFINE Rest == {<<"/", "DIV">>, <<".", "DOT">>}
    <2>1. ASSUME <<c, n>> \in Singles, <<c, m>> \in Singles PROVE n = m
      BY <1>1, <2>1
    <2>2. ASSUME <<c, n>> \in Firsts, <<c, m>> \in Firsts PROVE n = m
      BY <1>2, <2>2
    <2>3. ASSUME <<c, n>> \in Rest, <<c, m>> \in Rest PROVE n = m
      BY <1>5, <2>3
    <2>4. ~(<<c, n>> \in Singles /\ <<c, m>> \in Firsts) /\ ~(<<c, n>> \in Firsts /\ <<c, m>> \in Singles)
      BY <1>3, Zenon
    <2>5. ~(<<c, n>> \in Singles \union Firsts /\ <<c, m>> \in Rest)
      BY <1>4, Zenon
    <2>6. ~(<<c, n>> \in Rest /\ <<c, m>> \in Singles \union Firsts)
      BY <1>4, Zenon
    <2>7. Ones = Singles \union Firsts \union Rest
      BY DEF Ones
    <2> HIDE DEF Rest
    <2> QED
      BY <1>6, <2>1, <2>2, <2>3, <2>4, <2>5, <2>6, <2>7, Zenon
  <1>7. ASSUME <<c, n>> \in Singles PROVE c \notin Letter \union Digit \union Quote \union Blank \union {NUL}
    BY <1>7, ZenonT(60) DEF Singles, Letter, HexLetter, Digit, Quote, Blank, Space, NewLineChar, NUL
  <1>8. ASSUME <<c, n>> \in Firsts PROVE c \notin Letter \union Digit \union Quote \union Blank \union {NUL}
    BY <1>8, ZenonT(60) DEF Firsts, Letter, HexLetter, Digit, Quote, Blank, Space, NewLineChar, NUL
  <1>9. ASSUME <<c, n>> \in {<<"/", "DIV">>, <<".", "DOT">>}
        PROVE  c \notin Letter \union Digit \union Quote \union Blank \union {NUL}
    BY <1>9, ZenonT(60) DEF Letter, HexLetter, Digit, Quote, Blank, Space, NewLineChar, NUL
  <1> QED
    BY <1>6, <1>7, <1>8, <1>9, Zenon DEF Ones

LEMMA PairsAre ==
    ASSUME NEW c, NEW d, NEW n, <<c, d, n>> \in Pairs
    PROVE  /\ \A m : <<c, d, m>> \in Pairs => n = m
           /\ \E m : <<c, m>> \in Firsts
           /\ d # NUL
  <1>1. ASSUME NEW a, NEW b, NEW m, <<c, d, n>> \in Pairs, <<a, b, m>> \in Pairs
        PROVE  (c = a /\ d = b /\ n = m) \/ ~(c = a /\ d = b)
    BY <1>1, ZenonT(30) DEF Pairs
  <1>2. \E m : <<c, m>> \in Firsts
    BY ZenonT(30) DEF Pairs, Firsts
  <1>3. d # NUL
    BY ZenonT(30) DEF Pairs, NUL
  <1> QED
    BY <1>1, <1>2, <1>3, Zenon

LEMMA OperatorFirst ==
    ASSUME NEW o \in Lexical!Operator
    PROVE  \E m : <<o[2][1], m>> \in Ones
  <1>1. ASSUME NEW c, NEW n, o = <<n, <<c>>>> PROVE \E m : <<o[2][1], m>> \in Ones
    <2>1. o[2][1] = c
      BY <1>1
    <2>2. <<c, n>> \in Ones
      BY <1>1, OperatorsOfOne, Zenon
    <2> QED
      BY <2>1, <2>2
  <1>2. <<".", "DOT">> \in Ones
    BY Zenon DEF Ones
  <1>3. ASSUME NEW c, NEW d, NEW n, o = <<n, <<c, d>>>> PROVE \E m : <<o[2][1], m>> \in Ones
    <2>1. o[2][1] = c
      BY <1>3
    <2>2. <<c, d, n>> \in Pairs \/ <<c, d, n>> = <<".", ".", "DOT2">>
      BY <1>3, OperatorsOfTwo, Zenon
    <2>3. ASSUME <<c, d, n>> \in Pairs PROVE \E m : <<c, m>> \in Ones
      <3>1. PICK m : <<c, m>> \in Firsts
        BY <2>3, PairsAre, Zenon
      <3> QED
        BY <3>1, Zenon DEF Ones
    <2>4. ASSUME <<c, d, n>> = <<".", ".", "DOT2">> PROVE \E m : <<c, m>> \in Ones
      <3>1. c = "."
        BY <2>4
      <3> QED
        BY <1>2, <3>1
    <2> QED
      BY <2>1, <2>2, <2>3, <2>4
  <1>4. ASSUME NEW b, NEW c, NEW d, NEW n, o = <<n, <<b, c, d>>>>
        PROVE  \E m : <<o[2][1], m>> \in Ones
    <2>1. o[2][1] = b
      BY <1>4
    <2>2. <<n, b, c, d>> = <<"DOT3", ".", ".", ".">>
      BY <1>4, OperatorsOfThree, Zenon
    <2>3. b = "."
      BY <2>2
    <2> QED
      BY <1>2, <2>1, <2>3
  <1>5. \/ \E c, n : o = <<n, <<c>>>>
        \/ \E c, d, n : o = <<n, <<c, d>>>>
        \/ \E b, c, d, n : o = <<n, <<b, c, d>>>>
    BY OperatorsAre
  <1>6. CASE \E c, n : o = <<n, <<c>>>>
    BY <1>1, <1>6
  <1>7. CASE \E c, d, n : o = <<n, <<c, d>>>>
    BY <1>3, <1>7
  <1>8. CASE \E b, c, d, n : o = <<n, <<b, c, d>>>>
    BY <1>4, <1>8
  <1> QED
    BY <1>5, <1>6, <1>7, <1>8

-------------------------------------------------------------------------------
(* What a word can be, by the character it begins with.                      *)

(* Lexicon and the scanner mean the same by the classes of Characters. *)
LEMMA SameClasses ==
    /\ Lexical!Letter = Letter /\ Lexical!Digit = Digit /\ Lexical!Quote = Quote
    /\ Lexical!Space = Space /\ Lexical!NewLineChar = NewLineChar
    /\ Lexical!Bit = Bit /\ Lexical!Hex = Hex /\ Lexical!Escapes = Escapes
    /\ \A c : Lexical!Unescaped(c) = Unescaped(c)
  <1>1. Lexical!Digit = Digit
    BY Zenon DEF Lexical!Digit, Digit
  <1>2. Lexical!HexLetter = HexLetter
    BY Zenon DEF Lexical!HexLetter, HexLetter
  <1>3. Lexical!Letter = Letter
    BY <1>2, Zenon DEF Lexical!Letter, Letter
  <1>4. Lexical!Hex = Hex
    BY <1>1, <1>2, Zenon DEF Lexical!Hex, Hex
  <1>5. Lexical!Quote = Quote
    BY Zenon DEF Lexical!Quote, Quote
  <1>6. Lexical!Space = Space /\ Lexical!NewLineChar = NewLineChar
    BY Zenon DEF Lexical!Space, Space, Lexical!NewLineChar, NewLineChar
  <1>7. Lexical!Bit = Bit
    BY Zenon DEF Lexical!Bit, Bit
  <1>8. Lexical!Escape = Escape
    BY Zenon DEF Lexical!Escape, Escape
  <1>9. Lexical!Escapes = Escapes
    BY <1>5, <1>8, Zenon DEF Lexical!Escapes, Escapes
  <1>10. \A c : Lexical!Unescaped(c) = Unescaped(c)
    BY <1>8, Zenon DEF Lexical!Unescaped, Unescaped
  <1> QED
    BY <1>1, <1>3, <1>4, <1>5, <1>6, <1>7, <1>9, <1>10

\* The tokens of the operators spelled w.
Operators(w) == {Lexical!Lexeme(o[1], w) : o \in {o \in Lexical!Operator : o[2] = w}}

LEMMA OthersBegin ==
    ASSUME NEW w, w[1] \in Letter \union Digit \union Quote \union Blank
    PROVE  Operators(w) = {}
  <1> SUFFICES ASSUME NEW o \in Lexical!Operator, o[2] = w PROVE FALSE
    BY DEF Operators
  <1>1. PICK m : <<o[2][1], m>> \in Ones
    BY OperatorFirst
  <1> QED
    BY <1>1, OnesAre, Zenon

LEMMA ByLetter ==
    ASSUME NEW w \in Seq(Char), Len(w) >= 1, w[1] \in Letter, NEW e
    PROVE  /\ Lexical!LexemesOf(w)
                = IF Lexical!IsWord(w) THEN {Lexical!Lexeme(IF w \in Keyword THEN "keyword" ELSE "ID", w)}
                  ELSE {}
           /\ ~Lexical!IsTrivia(w, e)
  <1>1. w[1] \notin Digit /\ w[1] \notin Quote /\ w[1] \notin Blank /\ w[1] # "/"
    BY Disjoint, Zenon
  <1>2. Len(w) \in Nat /\ DOMAIN w = 1 .. Len(w)
    OBVIOUS
  <1>3. 1 \in DOMAIN w
    BY <1>2
  <1>4. Operators(w) = {}
    BY OthersBegin, Zenon
  <1>5. ~Lexical!IsBinary(w) /\ ~Lexical!IsHexadecimal(w)
    BY <1>1, SameClasses DEF Lexical!IsBinary, Lexical!IsHexadecimal
  <1>6. ~Lexical!IsDecimal(w)
    BY <1>1, <1>3, SameClasses DEF Lexical!IsDecimal, Lexical!Of
  <1>7. ~Lexical!IsFloat(w)
    <2>1. \A i \in 2 .. Len(w) : 1 \in DOMAIN w \ {i}
      BY <1>3
    <2> QED
      BY <1>1, <2>1, SameClasses DEF Lexical!IsFloat
  <1>8. Lexical!ValuesOf(w) = {}
    BY <1>1, SameClasses DEF Lexical!ValuesOf
  <1>9. ~Lexical!IsTrivia(w, e)
    <2>1. ~Lexical!IsBlank(w)
      BY <1>1, <1>3, SameClasses DEF Lexical!IsBlank, Lexical!Of, Blank
    <2> QED
      BY <1>1, <2>1 DEF Lexical!IsTrivia, Lexical!IsLineComment, Lexical!IsSectionComment
  <1> QED
    BY <1>4, <1>5, <1>6, <1>7, <1>8, <1>9, Zenon DEF Lexical!LexemesOf, Operators

LEMMA ByDigit ==
    ASSUME NEW w \in Seq(Char), Len(w) >= 1, w[1] \in Digit, NEW e
    PROVE  /\ Lexical!LexemesOf(w)
                = UNION {IF Lexical!IsBinary(w) THEN {Lexical!Lexeme("INT_B", w)} ELSE {},
                         IF Lexical!IsHexadecimal(w) THEN {Lexical!Lexeme("INT_X", w)} ELSE {},
                         IF Lexical!IsDecimal(w) THEN {Lexical!Lexeme("INT_D", w)} ELSE {},
                         IF Lexical!IsFloat(w) THEN {Lexical!Lexeme("FLOAT", w)} ELSE {}}
           /\ ~Lexical!IsTrivia(w, e)
  <1>1. w[1] \notin Letter /\ w[1] \notin Quote /\ w[1] \notin Blank /\ w[1] # "/"
    BY Disjoint, Zenon
  <1>2. Len(w) \in Nat /\ DOMAIN w = 1 .. Len(w)
    OBVIOUS
  <1>3. 1 \in DOMAIN w
    BY <1>2
  <1>4. Operators(w) = {}
    BY OthersBegin, Zenon
  <1>5. ~Lexical!IsWord(w)
    BY <1>1, SameClasses DEF Lexical!IsWord
  <1>8. Lexical!ValuesOf(w) = {}
    BY <1>1, SameClasses DEF Lexical!ValuesOf
  <1>9. ~Lexical!IsTrivia(w, e)
    <2>1. ~Lexical!IsBlank(w)
      BY <1>1, <1>3, SameClasses DEF Lexical!IsBlank, Lexical!Of, Blank
    <2> QED
      BY <1>1, <2>1 DEF Lexical!IsTrivia, Lexical!IsLineComment, Lexical!IsSectionComment
  <1> QED
    BY <1>4, <1>5, <1>8, <1>9, Zenon DEF Lexical!LexemesOf, Operators

LEMMA ByQuote ==
    ASSUME NEW w \in Seq(Char), Len(w) >= 1, w[1] \in Quote, NEW e
    PROVE  /\ Lexical!LexemesOf(w) = {Lexical!Lexeme("STRING", v) : v \in Lexical!ValuesOf(w)}
           /\ ~Lexical!IsTrivia(w, e)
  <1>1. w[1] \notin Letter /\ w[1] \notin Digit /\ w[1] \notin Blank /\ w[1] # "/"
    BY Disjoint, Zenon
  <1>2. Len(w) \in Nat /\ DOMAIN w = 1 .. Len(w)
    OBVIOUS
  <1>3. 1 \in DOMAIN w
    BY <1>2
  <1>4. Operators(w) = {}
    BY OthersBegin, Zenon
  <1>5. ~Lexical!IsWord(w) /\ ~Lexical!IsBinary(w) /\ ~Lexical!IsHexadecimal(w)
    BY <1>1, SameClasses DEF Lexical!IsWord, Lexical!IsBinary, Lexical!IsHexadecimal
  <1>6. ~Lexical!IsDecimal(w)
    BY <1>1, <1>3, SameClasses DEF Lexical!IsDecimal, Lexical!Of
  <1>7. ~Lexical!IsFloat(w)
    <2>1. \A i \in 2 .. Len(w) : 1 \in DOMAIN w \ {i}
      BY <1>3
    <2> QED
      BY <1>1, <2>1, SameClasses DEF Lexical!IsFloat
  <1>9. ~Lexical!IsTrivia(w, e)
    <2>1. ~Lexical!IsBlank(w)
      BY <1>1, <1>3, SameClasses DEF Lexical!IsBlank, Lexical!Of, Blank
    <2> QED
      BY <1>1, <2>1 DEF Lexical!IsTrivia, Lexical!IsLineComment, Lexical!IsSectionComment
  <1> QED
    BY <1>4, <1>5, <1>6, <1>7, <1>9, Zenon DEF Lexical!LexemesOf, Operators

LEMMA ByOther ==
    ASSUME NEW w \in Seq(Char), Len(w) >= 1, w[1] \notin Letter \union Digit \union Quote
    PROVE  Lexical!LexemesOf(w) = Operators(w)
  <1>1. w[1] \notin Letter /\ w[1] \notin Digit /\ w[1] \notin Quote
    OBVIOUS
  <1>2. Len(w) \in Nat /\ DOMAIN w = 1 .. Len(w)
    OBVIOUS
  <1>3. 1 \in DOMAIN w
    BY <1>2
  <1>5. ~Lexical!IsWord(w) /\ ~Lexical!IsBinary(w) /\ ~Lexical!IsHexadecimal(w)
    BY <1>1, SameClasses DEF Lexical!IsWord, Lexical!IsBinary, Lexical!IsHexadecimal
  <1>6. ~Lexical!IsDecimal(w)
    BY <1>1, <1>3, SameClasses DEF Lexical!IsDecimal, Lexical!Of
  <1>7. ~Lexical!IsFloat(w)
    <2>1. \A i \in 2 .. Len(w) : 1 \in DOMAIN w \ {i}
      BY <1>3
    <2> QED
      BY <1>1, <2>1, SameClasses DEF Lexical!IsFloat
  <1>8. Lexical!ValuesOf(w) = {}
    BY <1>1, SameClasses DEF Lexical!ValuesOf
  <1> QED
    BY <1>5, <1>6, <1>7, <1>8, Zenon DEF Lexical!LexemesOf, Operators

-------------------------------------------------------------------------------
(* How the longest word at a place decides the tokens from there on.         *)

(* The characters of a word are those of the text. *)
LEMMA SpanIs ==
    ASSUME NEW t \in Seq(Char), NEW s \in 1 .. Len(t), NEW q \in s .. Len(t)
    PROVE  /\ SubSeq(t, s, q) \in Seq(Char)
           /\ Len(SubSeq(t, s, q)) = q - s + 1
           /\ DOMAIN SubSeq(t, s, q) = 1 .. q - s + 1
           /\ \A i \in 1 .. q - s + 1 : SubSeq(t, s, q)[i] = t[s + i - 1]
           /\ SubSeq(t, s, q)[1] = t[s]
  <1>1. Len(t) \in Nat /\ q \in Nat /\ s \in Nat /\ s <= q /\ q <= Len(t)
    OBVIOUS
  <1>2. SubSeq(t, s, q) = [i \in 1 .. q - s + 1 |-> t[s + i - 1]]
    BY <1>1
  <1>3. /\ SubSeq(t, s, q) \in Seq(Char)
        /\ Len(SubSeq(t, s, q)) = q - s + 1
    BY <1>1
  <1>4. 1 \in 1 .. q - s + 1 /\ s + 1 - 1 = s
    BY <1>1
  <1> QED
    BY <1>2, <1>3, <1>4

LEMMA SpanOfOne ==
    ASSUME NEW t \in Seq(Char), NEW s \in 1 .. Len(t)
    PROVE  SubSeq(t, s, s) = <<t[s]>>
  <1> DEFINE w == SubSeq(t, s, s)
  <1>1. w \in Seq(Char) /\ Len(w) = s - s + 1 /\ w[1] = t[s]
    BY SpanIs
  <1>2. s - s + 1 = 1
    OBVIOUS
  <1> HIDE DEF w
  <1>3. w = <<t[s]>>
    BY <1>1, <1>2
  <1> QED
    BY <1>3 DEF w

\* No word from s on ends after e.
NoLonger(t, s, e) == \A q \in e + 1 .. Len(t) : q \notin Lexical!Ends(t, s)

LEMMA EndIsLongest ==
    ASSUME NEW t \in Seq(Char), NEW s \in 1 .. Len(t), NEW e \in s .. Len(t),
           e \in Lexical!Ends(t, s), NoLonger(t, s, e)
    PROVE  Lexical!Longest(t, s) = e
  <1>1. Lexical!Ends(t, s) # {}
    OBVIOUS
  <1>2. /\ Lexical!Longest(t, s) \in Lexical!Ends(t, s)
        /\ Lexical!Longest(t, s) \in s .. Len(t)
        /\ e <= Lexical!Longest(t, s)
    BY <1>1, LongestIs
  <1>3. Lexical!Longest(t, s) \notin e + 1 .. Len(t)
    BY <1>2 DEF NoLonger
  <1> QED
    BY <1>2, <1>3

LEMMA TriviumIsSkipped ==
    ASSUME NEW t \in Seq(Char), NEW s \in 1 .. Len(t), NEW e \in s .. Len(t),
           Lexical!Trivial(t, s, e), NoLonger(t, s, e)
    PROVE  Lexical!TokensFrom(t)[s] = Lexical!TokensFrom(t)[e + 1]
  <1>1. e \in Lexical!Ends(t, s)
    BY DEF Lexical!Ends
  <1>2. Lexical!Longest(t, s) = e
    BY <1>1, EndIsLongest
  <1>3. s \in 1 .. Len(t) + 1 /\ ~(s > Len(t))
    OBVIOUS
  <1> QED
    BY <1>1, <1>2, <1>3, TokensFromIs DEF NextBy

LEMMA TokenIsNext ==
    ASSUME NEW t \in Seq(Char), NEW s \in 1 .. Len(t), NEW e \in s .. Len(t), NEW x,
           ~Lexical!Trivial(t, s, e), Lexical!LexemesOf(SubSeq(t, s, e)) = {x}, NoLonger(t, s, e)
    PROVE  Lexical!TokensFrom(t)[s] = <<x>> \o Lexical!TokensFrom(t)[e + 1]
  <1>1. e \in Lexical!Ends(t, s)
    BY DEF Lexical!Ends
  <1>2. Lexical!Longest(t, s) = e
    BY <1>1, EndIsLongest
  <1>3. s \in 1 .. Len(t) + 1 /\ ~(s > Len(t))
    OBVIOUS
  <1>4. (CHOOSE y \in Lexical!LexemesOf(SubSeq(t, s, e)) : TRUE) = x
    OBVIOUS
  <1> QED
    BY <1>1, <1>2, <1>3, <1>4, TokensFromIs DEF NextBy

LEMMA NoWordIsUnknown ==
    ASSUME NEW t \in Seq(Char), NEW s \in 1 .. Len(t), NoLonger(t, s, s - 1)
    PROVE  Lexical!TokensFrom(t)[s] = <<NoToken>>
  <1>1. s \in 1 .. Len(t) + 1 /\ ~(s > Len(t)) /\ s - 1 + 1 = s
    OBVIOUS
  <1>2. Lexical!Ends(t, s) = {}
    BY <1>1 DEF NoLonger, Lexical!Ends
  <1> QED
    BY <1>1, <1>2, TokensFromIs DEF NextBy, NoToken, Token, Lexical!Lexeme

LEMMA EndIsToken ==
    ASSUME NEW t \in Seq(Char)
    PROVE  Lexical!TokensFrom(t)[Len(t) + 1] = <<Token("EOS", <<>>)>>
  <1>1. Len(t) + 1 \in 1 .. Len(t) + 1 /\ Len(t) + 1 > Len(t)
    OBVIOUS
  <1> QED
    BY <1>1, TokensFromIs DEF NextBy, Token, Lexical!Lexeme

-------------------------------------------------------------------------------
(* Operators and trivia, by their places in a text.                          *)

LEMMA OperatorsAt ==
    ASSUME NEW w \in Seq(Char), Len(w) >= 1, w[1] \notin Letter \union Digit \union Quote, NEW x
    PROVE  x \in Lexical!LexemesOf(w)
               <=> \E n : <<n, w>> \in Lexical!Operator /\ x = Lexical!Lexeme(n, w)
  <1>1. Lexical!LexemesOf(w) = Operators(w)
    BY ByOther
  <1>2. ASSUME NEW o \in Lexical!Operator, o[2] = w PROVE \E n : o = <<n, w>>
    <2>1. \/ \E c, n : o = <<n, <<c>>>>
          \/ \E c, d, n : o = <<n, <<c, d>>>>
          \/ \E b, c, d, n : o = <<n, <<b, c, d>>>>
      BY OperatorsAre
    <2>2. \E v, n : o = <<n, v>>
      BY <2>1
    <2>3. PICK v, n : o = <<n, v>>
      BY <2>2
    <2>4. v = w
      BY <1>2, <2>3
    <2> QED
      BY <2>3, <2>4
  <1>3. ASSUME x \in Operators(w)
        PROVE  \E n : <<n, w>> \in Lexical!Operator /\ x = Lexical!Lexeme(n, w)
    <2>1. PICK o \in Lexical!Operator : o[2] = w /\ x = Lexical!Lexeme(o[1], w)
      BY <1>3 DEF Operators
    <2>2. PICK n : o = <<n, w>>
      BY <1>2, <2>1
    <2>3. o[1] = n
      BY <2>2
    <2> QED
      BY <2>1, <2>2, <2>3
  <1>4. ASSUME NEW n, <<n, w>> \in Lexical!Operator, x = Lexical!Lexeme(n, w) PROVE x \in Operators(w)
    <2> DEFINE o == <<n, w>>
    <2>1. o \in Lexical!Operator /\ o[2] = w /\ o[1] = n
      BY <1>4
    <2> HIDE DEF o
    <2> QED
      BY <1>4, <2>1 DEF Operators
  <1> QED
    BY <1>1, <1>3, <1>4

(* The word of one character: the operator it is, if it is one. *)
LEMMA OneChar ==
    ASSUME NEW t \in Seq(Char), NEW s \in 1 .. Len(t), t[s] \notin Letter \union Digit \union Quote,
           NEW x
    PROVE  x \in Lexical!LexemesOf(SubSeq(t, s, s))
               <=> \E n : <<t[s], n>> \in Ones /\ x = Token(n, <<t[s]>>)
  <1>1. SubSeq(t, s, s) = <<t[s]>>
    BY SpanOfOne
  <1>2. SubSeq(t, s, s) \in Seq(Char) /\ Len(SubSeq(t, s, s)) >= 1 /\ SubSeq(t, s, s)[1] = t[s]
    BY SpanIs
  <1>3. x \in Lexical!LexemesOf(SubSeq(t, s, s))
            <=> \E n : <<n, <<t[s]>>>> \in Lexical!Operator /\ x = Lexical!Lexeme(n, <<t[s]>>)
    BY <1>1, <1>2, OperatorsAt
  <1> QED
    BY <1>3, OperatorsOfOne, Zenon DEF Lexical!Lexeme, Token

LEMMA TwoChars ==
    ASSUME NEW t \in Seq(Char), NEW s \in 1 .. Len(t), s + 1 \in 1 .. Len(t),
           t[s] \notin Letter \union Digit \union Quote, NEW x
    PROVE  x \in Lexical!LexemesOf(SubSeq(t, s, s + 1))
               <=> \E n : /\ \/ <<t[s], t[s + 1], n>> \in Pairs
                             \/ <<t[s], t[s + 1], n>> = <<".", ".", "DOT2">>
                          /\ x = Token(n, <<t[s], t[s + 1]>>)
  <1> DEFINE w == SubSeq(t, s, s + 1)
             v == <<t[s], t[s + 1]>>
  <1>1. s + 1 \in s .. Len(t) /\ s + 1 - s + 1 = 2
    OBVIOUS
  <1>2. w \in Seq(Char) /\ Len(w) = 2 /\ w[1] = t[s] /\ w[2] = t[s + 1]
    <2>1. w \in Seq(Char) /\ Len(w) = 2 /\ w[1] = t[s] /\ \A i \in 1 .. 2 : w[i] = t[s + i - 1]
      BY <1>1, SpanIs
    <2>2. w[2] = t[s + 2 - 1] /\ s + 2 - 1 = s + 1
      BY <2>1
    <2> QED
      BY <2>1, <2>2
  <1> HIDE DEF w
  <1>3. w = v
    BY <1>2
  <1>4. Len(w) >= 1
    BY <1>2
  <1>5. x \in Lexical!LexemesOf(w) <=> \E n : <<n, w>> \in Lexical!Operator /\ x = Lexical!Lexeme(n, w)
    BY <1>2, <1>4, OperatorsAt
  <1>6. \A n : <<n, w>> \in Lexical!Operator
                   <=> (<<t[s], t[s + 1], n>> \in Pairs \/ <<t[s], t[s + 1], n>> = <<".", ".", "DOT2">>)
    BY <1>3, OperatorsOfTwo, Zenon
  <1>7. \A n : Lexical!Lexeme(n, w) = Token(n, v)
    BY <1>3, Zenon DEF Lexical!Lexeme, Token
  <1> QED
    BY <1>5, <1>6, <1>7 DEF w

LEMMA ThreeChars ==
    ASSUME NEW t \in Seq(Char), NEW s \in 1 .. Len(t), s + 2 \in 1 .. Len(t),
           t[s] \notin Letter \union Digit \union Quote, NEW x
    PROVE  x \in Lexical!LexemesOf(SubSeq(t, s, s + 2))
               <=> /\ t[s] = "." /\ t[s + 1] = "." /\ t[s + 2] = "."
                   /\ x = Token("DOT3", <<".", ".", ".">>)
  <1> DEFINE w == SubSeq(t, s, s + 2)
             v == <<t[s], t[s + 1], t[s + 2]>>
  <1>1. s + 2 \in s .. Len(t) /\ s + 2 - s + 1 = 3
    OBVIOUS
  <1>2. w \in Seq(Char) /\ Len(w) = 3 /\ w[1] = t[s] /\ w[2] = t[s + 1] /\ w[3] = t[s + 2]
    <2>1. w \in Seq(Char) /\ Len(w) = 3 /\ w[1] = t[s] /\ \A i \in 1 .. 3 : w[i] = t[s + i - 1]
      BY <1>1, SpanIs
    <2>2. w[2] = t[s + 2 - 1] /\ s + 2 - 1 = s + 1 /\ w[3] = t[s + 3 - 1] /\ s + 3 - 1 = s + 2
      BY <2>1
    <2> QED
      BY <2>1, <2>2
  <1> HIDE DEF w
  <1>3. w = v
    BY <1>2
  <1>4. Len(w) >= 1
    BY <1>2
  <1>5. x \in Lexical!LexemesOf(w) <=> \E n : <<n, w>> \in Lexical!Operator /\ x = Lexical!Lexeme(n, w)
    BY <1>2, <1>4, OperatorsAt
  <1>6. \A n : <<n, w>> \in Lexical!Operator <=> <<n, t[s], t[s + 1], t[s + 2]>> = <<"DOT3", ".", ".", ".">>
    BY <1>3, OperatorsOfThree, Zenon
  <1>7. \A n : Lexical!Lexeme(n, w) = Token(n, v)
    BY <1>3, Zenon DEF Lexical!Lexeme, Token
  <1>8. \A n : <<n, w>> \in Lexical!Operator
                   <=> n = "DOT3" /\ t[s] = "." /\ t[s + 1] = "." /\ t[s + 2] = "."
    BY <1>6
  <1> QED
    BY <1>5, <1>7, <1>8 DEF w

LEMMA MoreChars ==
    ASSUME NEW t \in Seq(Char), NEW s \in 1 .. Len(t), NEW q \in s .. Len(t), q >= s + 3,
           t[s] \notin Letter \union Digit \union Quote
    PROVE  Lexical!LexemesOf(SubSeq(t, s, q)) = {}
  <1> DEFINE w == SubSeq(t, s, q)
  <1>1. w \in Seq(Char) /\ Len(w) = q - s + 1 /\ w[1] = t[s]
    BY SpanIs
  <1> HIDE DEF w
  <1>2. Len(w) >= 4
    BY <1>1
  <1>3. \A x : x \notin Lexical!LexemesOf(w)
    <2>0. Len(w) >= 1 /\ w[1] \notin Letter \union Digit \union Quote
      BY <1>1, <1>2
    <2> SUFFICES ASSUME NEW x, x \in Lexical!LexemesOf(w) PROVE FALSE
      OBVIOUS
    <2>11. PICK n : <<n, w>> \in Lexical!Operator
      BY <1>1, <2>0, OperatorsAt
    <2> DEFINE o == <<n, w>>
    <2>1. o \in Lexical!Operator /\ o[2] = w
      BY <2>11
    <2> HIDE DEF o
    <2>2. \/ \E c, m : o = <<m, <<c>>>>
          \/ \E c, d, m : o = <<m, <<c, d>>>>
          \/ \E b, c, d, m : o = <<m, <<b, c, d>>>>
      BY <2>1, OperatorsAre
    <2>3. (\E c : w = <<c>>) \/ (\E c, d : w = <<c, d>>) \/ (\E b, c, d : w = <<b, c, d>>)
      BY <2>1, <2>2
    <2>4. Len(w) <= 3
      <3>1. CASE \E c : w = <<c>>
        BY <3>1
      <3>2. CASE \E c, d : w = <<c, d>>
        BY <3>2
      <3>3. CASE \E b, c, d : w = <<b, c, d>>
        BY <3>3
      <3> QED
        BY <2>3, <3>1, <3>2, <3>3
    <2> QED
      BY <1>2, <2>4
  <1> QED
    BY <1>3 DEF w

\* The */ of a section comment.
Closing(t, i) == t[i] = "*" /\ t[i + 1] = "/"

LEMMA BlankAt ==
    ASSUME NEW t \in Seq(Char), NEW s \in 1 .. Len(t), NEW q \in s .. Len(t)
    PROVE  Lexical!IsBlank(SubSeq(t, s, q)) <=> q = s /\ t[s] \in Blank
  <1> DEFINE w == SubSeq(t, s, q)
  <1>1. w \in Seq(Char) /\ Len(w) = q - s + 1 /\ w[1] = t[s] /\ DOMAIN w = 1 .. q - s + 1
    BY SpanIs
  <1> HIDE DEF w
  <1>2. Len(w) = 1 <=> q = s
    BY <1>1
  <1>3. q = s => DOMAIN w = {1}
    BY <1>1
  <1> QED
    BY <1>1, <1>2, <1>3, SameClasses DEF Lexical!IsBlank, Lexical!Of, Blank, w

LEMMA LineCommentAt ==
    ASSUME NEW t \in Seq(Char), NEW s \in 1 .. Len(t), NEW q \in s .. Len(t)
    PROVE  Lexical!IsLineComment(SubSeq(t, s, q))
               <=> /\ q >= s + 1 /\ t[s] = "/" /\ t[s + 1] = "/"
                   /\ \A i \in s .. q : t[i] \notin NewLineChar
  <1> DEFINE w == SubSeq(t, s, q)
  <1>1. /\ w \in Seq(Char) /\ Len(w) = q - s + 1 /\ w[1] = t[s] /\ DOMAIN w = 1 .. q - s + 1
        /\ \A i \in 1 .. q - s + 1 : w[i] = t[s + i - 1]
    BY SpanIs
  <1> HIDE DEF w
  <1>2. Len(w) >= 2 <=> q >= s + 1
    BY <1>1
  <1>3. q >= s + 1 => w[2] = t[s + 1]
    <2>1. q >= s + 1 => 2 \in 1 .. q - s + 1 /\ s + 2 - 1 = s + 1
      OBVIOUS
    <2> QED
      BY <1>1, <2>1
  <1>4. (\A i \in DOMAIN w : w[i] \notin NewLineChar) <=> (\A i \in s .. q : t[i] \notin NewLineChar)
    <2>1. ASSUME \A i \in DOMAIN w : w[i] \notin NewLineChar, NEW i \in s .. q
          PROVE  t[i] \notin NewLineChar
      <3>1. i - s + 1 \in 1 .. q - s + 1 /\ s + (i - s + 1) - 1 = i
        OBVIOUS
      <3> QED
        BY <1>1, <2>1, <3>1
    <2>2. ASSUME \A i \in s .. q : t[i] \notin NewLineChar, NEW i \in DOMAIN w
          PROVE  w[i] \notin NewLineChar
      <3>1. i \in 1 .. q - s + 1 /\ s + i - 1 \in s .. q
        BY <1>1
      <3> QED
        BY <1>1, <2>2, <3>1
    <2> QED
      BY <2>1, <2>2
  <1> QED
    BY <1>1, <1>2, <1>3, <1>4, SameClasses DEF Lexical!IsLineComment, w

LEMMA SectionCommentAt ==
    ASSUME NEW t \in Seq(Char), NEW s \in 1 .. Len(t), NEW q \in s .. Len(t)
    PROVE  Lexical!IsSectionComment(SubSeq(t, s, q), q = Len(t))
               <=> /\ q >= s + 1 /\ t[s] = "/" /\ t[s + 1] = "*"
                   /\ \/ q >= s + 3 /\ Closing(t, q - 1) /\ \A i \in s + 2 .. q - 2 : ~Closing(t, i)
                      \/ q = Len(t) /\ \A i \in s + 2 .. q - 1 : ~Closing(t, i)
  <1> DEFINE w == SubSeq(t, s, q)
             n == Len(w)
             closings == {i \in 3 .. n - 1 : w[i] = "*" /\ w[i + 1] = "/"}
  <1>1. /\ w \in Seq(Char) /\ Len(w) = q - s + 1 /\ w[1] = t[s] /\ DOMAIN w = 1 .. q - s + 1
        /\ \A i \in 1 .. q - s + 1 : w[i] = t[s + i - 1]
    BY SpanIs
  <1> HIDE DEF w
  <1>2. n = q - s + 1 /\ (n >= 2 <=> q >= s + 1)
    BY <1>1
  <1> HIDE DEF n
  <1>3. q >= s + 1 => w[2] = t[s + 1]
    <2>1. q >= s + 1 => 2 \in 1 .. q - s + 1 /\ s + 2 - 1 = s + 1
      OBVIOUS
    <2> QED
      BY <1>1, <2>1
  <1>4. \A i \in 3 .. n - 1 : i \in closings <=> Closing(t, i + s - 1)
    <2> TAKE i \in 3 .. n - 1
    <2>1. i \in 1 .. q - s + 1 /\ i + 1 \in 1 .. q - s + 1 /\ s + i - 1 = i + s - 1
          /\ s + (i + 1) - 1 = i + s - 1 + 1
      BY <1>2
    <2>2. w[i] = t[i + s - 1] /\ w[i + 1] = t[i + s - 1 + 1]
      BY <1>1, <2>1
    <2> QED
      BY <2>2 DEF Closing
  <1>5. closings \subseteq 3 .. n - 1
    OBVIOUS
  <1> HIDE DEF closings
  <1>6. closings = {} <=> \A i \in s + 2 .. q - 1 : ~Closing(t, i)
    <2>1. ASSUME closings = {}, NEW i \in s + 2 .. q - 1 PROVE ~Closing(t, i)
      <3>1. i - s + 1 \in 3 .. n - 1 /\ (i - s + 1) + s - 1 = i
        BY <1>2
      <3> QED
        BY <1>4, <2>1, <3>1
    <2>2. ASSUME \A i \in s + 2 .. q - 1 : ~Closing(t, i), NEW i \in closings PROVE FALSE
      <3>1. i \in 3 .. n - 1 /\ i + s - 1 \in s + 2 .. q - 1
        BY <1>2, <1>5
      <3> QED
        BY <1>4, <2>2, <3>1
    <2> QED
      BY <2>1, <2>2
  <1>7. closings = {n - 1}
            <=> q >= s + 3 /\ Closing(t, q - 1) /\ \A i \in s + 2 .. q - 2 : ~Closing(t, i)
    <2>1. ASSUME closings = {n - 1}
          PROVE  q >= s + 3 /\ Closing(t, q - 1) /\ \A i \in s + 2 .. q - 2 : ~Closing(t, i)
      <3>1. n - 1 \in 3 .. n - 1 /\ (n - 1) + s - 1 = q - 1
        BY <1>2, <1>5, <2>1
      <3>2. Closing(t, q - 1)
        BY <1>4, <2>1, <3>1
      <3>3. ASSUME NEW i \in s + 2 .. q - 2 PROVE ~Closing(t, i)
        <4>1. i - s + 1 \in 3 .. n - 1 /\ (i - s + 1) + s - 1 = i /\ i - s + 1 # n - 1
          BY <1>2
        <4> QED
          BY <1>4, <2>1, <4>1
      <3> QED
        BY <1>2, <3>1, <3>2, <3>3
    <2>2. ASSUME q >= s + 3, Closing(t, q - 1), \A i \in s + 2 .. q - 2 : ~Closing(t, i)
          PROVE  closings = {n - 1}
      <3>1. n - 1 \in 3 .. n - 1 /\ (n - 1) + s - 1 = q - 1
        BY <1>2, <2>2
      <3>2. n - 1 \in closings
        BY <1>4, <2>2, <3>1
      <3>3. ASSUME NEW i \in closings PROVE i = n - 1
        <4>1. i \in 3 .. n - 1 /\ i + s - 1 \in s + 2 .. q - 1
          BY <1>2, <1>5
        <4>2. Closing(t, i + s - 1)
          BY <1>4, <3>3, <4>1
        <4>3. i + s - 1 \notin s + 2 .. q - 2
          BY <2>2, <4>2
        <4> QED
          BY <1>2, <4>1, <4>3
      <3> QED
        BY <3>2, <3>3
    <2> QED
      BY <2>1, <2>2
  <1>8. Lexical!IsSectionComment(w, q = Len(t))
            <=> /\ n >= 2 /\ w[1] = "/" /\ w[2] = "*"
                /\ closings = {n - 1} \/ (closings = {} /\ q = Len(t))
    BY DEF Lexical!IsSectionComment, n, closings
  <1> QED
    BY <1>1, <1>2, <1>3, <1>6, <1>7, <1>8 DEF w

(* Only a blank and a slash begin trivia. *)
LEMMA NotTrivial ==
    ASSUME NEW t \in Seq(Char), NEW s \in 1 .. Len(t), NEW q \in s .. Len(t),
           t[s] # "/", q > s \/ t[s] \notin Blank
    PROVE  ~Lexical!Trivial(t, s, q)
  <1>1. ~(q = s /\ t[s] \in Blank)
    OBVIOUS
  <1> QED
    BY <1>1, BlankAt, LineCommentAt, SectionCommentAt DEF Lexical!Trivial, Lexical!IsTrivia

LEMMA SlashBegins == "/" \notin Letter \union Digit \union Quote \union Blank
  BY Disjoint, Zenon

LEMMA SlashAlone ==
    ASSUME NEW t \in Seq(Char), NEW s \in 1 .. Len(t), NEW q \in s .. Len(t), t[s] = "/", q > s
    PROVE  Lexical!LexemesOf(SubSeq(t, s, q)) = {}
  <1>1. t[s] \notin Letter \union Digit \union Quote
    BY SlashBegins
  <1>2. CASE q = s + 1
    <2>1. \A m : <<"/", m>> \notin Firsts
      BY ZenonT(30) DEF Firsts
    <2>2. \A d, n : <<"/", d, n>> \notin Pairs
      BY <2>1, PairsAre, Zenon
    <2>3. \A d, n : <<"/", d, n>> # <<".", ".", "DOT2">>
      OBVIOUS
    <2>4. s + 1 \in 1 .. Len(t)
      BY <1>2
    <2> QED
      BY <1>1, <1>2, <2>2, <2>3, <2>4, TwoChars
  <1>3. CASE q = s + 2
    <2>1. s + 2 \in 1 .. Len(t)
      BY <1>3
    <2> QED
      BY <1>1, <1>3, <2>1, ThreeChars
  <1>4. CASE q >= s + 3
    BY <1>1, <1>4, MoreChars
  <1> QED
    BY <1>2, <1>3, <1>4

-------------------------------------------------------------------------------
(* What comes next in a text: trivia, and words of one spelling.             *)

(* A space or a line end is skipped. *)
LEMMA BlankIsSkipped ==
    ASSUME NEW t \in Seq(Char), NEW s \in 1 .. Len(t), t[s] \in Blank
    PROVE  Lexical!TokensFrom(t)[s] = Lexical!TokensFrom(t)[s + 1]
  <1>1. s \in s .. Len(t) /\ t[s] # "/"
    BY SlashBegins
  <1>2. Lexical!Trivial(t, s, s)
    BY <1>1, BlankAt DEF Lexical!Trivial, Lexical!IsTrivia
  <1>3. ASSUME NEW q \in s + 1 .. Len(t) PROVE q \notin Lexical!Ends(t, s)
    <2>1. q \in s .. Len(t) /\ q > s
      OBVIOUS
    <2>2. ~Lexical!Trivial(t, s, q)
      BY <1>1, <2>1, NotTrivial
    <2> DEFINE w == SubSeq(t, s, q)
    <2>3. w \in Seq(Char) /\ Len(w) >= 1 /\ w[1] = t[s]
      BY <2>1, SpanIs
    <2>4. w[1] \notin Letter \union Digit \union Quote
      BY <2>3, Disjoint, Zenon
    <2>5. Operators(w) = {}
      BY <2>3, OthersBegin
    <2>6. Lexical!LexemesOf(w) = {}
      BY <2>3, <2>4, <2>5, ByOther
    <2> QED
      BY <2>2, <2>6 DEF Lexical!Ends
  <1>4. NoLonger(t, s, s)
    BY <1>3 DEF NoLonger
  <1> QED
    BY <1>1, <1>2, <1>4, TriviumIsSkipped

(* A line comment is skipped up to the end of its line. *)
LEMMA LineCommentIsSkipped ==
    ASSUME NEW t \in Seq(Char), NEW s \in 1 .. Len(t), NEW e \in s + 1 .. Len(t),
           t[s] = "/", t[s + 1] = "/", \A i \in s .. e : t[i] \notin NewLineChar,
           e = Len(t) \/ t[e + 1] \in NewLineChar
    PROVE  Lexical!TokensFrom(t)[s] = Lexical!TokensFrom(t)[e + 1]
  <1>1. e \in s .. Len(t) /\ e >= s + 1
    OBVIOUS
  <1>2. Lexical!Trivial(t, s, e)
    BY <1>1, LineCommentAt DEF Lexical!Trivial, Lexical!IsTrivia
  <1>3. ASSUME NEW q \in e + 1 .. Len(t) PROVE q \notin Lexical!Ends(t, s)
    <2>1. q \in s .. Len(t) /\ q > s /\ q # s /\ e + 1 \in s .. q /\ e # Len(t)
      OBVIOUS
    <2>2. ~Lexical!IsLineComment(SubSeq(t, s, q))
      BY <2>1, LineCommentAt
    <2>3. ~Lexical!IsSectionComment(SubSeq(t, s, q), q = Len(t)) /\ ~Lexical!IsBlank(SubSeq(t, s, q))
      BY <2>1, SectionCommentAt, BlankAt
    <2>4. Lexical!LexemesOf(SubSeq(t, s, q)) = {}
      BY <2>1, SlashAlone
    <2> QED
      BY <2>2, <2>3, <2>4 DEF Lexical!Ends, Lexical!Trivial, Lexical!IsTrivia
  <1>4. NoLonger(t, s, e)
    BY <1>3 DEF NoLonger
  <1> QED
    BY <1>1, <1>2, <1>4, TriviumIsSkipped

(* So is a section comment, up to its first closing or the end of the text. *)
LEMMA SectionCommentIsSkipped ==
    ASSUME NEW t \in Seq(Char), NEW s \in 1 .. Len(t), NEW e \in s + 1 .. Len(t),
           t[s] = "/", t[s + 1] = "*", \A i \in s + 2 .. e - 2 : ~Closing(t, i),
           \/ e >= s + 3 /\ Closing(t, e - 1)
           \/ e = Len(t) /\ \A i \in s + 2 .. e - 1 : ~Closing(t, i)
    PROVE  Lexical!TokensFrom(t)[s] = Lexical!TokensFrom(t)[e + 1]
  <1>1. e \in s .. Len(t) /\ e >= s + 1
    OBVIOUS
  <1>2. Lexical!Trivial(t, s, e)
    BY <1>1, SectionCommentAt DEF Lexical!Trivial, Lexical!IsTrivia
  <1>3. ASSUME NEW q \in e + 1 .. Len(t) PROVE q \notin Lexical!Ends(t, s)
    <2>1. q \in s .. Len(t) /\ q > s /\ q # s /\ e # Len(t)
      OBVIOUS
    <2>2. ~Lexical!IsLineComment(SubSeq(t, s, q)) /\ ~Lexical!IsBlank(SubSeq(t, s, q))
      BY <2>1, LineCommentAt, BlankAt
    <2>3. ~Lexical!IsSectionComment(SubSeq(t, s, q), q = Len(t))
      <3>1. e >= s + 3 /\ Closing(t, e - 1)
        BY <2>1
      <3>2. e - 1 \in s + 2 .. q - 2 /\ e - 1 \in s + 2 .. q - 1
        BY <3>1
      <3> QED
        BY <2>1, <3>1, <3>2, SectionCommentAt
    <2>4. Lexical!LexemesOf(SubSeq(t, s, q)) = {}
      BY <2>1, SlashAlone
    <2> QED
      BY <2>2, <2>3, <2>4 DEF Lexical!Ends, Lexical!Trivial, Lexical!IsTrivia
  <1>4. NoLonger(t, s, e)
    BY <1>3 DEF NoLonger
  <1> QED
    BY <1>1, <1>2, <1>4, TriviumIsSkipped

\* No operator of two characters begins at s.
NoPair(t, s) == s < Len(t) => /\ \A n : <<t[s], t[s + 1], n>> \notin Pairs
                              /\ ~(t[s] = "." /\ t[s + 1] = ".")

LEMMA NothingAfterOne ==
    ASSUME NEW t \in Seq(Char), NEW s \in 1 .. Len(t),
           t[s] \notin Letter \union Digit \union Quote, NoPair(t, s),
           t[s] = "/" => s = Len(t) \/ t[s + 1] \notin {"/", "*"}
    PROVE  NoLonger(t, s, s)
  <1> SUFFICES ASSUME NEW q \in s + 1 .. Len(t) PROVE q \notin Lexical!Ends(t, s)
    BY DEF NoLonger
  <1>1. q \in s .. Len(t) /\ q > s /\ q # s /\ s < Len(t)
    OBVIOUS
  <1>2. ~Lexical!Trivial(t, s, q)
    <2>1. CASE t[s] = "/"
      BY <1>1, <2>1, BlankAt, LineCommentAt, SectionCommentAt DEF Lexical!Trivial, Lexical!IsTrivia
    <2>2. CASE t[s] # "/"
      BY <1>1, <2>2, NotTrivial
    <2> QED
      BY <2>1, <2>2
  <1>3. Lexical!LexemesOf(SubSeq(t, s, q)) = {}
    <2>1. CASE q = s + 1
      <3>1. s + 1 \in 1 .. Len(t)
        BY <2>1
      <3>2. \A n : /\ <<t[s], t[s + 1], n>> \notin Pairs
                   /\ <<t[s], t[s + 1], n>> # <<".", ".", "DOT2">>
        BY <1>1 DEF NoPair
      <3> QED
        BY <2>1, <3>1, <3>2, TwoChars
    <2>2. CASE q = s + 2
      <3>1. s + 2 \in 1 .. Len(t)
        BY <2>2
      <3>2. ~(t[s] = "." /\ t[s + 1] = ".")
        BY <1>1 DEF NoPair
      <3> QED
        BY <2>2, <3>1, <3>2, ThreeChars
    <2>3. CASE q >= s + 3
      BY <1>1, <2>3, MoreChars
    <2> QED
      BY <2>1, <2>2, <2>3
  <1> QED
    BY <1>2, <1>3 DEF Lexical!Ends

(* An operator of one character that is not the first of two. *)
LEMMA OneIsToken ==
    ASSUME NEW t \in Seq(Char), NEW s \in 1 .. Len(t), NEW n, <<t[s], n>> \in Ones, NoPair(t, s),
           t[s] = "/" => s = Len(t) \/ t[s + 1] \notin {"/", "*"}
    PROVE  Lexical!TokensFrom(t)[s] = <<Token(n, <<t[s]>>)>> \o Lexical!TokensFrom(t)[s + 1]
  <1>1. s \in s .. Len(t) /\ ~(s >= s + 1)
    OBVIOUS
  <1>2. t[s] \notin Letter \union Digit \union Quote /\ t[s] \notin Blank
    BY OnesAre, Zenon
  <1>3. NoLonger(t, s, s)
    BY <1>2, NothingAfterOne
  <1>4. ~Lexical!Trivial(t, s, s)
    BY <1>1, <1>2, BlankAt, LineCommentAt, SectionCommentAt DEF Lexical!Trivial, Lexical!IsTrivia
  <1>5. \A m : <<t[s], m>> \in Ones <=> m = n
    BY OnesAre, Zenon
  <1>6. Lexical!LexemesOf(SubSeq(t, s, s)) = {Token(n, <<t[s]>>)}
    <2> DEFINE L == Lexical!LexemesOf(SubSeq(t, s, s))
               v == <<t[s]>>
               x == Token(n, v)
               Is(m) == <<t[s], m>> \in Ones
    <2>1. \A y : y \in L <=> \E m : Is(m) /\ y = Token(m, v)
      BY <1>2, OneChar
    <2>2. \A m : Is(m) <=> m = n
      BY <1>5
    <2> HIDE DEF Is, v
    <2>3. \A y : y \in L <=> y = x
      BY <2>1, <2>2, Zenon
    <2> HIDE DEF L, x
    <2>4. L = {x}
      BY <2>3
    <2> QED
      BY <2>4 DEF L, x, v
  <1> QED
    BY <1>1, <1>3, <1>4, <1>6, TokenIsNext

(* A character that begins no word. *)
LEMMA NothingIsUnknown ==
    ASSUME NEW t \in Seq(Char), NEW s \in 1 .. Len(t), \A n : <<t[s], n>> \notin Ones,
           t[s] \notin Letter \union Digit \union Quote \union Blank
    PROVE  Lexical!TokensFrom(t)[s] = <<NoToken>>
  <1>1. s \in s .. Len(t) /\ ~(s >= s + 1)
    OBVIOUS
  <1>2. <<"/", "DIV">> \in Ones /\ <<".", "DOT">> \in Ones
    BY Zenon DEF Ones
  <1>3. t[s] # "/" /\ t[s] # "."
    BY <1>2
  <1>4. \A d, n : <<t[s], d, n>> \notin Pairs
    <2> SUFFICES ASSUME NEW d, NEW n, <<t[s], d, n>> \in Pairs PROVE FALSE
      OBVIOUS
    <2>1. PICK m : <<t[s], m>> \in Firsts
      BY PairsAre, Zenon
    <2> QED
      BY <2>1, Zenon DEF Ones
  <1>5. NoLonger(t, s, s)
    BY <1>3, <1>4, NothingAfterOne DEF NoPair
  <1>6. ~Lexical!Trivial(t, s, s)
    BY <1>1, <1>3, NotTrivial
  <1>7. Lexical!LexemesOf(SubSeq(t, s, s)) = {}
    BY OneChar
  <1>8. s \notin Lexical!Ends(t, s)
    BY <1>6, <1>7 DEF Lexical!Ends
  <1>9. NoLonger(t, s, s - 1)
    <2>1. \A q \in s - 1 + 1 .. Len(t) : q = s \/ q \in s + 1 .. Len(t)
      OBVIOUS
    <2> QED
      BY <1>5, <1>8, <2>1 DEF NoLonger
  <1> QED
    BY <1>9, NoWordIsUnknown

(* An operator of two characters. *)
LEMMA PairIsToken ==
    ASSUME NEW t \in Seq(Char), NEW s \in 1 .. Len(t), s < Len(t), NEW n,
           \/ <<t[s], t[s + 1], n>> \in Pairs
           \/ /\ <<t[s], t[s + 1], n>> = <<".", ".", "DOT2">>
              /\ s + 1 = Len(t) \/ t[s + 2] # "."
    PROVE  Lexical!TokensFrom(t)[s] = <<Token(n, <<t[s], t[s + 1]>>)>> \o Lexical!TokensFrom(t)[s + 2]
  <1>1. s + 1 \in s .. Len(t) /\ s + 1 \in 1 .. Len(t) /\ s + 1 > s /\ s + 1 + 1 = s + 2
    OBVIOUS
  <1>2. ASSUME NEW m, <<t[s], t[s + 1], m>> \in Pairs PROVE \E k : <<t[s], k>> \in Firsts
    BY <1>2, PairsAre, Zenon
  <1>3. \A k : <<".", k>> \notin Firsts /\ <<"/", k>> \notin Firsts
    BY ZenonT(30) DEF Firsts
  <1>4. <<".", "DOT">> \in Ones
    BY Zenon DEF Ones
  <1>5. \E k : <<t[s], k>> \in Ones
    <2>1. CASE <<t[s], t[s + 1], n>> \in Pairs
      <3>1. PICK k : <<t[s], k>> \in Firsts
        BY <1>2, <2>1
      <3> QED
        BY <3>1, Zenon DEF Ones
    <2>2. CASE <<t[s], t[s + 1], n>> = <<".", ".", "DOT2">>
      BY <1>4, <2>2
    <2> QED
      BY <2>1, <2>2
  <1>6. t[s] \notin Letter \union Digit \union Quote
    BY <1>5, OnesAre, Zenon
  <1>7. t[s] # "/"
    BY <1>2, <1>3
  <1>8. ASSUME NEW m PROVE (\/ <<t[s], t[s + 1], m>> \in Pairs
                            \/ <<t[s], t[s + 1], m>> = <<".", ".", "DOT2">>) <=> m = n
    <2>1. CASE <<t[s], t[s + 1], n>> \in Pairs
      <3>1. t[s] # "."
        BY <1>2, <1>3, <2>1
      <3>2. <<t[s], t[s + 1], m>> \in Pairs <=> m = n
        BY <2>1, PairsAre, Zenon
      <3> QED
        BY <3>1, <3>2
    <2>2. CASE <<t[s], t[s + 1], n>> = <<".", ".", "DOT2">>
      <3>1. t[s] = "." /\ t[s + 1] = "." /\ n = "DOT2"
        BY <2>2
      <3>2. <<t[s], t[s + 1], m>> \notin Pairs
        BY <1>2, <1>3, <3>1
      <3> QED
        BY <3>1, <3>2
    <2> QED
      BY <2>1, <2>2
  <1>9. Lexical!LexemesOf(SubSeq(t, s, s + 1)) = {Token(n, <<t[s], t[s + 1]>>)}
    <2> DEFINE L == Lexical!LexemesOf(SubSeq(t, s, s + 1))
               v == <<t[s], t[s + 1]>>
               x == Token(n, v)
               Is(m) == \/ <<t[s], t[s + 1], m>> \in Pairs
                        \/ <<t[s], t[s + 1], m>> = <<".", ".", "DOT2">>
    <2>1. \A y : y \in L <=> \E m : Is(m) /\ y = Token(m, v)
      BY <1>1, <1>6, TwoChars
    <2>2. \A m : Is(m) <=> m = n
      BY <1>8
    <2> HIDE DEF Is, v
    <2>3. \A y : y \in L <=> y = x
      BY <2>1, <2>2, Zenon
    <2> HIDE DEF L, x
    <2>4. L = {x}
      BY <2>3
    <2> QED
      BY <2>4 DEF L, x, v
  <1>10. ~Lexical!Trivial(t, s, s + 1)
    BY <1>1, <1>7, NotTrivial
  <1>11. ASSUME NEW q \in s + 1 + 1 .. Len(t) PROVE q \notin Lexical!Ends(t, s)
    <2>1. q \in s .. Len(t) /\ q > s
      OBVIOUS
    <2>2. ~Lexical!Trivial(t, s, q)
      BY <1>7, <2>1, NotTrivial
    <2>3. CASE q = s + 2
      <3>1. s + 2 \in 1 .. Len(t) /\ s + 1 # Len(t)
        BY <2>3
      <3>2. ~(t[s] = "." /\ t[s + 1] = "." /\ t[s + 2] = ".")
        <4>1. CASE <<t[s], t[s + 1], n>> \in Pairs
          BY <1>2, <1>3, <4>1
        <4> QED
          BY <3>1, <4>1
      <3>3. Lexical!LexemesOf(SubSeq(t, s, q)) = {}
        BY <1>6, <2>3, <3>1, <3>2, ThreeChars
      <3> QED
        BY <2>2, <3>3 DEF Lexical!Ends
    <2>4. CASE q >= s + 3
      BY <1>6, <2>1, <2>2, <2>4, MoreChars DEF Lexical!Ends
    <2> QED
      BY <2>3, <2>4
  <1>12. NoLonger(t, s, s + 1)
    BY <1>11 DEF NoLonger
  <1> QED
    BY <1>1, <1>9, <1>10, <1>12, TokenIsNext

LEMMA DotsAreToken ==
    ASSUME NEW t \in Seq(Char), NEW s \in 1 .. Len(t), s + 2 <= Len(t),
           t[s] = ".", t[s + 1] = ".", t[s + 2] = "."
    PROVE  Lexical!TokensFrom(t)[s]
               = <<Token("DOT3", <<".", ".", ".">>)>> \o Lexical!TokensFrom(t)[s + 3]
  <1>1. s + 2 \in s .. Len(t) /\ s + 2 \in 1 .. Len(t) /\ s + 2 > s /\ s + 2 + 1 = s + 3
    OBVIOUS
  <1>2. <<".", "DOT">> \in Ones
    BY Zenon DEF Ones
  <1>3. t[s] \notin Letter \union Digit \union Quote
    BY <1>2, OnesAre, Zenon
  <1>4. Lexical!LexemesOf(SubSeq(t, s, s + 2)) = {Token("DOT3", <<".", ".", ".">>)}
    BY <1>1, <1>3, ThreeChars
  <1>5. ~Lexical!Trivial(t, s, s + 2)
    BY <1>1, NotTrivial
  <1>6. ASSUME NEW q \in s + 2 + 1 .. Len(t) PROVE q \notin Lexical!Ends(t, s)
    <2>1. q \in s .. Len(t) /\ q > s /\ q >= s + 3
      OBVIOUS
    <2>2. ~Lexical!Trivial(t, s, q)
      BY <2>1, NotTrivial
    <2> QED
      BY <1>3, <2>1, <2>2, MoreChars DEF Lexical!Ends
  <1>7. NoLonger(t, s, s + 2)
    BY <1>6 DEF NoLonger
  <1> QED
    BY <1>1, <1>4, <1>5, <1>7, TokenIsNext

-------------------------------------------------------------------------------
(* Words and numbers.                                                        *)

LEMMA ShiftIs ==
    ASSUME NEW t \in Seq(Char), NEW s \in 1 .. Len(t), NEW q \in s .. Len(t)
    PROVE  /\ \A i \in s .. q : i - s + 1 \in DOMAIN SubSeq(t, s, q) /\ SubSeq(t, s, q)[i - s + 1] = t[i]
           /\ \A j \in DOMAIN SubSeq(t, s, q) : j + s - 1 \in s .. q /\ SubSeq(t, s, q)[j] = t[j + s - 1]
  <1> DEFINE w == SubSeq(t, s, q)
  <1>1. DOMAIN w = 1 .. q - s + 1 /\ \A j \in 1 .. q - s + 1 : w[j] = t[s + j - 1]
    BY SpanIs
  <1> HIDE DEF w
  <1>2. ASSUME NEW i \in s .. q PROVE i - s + 1 \in DOMAIN w /\ w[i - s + 1] = t[i]
    <2>1. i - s + 1 \in 1 .. q - s + 1 /\ s + (i - s + 1) - 1 = i
      OBVIOUS
    <2> QED
      BY <1>1, <2>1
  <1>3. ASSUME NEW j \in DOMAIN w PROVE j + s - 1 \in s .. q /\ w[j] = t[j + s - 1]
    <2>1. j \in 1 .. q - s + 1 /\ j + s - 1 \in s .. q /\ s + j - 1 = j + s - 1
      BY <1>1
    <2> QED
      BY <1>1, <2>1
  <1> QED
    BY <1>2, <1>3 DEF w

LEMMA OfAt ==
    ASSUME NEW t \in Seq(Char), NEW s \in 1 .. Len(t), NEW q \in s .. Len(t), NEW C
    PROVE  Lexical!Of(SubSeq(t, s, q), C) <=> \A i \in s .. q : t[i] \in C
  BY ShiftIs DEF Lexical!Of

LEMMA FromAt ==
    ASSUME NEW t \in Seq(Char), NEW s \in 1 .. Len(t), NEW q \in s + 1 .. Len(t), NEW C
    PROVE  Lexical!Of(Lexical!From(SubSeq(t, s, q), 3), C) <=> \A i \in s + 2 .. q : t[i] \in C
  <1> DEFINE w == SubSeq(t, s, q)
             v == SubSeq(w, 3, Len(w))
  <1>0. q \in s .. Len(t)
    OBVIOUS
  <1>1. w \in Seq(Char) /\ Len(w) = q - s + 1 /\ \A i \in s .. q : w[i - s + 1] = t[i]
    BY <1>0, SpanIs, ShiftIs
  <1> HIDE DEF w
  <1>2. v = [i \in 1 .. q - s - 1 |-> w[3 + i - 1]]
    BY <1>1
  <1>3. DOMAIN v = 1 .. q - s - 1 /\ \A i \in 1 .. q - s - 1 : v[i] = w[3 + i - 1]
    BY <1>2
  <1> HIDE DEF v
  <1>4. ASSUME NEW i \in s + 2 .. q PROVE i - s - 1 \in DOMAIN v /\ v[i - s - 1] = t[i]
    <2>1. i - s - 1 \in 1 .. q - s - 1 /\ 3 + (i - s - 1) - 1 = i - s + 1 /\ i \in s .. q
      OBVIOUS
    <2> QED
      BY <1>1, <1>3, <2>1
  <1>5. ASSUME NEW j \in DOMAIN v PROVE j + s + 1 \in s + 2 .. q /\ v[j] = t[j + s + 1]
    <2>1. j \in 1 .. q - s - 1 /\ 3 + j - 1 = (j + s + 1) - s + 1 /\ j + s + 1 \in s .. q
          /\ j + s + 1 \in s + 2 .. q
      BY <1>3
    <2> QED
      BY <1>1, <1>3, <2>1
  <1> QED
    BY <1>4, <1>5 DEF Lexical!Of, Lexical!From, v, w

\* What the text from s to q is, as a number.
BinaryAt(t, s, q) == q > s /\ t[s + 1] \in {"b", "B"} /\ \A i \in s + 2 .. q : t[i] \in Bit
HexadecimalAt(t, s, q) == q > s /\ t[s + 1] \in {"x", "X"} /\ \A i \in s + 2 .. q : t[i] \in Hex
DecimalAt(t, s, q) == \A i \in s .. q : t[i] \in Digit
FloatAt(t, s, q) == \E d \in s + 1 .. q : t[d] = "." /\ \A i \in s .. q : i # d => t[i] \in Digit

LEMMA NumbersAt ==
    ASSUME NEW t \in Seq(Char), NEW s \in 1 .. Len(t), NEW q \in s .. Len(t), t[s] \in Digit
    PROVE  /\ Lexical!IsBinary(SubSeq(t, s, q)) <=> BinaryAt(t, s, q)
           /\ Lexical!IsHexadecimal(SubSeq(t, s, q)) <=> HexadecimalAt(t, s, q)
           /\ Lexical!IsDecimal(SubSeq(t, s, q)) <=> DecimalAt(t, s, q)
           /\ Lexical!IsFloat(SubSeq(t, s, q)) <=> FloatAt(t, s, q)
  <1> DEFINE w == SubSeq(t, s, q)
  <1>1. w \in Seq(Char) /\ Len(w) = q - s + 1 /\ w[1] = t[s] /\ DOMAIN w = 1 .. q - s + 1
    BY SpanIs
  <1>2. /\ \A i \in s .. q : i - s + 1 \in DOMAIN w /\ w[i - s + 1] = t[i]
        /\ \A j \in DOMAIN w : j + s - 1 \in s .. q /\ w[j] = t[j + s - 1]
    BY ShiftIs
  <1>3. ASSUME NEW C PROVE /\ q > s => (Lexical!Of(Lexical!From(w, 3), C) <=> \A i \in s + 2 .. q : t[i] \in C)
                           /\ Lexical!Of(w, C) <=> \A i \in s .. q : t[i] \in C
    <2>1. q > s => q \in s + 1 .. Len(t)
      OBVIOUS
    <2> QED
      BY <2>1, FromAt, OfAt
  <1> HIDE DEF w
  <1>4. (Len(w) >= 2 <=> q > s) /\ (q > s => w[2] = t[s + 1])
    <2>1. q > s => s + 1 \in s .. q /\ s + 1 - s + 1 = 2
      OBVIOUS
    <2> QED
      BY <1>1, <1>2, <2>1
  <1>5. Lexical!IsBinary(w) <=> BinaryAt(t, s, q)
    BY <1>1, <1>3, <1>4, SameClasses DEF Lexical!IsBinary, BinaryAt
  <1>6. Lexical!IsHexadecimal(w) <=> HexadecimalAt(t, s, q)
    BY <1>1, <1>3, <1>4, SameClasses DEF Lexical!IsHexadecimal, HexadecimalAt
  <1>7. Lexical!IsDecimal(w) <=> DecimalAt(t, s, q)
    BY <1>3, SameClasses DEF Lexical!IsDecimal, DecimalAt
  <1>8. Lexical!IsFloat(w) <=> FloatAt(t, s, q)
    <2>1. ASSUME Lexical!IsFloat(w) PROVE FloatAt(t, s, q)
      <3>1. PICK k \in 2 .. Len(w) : w[k] = "." /\ \A j \in DOMAIN w \ {k} : w[j] \in Digit
        BY <2>1, SameClasses DEF Lexical!IsFloat
      <3>2. k + s - 1 \in s + 1 .. q /\ t[k + s - 1] = "."
        <4>1. k \in DOMAIN w /\ k + s - 1 \in s + 1 .. q
          BY <1>1
        <4> QED
          BY <1>2, <3>1, <4>1
      <3>3. ASSUME NEW i \in s .. q, i # k + s - 1 PROVE t[i] \in Digit
        <4>1. k \in Int /\ i - s + 1 \in DOMAIN w
          BY <1>2
        <4>2. i - s + 1 # k
          BY <3>3, <4>1
        <4> QED
          BY <1>2, <3>1, <4>1, <4>2
      <3> QED
        BY <3>2, <3>3 DEF FloatAt
    <2>2. ASSUME FloatAt(t, s, q) PROVE Lexical!IsFloat(w)
      <3>1. PICK d \in s + 1 .. q : t[d] = "." /\ \A i \in s .. q : i # d => t[i] \in Digit
        BY <2>2 DEF FloatAt
      <3>2. d - s + 1 \in 2 .. Len(w) /\ w[d - s + 1] = "."
        <4>1. d \in s .. q /\ d - s + 1 \in 2 .. Len(w)
          BY <1>1
        <4> QED
          BY <1>2, <3>1, <4>1
      <3>3. ASSUME NEW j \in DOMAIN w \ {d - s + 1} PROVE w[j] \in Digit
        <4>1. j + s - 1 \in s .. q /\ j + s - 1 # d
          BY <1>1
        <4> QED
          BY <1>2, <3>1, <4>1
      <3> QED
        BY <3>2, <3>3, SameClasses DEF Lexical!IsFloat
    <2> QED
      BY <2>1, <2>2
  <1> QED
    BY <1>5, <1>6, <1>7, <1>8 DEF w

LEMMA NotDigits ==
    /\ \A c \in {"b", "B", "x", "X", ".", "/"} : c \notin Digit
    /\ {"b", "B"} \cap {"x", "X"} = {} /\ "." \notin {"b", "B", "x", "X"}
    /\ NUL \notin Bit \union Hex \union Letter \union Digit
  <1>1. \A c \in {"b", "B", "x", "X", ".", "/"} : c \notin Digit
    BY ZenonT(30) DEF Digit
  <1>2. {"b", "B"} \cap {"x", "X"} = {} /\ "." \notin {"b", "B", "x", "X"}
    OBVIOUS
  <1>3. NUL \notin Letter /\ NUL \notin Digit
    BY Disjoint, Zenon
  <1>4. NUL \notin Bit /\ NUL \notin HexLetter
    BY ZenonT(30) DEF Bit, HexLetter, NUL
  <1> QED
    BY <1>1, <1>2, <1>3, <1>4, Zenon DEF Hex

(* A word is at most one kind of number. *)
LEMMA OneNumber ==
    ASSUME NEW t \in Seq(Char), NEW s \in 1 .. Len(t), NEW q \in s .. Len(t)
    PROVE  /\ BinaryAt(t, s, q) => /\ ~HexadecimalAt(t, s, q)
                                   /\ ~DecimalAt(t, s, q) /\ ~FloatAt(t, s, q)
           /\ HexadecimalAt(t, s, q) => ~DecimalAt(t, s, q) /\ ~FloatAt(t, s, q)
           /\ DecimalAt(t, s, q) => ~FloatAt(t, s, q)
  <1>1. q > s => s + 1 \in s .. q
    OBVIOUS
  <1>2. ASSUME q > s, t[s + 1] \in {"b", "B", "x", "X"} PROVE ~DecimalAt(t, s, q) /\ ~FloatAt(t, s, q)
    <2>1. t[s + 1] \notin Digit /\ t[s + 1] # "."
      BY <1>2, NotDigits
    <2> QED
      BY <1>1, <1>2, <2>1 DEF DecimalAt, FloatAt
  <1>3. ASSUME DecimalAt(t, s, q), FloatAt(t, s, q) PROVE FALSE
    <2>1. PICK d \in s + 1 .. q : t[d] = "."
      BY <1>3 DEF FloatAt
    <2>2. d \in s .. q
      OBVIOUS
    <2> QED
      BY <1>3, <2>1, <2>2, NotDigits DEF DecimalAt
  <1> QED
    BY <1>2, <1>3, NotDigits DEF BinaryAt, HexadecimalAt

LEMMA NumberLexemes ==
    ASSUME NEW t \in Seq(Char), NEW s \in 1 .. Len(t), NEW q \in s .. Len(t), t[s] \in Digit
    PROVE  /\ ~Lexical!Trivial(t, s, q)
           /\ Lexical!LexemesOf(SubSeq(t, s, q)) # {}
                => BinaryAt(t, s, q) \/ HexadecimalAt(t, s, q) \/ DecimalAt(t, s, q) \/ FloatAt(t, s, q)
           /\ BinaryAt(t, s, q)
                => Lexical!LexemesOf(SubSeq(t, s, q)) = {Token("INT_B", SubSeq(t, s, q))}
           /\ HexadecimalAt(t, s, q)
                => Lexical!LexemesOf(SubSeq(t, s, q)) = {Token("INT_X", SubSeq(t, s, q))}
           /\ DecimalAt(t, s, q)
                => Lexical!LexemesOf(SubSeq(t, s, q)) = {Token("INT_D", SubSeq(t, s, q))}
           /\ FloatAt(t, s, q)
                => Lexical!LexemesOf(SubSeq(t, s, q)) = {Token("FLOAT", SubSeq(t, s, q))}
  <1> DEFINE w == SubSeq(t, s, q)
  <1>1. w \in Seq(Char) /\ Len(w) >= 1 /\ w[1] = t[s]
    BY SpanIs
  <1>2. ~Lexical!IsTrivia(w, q = Len(t))
    BY <1>1, ByDigit
  <1>3. Lexical!LexemesOf(w) = UNION {IF BinaryAt(t, s, q) THEN {Token("INT_B", w)} ELSE {},
                                      IF HexadecimalAt(t, s, q) THEN {Token("INT_X", w)} ELSE {},
                                      IF DecimalAt(t, s, q) THEN {Token("INT_D", w)} ELSE {},
                                      IF FloatAt(t, s, q) THEN {Token("FLOAT", w)} ELSE {}}
    <2>1. w[1] \in Digit
      BY <1>1
    <2>2. Lexical!LexemesOf(w)
            = UNION {IF Lexical!IsBinary(w) THEN {Lexical!Lexeme("INT_B", w)} ELSE {},
                     IF Lexical!IsHexadecimal(w) THEN {Lexical!Lexeme("INT_X", w)} ELSE {},
                     IF Lexical!IsDecimal(w) THEN {Lexical!Lexeme("INT_D", w)} ELSE {},
                     IF Lexical!IsFloat(w) THEN {Lexical!Lexeme("FLOAT", w)} ELSE {}}
      BY <1>1, <2>1, ByDigit
    <2>3. \A n : Lexical!Lexeme(n, w) = Token(n, w)
      BY Zenon DEF Lexical!Lexeme, Token
    <2>4. /\ Lexical!IsBinary(w) <=> BinaryAt(t, s, q)
          /\ Lexical!IsHexadecimal(w) <=> HexadecimalAt(t, s, q)
          /\ Lexical!IsDecimal(w) <=> DecimalAt(t, s, q)
          /\ Lexical!IsFloat(w) <=> FloatAt(t, s, q)
      BY NumbersAt
    <2> HIDE DEF w
    <2> QED
      BY <2>2, <2>3, <2>4
  <1>4. /\ BinaryAt(t, s, q) => ~HexadecimalAt(t, s, q) /\ ~DecimalAt(t, s, q) /\ ~FloatAt(t, s, q)
        /\ HexadecimalAt(t, s, q) => ~DecimalAt(t, s, q) /\ ~FloatAt(t, s, q)
        /\ DecimalAt(t, s, q) => ~FloatAt(t, s, q)
    BY OneNumber
  <1>5. ~Lexical!Trivial(t, s, q)
    BY <1>2 DEF Lexical!Trivial
  <1> HIDE DEF w
  <1>6. Lexical!LexemesOf(w) # {}
            => BinaryAt(t, s, q) \/ HexadecimalAt(t, s, q) \/ DecimalAt(t, s, q) \/ FloatAt(t, s, q)
    BY <1>3
  <1>7. BinaryAt(t, s, q) => Lexical!LexemesOf(w) = {Token("INT_B", w)}
    BY <1>3, <1>4
  <1>8. HexadecimalAt(t, s, q) => Lexical!LexemesOf(w) = {Token("INT_X", w)}
    BY <1>3, <1>4
  <1>9. DecimalAt(t, s, q) => Lexical!LexemesOf(w) = {Token("INT_D", w)}
    BY <1>3, <1>4
  <1>10. FloatAt(t, s, q) => Lexical!LexemesOf(w) = {Token("FLOAT", w)}
    BY <1>3, <1>4
  <1> QED
    BY <1>5, <1>6, <1>7, <1>8, <1>9, <1>10 DEF w

(* The number that a loop of scan_number reads to its end. *)
LEMMA BinaryIsToken ==
    ASSUME NEW t \in Seq(Char), NEW s \in 1 .. Len(t), NEW e \in s .. Len(t), t[s] \in Digit,
           BinaryAt(t, s, e), e = Len(t) \/ t[e + 1] \notin Bit
    PROVE  Lexical!TokensFrom(t)[s]
               = <<Token("INT_B", SubSeq(t, s, e))>> \o Lexical!TokensFrom(t)[e + 1]
  <1>1. e > s /\ t[s + 1] \in {"b", "B"}
    BY DEF BinaryAt
  <1>2. t[s + 1] \notin Digit /\ t[s + 1] # "." /\ t[s + 1] \notin {"x", "X"}
    BY <1>1, NotDigits
  <1>3. ASSUME NEW q \in e + 1 .. Len(t) PROVE q \notin Lexical!Ends(t, s)
    <2>1. q \in s .. Len(t) /\ s + 1 \in s .. q /\ s + 1 \in s + 1 .. q /\ e + 1 \in s + 2 .. q
      BY <1>1
    <2>2. ~BinaryAt(t, s, q) /\ ~HexadecimalAt(t, s, q)
      BY <1>2, <2>1 DEF BinaryAt, HexadecimalAt
    <2>3. ~DecimalAt(t, s, q) /\ ~FloatAt(t, s, q)
      BY <1>2, <2>1 DEF DecimalAt, FloatAt
    <2> QED
      BY <2>1, <2>2, <2>3, NumberLexemes DEF Lexical!Ends
  <1>4. NoLonger(t, s, e)
    BY <1>3 DEF NoLonger
  <1> QED
    BY <1>4, NumberLexemes, TokenIsNext

LEMMA HexadecimalIsToken ==
    ASSUME NEW t \in Seq(Char), NEW s \in 1 .. Len(t), NEW e \in s .. Len(t), t[s] \in Digit,
           HexadecimalAt(t, s, e), e = Len(t) \/ t[e + 1] \notin Hex
    PROVE  Lexical!TokensFrom(t)[s]
               = <<Token("INT_X", SubSeq(t, s, e))>> \o Lexical!TokensFrom(t)[e + 1]
  <1>1. e > s /\ t[s + 1] \in {"x", "X"}
    BY DEF HexadecimalAt
  <1>2. t[s + 1] \notin Digit /\ t[s + 1] # "." /\ t[s + 1] \notin {"b", "B"}
    BY <1>1, NotDigits
  <1>3. ASSUME NEW q \in e + 1 .. Len(t) PROVE q \notin Lexical!Ends(t, s)
    <2>1. q \in s .. Len(t) /\ s + 1 \in s .. q /\ s + 1 \in s + 1 .. q /\ e + 1 \in s + 2 .. q
      BY <1>1
    <2>2. ~BinaryAt(t, s, q) /\ ~HexadecimalAt(t, s, q)
      BY <1>2, <2>1 DEF BinaryAt, HexadecimalAt
    <2>3. ~DecimalAt(t, s, q) /\ ~FloatAt(t, s, q)
      BY <1>2, <2>1 DEF DecimalAt, FloatAt
    <2> QED
      BY <2>1, <2>2, <2>3, NumberLexemes DEF Lexical!Ends
  <1>4. NoLonger(t, s, e)
    BY <1>3 DEF NoLonger
  <1> QED
    BY <1>4, NumberLexemes, TokenIsNext

LEMMA DecimalIsToken ==
    ASSUME NEW t \in Seq(Char), NEW s \in 1 .. Len(t), NEW e \in s .. Len(t),
           DecimalAt(t, s, e), e = Len(t) \/ t[e + 1] \notin Digit \union {"."},
           s = Len(t) \/ t[s + 1] \notin {"b", "B", "x", "X"}
    PROVE  Lexical!TokensFrom(t)[s]
               = <<Token("INT_D", SubSeq(t, s, e))>> \o Lexical!TokensFrom(t)[e + 1]
  <1>1. t[s] \in Digit
    BY DEF DecimalAt
  <1>2. ASSUME NEW q \in e + 1 .. Len(t) PROVE q \notin Lexical!Ends(t, s)
    <2>1. q \in s .. Len(t) /\ e + 1 \in s .. q /\ e # Len(t) /\ s # Len(t)
      OBVIOUS
    <2>2. ~BinaryAt(t, s, q) /\ ~HexadecimalAt(t, s, q)
      BY <2>1 DEF BinaryAt, HexadecimalAt
    <2>3. ~DecimalAt(t, s, q) /\ ~FloatAt(t, s, q)
      BY <2>1 DEF DecimalAt, FloatAt
    <2> QED
      BY <1>1, <2>1, <2>2, <2>3, NumberLexemes DEF Lexical!Ends
  <1>3. NoLonger(t, s, e)
    BY <1>2 DEF NoLonger
  <1> QED
    BY <1>1, <1>3, NumberLexemes, TokenIsNext

LEMMA FloatIsToken ==
    ASSUME NEW t \in Seq(Char), NEW s \in 1 .. Len(t), NEW e \in s .. Len(t), t[s] \in Digit,
           FloatAt(t, s, e), e = Len(t) \/ t[e + 1] \notin Digit
    PROVE  Lexical!TokensFrom(t)[s]
               = <<Token("FLOAT", SubSeq(t, s, e))>> \o Lexical!TokensFrom(t)[e + 1]
  <1>1. PICK d \in s + 1 .. e : t[d] = "." /\ \A i \in s .. e : i # d => t[i] \in Digit
    BY DEF FloatAt
  <1>2. t[s + 1] \notin {"b", "B", "x", "X"}
    <2>1. s + 1 \in s .. e
      BY <1>1
    <2>2. t[s + 1] = "." \/ t[s + 1] \in Digit
      BY <1>1, <2>1
    <2> QED
      BY <2>2, NotDigits
  <1>3. "." \notin Digit
    BY NotDigits
  <1>4. ASSUME NEW q \in e + 1 .. Len(t) PROVE q \notin Lexical!Ends(t, s)
    <2>1. q \in s .. Len(t) /\ e + 1 \in s .. q /\ e # Len(t) /\ d \in s .. q /\ d # e + 1
      BY <1>1
    <2>2. ~BinaryAt(t, s, q) /\ ~HexadecimalAt(t, s, q)
      BY <1>2 DEF BinaryAt, HexadecimalAt
    <2>3. ~DecimalAt(t, s, q)
      BY <1>1, <1>3, <2>1 DEF DecimalAt
    <2>4. ~FloatAt(t, s, q)
      <3> SUFFICES ASSUME NEW c \in s + 1 .. q, \A i \in s .. q : i # c => t[i] \in Digit PROVE FALSE
        BY DEF FloatAt
      <3>1. d = c
        BY <1>1, <1>3, <2>1
      <3> QED
        BY <2>1, <3>1
    <2> QED
      BY <2>1, <2>2, <2>3, <2>4, NumberLexemes DEF Lexical!Ends
  <1>5. NoLonger(t, s, e)
    BY <1>4 DEF NoLonger
  <1> QED
    BY <1>5, NumberLexemes, TokenIsNext

(* The word that scan_identifier reads to its end. *)
LEMMA WordIsToken ==
    ASSUME NEW t \in Seq(Char), NEW s \in 1 .. Len(t), NEW e \in s .. Len(t), t[s] \in Letter,
           \A i \in s .. e : t[i] \in Letter \union Digit,
           e = Len(t) \/ t[e + 1] \notin Letter \union Digit
    PROVE  Lexical!TokensFrom(t)[s]
               = <<Token(IF SubSeq(t, s, e) \in Keyword THEN "keyword" ELSE "ID", SubSeq(t, s, e))>>
                    \o Lexical!TokensFrom(t)[e + 1]
  <1>1. ASSUME NEW q \in s .. Len(t)
        PROVE  /\ ~Lexical!Trivial(t, s, q)
               /\ Lexical!LexemesOf(SubSeq(t, s, q))
                    = IF \A i \in s .. q : t[i] \in Letter \union Digit
                      THEN {Token(IF SubSeq(t, s, q) \in Keyword THEN "keyword" ELSE "ID", SubSeq(t, s, q))}
                      ELSE {}
    <2> DEFINE w == SubSeq(t, s, q)
    <2>1. w \in Seq(Char) /\ Len(w) >= 1 /\ w[1] = t[s]
      BY SpanIs
    <2>2. w[1] \in Letter
      BY <2>1
    <2>3. Lexical!IsWord(w) <=> \A i \in s .. q : t[i] \in Letter \union Digit
      BY <2>1, OfAt, SameClasses DEF Lexical!IsWord
    <2> DEFINE n == IF w \in Keyword THEN "keyword" ELSE "ID"
    <2> HIDE DEF n
    <2>4. Lexical!Lexeme(n, w) = Token(n, w)
      BY Zenon DEF Lexical!Lexeme, Token
    <2>5. /\ Lexical!LexemesOf(w) = IF Lexical!IsWord(w) THEN {Lexical!Lexeme(n, w)} ELSE {}
          /\ ~Lexical!IsTrivia(w, q = Len(t))
      BY <2>1, <2>2, ByLetter DEF n
    <2> HIDE DEF w
    <2>6. Lexical!LexemesOf(w) = IF \A i \in s .. q : t[i] \in Letter \union Digit
                                 THEN {Token(n, w)} ELSE {}
      BY <2>3, <2>4, <2>5
    <2> QED
      BY <2>5, <2>6 DEF Lexical!Trivial, w, n
  <1>2. ASSUME NEW q \in e + 1 .. Len(t) PROVE q \notin Lexical!Ends(t, s)
    <2>1. q \in s .. Len(t) /\ e + 1 \in s .. q /\ e # Len(t)
      OBVIOUS
    <2> QED
      BY <1>1, <2>1 DEF Lexical!Ends
  <1>3. NoLonger(t, s, e)
    BY <1>2 DEF NoLonger
  <1>4. /\ ~Lexical!Trivial(t, s, e)
        /\ Lexical!LexemesOf(SubSeq(t, s, e))
             = {Token(IF SubSeq(t, s, e) \in Keyword THEN "keyword" ELSE "ID", SubSeq(t, s, e))}
    BY <1>1
  <1> QED
    BY <1>3, <1>4, TokenIsNext

-------------------------------------------------------------------------------
(* Strings.                                                                  *)

\* The units of a string that begins at s, and what it may stand for from p to q.
UnitAt(t, s, p, j) ==
    \/ j = p + 1 /\ t[p] \notin {t[s], "\\"} \union NewLineChar
    \/ j = p + 2 /\ t[p] = "\\" /\ t[p + 1] \in Escapes
    \/ j = p + 4 /\ t[p] = "\\" /\ t[p + 1] = "x" /\ {t[p + 2], t[p + 3]} \subseteq Hex
Value(t, p, j) == Lexical!UnitValue(SubSeq(t, p, j - 1))
Values(t, s, q, p) == Lexical!ValuesFrom(SubSeq(t, s, q))[p - s + 1]

LEMMA UnitsAt ==
    ASSUME NEW t \in Seq(Char), NEW s \in 1 .. Len(t), NEW p \in 1 .. Len(t), NEW j \in p + 1 .. Len(t) + 1
    PROVE  Lexical!IsUnit(SubSeq(t, p, j - 1), t[s]) <=> UnitAt(t, s, p, j)
  <1> DEFINE u == SubSeq(t, p, j - 1)
  <1>1. j - 1 \in p .. Len(t) /\ (j - 1) - p + 1 = j - p
    OBVIOUS
  <1>2. /\ Len(u) = j - p /\ u[1] = t[p]
        /\ \A i \in 1 .. j - p : u[i] = t[p + i - 1]
    BY <1>1, SpanIs
  <1> HIDE DEF u
  <1>3. (Len(u) = 1 <=> j = p + 1) /\ (Len(u) = 2 <=> j = p + 2) /\ (Len(u) = 4 <=> j = p + 4)
    BY <1>2
  <1>4. j >= p + 2 => u[2] = t[p + 1]
    <2>1. j >= p + 2 => 2 \in 1 .. j - p /\ p + 2 - 1 = p + 1
      OBVIOUS
    <2> QED
      BY <1>2, <2>1
  <1>5. j = p + 4 => u[3] = t[p + 2] /\ u[4] = t[p + 3]
    <2>1. j = p + 4 => /\ 3 \in 1 .. j - p /\ p + 3 - 1 = p + 2
                       /\ 4 \in 1 .. j - p /\ p + 4 - 1 = p + 3
      OBVIOUS
    <2> QED
      BY <1>2, <2>1
  <1>6. j = p + 2 => j >= p + 2
    OBVIOUS
  <1>7. j = p + 4 => j >= p + 2
    OBVIOUS
  <1>8. Lexical!IsUnit(u, t[s]) <=>
            \/ Len(u) = 1 /\ u[1] \notin {t[s], "\\"} \union NewLineChar
            \/ Len(u) = 2 /\ u[1] = "\\" /\ u[2] \in Escapes
            \/ Len(u) = 4 /\ u[1] = "\\" /\ u[2] = "x" /\ {u[3], u[4]} \subseteq Hex
    BY SameClasses DEF Lexical!IsUnit
  <1>9. Lexical!IsUnit(u, t[s]) <=> UnitAt(t, s, p, j)
    BY <1>2, <1>3, <1>4, <1>5, <1>6, <1>7, <1>8 DEF UnitAt
  <1> QED
    BY <1>9 DEF u

LEMMA UnitsStandFor ==
    ASSUME NEW t \in Seq(Char), NEW p \in 1 .. Len(t)
    PROVE  /\ Value(t, p, p + 1) = <<t[p]>>
           /\ p + 1 <= Len(t) => Value(t, p, p + 2) = <<Unescaped(t[p + 1])>>
           /\ p + 3 <= Len(t) => Value(t, p, p + 4) = <<t[p + 2], t[p + 3]>>
  <1>1. Value(t, p, p + 1) = <<t[p]>>
    <2> DEFINE u == SubSeq(t, p, p + 1 - 1)
    <2>1. p + 1 - 1 \in p .. Len(t) /\ p + 1 - 1 - p + 1 = 1
      OBVIOUS
    <2>2. u \in Seq(Char) /\ Len(u) = 1 /\ u[1] = t[p]
      BY <2>1, SpanIs
    <2> HIDE DEF u
    <2>3. u = <<t[p]>>
      BY <2>2
    <2>4. Lexical!UnitValue(u) = u
      BY <2>2 DEF Lexical!UnitValue
    <2> QED
      BY <2>3, <2>4 DEF Value, u
  <1>2. ASSUME p + 1 <= Len(t) PROVE Value(t, p, p + 2) = <<Unescaped(t[p + 1])>>
    <2> DEFINE u == SubSeq(t, p, p + 2 - 1)
    <2>1. p + 2 - 1 \in p .. Len(t) /\ p + 2 - 1 - p + 1 = 2 /\ 2 \in 1 .. 2 /\ p + 2 - 1 = p + 1
      BY <1>2
    <2>2. Len(u) = 2 /\ u[2] = t[p + 1]
      BY <2>1, SpanIs
    <2> HIDE DEF u
    <2>3. Lexical!UnitValue(u) = <<Unescaped(u[2])>>
      BY <2>2, SameClasses DEF Lexical!UnitValue
    <2> QED
      BY <2>2, <2>3 DEF Value, u
  <1>3. ASSUME p + 3 <= Len(t) PROVE Value(t, p, p + 4) = <<t[p + 2], t[p + 3]>>
    <2> DEFINE u == SubSeq(t, p, p + 4 - 1)
    <2>1. /\ p + 4 - 1 \in p .. Len(t) /\ p + 4 - 1 - p + 1 = 4 /\ 3 \in 1 .. 4 /\ 4 \in 1 .. 4
          /\ p + 4 - 1 = p + 3 /\ p + 3 - 1 = p + 2
      BY <1>3
    <2>2. u \in Seq(Char) /\ Len(u) = 4 /\ u[3] = t[p + 2] /\ u[4] = t[p + 3]
      BY <2>1, SpanIs
    <2> HIDE DEF u
    <2>3. Lexical!UnitValue(u) = SubSeq(u, 3, 4)
      BY <2>2 DEF Lexical!UnitValue
    <2> DEFINE v == SubSeq(u, 3, 4)
    <2>4. v = [k \in 1 .. 4 - 3 + 1 |-> u[3 + k - 1]]
      BY <2>2
    <2> HIDE DEF v
    <2>11. 1 .. 4 - 3 + 1 = 1 .. 2 /\ 3 + 1 - 1 = 3 /\ 3 + 2 - 1 = 4
      OBVIOUS
    <2>5. v = <<u[3], u[4]>>
      BY <2>4, <2>11
    <2> QED
      BY <2>2, <2>3, <2>5 DEF Value, u, v
  <1> QED
    BY <1>1, <1>2, <1>3

(* What is kept of a unit are characters of values. *)
LEMMA UnitsAreSaved ==
    ASSUME NEW t \in Seq(Char), NEW s \in 1 .. Len(t), NEW p \in 1 .. Len(t),
           NEW j \in p + 1 .. Len(t) + 1, UnitAt(t, s, p, j)
    PROVE  Value(t, p, j) \in Seq(Saved)
  <1>1. \A i \in 1 .. Len(t) : t[i] \in Saved
    BY DEF Saved
  <1>2. CASE j = p + 1
    <2>1. Value(t, p, j) = <<t[p]>>
      BY <1>2, UnitsStandFor
    <2>2. t[p] \in Saved
      BY <1>1
    <2> HIDE DEF Value
    <2> QED
      BY <2>1, <2>2
  <1>3. CASE j = p + 2
    <2>1. t[p + 1] \in Escapes /\ p + 1 \in 1 .. Len(t) /\ t[p + 1] \in Char
      BY <1>3 DEF UnitAt
    <2>2. Unescaped(t[p + 1]) \in Saved
      BY <2>1 DEF Unescaped, Escape, Saved
    <2>3. Value(t, p, j) = <<Unescaped(t[p + 1])>>
      BY <1>3, <2>1, UnitsStandFor
    <2> QED
      BY <2>2, <2>3
  <1>4. CASE j = p + 4
    <2>1. p + 3 <= Len(t) /\ p + 2 \in 1 .. Len(t) /\ p + 3 \in 1 .. Len(t)
      BY <1>4
    <2>2. Value(t, p, j) = <<t[p + 2], t[p + 3]>>
      BY <1>4, <2>1, UnitsStandFor
    <2>3. t[p + 2] \in Saved /\ t[p + 3] \in Saved
      BY <1>1, <2>1
    <2> QED
      BY <2>2, <2>3
  <1> QED
    BY <1>2, <1>3, <1>4 DEF UnitAt
LEMMA NestedSpan ==
    ASSUME NEW t \in Seq(Char), NEW s \in 1 .. Len(t), NEW q \in s .. Len(t),
           NEW i \in 1 .. q - s + 1, NEW j \in i + 1 .. q - s + 1
    PROVE  SubSeq(SubSeq(t, s, q), i, j - 1) = SubSeq(t, i + s - 1, j + s - 1 - 1)
  <1> DEFINE w == SubSeq(t, s, q)
             n == j - 1 - i + 1
             f == [k \in 1 .. n |-> w[i + k - 1]]
             g == [k \in 1 .. n |-> t[(i + s - 1) + k - 1]]
  <1>1. Len(t) \in Nat
    OBVIOUS
  <1>2. Len(w) = q - s + 1 /\ \A k \in 1 .. q - s + 1 : w[k] = t[s + k - 1]
    BY SpanIs
  <1>3. w \in Seq(Char)
    BY SpanIs
  <1>4. (j + s - 1 - 1) - (i + s - 1) + 1 = n
    OBVIOUS
  <1>5. SubSeq(t, i + s - 1, j + s - 1 - 1) = g
    BY <1>1, <1>4
  <1> HIDE DEF w
  <1>6. SubSeq(w, i, j - 1) = f
    BY <1>2, <1>3
  <1>7. ASSUME NEW k \in 1 .. n PROVE w[i + k - 1] = t[(i + s - 1) + k - 1]
    <2>1. i + k - 1 \in 1 .. q - s + 1 /\ s + (i + k - 1) - 1 = (i + s - 1) + k - 1
      OBVIOUS
    <2> QED
      BY <1>2, <2>1
  <1> HIDE DEF n
  <1>8. f = g
    BY <1>7
  <1> QED
    BY <1>5, <1>6, <1>8 DEF w

LEMMA ValuesStop ==
    ASSUME NEW t \in Seq(Char), NEW s \in 1 .. Len(t), NEW q \in s + 1 .. Len(t)
    PROVE  Values(t, s, q, q) = {<<>>}
  <1> DEFINE w == SubSeq(t, s, q)
  <1>1. q \in s .. Len(t)
    OBVIOUS
  <1>2. w \in Seq(Char) /\ Len(w) = q - s + 1
    BY <1>1, SpanIs
  <1> HIDE DEF w
  <1>3. q - s + 1 \in 2 .. Len(w)
    BY <1>2
  <1>4. Lexical!ValuesFrom(w)[q - s + 1] = {<<>>}
    BY <1>2, <1>3, ValuesFromIs DEF ValuesBy
  <1> QED
    BY <1>4 DEF Values, w

LEMMA ValuesGoOn ==
    ASSUME NEW t \in Seq(Char), NEW s \in 1 .. Len(t), NEW q \in s + 1 .. Len(t), NEW p \in s + 1 .. q - 1,
           NEW x
    PROVE  x \in Values(t, s, q, p)
               <=> \E j \in p + 1 .. q : /\ UnitAt(t, s, p, j)
                                         /\ \E r \in Values(t, s, q, j) : x = Value(t, p, j) \o r
  <1> DEFINE w == SubSeq(t, s, q)
             i == p - s + 1
             n == Len(w)
             F == Lexical!ValuesFrom(w)
             J == {j \in i + 1 .. n : Lexical!IsUnit(SubSeq(w, i, j - 1), w[1])}
             V(j) == {Lexical!UnitValue(SubSeq(w, i, j - 1)) \o rest : rest \in F[j]}
  <1>1. q \in s .. Len(t)
    OBVIOUS
  <1>2. w \in Seq(Char) /\ n = q - s + 1 /\ w[1] = t[s]
    BY <1>1, SpanIs
  <1>3. \A j \in i + 1 .. q - s + 1 : SubSeq(w, i, j - 1) = SubSeq(t, p, j + s - 1 - 1)
    <2>1. i \in 1 .. q - s + 1 /\ i + s - 1 = p
      OBVIOUS
    <2> QED
      BY <1>1, <2>1, NestedSpan
  <1>4. Values(t, s, q, p) = F[i] /\ \A j \in i + 1 .. n : Values(t, s, q, j + s - 1) = F[j]
    <2>1. \A j \in i + 1 .. n : (j + s - 1) - s + 1 = j
      BY <1>2
    <2> QED
      BY <2>1 DEF Values
  <1> HIDE DEF w, F
  <1>5. i \in 2 .. n /\ i # n /\ i \in Int
    BY <1>2
  <1>6. F[i] = ValuesBy(w, F, i)
    BY <1>2, <1>5, ValuesFromIs DEF F
  <1>7. F[i] = UNION {V(j) : j \in J}
    BY <1>5, <1>6 DEF ValuesBy
  <1>8. \A j \in i + 1 .. n : j \in J <=> UnitAt(t, s, p, j + s - 1)
    <2> TAKE j \in i + 1 .. n
    <2>1. j + s - 1 \in p + 1 .. Len(t) + 1 /\ p \in 1 .. Len(t)
      BY <1>2
    <2>2. SubSeq(w, i, j - 1) = SubSeq(t, p, (j + s - 1) - 1)
      BY <1>2, <1>3
    <2> QED
      BY <1>2, <2>1, <2>2, UnitsAt
  <1>9. \A j \in i + 1 .. n : x \in V(j)
                                 <=> \E r \in Values(t, s, q, j + s - 1) : x = Value(t, p, j + s - 1) \o r
    <2> TAKE j \in i + 1 .. n
    <2>1. Lexical!UnitValue(SubSeq(w, i, j - 1)) = Value(t, p, j + s - 1)
      <3>1. j \in i + 1 .. q - s + 1
        BY <1>2
      <3>2. SubSeq(w, i, j - 1) = SubSeq(t, p, j + s - 1 - 1)
        BY <1>3, <3>1
      <3> DEFINE u == SubSeq(w, i, j - 1)
                 v == SubSeq(t, p, j + s - 1 - 1)
      <3>3. Value(t, p, j + s - 1) = Lexical!UnitValue(v)
        BY DEF Value
      <3>4. u = v
        BY <3>2
      <3> HIDE DEF u, v
      <3>5. Lexical!UnitValue(u) = Lexical!UnitValue(v)
        BY <3>4
      <3> QED
        BY <3>3, <3>5 DEF u
    <2>2. Values(t, s, q, j + s - 1) = F[j]
      BY <1>4
    <2> QED
      BY <2>1, <2>2
  <1>10. x \in F[i] <=> \E j \in J : x \in V(j)
    BY <1>7
  <1>11. J \subseteq i + 1 .. n
    OBVIOUS
  <1> HIDE DEF J, V
  <1>12. ASSUME x \in F[i]
         PROVE  \E j \in p + 1 .. q : /\ UnitAt(t, s, p, j)
                                      /\ \E r \in Values(t, s, q, j) : x = Value(t, p, j) \o r
    <2>1. PICK j \in J : x \in V(j)
      BY <1>10, <1>12
    <2>2. j \in i + 1 .. n /\ j + s - 1 \in p + 1 .. q
      BY <1>2, <1>11
    <2> QED
      BY <1>8, <1>9, <2>1, <2>2
  <1>13. ASSUME NEW j \in p + 1 .. q, UnitAt(t, s, p, j),
                \E r \in Values(t, s, q, j) : x = Value(t, p, j) \o r
         PROVE  x \in F[i]
    <2>0. n = q - s + 1 /\ s \in Int /\ p \in Int /\ q \in Int
      BY <1>2
    <2> HIDE DEF n
    <2>1. j - s + 1 \in i + 1 .. n /\ (j - s + 1) + s - 1 = j
      BY <2>0
    <2>2. j - s + 1 \in J /\ x \in V(j - s + 1)
      BY <1>8, <1>9, <1>13, <2>1
    <2> QED
      BY <1>10, <2>2
  <1> QED
    BY <1>4, <1>12, <1>13

LEMMA ValuesAreSaved ==
    ASSUME NEW t \in Seq(Char), NEW s \in 1 .. Len(t), NEW q \in s + 1 .. Len(t), NEW p \in s + 1 .. q
    PROVE  Values(t, s, q, p) \subseteq Seq(Saved)
  <1> DEFINE Bad == {k \in s + 1 .. q : ~(Values(t, s, q, k) \subseteq Seq(Saved))}
  <1>1. SUFFICES ASSUME Bad # {} PROVE FALSE
    OBVIOUS
  <1>2. q \in Nat /\ Bad \in SUBSET (1 .. q)
    OBVIOUS
  <1>3. PICK m \in Bad : \A k \in Bad : k <= m
    BY <1>1, <1>2, LastPlace
  <1>4. m \in s + 1 .. q /\ ~(Values(t, s, q, m) \subseteq Seq(Saved))
    OBVIOUS
  <1>5. m # q
    <2>1. Values(t, s, q, q) = {<<>>}
      BY ValuesStop
    <2>2. {<<>>} \subseteq Seq(Saved)
      OBVIOUS
    <2> HIDE DEF Bad
    <2> QED
      BY <1>4, <2>1, <2>2
  <1>6. ASSUME NEW j \in m + 1 .. q PROVE Values(t, s, q, j) \subseteq Seq(Saved)
    <2>1. j \in s + 1 .. q /\ ~(j <= m)
      BY <1>4
    <2>2. j \notin Bad
      BY <1>3, <2>1
    <2> QED
      BY <2>1, <2>2
  <1> HIDE DEF Bad
  <1>7. m \in s + 1 .. q - 1 /\ m \in 1 .. Len(t)
    BY <1>4, <1>5
  <1>11. \A x : x \in Values(t, s, q, m)
                 <=> \E j \in m + 1 .. q : /\ UnitAt(t, s, m, j)
                                           /\ \E r \in Values(t, s, q, j) : x = Value(t, m, j) \o r
    BY <1>7, ValuesGoOn
  <1>8. ASSUME NEW x \in Values(t, s, q, m) PROVE x \in Seq(Saved)
    <2>1. PICK j \in m + 1 .. q : UnitAt(t, s, m, j) /\ \E r \in Values(t, s, q, j) : x = Value(t, m, j) \o r
      BY <1>8, <1>11
    <2>2. j \in m + 1 .. Len(t) + 1
      BY <1>4
    <2>3. Value(t, m, j) \in Seq(Saved)
      BY <1>7, <2>1, <2>2, UnitsAreSaved
    <2>4. PICK r \in Values(t, s, q, j) : x = Value(t, m, j) \o r
      BY <2>1
    <2>5. r \in Seq(Saved)
      BY <1>6
    <2> QED
      BY <2>3, <2>4, <2>5
  <1> QED
    BY <1>4, <1>8

\* Up to p, the text from s on is a string without its end, and stands for v.
StringSoFar(t, s, p, v) ==
    /\ \A q \in s .. p - 1 : Lexical!ValuesOf(SubSeq(t, s, q)) = {}
    /\ \A q \in p .. Len(t) : Values(t, s, q, s + 1) = {v \o r : r \in Values(t, s, q, p)}

LEMMA OneUnit ==
    ASSUME NEW t, NEW s, NEW p \in Nat, NEW j, NEW k, UnitAt(t, s, p, j), UnitAt(t, s, p, k)
    PROVE  j = k
  <1>1. "x" \notin Escapes
    BY ZenonT(30) DEF Escapes, Escape, Quote
  <1> QED
    BY <1>1 DEF UnitAt

LEMMA BackslashIsNoQuote == "\\" \notin Quote
  BY ZenonT(30) DEF Quote

LEMMA ValuesOfAt ==
    ASSUME NEW t \in Seq(Char), NEW s \in 1 .. Len(t), NEW q \in s .. Len(t), t[s] \in Quote
    PROVE  Lexical!ValuesOf(SubSeq(t, s, q)) = IF q > s /\ t[q] = t[s] THEN Values(t, s, q, s + 1) ELSE {}
  <1> DEFINE w == SubSeq(t, s, q)
  <1>1. w \in Seq(Char) /\ Len(w) = q - s + 1 /\ w[1] = t[s] /\ w[q - s + 1] = t[q]
    <2>1. q \in s .. q
      OBVIOUS
    <2> QED
      BY <2>1, SpanIs, ShiftIs
  <1>2. Values(t, s, q, s + 1) = Lexical!ValuesFrom(w)[2]
    <2>1. s + 1 - s + 1 = 2
      OBVIOUS
    <2> QED
      BY <2>1 DEF Values
  <1> HIDE DEF w
  <1>3. (Len(w) >= 2 <=> q > s) /\ w[Len(w)] = t[q]
    BY <1>1
  <1>4. Lexical!ValuesOf(w) = IF q > s /\ t[q] = t[s] THEN Lexical!ValuesFrom(w)[2] ELSE {}
    BY <1>1, <1>3, SameClasses DEF Lexical!ValuesOf
  <1> QED
    BY <1>2, <1>4 DEF w

(* A quote begins a string. *)
LEMMA StringBegins ==
    ASSUME NEW t \in Seq(Char), NEW s \in 1 .. Len(t), t[s] \in Quote
    PROVE  StringSoFar(t, s, s + 1, <<>>)
  <1>1. ASSUME NEW q \in s .. s + 1 - 1 PROVE Lexical!ValuesOf(SubSeq(t, s, q)) = {}
    <2>1. q = s /\ q \in s .. Len(t)
      OBVIOUS
    <2> QED
      BY <2>1, ValuesOfAt
  <1>2. ASSUME NEW q \in s + 1 .. Len(t)
        PROVE  Values(t, s, q, s + 1) = {<<>> \o r : r \in Values(t, s, q, s + 1)}
    <2>1. s + 1 \in s + 1 .. q
      OBVIOUS
    <2>2. Values(t, s, q, s + 1) \subseteq Seq(Saved)
      BY <2>1, ValuesAreSaved
    <2>3. \A r \in Values(t, s, q, s + 1) : <<>> \o r = r
      BY <2>2
    <2> QED
      BY <2>3
  <1> QED
    BY <1>1, <1>2 DEF StringSoFar

(* With a unit, it goes on. *)
LEMMA StringGoesOn ==
    ASSUME NEW t \in Seq(Char), NEW s \in 1 .. Len(t), t[s] \in Quote, NEW p \in s + 1 .. Len(t),
           NEW v \in Seq(Saved), StringSoFar(t, s, p, v),
           NEW k \in p + 1 .. Len(t) + 1, UnitAt(t, s, p, k)
    PROVE  StringSoFar(t, s, k, v \o Value(t, p, k))
  <1> DEFINE u == Value(t, p, k)
  <1>1. u \in Seq(Saved)
    <2>1. p \in 1 .. Len(t)
      OBVIOUS
    <2> QED
      BY <2>1, UnitsAreSaved
  <1> HIDE DEF u
  <1>2. t[p] # t[s]
    BY BackslashIsNoQuote DEF UnitAt
  <1>3. \A j : UnitAt(t, s, p, j) => j = k
    BY OneUnit
  <1>4. ASSUME NEW q \in p + 1 .. Len(t)
        PROVE  \A x : x \in Values(t, s, q, p)
                          <=> k <= q /\ \E r \in Values(t, s, q, k) : x = u \o r
    <2>1. q \in s + 1 .. Len(t) /\ p \in s + 1 .. q - 1
      OBVIOUS
    <2>2. \A x : x \in Values(t, s, q, p)
                     <=> \E j \in p + 1 .. q : /\ UnitAt(t, s, p, j)
                                               /\ \E r \in Values(t, s, q, j) : x = Value(t, p, j) \o r
      BY <2>1, ValuesGoOn
    <2>3. k \in p + 1 .. q <=> k <= q
      OBVIOUS
    <2>4. ASSUME NEW x \in Values(t, s, q, p) PROVE k <= q /\ \E r \in Values(t, s, q, k) : x = u \o r
      <3>1. PICK j \in p + 1 .. q : /\ UnitAt(t, s, p, j)
                                    /\ \E r \in Values(t, s, q, j) : x = Value(t, p, j) \o r
        BY <2>2
      <3>2. j = k
        BY <1>3, <3>1
      <3> QED
        BY <3>1, <3>2 DEF u
    <2>5. ASSUME NEW x, k <= q, \E r \in Values(t, s, q, k) : x = u \o r PROVE x \in Values(t, s, q, p)
      <3>1. k \in p + 1 .. q
        BY <2>5
      <3> QED
        BY <2>2, <2>5, <3>1 DEF u
    <2> QED
      BY <2>4, <2>5
  <1>5. ASSUME NEW q \in s .. k - 1 PROVE Lexical!ValuesOf(SubSeq(t, s, q)) = {}
    <2>1. q \in s .. Len(t) /\ ~(k <= q)
      OBVIOUS
    <2>2. CASE q \in s .. p - 1
      BY <2>2 DEF StringSoFar
    <2>3. CASE q = p
      BY <1>2, <2>1, <2>3, ValuesOfAt
    <2>4. CASE q \in p + 1 .. Len(t)
      <3>1. Values(t, s, q, p) = {}
        BY <1>4, <2>1, <2>4
      <3>2. q \in p .. Len(t)
        BY <2>4
      <3>3. Values(t, s, q, s + 1) = {v \o r : r \in Values(t, s, q, p)}
        BY <3>2 DEF StringSoFar
      <3>4. Values(t, s, q, s + 1) = {}
        BY <3>1, <3>3
      <3> QED
        BY <2>1, <3>4, ValuesOfAt
    <2> QED
      BY <2>1, <2>2, <2>3, <2>4
  <1>6. ASSUME NEW q \in k .. Len(t)
        PROVE  Values(t, s, q, s + 1) = {(v \o u) \o r : r \in Values(t, s, q, k)}
    <2>1. q \in p + 1 .. Len(t) /\ q \in p .. Len(t) /\ k <= q /\ k \in s + 1 .. q /\ q \in s + 1 .. Len(t)
      OBVIOUS
    <2>2. Values(t, s, q, s + 1) = {v \o r : r \in Values(t, s, q, p)}
      BY <2>1 DEF StringSoFar
    <2>3. \A x : x \in Values(t, s, q, p) <=> \E r \in Values(t, s, q, k) : x = u \o r
      BY <1>4, <2>1
    <2>4. Values(t, s, q, k) \subseteq Seq(Saved)
      BY <2>1, ValuesAreSaved
    <2>5. \A r \in Values(t, s, q, k) : (v \o u) \o r = v \o (u \o r)
      BY <1>1, <2>4
    <2> DEFINE A == Values(t, s, q, p)
               B == Values(t, s, q, k)
               P(x) == v \o x
               Q(r) == (v \o u) \o r
               R(r) == u \o r
    <2>6. (\A x : x \in A <=> \E r \in B : x = R(r)) /\ \A r \in B : Q(r) = P(R(r))
      BY <2>3, <2>5
    <2>7. Values(t, s, q, s + 1) = {P(x) : x \in A}
      BY <2>2
    <2> HIDE DEF A, B, P, Q, R
    <2>8. \A x \in A : \E r \in B : x = R(r) /\ P(x) = Q(r)
      BY <2>6
    <2>9. \A r \in B : R(r) \in A /\ P(R(r)) = Q(r)
      BY <2>6
    <2>10. {P(x) : x \in A} = {Q(r) : r \in B}
      BY <2>8, <2>9
    <2> QED
      BY <2>7, <2>10 DEF B, Q
  <1> QED
    BY <1>5, <1>6 DEF StringSoFar, u

LEMMA StringEnding ==
    ASSUME NEW t \in Seq(Char), NEW s \in 1 .. Len(t), t[s] \in Quote, NEW q \in s .. Len(t)
    PROVE  /\ ~Lexical!Trivial(t, s, q)
           /\ \A v : Lexical!ValuesOf(SubSeq(t, s, q)) = {v}
                        => Lexical!LexemesOf(SubSeq(t, s, q)) = {Token("STRING", v)}
           /\ Lexical!ValuesOf(SubSeq(t, s, q)) = {} => q \notin Lexical!Ends(t, s)
  <1> DEFINE w == SubSeq(t, s, q)
  <1>1. w \in Seq(Char) /\ Len(w) >= 1 /\ w[1] = t[s]
    BY SpanIs
  <1>2. w[1] \in Quote
    BY <1>1
  <1>3. /\ Lexical!LexemesOf(w) = {Lexical!Lexeme("STRING", v) : v \in Lexical!ValuesOf(w)}
        /\ ~Lexical!IsTrivia(w, q = Len(t))
    BY <1>1, <1>2, ByQuote
  <1>4. \A v : Lexical!Lexeme("STRING", v) = Token("STRING", v)
    BY Zenon DEF Lexical!Lexeme, Token
  <1>5. ~Lexical!Trivial(t, s, q)
    BY <1>3 DEF Lexical!Trivial
  <1> HIDE DEF w
  <1>6. ASSUME NEW v, Lexical!ValuesOf(w) = {v} PROVE Lexical!LexemesOf(w) = {Token("STRING", v)}
    BY <1>3, <1>4, <1>6
  <1>7. ASSUME Lexical!ValuesOf(w) = {} PROVE Lexical!LexemesOf(w) = {}
    BY <1>3, <1>7
  <1> QED
    BY <1>5, <1>6, <1>7 DEF w, Lexical!Ends

\* Nothing a string may hold begins at p.
NoUnit(t, s, p) == \A j \in p + 1 .. Len(t) + 1 : ~UnitAt(t, s, p, j)

LEMMA NoUnitNoValues ==
    ASSUME NEW t \in Seq(Char), NEW s \in 1 .. Len(t), t[s] \in Quote, NEW p \in s + 1 .. Len(t),
           NEW v, StringSoFar(t, s, p, v), NoUnit(t, s, p), NEW q \in p + 1 .. Len(t)
    PROVE  Lexical!ValuesOf(SubSeq(t, s, q)) = {}
  <1>1. q \in s + 1 .. Len(t) /\ p \in s + 1 .. q - 1 /\ q \in p .. Len(t) /\ q \in s .. Len(t)
    OBVIOUS
  <1>2. \A j \in p + 1 .. q : ~UnitAt(t, s, p, j)
    BY DEF NoUnit
  <1>3. \A x : x \in Values(t, s, q, p)
                   <=> \E j \in p + 1 .. q : /\ UnitAt(t, s, p, j)
                                             /\ \E r \in Values(t, s, q, j) : x = Value(t, p, j) \o r
    BY <1>1, ValuesGoOn
  <1>4. Values(t, s, q, p) = {}
    BY <1>2, <1>3
  <1>5. Values(t, s, q, s + 1) = {v \o r : r \in Values(t, s, q, p)}
    BY <1>1 DEF StringSoFar
  <1>6. Values(t, s, q, s + 1) = {}
    BY <1>4, <1>5
  <1> QED
    BY <1>1, <1>6, ValuesOfAt

(* At its quote, the string ends. *)
LEMMA StringIsToken ==
    ASSUME NEW t \in Seq(Char), NEW s \in 1 .. Len(t), t[s] \in Quote, NEW p \in s + 1 .. Len(t),
           NEW v \in Seq(Saved), StringSoFar(t, s, p, v), t[p] = t[s]
    PROVE  Lexical!TokensFrom(t)[s] = <<Token("STRING", v)>> \o Lexical!TokensFrom(t)[p + 1]
  <1>1. p \in s .. Len(t) /\ p > s /\ p \in p .. Len(t)
    OBVIOUS
  <1>2. NoUnit(t, s, p)
    BY BackslashIsNoQuote DEF NoUnit, UnitAt
  <1>3. Lexical!ValuesOf(SubSeq(t, s, p)) = {v}
    <2>1. Values(t, s, p, p) = {<<>>}
      BY ValuesStop
    <2>2. Values(t, s, p, s + 1) = {v \o r : r \in Values(t, s, p, p)}
      BY <1>1 DEF StringSoFar
    <2>3. v \o <<>> = v
      OBVIOUS
    <2>4. Values(t, s, p, s + 1) = {v}
      BY <2>1, <2>2, <2>3
    <2> QED
      BY <1>1, <2>4, ValuesOfAt
  <1>4. ASSUME NEW q \in p + 1 .. Len(t) PROVE q \notin Lexical!Ends(t, s)
    <2>1. q \in s .. Len(t)
      OBVIOUS
    <2>2. Lexical!ValuesOf(SubSeq(t, s, q)) = {}
      BY <1>2, NoUnitNoValues
    <2> QED
      BY <2>1, <2>2, StringEnding
  <1>5. NoLonger(t, s, p)
    BY <1>4 DEF NoLonger
  <1>6. ~Lexical!Trivial(t, s, p) /\ Lexical!LexemesOf(SubSeq(t, s, p)) = {Token("STRING", v)}
    BY <1>1, <1>3, StringEnding
  <1> QED
    BY <1>1, <1>5, <1>6, TokenIsNext

(* Where nothing a string may hold follows, there is no string. *)
LEMMA StringIsBroken ==
    ASSUME NEW t \in Seq(Char), NEW s \in 1 .. Len(t), t[s] \in Quote, NEW p \in s + 1 .. Len(t) + 1,
           NEW v, StringSoFar(t, s, p, v), p <= Len(t) => t[p] # t[s] /\ NoUnit(t, s, p)
    PROVE  Lexical!TokensFrom(t)[s] = <<NoToken>>
  <1>1. ASSUME NEW q \in s .. Len(t) PROVE Lexical!ValuesOf(SubSeq(t, s, q)) = {}
    <2>1. CASE q \in s .. p - 1
      BY <2>1 DEF StringSoFar
    <2>2. CASE q = p
      BY <2>2, ValuesOfAt
    <2>3. CASE q \in p + 1 .. Len(t)
      <3>1. p \in s + 1 .. Len(t)
        BY <2>3
      <3> QED
        BY <2>3, <3>1, NoUnitNoValues
    <2> QED
      BY <2>1, <2>2, <2>3
  <1>2. NoLonger(t, s, s - 1)
    <2>1. s - 1 + 1 = s
      OBVIOUS
    <2> QED
      BY <1>1, <2>1, StringEnding DEF NoLonger
  <1> QED
    BY <1>2, NoWordIsUnknown

-------------------------------------------------------------------------------
(* Where the scanner is in the text.                                         *)

\* The tokens of the source from p on, and those that t and what follows it are.
Rest(p) == Lexical!TokensFrom(source)[p]
Gives(t, p) ==
    IF t.type = "UNKNOWN" THEN <<NoToken>>
    ELSE IF t.type = "EOS" THEN <<t>>
    ELSE <<t>> \o Rest(p)

\* The delivered tokens, as Lexicon knows them.
Bared == [i \in DOMAIN delivered |-> Bare(delivered[i])]

\* In loop m at p, scan() is in a word of t that began at s, and has saved v of it.
WordModes == {"binary", "hex", "decimal", "fraction", "identifier"}
BegunAs(t, m, d, v, s, p) ==
    /\ m = "scan" => s = p /\ v = <<>>
    /\ m \in WordModes => s < p /\ v = SubSeq(t, s, p - 1)
    /\ m = "binary" => t[s] \in Digit /\ BinaryAt(t, s, p - 1)
    /\ m = "hex" => t[s] \in Digit /\ HexadecimalAt(t, s, p - 1)
    /\ m = "decimal" => /\ DecimalAt(t, s, p - 1)
                        /\ s = Len(t) \/ t[s + 1] \notin {"b", "B", "x", "X"}
    /\ m = "fraction" => t[s] \in Digit /\ FloatAt(t, s, p - 1)
    /\ m = "identifier" => t[s] \in Letter /\ \A i \in s .. p - 1 : t[i] \in Letter \union Digit
    /\ m = "string" => s < p /\ t[s] = d /\ StringSoFar(t, s, p, v)
    /\ m = "lineComment" => /\ s + 2 <= p /\ v = <<>> /\ t[s] = "/" /\ t[s + 1] = "/"
                            /\ \A i \in s .. p - 1 : t[i] \notin NewLineChar
    /\ m = "sectionComment" => /\ s + 2 <= p /\ v = <<>> /\ t[s] = "/" /\ t[s + 1] = "*"
                               /\ \A i \in s + 2 .. p - 1 : i < Len(t) => ~Closing(t, i)
Begun(s) == BegunAs(source, mode, delimiter, token.value, s, position)

(* What is delivered, and looked ahead at, and to come are the tokens of the  *)
(* source: while scan() runs, those from where the current word began.        *)
Tracks ==
    /\ Stopped => Rest(1) = Bared
    /\ ~Stopped /\ mode = "idle"
         => Rest(1) = Bared \o (IF ahead.type = "UNKNOWN" THEN Rest(position) ELSE Gives(ahead, position))
    /\ ~Stopped /\ mode # "idle"
         => ahead.type = "UNKNOWN" /\ \E s \in 1 .. position : Begun(s) /\ Rest(1) = Bared \o Rest(s)
    /\ mode # "idle" /\ purpose = "ahead" => source \in LooksAhead

\* A step of scan() goes on with a word, or begins another, or has its token.
Advances(s) ==
    \/ /\ mode' # "idle"
       /\ UNCHANGED <<call, ahead, delivered>>
       /\ \E r \in 1 .. position' : Begun(r)' /\ Rest(r) = Rest(s)
    \/ \E type \in TokenType, word \in Seq(Saved) :
          /\ Finish(type, word)
          /\ Rest(s) = Gives(Token(type, token.value \o word), position')

(* The tokens from a place on are a sequence. *)
LEMMA TokensAreSequence ==
    ASSUME NEW t \in Seq(Char), NEW p \in 1 .. Len(t) + 1
    PROVE  \E X : Lexical!TokensFrom(t)[p] \in Seq(X)
  <1> DEFINE Bad == {k \in 1 .. Len(t) + 1 : ~\E X : Lexical!TokensFrom(t)[k] \in Seq(X)}
  <1>1. SUFFICES ASSUME Bad # {} PROVE FALSE
    OBVIOUS
  <1>2. Len(t) + 1 \in Nat /\ Bad \in SUBSET (1 .. Len(t) + 1)
    OBVIOUS
  <1>3. PICK m \in Bad : \A k \in Bad : k <= m
    BY <1>1, <1>2, LastPlace
  <1>4. m \in 1 .. Len(t) + 1 /\ ~\E X : Lexical!TokensFrom(t)[m] \in Seq(X)
    OBVIOUS
  <1>5. ASSUME NEW k \in m + 1 .. Len(t) + 1 PROVE \E X : Lexical!TokensFrom(t)[k] \in Seq(X)
    <2>1. k \in 1 .. Len(t) + 1 /\ ~(k <= m)
      BY <1>4
    <2>2. k \notin Bad
      BY <1>3, <2>1
    <2> QED
      BY <2>1, <2>2
  <1> HIDE DEF Bad
  <1> DEFINE f == Lexical!TokensFrom(t)
  <1>6. f[m] = NextBy(t, f, m)
    BY <1>4, TokensFromIs
  <1>7. \A x : \E X : <<x>> \in Seq(X)
    <2> TAKE x
    <2>1. <<x>> \in Seq({x})
      OBVIOUS
    <2> QED
      BY <2>1
  <1>8. m <= Len(t) /\ Lexical!Ends(t, m) # {}
    <2>1. SUFFICES ASSUME m > Len(t) \/ Lexical!Ends(t, m) = {} PROVE FALSE
      BY <1>4
    <2>2. \E x : f[m] = <<x>>
      BY <1>6, <2>1 DEF NextBy
    <2> QED
      BY <1>4, <1>7, <2>2
  <1> DEFINE q == Lexical!Longest(t, m)
             x == CHOOSE x \in Lexical!LexemesOf(SubSeq(t, m, q)) : TRUE
  <1>9. q + 1 \in m + 1 .. Len(t) + 1
    <2>1. m \in 1 .. Len(t)
      BY <1>4, <1>8
    <2>2. q \in m .. Len(t)
      BY <1>8, <2>1, LongestIs
    <2> QED
      BY <2>1, <2>2
  <1>10. PICK X : f[q + 1] \in Seq(X)
    BY <1>5, <1>9
  <1>11. f[m] = f[q + 1] \/ f[m] = <<x>> \o f[q + 1]
    <2>1. ~(m > Len(t))
      BY <1>4, <1>8
    <2> QED
      BY <1>6, <1>8, <2>1 DEF NextBy
  <1> HIDE DEF x, q, f
  <1>12. <<x>> \o f[q + 1] \in Seq(X \union {x})
    BY <1>10
  <1> QED
    BY <1>4, <1>10, <1>11, <1>12 DEF f

LEMMA RestIsSequence ==
    ASSUME Inv, NEW p \in 1 .. Len(source) + 1
    PROVE  \E X : Rest(p) \in Seq(X)
  BY TokensAreSequence DEF Rest, Inv, TypeOK

LEMMA BaredIsSequence == ASSUME Inv PROVE \E S : Bared \in Seq(S)
  <1> DEFINE n == Len(delivered)
             S == {Bare(delivered[i]) : i \in DOMAIN delivered}
  <1>1. n \in Nat /\ DOMAIN delivered = 1 .. n
    BY DEF Inv, TypeOK
  <1>2. Bared = [i \in 1 .. n |-> Bare(delivered[i])]
    BY <1>1 DEF Bared
  <1>3. Bared \in Seq(S)
    BY <1>1, <1>2
  <1> QED
    BY <1>3

(* One more token delivered. *)
LEMMA BaredAppends ==
    ASSUME Inv, NEW t, delivered' = Append(delivered, t)
    PROVE  /\ Bared' = Bared \o <<Bare(t)>>
           /\ Bared \in Seq({Bare(delivered[i]) : i \in DOMAIN delivered})
           /\ Stopped' <=> Final(t)
           /\ Len(Bared') = Len(Bared) + 1 /\ Bared'[Len(Bared) + 1] = Bare(t)
  <1> DEFINE n == Len(delivered)
             S == {Bare(delivered[i]) : i \in DOMAIN delivered}
             B == Bared
  <1>1. delivered \in Seq(Tokens) /\ n \in Nat /\ DOMAIN delivered = 1 .. n
    BY DEF Inv, TypeOK
  <1>2. B = [i \in 1 .. n |-> Bare(delivered[i])] /\ B \in Seq(S) /\ Len(B) = n
    BY <1>1 DEF Bared
  <1>3. /\ DOMAIN delivered' = 1 .. n + 1 /\ Len(delivered') = n + 1
        /\ \A i \in 1 .. n : delivered'[i] = delivered[i]
        /\ delivered'[n + 1] = t /\ delivered' # <<>>
    BY <1>1
  <1>4. Bared' = [i \in 1 .. n + 1 |-> Bare(delivered'[i])]
    BY <1>3 DEF Bared, Bare
  <1>5. Bared' = B \o <<Bare(t)>>
    <2> DEFINE C == B \o <<Bare(t)>>
    <2>1. C = [i \in 1 .. n + 1 |-> IF i <= n THEN B[i] ELSE Bare(t)]
      <3>1. C \in Seq(S \union {Bare(t)}) /\ Len(C) = n + 1 /\ DOMAIN C = 1 .. n + 1
        BY <1>2
      <3>2. \A i \in 1 .. n + 1 : C[i] = IF i <= n THEN B[i] ELSE Bare(t)
        BY <1>2
      <3> HIDE DEF C, B
      <3> QED
        BY <3>1, <3>2
    <2>2. \A i \in 1 .. n + 1 : Bare(delivered'[i]) = IF i <= n THEN B[i] ELSE Bare(t)
      BY <1>1, <1>2, <1>3
    <2> HIDE DEF B, C
    <2> QED
      BY <1>4, <2>1, <2>2 DEF C
  <1>6. Stopped' <=> Final(t)
    BY <1>1, <1>3 DEF Stopped, Final
  <1>7. Len(Bared') = n + 1 /\ Bared'[n + 1] = Bare(t)
    BY <1>1, <1>3, <1>4
  <1> QED
    BY <1>2, <1>5, <1>6, <1>7

LEMMA Catenation ==
    ASSUME NEW X, NEW Y, NEW a \in Seq(X), NEW x, NEW b \in Seq(Y)
    PROVE  /\ (a \o <<x>>) \o b = a \o (<<x>> \o b)
           /\ a \o <<>> = a
  <1> DEFINE S == X \union Y \union {x}
  <1>1. a \in Seq(S) /\ b \in Seq(S) /\ <<x>> \in Seq(S)
    OBVIOUS
  <1> HIDE DEF S
  <1> QED
    BY <1>1

(* When scan() goes on, or returns with the token of the word it was in, the  *)
(* scanner keeps track of the text.                                           *)
LEMMA AdvanceTracks ==
    ASSUME Inv, Inv', Tracks, mode # "idle", source' = source,
           \A s \in 1 .. position : ~Stopped /\ Begun(s) => Advances(s),
           Round \/ Return, WordsKnown
    PROVE  Tracks'
  <1>1. \A p : Rest(p)' = Rest(p)
    BY DEF Rest
  <1>2. position' \in 1 .. Len(source) + 1
    BY DEF Inv, InBounds
  <1>3. CASE Stopped
    <2>1. delivered' = delivered
      BY <1>3 DEF Round, Return, Finish, Record
    <2>2. Stopped' /\ Bared' = Bared
      BY <1>3, <2>1 DEF Stopped, Bared
    <2>3. kept' = kept /\ purpose' = purpose
      BY DEF Round, Return, Finish, call
    <2> QED
      BY <1>1, <1>3, <2>2, <2>3 DEF Tracks
  <1>4. CASE ~Stopped
    <2>1. PICK s \in 1 .. position : Begun(s) /\ Rest(1) = Bared \o Rest(s)
      BY <1>4 DEF Tracks
    <2>2. ahead.type = "UNKNOWN"
      BY <1>4 DEF Tracks
    <2>3. Advances(s)
      BY <1>4, <2>1
    <2>4. ASSUME mode' # "idle", UNCHANGED <<call, ahead, delivered>>,
                 NEW r \in 1 .. position', Begun(r)', Rest(r) = Rest(s)
          PROVE  Tracks'
      <3>1. ~Stopped' /\ Bared' = Bared /\ purpose' = purpose
        BY <1>4, <2>4 DEF Stopped, Bared, call
      <3>2. Rest(1)' = Bared' \o Rest(r)'
        BY <1>1, <2>1, <2>4, <3>1
      <3> QED
        BY <2>2, <2>4, <3>1, <3>2 DEF Tracks
    <2>5. ASSUME NEW type \in TokenType, NEW word \in Seq(Saved), Finish(type, word),
                 Rest(s) = Gives(Token(type, token.value \o word), position')
          PROVE  Tracks'
      <3> DEFINE t == Token(type, token.value \o word)
      <3>1. t.type = type
        BY DEF Token
      <3> HIDE DEF t
      <3>2. mode' = "idle" /\ (purpose = "next" \/ purpose = "ahead")
        BY <2>5 DEF Finish
      <3>3. CASE purpose = "next"
        <4>1. delivered' = Append(delivered, t) /\ ahead' = ahead
          BY <1>4, <2>5, <3>3 DEF Finish, Record, t
        <4>2. /\ Bared' = Bared \o <<Bare(t)>>
              /\ Bared \in Seq({Bare(delivered[i]) : i \in DOMAIN delivered})
              /\ Stopped' <=> Final(t)
          BY <4>1, BaredAppends
        <4>3. CASE Final(t)
          <5>1. Rest(s) = <<Bare(t)>>
            BY <2>5, <3>1, <4>3 DEF Final, Gives, Bare, t
          <5>2. Rest(1)' = Bared'
            BY <1>1, <2>1, <4>2, <5>1
          <5> QED
            BY <3>2, <4>2, <4>3, <5>2 DEF Tracks
        <4>4. CASE ~Final(t)
          <5>1. Rest(s) = <<t>> \o Rest(position') /\ Bare(t) = t
            BY <2>5, <3>1, <4>4 DEF Final, Gives, Bare, t
          <5>2. PICK X : Rest(position') \in Seq(X)
            BY <1>2, RestIsSequence
          <5>3. Rest(1) = Bared' \o Rest(position')
            <6>1. (Bared \o <<t>>) \o Rest(position') = Bared \o (<<t>> \o Rest(position'))
              BY <4>2, <5>2, Catenation
            <6> QED
              BY <2>1, <4>2, <5>1, <6>1
          <5>4. Rest(position)' = Rest(position')
            BY DEF Rest
          <5>5. Rest(1)' = Bared' \o Rest(position)'
            BY <1>1, <5>3, <5>4
          <5> QED
            BY <2>2, <3>2, <4>1, <4>2, <4>4, <5>5 DEF Tracks
        <4> QED
          BY <4>3, <4>4
      <3>4. CASE purpose = "ahead"
        <4>1. delivered' = delivered /\ ahead' = t
          BY <2>5, <3>3, <3>4 DEF Finish, t
        <4>2. ~Stopped' /\ Bared' = Bared
          BY <1>4, <4>1 DEF Stopped, Bared
        <4>3. t.type # "UNKNOWN"
          <5>1. SUFFICES ASSUME t.type = "UNKNOWN" PROVE FALSE
            OBVIOUS
          <5>2. Rest(1) = Bared \o <<NoToken>>
            BY <2>1, <2>5, <5>1 DEF Gives, t
          <5>3. source \in LooksAhead
            BY <3>4 DEF Tracks
          <5>4. PICK i \in DOMAIN Rest(1) : Rest(1)[i] = NoToken
            <6> DEFINE R == Bared \o <<NoToken>>
            <6>1. PICK S : Bared \in Seq(S)
              BY BaredIsSequence
            <6>2. Len(Bared) + 1 \in DOMAIN R /\ R[Len(Bared) + 1] = NoToken
              BY <6>1
            <6> QED
              BY <5>2, <6>2
          <5>5. Rest(1) = Lexical!TokensOf(source)
            BY DEF Rest, Lexical!TokensOf
          <5>6. NoToken.type = "UNKNOWN"
            BY DEF NoToken, Token
          <5> QED
            BY <5>3, <5>4, <5>5, <5>6 DEF WordsKnown
        <4>4. Rest(1) = Bared' \o Gives(t, position')
          BY <2>1, <2>5, <4>2 DEF t
        <4>5. Gives(t, position') = Gives(ahead, position)'
          BY <1>1, <4>1 DEF Gives, Rest
        <4>6. Rest(1)' = Bared' \o Gives(ahead, position)'
          BY <1>1, <4>4, <4>5
        <4> QED
          BY <3>2, <4>1, <4>2, <4>3, <4>6 DEF Tracks
      <3> QED
        BY <3>2, <3>3, <3>4
    <2> QED
      BY <2>3, <2>4, <2>5 DEF Advances
  <1> QED
    BY <1>3, <1>4

-------------------------------------------------------------------------------
(* One lemma per action of scan(): at the top of its loop.                   *)

LEMMA TextAt ==
    ASSUME Inv, NEW k \in 0 .. 3
    PROVE  /\ At(position + k) # NUL <=> position + k <= Len(source)
           /\ position + k <= Len(source) => At(position + k) = source[position + k]
                                             /\ position + k \in 1 .. Len(source)
           /\ At(position + k) = NUL => position + k > Len(source)
  <1>1. source \in Seq(Char) /\ position \in 1 .. Len(source) + 1 /\ Len(source) \in Nat
    BY DEF Inv, TypeOK, InBounds
  <1>2. NUL \notin Char
    BY SourceAssumption
  <1>3. position + k <= Len(source) => position + k \in 1 .. Len(source) /\ source[position + k] \in Char
    BY <1>1
  <1> QED
    BY <1>1, <1>2, <1>3 DEF At

LEMMA Here ==
    ASSUME Inv
    PROVE  /\ source \in Seq(Char) /\ position \in 1 .. Len(source) + 1 /\ Len(source) \in Nat
           /\ Current # NUL <=> position <= Len(source)
           /\ position <= Len(source) => Current = source[position] /\ position \in 1 .. Len(source)
           /\ Current = NUL => position = Len(source) + 1
  <1>1. source \in Seq(Char) /\ position \in 1 .. Len(source) + 1 /\ Len(source) \in Nat
    BY DEF Inv, TypeOK, InBounds
  <1>2. 0 \in 0 .. 3 /\ position + 0 = position
    BY <1>1
  <1>3. /\ Current # NUL <=> position <= Len(source)
        /\ position <= Len(source) => Current = source[position] /\ position \in 1 .. Len(source)
    BY <1>2, TextAt DEF Current
  <1> QED
    BY <1>1, <1>3

LEMMA GoesOn ==
    ASSUME NEW s, NEW m \in Modes \ {"idle"}, NEW word, Goto(m, word), source' = source,
           NEW r \in 1 .. position',
           BegunAs(source, m, delimiter, token.value \o word, r, position'), Rest(r) = Rest(s),
           token \in Tokens
    PROVE  Advances(s)
  <1>1. /\ mode' = m /\ m # "idle" /\ delimiter' = delimiter
        /\ UNCHANGED <<call, ahead, delivered>>
    BY DEF Goto
  <1>2. token'.value = token.value \o word
    BY DEF Goto, Tokens
  <1>3. Begun(r)'
    BY <1>1, <1>2 DEF Begun
  <1> QED
    BY <1>1, <1>3 DEF Advances

LEMMA HasToken ==
    ASSUME NEW s, NEW type \in TokenType \ {"UNKNOWN", "EOS"}, NEW word \in Seq(Saved),
           Finish(type, word), NEW v, v = token.value \o word,
           Rest(s) = <<Token(type, v)>> \o Rest(position')
    PROVE  Advances(s)
  <1> DEFINE t == Token(type, v)
  <1>1. t.type = type
    BY DEF Token
  <1>2. Rest(s) = Gives(t, position')
    BY <1>1 DEF Gives
  <1> QED
    BY <1>2 DEF Advances

LEMMA HasNone ==
    ASSUME NEW s, NEW word \in Seq(Saved), Finish("UNKNOWN", word), Rest(s) = <<NoToken>>
    PROVE  Advances(s)
  <1> DEFINE t == Token("UNKNOWN", token.value \o word)
  <1>1. t.type = "UNKNOWN"
    BY DEF Token
  <1>2. Rest(s) = Gives(t, position')
    BY <1>1 DEF Gives
  <1>3. "UNKNOWN" \in TokenType
    BY DEF TokenType
  <1> QED
    BY <1>2, <1>3 DEF Advances

(* At the top of the loop, the word begins here. *)
LEMMA AtTop ==
    ASSUME NEW s, Begun(s), mode = "scan"
    PROVE  /\ s = position /\ token.value = <<>>
           /\ \A w : w \in Seq(Saved) => token.value \o w = w
  BY DEF Begun, BegunAs

LEMMA TopRound ==
    ASSUME Inv, NEW s, Goto("scan", <<>>), source' = source, token.value = <<>>,
           position' \in Nat \ {0}, Rest(position') = Rest(s)
    PROVE  Advances(s)
  <1>1. position' \in 1 .. position' /\ token \in Tokens /\ "scan" \in Modes \ {"idle"}
    BY DEF Inv, TypeOK, Modes
  <1>2. BegunAs(source, "scan", delimiter, token.value \o <<>>, position', position')
    BY DEF BegunAs, WordModes
  <1> QED
    BY <1>1, <1>2, GoesOn

LEMMA EndAdvances ==
    ASSUME Inv, NEW s \in 1 .. position, Begun(s), ScanEnd
    PROVE  Advances(s)
  <1>1. mode = "scan" /\ Current = NUL /\ Finish("EOS", <<>>)
    BY DEF ScanEnd, Scanning
  <1>2. s = Len(source) + 1 /\ token.value = <<>>
    BY <1>1, AtTop, Here
  <1> DEFINE t == Token("EOS", token.value \o <<>>)
  <1>3. token.value \o <<>> = <<>> /\ t.type = "EOS"
    BY <1>2 DEF Token
  <1>4. Rest(s) = <<t>>
    BY <1>2, <1>3, Here, EndIsToken DEF Rest
  <1>5. Rest(s) = Gives(t, position')
    BY <1>3, <1>4 DEF Gives
  <1>6. "EOS" \in TokenType /\ <<>> \in Seq(Saved)
    BY DEF TokenType
  <1> QED
    BY <1>1, <1>5, <1>6 DEF Advances

LEMMA BlankRest ==
    ASSUME Inv, NEW p \in 1 .. Len(source), source[p] \in Blank
    PROVE  Rest(p) = Rest(p + 1)
  BY Here, BlankIsSkipped DEF Rest

LEMMA SpaceAdvances ==
    ASSUME Inv, NEW s \in 1 .. position, Begun(s), ScanSpace
    PROVE  Advances(s)
  <1>1. mode = "scan" /\ Current \in Blank /\ Read(1) /\ Goto("scan", <<>>)
    BY DEF ScanSpace, Scanning, Blank
  <1>2. Current # NUL
    BY <1>1, Disjoint, Zenon
  <1>3. s = position /\ token.value = <<>> /\ position' = position + 1 /\ source' = source
    BY <1>1, AtTop DEF Read, Goto, call
  <1>4. Rest(position) = Rest(position + 1)
    BY <1>1, <1>2, Here, BlankRest
  <1>5. position' \in Nat \ {0}
    BY <1>3, Here
  <1> QED
    BY <1>1, <1>3, <1>4, <1>5, TopRound

LEMMA NewLineAdvances ==
    ASSUME Inv, NEW s \in 1 .. position, Begun(s), ScanNewLine
    PROVE  Advances(s)
  <1>1. mode = "scan" /\ Current \in NewLineChar /\ NewLine /\ Goto("scan", <<>>)
    BY DEF ScanNewLine, Scanning
  <1>2. Current \in Blank /\ Current # NUL
    BY <1>1, Disjoint, Zenon DEF Blank
  <1>3. s = position /\ token.value = <<>> /\ source' = source
    BY <1>1, AtTop DEF Goto, call
  <1>4. Rest(position) = Rest(position + 1) /\ position \in Nat
    BY <1>2, Here, BlankRest
  <1>5. \/ position' = position + 1
        \/ position' = position + 2 /\ At(position + 1) \in NewLineChar
    BY <1>1 DEF NewLine, NewLineChar
  <1>6. CASE position' = position + 2 /\ At(position + 1) \in NewLineChar
    <2>1. At(position + 1) # NUL /\ At(position + 1) \in Blank
      BY <1>6, Disjoint, Zenon DEF Blank
    <2>2. position + 1 \in 1 .. Len(source) /\ source[position + 1] \in Blank
      BY <2>1, TextAt, Offsets
    <2>3. Rest(position + 1) = Rest(position + 1 + 1)
      BY <2>2, BlankRest
    <2>4. position + 1 + 1 = position' /\ position' \in Nat \ {0}
      BY <1>4, <1>6
    <2> QED
      BY <1>1, <1>3, <1>4, <2>3, <2>4, TopRound
  <1>7. CASE position' = position + 1
    <2>1. position' \in Nat \ {0}
      BY <1>4, <1>7
    <2> QED
      BY <1>1, <1>3, <1>4, <1>7, <2>1, TopRound
  <1> QED
    BY <1>5, <1>6, <1>7

LEMMA PairsShape == \A p \in Pairs : p = <<p[1], p[2], p[3]>>
  <1>1. \A p \in Pairs : \E c, d, n : p = <<c, d, n>>
    BY ZenonT(30) DEF Pairs
  <1> QED
    BY <1>1

LEMMA TableShape ==
    ASSUME NEW table, table = Firsts \/ table = Singles, NEW c, Has(table, c)
    PROVE  <<c, TypeIn(table, c)>> \in table
  <1> DEFINE e == CHOOSE e \in table : e[1] = c
  <1>1. e \in table /\ e[1] = c
    BY DEF Has
  <1>2. \A f \in Firsts \union Singles : \E d, n : f = <<d, n>>
    BY ZenonT(30) DEF Firsts, Singles
  <1>3. TypeIn(table, c) = e[2]
    BY DEF TypeIn
  <1> HIDE DEF e
  <1>4. e \in Firsts \union Singles
    BY <1>1
  <1>5. PICK d, n : e = <<d, n>>
    BY <1>2, <1>4
  <1>6. e = <<c, TypeIn(table, c)>>
    BY <1>1, <1>3, <1>5
  <1> QED
    BY <1>1, <1>6

LEMMA TableHas ==
    ASSUME NEW table, NEW c, NEW n, <<c, n>> \in table
    PROVE  Has(table, c)
  <1>1. <<c, n>>[1] = c
    OBVIOUS
  <1> QED
    BY <1>1 DEF Has

LEMMA DotAndSlash ==
    /\ \A n : <<".", n>> \notin Firsts \union Singles /\ <<"/", n>> \notin Firsts \union Singles
    /\ \A d, n : <<".", d, n>> \notin Pairs /\ <<"/", d, n>> \notin Pairs
    /\ <<".", "DOT">> \in Ones /\ <<"/", "DIV">> \in Ones
  <1>1. \A n : <<".", n>> \notin Firsts \union Singles /\ <<"/", n>> \notin Firsts \union Singles
    BY ZenonT(30) DEF Firsts, Singles
  <1>2. \A d, n : <<".", d, n>> \notin Pairs /\ <<"/", d, n>> \notin Pairs
    BY ZenonT(30) DEF Pairs
  <1>3. <<".", "DOT">> \in Ones /\ <<"/", "DIV">> \in Ones
    BY Zenon DEF Ones
  <1> QED
    BY <1>1, <1>2, <1>3

LEMMA SlashAdvances ==
    ASSUME Inv, NEW s \in 1 .. position, Begun(s), ScanSlash
    PROVE  Advances(s)
  <1>1. mode = "scan" /\ Current = "/" /\ Current # NUL
    BY DEF ScanSlash, Scanning, NUL
  <1>2. s = position /\ token.value = <<>> /\ s \in 1 .. Len(source) /\ source[s] = "/"
    BY <1>1, AtTop, Here
  <1>3. source \in Seq(Char) /\ Len(source) \in Nat /\ token \in Tokens
    BY Here DEF Inv, TypeOK
  <1>4. /\ At(s + 1) # NUL <=> s + 1 <= Len(source)
        /\ s + 1 <= Len(source) => At(s + 1) = source[s + 1]
    BY <1>2, TextAt, Offsets
  <1>5. "/" # NUL /\ "*" # NUL
    BY DEF NUL
  <1>6. "/" \notin NewLineChar
    BY SlashBegins DEF Blank
  <1>7. ASSUME At(s + 1) = "/", Read(2), Goto("lineComment", <<>>) PROVE Advances(s)
    <2>1. position' = s + 2 /\ s \in 1 .. position' /\ source' = source
      BY <1>2, <1>7 DEF Read, Goto, call
    <2>2. source[s + 1] = "/" /\ \A i \in s .. s + 2 - 1 : i = s \/ i = s + 1
      BY <1>2, <1>4, <1>5, <1>7
    <2>3. BegunAs(source, "lineComment", delimiter, token.value \o <<>>, s, position')
      BY <1>2, <1>6, <2>1, <2>2 DEF BegunAs, WordModes
    <2>4. "lineComment" \in Modes \ {"idle"}
      BY DEF Modes
    <2> QED
      BY <1>3, <1>7, <2>1, <2>3, <2>4, GoesOn
  <1>8. ASSUME At(s + 1) = "*", Read(2), Goto("sectionComment", <<>>) PROVE Advances(s)
    <2>1. position' = s + 2 /\ s \in 1 .. position' /\ source' = source
      BY <1>2, <1>8 DEF Read, Goto, call
    <2>2. source[s + 1] = "*" /\ s + 2 .. s + 2 - 1 = {}
      BY <1>2, <1>4, <1>5, <1>8
    <2>3. BegunAs(source, "sectionComment", delimiter, token.value \o <<>>, s, position')
      BY <1>2, <2>1, <2>2 DEF BegunAs, WordModes
    <2>4. "sectionComment" \in Modes \ {"idle"}
      BY DEF Modes
    <2> QED
      BY <1>3, <1>8, <2>1, <2>3, <2>4, GoesOn
  <1>9. ASSUME At(s + 1) \notin {"/", "*"}, Read(1), Finish("DIV", <<"/">>) PROVE Advances(s)
    <2>1. s = Len(source) \/ source[s + 1] \notin {"/", "*"}
      BY <1>2, <1>4, <1>9
    <2>2. NoPair(source, s)
      BY <1>2, DotAndSlash DEF NoPair
    <2>3. <<source[s], "DIV">> \in Ones
      BY <1>2, DotAndSlash
    <2>4. Lexical!TokensFrom(source)[s]
             = <<Token("DIV", <<source[s]>>)>> \o Lexical!TokensFrom(source)[s + 1]
      BY <1>2, <1>3, <2>1, <2>2, <2>3, OneIsToken
    <2>5. Rest(s) = <<Token("DIV", <<"/">>)>> \o Rest(position')
      BY <1>2, <1>9, <2>4 DEF Rest, Read
    <2>6. "DIV" \in TokenType \ {"UNKNOWN", "EOS"} /\ <<"/">> \in Seq(Saved)
      BY <1>1, Facts DEF TokenType
    <2>7. <<"/">> = token.value \o <<"/">>
      BY <1>2
    <2> QED
      BY <1>9, <2>5, <2>6, <2>7, HasToken
  <1> QED
    BY <1>1, <1>2, <1>7, <1>8, <1>9 DEF ScanSlash

LEMMA NotEnds ==
    /\ \A p \in Pairs : p[3] \in TokenType \ {"UNKNOWN", "EOS"}
    /\ \A e \in Firsts \union Singles : e[2] \in TokenType \ {"UNKNOWN", "EOS"}
  <1>1. \A c, d, n : <<c, d, n>> \in Pairs => n # "UNKNOWN" /\ n # "EOS"
    BY ZenonT(30) DEF Pairs
  <1>2. \A c, n : <<c, n>> \in Firsts \union Singles => n # "UNKNOWN" /\ n # "EOS"
    BY ZenonT(30) DEF Firsts, Singles
  <1>3. \A e \in Firsts \union Singles : \E d, n : e = <<d, n>>
    BY ZenonT(30) DEF Firsts, Singles
  <1>4. \A p \in Pairs : p[3] # "UNKNOWN" /\ p[3] # "EOS"
    BY <1>1, PairsShape
  <1>5. \A e \in Firsts \union Singles : e[2] # "UNKNOWN" /\ e[2] # "EOS"
    BY <1>2, <1>3
  <1>6. \A p \in Pairs : p[3] \in TokenType
    BY DEF TokenType
  <1>7. \A e \in Firsts \union Singles : e[2] \in TokenType
    BY DEF TokenType
  <1> QED
    BY <1>4, <1>5, <1>6, <1>7

LEMMA OperatorAdvances ==
    ASSUME Inv, NEW s \in 1 .. position, Begun(s), ScanOperator
    PROVE  Advances(s)
  <1> DEFINE second == At(position + 1)
             pairs == {p \in Pairs : p[1] = Current /\ p[2] = second}
  <1>1. mode = "scan" /\ Has(Firsts, Current)
    BY DEF ScanOperator
  <1>2. <<Current, TypeIn(Firsts, Current)>> \in Firsts
    BY <1>1, TableShape
  <1>3. <<Current, TypeIn(Firsts, Current)>> \in Ones
    BY <1>2, Zenon DEF Ones
  <1>4. Current # NUL /\ Current # "." /\ Current # "/"
    <2>1. Current \notin {NUL}
      BY <1>3, OnesAre, Zenon
    <2> QED
      BY <1>2, <2>1, DotAndSlash
  <1>5. s = position /\ token.value = <<>> /\ s \in 1 .. Len(source) /\ source[s] = Current
    BY <1>1, <1>4, AtTop, Here
  <1>6. source \in Seq(Char) /\ Len(source) \in Nat
    BY Here
  <1>7. /\ second # NUL <=> s + 1 <= Len(source)
        /\ s + 1 <= Len(source) => second = source[s + 1]
    BY <1>5, TextAt, Offsets
  <1>8. ASSUME pairs # {}, Read(2), Finish((CHOOSE p \in pairs : TRUE)[3], <<Current, second>>)
        PROVE  Advances(s)
    <2> DEFINE pair == CHOOSE p \in pairs : TRUE
               n == pair[3]
    <2>1. pair \in Pairs /\ pair[1] = Current /\ pair[2] = second
      BY <1>8
    <2> HIDE DEF pair
    <2>2. <<Current, second, n>> \in Pairs
      BY <2>1, PairsShape
    <2>3. second # NUL
      BY <2>2, PairsAre, Zenon
    <2>4. s < Len(source) /\ second = source[s + 1]
      BY <1>5, <1>6, <1>7, <2>3
    <2>5. Lexical!TokensFrom(source)[s]
             = <<Token(n, <<source[s], source[s + 1]>>)>> \o Lexical!TokensFrom(source)[s + 2]
      BY <1>5, <1>6, <2>2, <2>4, PairIsToken
    <2>6. position' = s + 2
      BY <1>5, <1>8 DEF Read
    <2>7. Rest(s) = <<Token(n, <<Current, second>>)>> \o Rest(position')
      BY <1>5, <2>4, <2>5, <2>6 DEF Rest
    <2>8. n \in TokenType \ {"UNKNOWN", "EOS"}
      BY <2>1, NotEnds
    <2>9. <<Current, second>> \in Seq(Saved)
      BY <1>4, <2>3, Facts, Offsets
    <2>10. <<Current, second>> = token.value \o <<Current, second>>
      BY <1>5, <2>9
    <2> QED
      BY <1>8, <2>7, <2>8, <2>9, <2>10, HasToken DEF pair
  <1>9. ASSUME pairs = {}, Read(1), Finish(TypeIn(Firsts, Current), <<Current>>)
        PROVE  Advances(s)
    <2> DEFINE n == TypeIn(Firsts, Current)
    <2>1. NoPair(source, s)
      <3> SUFFICES ASSUME s < Len(source), NEW m, <<source[s], source[s + 1], m>> \in Pairs PROVE FALSE
        BY <1>4, <1>5 DEF NoPair
      <3>1. second = source[s + 1]
        BY <1>5, <1>6, <1>7
      <3> DEFINE p == <<Current, second, m>>
      <3>2. p \in Pairs /\ p[1] = Current /\ p[2] = second
        BY <1>5, <3>1
      <3> QED
        BY <1>9, <3>2
    <2>2. Lexical!TokensFrom(source)[s] = <<Token(n, <<source[s]>>)>> \o Lexical!TokensFrom(source)[s + 1]
      BY <1>3, <1>4, <1>5, <1>6, <2>1, OneIsToken
    <2>3. position' = s + 1
      BY <1>5, <1>9 DEF Read
    <2>4. Rest(s) = <<Token(n, <<Current>>)>> \o Rest(position')
      BY <1>5, <2>2, <2>3 DEF Rest
    <2>5. n \in TokenType \ {"UNKNOWN", "EOS"}
      <3>1. <<Current, n>>[2] = n
        OBVIOUS
      <3> QED
        BY <1>2, <3>1, NotEnds
    <2>6. <<Current>> \in Seq(Saved)
      BY <1>4, Facts
    <2>7. <<Current>> = token.value \o <<Current>>
      BY <1>5, <2>6
    <2> QED
      BY <1>9, <2>4, <2>5, <2>6, <2>7, HasToken
  <1> QED
    BY <1>8, <1>9 DEF ScanOperator

LEMMA DotsAdvance ==
    ASSUME Inv, NEW s \in 1 .. position, Begun(s), ScanDots
    PROVE  Advances(s)
  <1>1. mode = "scan" /\ Current = "." /\ Current # NUL /\ "." # NUL
    BY DEF ScanDots, Scanning, NUL
  <1>2. s = position /\ token.value = <<>> /\ s \in 1 .. Len(source) /\ source[s] = "."
    BY <1>1, AtTop, Here
  <1>3. source \in Seq(Char) /\ Len(source) \in Nat
    BY Here
  <1>4. /\ At(s + 1) # NUL <=> s + 1 <= Len(source)
        /\ s + 1 <= Len(source) => At(s + 1) = source[s + 1]
        /\ At(s + 2) # NUL <=> s + 2 <= Len(source)
        /\ s + 2 <= Len(source) => At(s + 2) = source[s + 2]
    BY <1>2, TextAt, Offsets
  <1>5. "." \in Saved
    BY <1>1, Facts
  <1>6. {"DOT", "DOT2", "DOT3"} \subseteq TokenType \ {"UNKNOWN", "EOS"}
    BY DEF TokenType
  <1>7. ASSUME At(s + 1) # ".", Read(1), Finish("DOT", <<".">>) PROVE Advances(s)
    <2>1. NoPair(source, s)
      <3>1. \A n : <<source[s], source[s + 1], n>> \notin Pairs
        BY <1>2, DotAndSlash
      <3>2. s < Len(source) => source[s + 1] # "."
        BY <1>2, <1>3, <1>4, <1>7
      <3> QED
        BY <3>1, <3>2 DEF NoPair
    <2>2. <<source[s], "DOT">> \in Ones
      BY <1>2, DotAndSlash
    <2>3. Lexical!TokensFrom(source)[s] = <<Token("DOT", <<source[s]>>)>> \o Lexical!TokensFrom(source)[s + 1]
      BY <1>2, <1>3, <2>1, <2>2, OneIsToken
    <2>4. Rest(s) = <<Token("DOT", <<".">>)>> \o Rest(position')
      BY <1>2, <1>7, <2>3 DEF Rest, Read
    <2>5. <<".">> = token.value \o <<".">> /\ <<".">> \in Seq(Saved)
      BY <1>2, <1>5
    <2> QED
      BY <1>6, <1>7, <2>4, <2>5, HasToken
  <1>8. ASSUME At(s + 1) = ".", At(s + 2) # ".", Read(2), Finish("DOT2", <<".", ".">>) PROVE Advances(s)
    <2>1. s < Len(source) /\ source[s + 1] = "."
      BY <1>1, <1>2, <1>3, <1>4, <1>8
    <2>2. s + 1 = Len(source) \/ source[s + 2] # "."
      BY <1>2, <1>3, <1>4, <1>8, <2>1
    <2>3. Lexical!TokensFrom(source)[s]
             = <<Token("DOT2", <<source[s], source[s + 1]>>)>> \o Lexical!TokensFrom(source)[s + 2]
      BY <1>2, <1>3, <2>1, <2>2, PairIsToken
    <2>4. Rest(s) = <<Token("DOT2", <<".", ".">>)>> \o Rest(position')
      BY <1>2, <1>8, <2>1, <2>3 DEF Rest, Read
    <2>5. <<".", ".">> = token.value \o <<".", ".">> /\ <<".", ".">> \in Seq(Saved)
      BY <1>2, <1>5
    <2> QED
      BY <1>6, <1>8, <2>4, <2>5, HasToken
  <1>9. ASSUME At(s + 1) = ".", At(s + 2) = ".", Read(3), Finish("DOT3", <<".", ".", ".">>) PROVE Advances(s)
    <2>1. s + 2 <= Len(source) /\ source[s + 1] = "." /\ source[s + 2] = "."
      BY <1>1, <1>2, <1>3, <1>4, <1>9
    <2>2. Lexical!TokensFrom(source)[s]
             = <<Token("DOT3", <<".", ".", ".">>)>> \o Lexical!TokensFrom(source)[s + 3]
      BY <1>2, <1>3, <2>1, DotsAreToken
    <2>3. Rest(s) = <<Token("DOT3", <<".", ".", ".">>)>> \o Rest(position')
      BY <1>2, <1>9, <2>2 DEF Rest, Read
    <2>4. <<".", ".", ".">> = token.value \o <<".", ".", ".">> /\ <<".", ".", ".">> \in Seq(Saved)
      BY <1>2, <1>5
    <2> QED
      BY <1>6, <1>9, <2>3, <2>4, HasToken
  <1> QED
    BY <1>2, <1>7, <1>8, <1>9 DEF ScanDots

LEMMA SingleAdvances ==
    ASSUME Inv, NEW s \in 1 .. position, Begun(s), ScanSingle
    PROVE  Advances(s)
  <1> DEFINE type == IF Has(Singles, Current) THEN TypeIn(Singles, Current) ELSE "UNKNOWN"
  <1>1. /\ mode = "scan" /\ ~Has(Firsts, Current) /\ Read(1) /\ Finish(type, <<Current>>)
        /\ Current \notin UNION {{NUL, "/", "."}, NewLineChar, Space, Digit, Quote, Letter}
    BY DEF ScanSingle
  <1>2. /\ Current # NUL /\ Current # "/" /\ Current # "."
        /\ Current \notin Letter \union Digit \union Quote \union Blank
    BY <1>1 DEF Blank
  <1>3. s = position /\ token.value = <<>> /\ s \in 1 .. Len(source) /\ source[s] = Current
    BY <1>1, <1>2, AtTop, Here
  <1>4. source \in Seq(Char) /\ Len(source) \in Nat
    BY Here
  <1>5. position' = s + 1
    BY <1>1, <1>3 DEF Read
  <1>6. <<Current>> = token.value \o <<Current>> /\ <<Current>> \in Seq(Saved)
    <2>1. <<Current>> \in Seq(Saved)
      BY <1>2, Facts
    <2> QED
      BY <1>3, <2>1
  <1>7. CASE Has(Singles, Current)
    <2> DEFINE n == TypeIn(Singles, Current)
    <2>1. <<Current, n>> \in Singles
      BY <1>7, TableShape
    <2>2. <<Current, n>> \in Ones
      BY <2>1, Zenon DEF Ones
    <2>3. \A d, m : <<Current, d, m>> \notin Pairs
      BY <1>1, PairsAre, TableHas, Zenon
    <2>4. NoPair(source, s)
      BY <1>2, <1>3, <2>3 DEF NoPair
    <2>5. Lexical!TokensFrom(source)[s] = <<Token(n, <<source[s]>>)>> \o Lexical!TokensFrom(source)[s + 1]
      BY <1>2, <1>3, <1>4, <2>2, <2>4, OneIsToken
    <2>6. Rest(s) = <<Token(n, <<Current>>)>> \o Rest(position')
      BY <1>3, <1>5, <2>5 DEF Rest
    <2>7. n \in TokenType \ {"UNKNOWN", "EOS"}
      <3>1. <<Current, n>>[2] = n
        OBVIOUS
      <3> QED
        BY <2>1, <3>1, NotEnds
    <2>8. Finish(n, <<Current>>)
      BY <1>1, <1>7
    <2> QED
      BY <1>6, <2>6, <2>7, <2>8, HasToken
  <1>8. CASE ~Has(Singles, Current)
    <2>1. \A n : <<Current, n>> \notin Ones
      <3> SUFFICES ASSUME NEW n, <<Current, n>> \in Ones PROVE FALSE
        OBVIOUS
      <3>1. <<Current, n>> \notin Singles /\ <<Current, n>> \notin Firsts
        BY <1>1, <1>8, TableHas
      <3>2. <<Current, n>> = <<"/", "DIV">> \/ <<Current, n>> = <<".", "DOT">>
        BY <3>1, Zenon DEF Ones
      <3> QED
        BY <1>2, <3>2
    <2>2. Rest(s) = <<NoToken>>
      BY <1>2, <1>3, <1>4, <2>1, NothingIsUnknown DEF Rest
    <2>3. Finish("UNKNOWN", <<Current>>)
      BY <1>1, <1>8
    <2> QED
      BY <1>6, <2>2, <2>3, HasNone
  <1> QED
    BY <1>7, <1>8

LEMMA NumberAdvances ==
    ASSUME Inv, NEW s \in 1 .. position, Begun(s), ScanNumber
    PROVE  Advances(s)
  <1> DEFINE second == At(position + 1)
  <1>1. mode = "scan" /\ Current \in Digit
    BY DEF ScanNumber, Scanning
  <1>2. Current # NUL
    BY <1>1, NotDigits
  <1>3. s = position /\ token.value = <<>> /\ s \in 1 .. Len(source) /\ source[s] = Current
    BY <1>1, <1>2, AtTop, Here
  <1>4. source \in Seq(Char) /\ Len(source) \in Nat /\ token \in Tokens
    BY Here DEF Inv, TypeOK
  <1>5. /\ second # NUL <=> s + 1 <= Len(source)
        /\ s + 1 <= Len(source) => second = source[s + 1]
    BY <1>3, TextAt, Offsets
  <1>6. ASSUME NEW m \in {"binary", "hex"}, second # NUL, Read(2), Goto(m, <<Current, second>>),
               second \in IF m = "binary" THEN {"b", "B"} ELSE {"x", "X"}
        PROVE  Advances(s)
    <2>1. s + 1 \in s .. Len(source) /\ source[s + 1] = second /\ s + 1 \in 1 .. Len(source)
      BY <1>3, <1>4, <1>5, <1>6
    <2>2. position' = s + 2 /\ s \in 1 .. position' /\ source' = source /\ s + 2 - 1 = s + 1
      BY <1>3, <1>6 DEF Read, Goto, call
    <2>3. <<Current, second>> \in Seq(Saved)
      BY <1>2, <1>6, Facts, Offsets
    <2>4. token.value \o <<Current, second>> = SubSeq(source, s, s + 1)
      <3>1. token.value \o <<Current, second>> = <<Current, second>>
        BY <1>3, <2>3
      <3> DEFINE w == SubSeq(source, s, s + 1)
      <3>2. w \in Seq(Char) /\ Len(w) = s + 1 - s + 1 /\ w[1] = source[s]
            /\ \A i \in s .. s + 1 : w[i - s + 1] = source[i]
        BY <1>3, <1>4, <2>1, SpanIs, ShiftIs
      <3>3. s + 1 - s + 1 = 2 /\ s + 1 \in s .. s + 1
        BY <1>3
      <3>4. w[2] = source[s + 1] /\ Len(w) = 2
        BY <3>2, <3>3
      <3> HIDE DEF w
      <3>5. w = <<source[s], source[s + 1]>>
        BY <3>2, <3>4
      <3> QED
        BY <1>3, <2>1, <3>1, <3>5 DEF w
    <2>5. s + 2 .. s + 1 = {} /\ s + 1 > s /\ s < s + 2
      BY <1>3
    <2>6. BegunAs(source, m, delimiter, token.value \o <<Current, second>>, s, position')
      <3>1. source[s] \in Digit
        BY <1>1, <1>3
      <3>2. m = "binary" => BinaryAt(source, s, s + 1)
        BY <1>6, <2>1, <2>5 DEF BinaryAt
      <3>3. m = "hex" => HexadecimalAt(source, s, s + 1)
        BY <1>6, <2>1, <2>5 DEF HexadecimalAt
      <3>4. m # "scan" /\ m # "decimal" /\ m # "fraction" /\ m # "identifier" /\ m # "string"
            /\ m # "lineComment" /\ m # "sectionComment"
        OBVIOUS
      <3>5. position' - 1 = s + 1 /\ s < position'
        BY <2>2, <2>5
      <3> DEFINE v == token.value \o <<Current, second>>
      <3>6. v = SubSeq(source, s, position' - 1)
        BY <2>4, <3>5
      <3> HIDE DEF v
      <3>7. BegunAs(source, m, delimiter, v, s, position')
        BY <3>1, <3>2, <3>3, <3>4, <3>5, <3>6 DEF BegunAs
      <3> QED
        BY <3>7 DEF v
    <2>7. m \in Modes \ {"idle"}
      BY <1>6 DEF Modes
    <2> QED
      BY <1>4, <1>6, <2>2, <2>6, <2>7, GoesOn
  <1>7. ASSUME second \notin {"b", "B", "x", "X"}, Read(1), Goto("decimal", <<Current>>)
        PROVE  Advances(s)
    <2>1. position' = s + 1 /\ s \in 1 .. position' /\ source' = source /\ s + 1 - 1 = s
      BY <1>3, <1>7 DEF Read, Goto, call
    <2>2. token.value \o <<Current>> = SubSeq(source, s, s)
      <3>1. <<Current>> \in Seq(Saved)
        BY <1>2, Facts
      <3>2. token.value \o <<Current>> = <<Current>>
        BY <1>3, <3>1
      <3>3. SubSeq(source, s, s) = <<source[s]>>
        BY <1>3, <1>4, SpanOfOne
      <3> QED
        BY <1>3, <3>2, <3>3
    <2>3. DecimalAt(source, s, s)
      <3>1. \A i \in s .. s : i = s
        BY <1>3
      <3> QED
        BY <1>1, <1>3, <3>1 DEF DecimalAt
    <2>4. s = Len(source) \/ source[s + 1] \notin {"b", "B", "x", "X"}
      BY <1>3, <1>4, <1>5, <1>7
    <2>5. BegunAs(source, "decimal", delimiter, token.value \o <<Current>>, s, position')
      BY <1>3, <2>1, <2>2, <2>3, <2>4 DEF BegunAs, WordModes
    <2>6. "decimal" \in Modes \ {"idle"}
      BY DEF Modes
    <2> QED
      BY <1>4, <1>7, <2>1, <2>5, <2>6, GoesOn
  <1>8. NUL \notin {"b", "B", "x", "X"}
    BY DEF NUL
  <1>9. ASSUME second \in {"b", "B"}, Read(2), Goto("binary", <<Current, second>>) PROVE Advances(s)
    <2>1. second # NUL /\ second \in IF "binary" = "binary" THEN {"b", "B"} ELSE {"x", "X"}
      BY <1>8, <1>9
    <2> QED
      BY <1>6, <1>9, <2>1
  <1>10. ASSUME second \in {"x", "X"}, Read(2), Goto("hex", <<Current, second>>) PROVE Advances(s)
    <2>1. second # NUL /\ second \in IF "hex" = "binary" THEN {"b", "B"} ELSE {"x", "X"}
      BY <1>8, <1>10
    <2> QED
      BY <1>6, <1>10, <2>1
  <1> QED
    BY <1>7, <1>9, <1>10 DEF ScanNumber

LEMMA LetterAdvances ==
    ASSUME Inv, NEW s \in 1 .. position, Begun(s), ScanLetter
    PROVE  Advances(s)
  <1>1. mode = "scan" /\ Current \in Letter /\ Read(1) /\ Goto("identifier", <<Current>>)
    BY DEF ScanLetter, Scanning
  <1>2. Current # NUL
    BY <1>1, NotDigits
  <1>3. s = position /\ token.value = <<>> /\ s \in 1 .. Len(source) /\ source[s] = Current
    BY <1>1, <1>2, AtTop, Here
  <1>4. source \in Seq(Char) /\ token \in Tokens
    BY Here DEF Inv, TypeOK
  <1>5. position' = s + 1 /\ s \in 1 .. position' /\ source' = source /\ s + 1 - 1 = s
    BY <1>1, <1>3 DEF Read, Goto, call
  <1>6. token.value \o <<Current>> = SubSeq(source, s, s)
    <2>1. <<Current>> \in Seq(Saved)
      BY <1>2, Facts
    <2>2. token.value \o <<Current>> = <<Current>>
      BY <1>3, <2>1
    <2>3. SubSeq(source, s, s) = <<source[s]>>
      BY <1>3, <1>4, SpanOfOne
    <2> QED
      BY <1>3, <2>2, <2>3
  <1>7. \A i \in s .. s : i = s
    BY <1>3
  <1>8. BegunAs(source, "identifier", delimiter, token.value \o <<Current>>, s, position')
    BY <1>1, <1>3, <1>5, <1>6, <1>7 DEF BegunAs, WordModes
  <1>9. "identifier" \in Modes \ {"idle"}
    BY DEF Modes
  <1> QED
    BY <1>1, <1>4, <1>5, <1>8, <1>9, GoesOn

LEMMA QuoteAdvances ==
    ASSUME Inv, NEW s \in 1 .. position, Begun(s), ScanQuote
    PROVE  Advances(s)
  <1>1. mode = "scan" /\ Current \in Quote /\ Read(1) /\ delimiter' = Current /\ mode' = "string"
        /\ UNCHANGED <<call, token, ahead, delivered>>
    BY DEF ScanQuote, Scanning
  <1>2. Current # NUL
    BY <1>1, Disjoint, Zenon
  <1>3. s = position /\ token.value = <<>> /\ s \in 1 .. Len(source) /\ source[s] = Current
    BY <1>1, <1>2, AtTop, Here
  <1>4. source \in Seq(Char)
    BY Here
  <1>5. position' = s + 1 /\ s \in 1 .. position' /\ source' = source /\ s < s + 1
    BY <1>1, <1>3 DEF Read, call
  <1>6. StringSoFar(source, s, s + 1, <<>>)
    BY <1>1, <1>3, <1>4, StringBegins
  <1>7. BegunAs(source, "string", Current, <<>>, s, s + 1)
    BY <1>3, <1>5, <1>6 DEF BegunAs, WordModes
  <1>8. Begun(s)'
    BY <1>1, <1>3, <1>5, <1>7 DEF Begun
  <1> QED
    BY <1>1, <1>5, <1>8 DEF Advances

-------------------------------------------------------------------------------
(* The loops of scan_number and scan_identifier.                             *)

LEMMA SpanGrows ==
    ASSUME NEW t \in Seq(Char), NEW s \in 1 .. Len(t), NEW p \in s + 1 .. Len(t)
    PROVE  SubSeq(t, s, p - 1) \o <<t[p]>> = SubSeq(t, s, p)
  <1> DEFINE v == SubSeq(t, s, p - 1)
             w == SubSeq(t, s, p)
             n == p - s
  <1>1. p - 1 \in s .. Len(t) /\ p \in s .. Len(t) /\ p - 1 - s + 1 = n /\ p - s + 1 = n + 1 /\ n \in Nat
    OBVIOUS
  <1>2. v \in Seq(Char) /\ Len(v) = n /\ \A i \in 1 .. n : v[i] = t[s + i - 1]
    BY <1>1, SpanIs
  <1>3. w \in Seq(Char) /\ Len(w) = n + 1 /\ \A i \in 1 .. n + 1 : w[i] = t[s + i - 1]
    BY <1>1, SpanIs
  <1>4. t[p] \in Char /\ s + (n + 1) - 1 = p
    BY <1>1
  <1> HIDE DEF v, w, n
  <1>5. Append(v, t[p]) = w
    <2> DEFINE u == Append(v, t[p])
    <2>1. u \in Seq(Char) /\ Len(u) = n + 1
      BY <1>1, <1>2, <1>4
    <2>2. ASSUME NEW i \in 1 .. n + 1 PROVE u[i] = w[i]
      <3>1. CASE i = n + 1
        <4>1. u[n + 1] = t[p]
          BY <1>1, <1>2, <1>4
        <4>2. w[n + 1] = t[s + (n + 1) - 1]
          BY <1>1, <1>3
        <4> HIDE DEF u
        <4> QED
          BY <1>4, <3>1, <4>1, <4>2
      <3>2. CASE i \in 1 .. n
        <4>1. u[i] = v[i]
          BY <1>1, <1>2, <3>2
        <4>2. v[i] = t[s + i - 1] /\ w[i] = t[s + i - 1]
          BY <1>2, <1>3, <3>2
        <4> HIDE DEF u
        <4> QED
          BY <4>1, <4>2
      <3> HIDE DEF u
      <3> QED
        BY <1>1, <3>1, <3>2
    <2> HIDE DEF u
    <2> QED
      BY <1>3, <2>1, <2>2, SeqEqual DEF u
  <1>6. v \o <<t[p]>> = Append(v, t[p])
    BY <1>2, <1>4, AppendIsConcat
  <1> QED
    BY <1>5, <1>6 DEF v, w

(* One more character of a word. *)
LEMMA WordRound ==
    ASSUME Inv, NEW s \in 1 .. position, Begun(s), mode \in WordModes, Current # NUL, position' = position + 1
    PROVE  /\ source \in Seq(Char) /\ s \in 1 .. Len(source) /\ position \in s + 1 .. Len(source)
           /\ source[position] = Current
           /\ token.value \o <<Current>> = SubSeq(source, s, position)
           /\ s \in 1 .. position' /\ s < position' /\ position' - 1 = position
           /\ \A i \in s .. position : i = position \/ i \in s .. position - 1
  <1>1. s < position /\ token.value = SubSeq(source, s, position - 1)
    BY DEF Begun, BegunAs
  <1>2. source \in Seq(Char) /\ position \in 1 .. Len(source) /\ source[position] = Current
    BY Here
  <1>3. s \in 1 .. Len(source) /\ position \in s + 1 .. Len(source)
    BY <1>1, <1>2
  <1>4. SubSeq(source, s, position - 1) \o <<source[position]>> = SubSeq(source, s, position)
    BY <1>2, <1>3, SpanGrows
  <1> QED
    BY <1>1, <1>2, <1>3, <1>4

(* The end of a word. *)
LEMMA WordReturn ==
    ASSUME Inv, NEW s \in 1 .. position, Begun(s), mode \in WordModes, UNCHANGED place
    PROVE  /\ source \in Seq(Char) /\ s \in 1 .. Len(source) /\ position - 1 \in s .. Len(source)
           /\ position - 1 + 1 = position /\ position' = position
           /\ position - 1 = Len(source) \/ source[position - 1 + 1] = Current
           /\ SubSeq(source, s, position - 1) = token.value \o <<>>
           /\ SubSeq(source, s, position - 1) = token.value
           /\ <<>> \in Seq(Saved)
  <1>1. s < position /\ token.value = SubSeq(source, s, position - 1)
    BY DEF Begun, BegunAs
  <1>2. source \in Seq(Char) /\ position \in 1 .. Len(source) + 1
        /\ (position <= Len(source) => Current = source[position])
    BY Here
  <1>3. s \in 1 .. Len(source) /\ position - 1 \in s .. Len(source) /\ position - 1 + 1 = position
        /\ (position - 1 = Len(source) \/ position <= Len(source))
    BY <1>1, <1>2
  <1>4. position' = position
    BY DEF place
  <1>5. token.value \in Seq(Saved)
    BY DEF Inv, TypeOK, Tokens
  <1>6. token.value \o <<>> = token.value
    BY <1>5
  <1> QED
    BY <1>1, <1>2, <1>3, <1>4, <1>6

LEMMA BinaryAdvances ==
    ASSUME Inv, NEW s \in 1 .. position, Begun(s), Binary
    PROVE  Advances(s)
  <1>1. mode = "binary" /\ mode \in WordModes /\ Loop(Bit, "INT_B")
    BY DEF Binary, WordModes
  <1>2. source[s] \in Digit /\ BinaryAt(source, s, position - 1)
    BY <1>1 DEF Begun, BegunAs
  <1>3. token \in Tokens
    BY DEF Inv, TypeOK
  <1>4. ASSUME Current \in Bit, Read(1), Goto(mode, <<Current>>) PROVE Advances(s)
    <2>1. Current # NUL
      BY <1>4, NotDigits
    <2>2. position' = position + 1 /\ source' = source
      BY <1>4 DEF Read, Goto, call
    <2>3. BinaryAt(source, s, position)
      <3>1. /\ source[position] = Current /\ s \in 1 .. Len(source) /\ position \in s + 1 .. Len(source)
            /\ \A i \in s .. position : i = position \/ i \in s .. position - 1
        BY <1>1, <2>1, <2>2, WordRound
      <3>2. \A i \in s + 2 .. position : i = position \/ i \in s + 2 .. position - 1
        BY <3>1
      <3>3. \A i \in s + 2 .. position : source[i] \in Bit
        BY <1>2, <1>4, <3>1, <3>2 DEF BinaryAt
      <3>4. position > s
        BY <3>1
      <3> QED
        BY <1>2, <3>3, <3>4 DEF BinaryAt
    <2> DEFINE v == token.value \o <<Current>>
    <2>4. v = SubSeq(source, s, position' - 1) /\ s < position' /\ position' - 1 = position
      BY <1>1, <2>1, <2>2, WordRound
    <2> HIDE DEF v
    <2>5. BegunAs(source, "binary", delimiter, v, s, position')
      BY <1>2, <2>3, <2>4 DEF BegunAs
    <2>6. "binary" \in Modes \ {"idle"} /\ s \in 1 .. position'
      BY <1>1, <2>1, <2>2, WordRound DEF Modes
    <2> QED
      BY <1>1, <1>3, <1>4, <2>2, <2>5, <2>6, GoesOn DEF v
  <1>5. ASSUME Current \notin Bit, UNCHANGED place, Finish("INT_B", <<>>) PROVE Advances(s)
    <2> DEFINE e == position - 1
    <2>1. /\ source \in Seq(Char) /\ s \in 1 .. Len(source) /\ e \in s .. Len(source)
          /\ e + 1 = position /\ position' = position
          /\ e = Len(source) \/ source[e + 1] = Current
          /\ SubSeq(source, s, e) = token.value \o <<>> /\ <<>> \in Seq(Saved)
      BY <1>1, <1>5, WordReturn
    <2>2. BinaryAt(source, s, e)
      BY <1>2
    <2> HIDE DEF e
    <2>3. Lexical!TokensFrom(source)[s]
             = <<Token("INT_B", SubSeq(source, s, e))>> \o Lexical!TokensFrom(source)[e + 1]
      BY <1>2, <1>5, <2>1, <2>2, BinaryIsToken
    <2>4. Rest(s) = <<Token("INT_B", SubSeq(source, s, e))>> \o Rest(position')
      BY <2>1, <2>3 DEF Rest
    <2>5. "INT_B" \in TokenType \ {"UNKNOWN", "EOS"}
      BY DEF TokenType
    <2> QED
      BY <1>5, <2>1, <2>4, <2>5, HasToken
  <1> QED
    BY <1>1, <1>4, <1>5 DEF Loop

LEMMA HexadecimalAdvances ==
    ASSUME Inv, NEW s \in 1 .. position, Begun(s), Hexadecimal
    PROVE  Advances(s)
  <1>1. mode = "hex" /\ mode \in WordModes /\ Loop(Hex, "INT_X")
    BY DEF Hexadecimal, WordModes
  <1>2. source[s] \in Digit /\ HexadecimalAt(source, s, position - 1)
    BY <1>1 DEF Begun, BegunAs
  <1>3. token \in Tokens
    BY DEF Inv, TypeOK
  <1>4. ASSUME Current \in Hex, Read(1), Goto(mode, <<Current>>) PROVE Advances(s)
    <2>1. Current # NUL
      BY <1>4, NotDigits
    <2>2. position' = position + 1 /\ source' = source
      BY <1>4 DEF Read, Goto, call
    <2>3. HexadecimalAt(source, s, position)
      <3>1. /\ source[position] = Current /\ s \in 1 .. Len(source) /\ position \in s + 1 .. Len(source)
            /\ \A i \in s .. position : i = position \/ i \in s .. position - 1
        BY <1>1, <2>1, <2>2, WordRound
      <3>2. \A i \in s + 2 .. position : i = position \/ i \in s + 2 .. position - 1
        BY <3>1
      <3>3. \A i \in s + 2 .. position : source[i] \in Hex
        BY <1>2, <1>4, <3>1, <3>2 DEF HexadecimalAt
      <3>4. position > s
        BY <3>1
      <3> QED
        BY <1>2, <3>3, <3>4 DEF HexadecimalAt
    <2> DEFINE v == token.value \o <<Current>>
    <2>4. v = SubSeq(source, s, position' - 1) /\ s < position' /\ position' - 1 = position
      BY <1>1, <2>1, <2>2, WordRound
    <2> HIDE DEF v
    <2>5. BegunAs(source, "hex", delimiter, v, s, position')
      BY <1>2, <2>3, <2>4 DEF BegunAs
    <2>6. "hex" \in Modes \ {"idle"} /\ s \in 1 .. position'
      BY <1>1, <2>1, <2>2, WordRound DEF Modes
    <2> QED
      BY <1>1, <1>3, <1>4, <2>2, <2>5, <2>6, GoesOn DEF v
  <1>5. ASSUME Current \notin Hex, UNCHANGED place, Finish("INT_X", <<>>) PROVE Advances(s)
    <2> DEFINE e == position - 1
    <2>1. /\ source \in Seq(Char) /\ s \in 1 .. Len(source) /\ e \in s .. Len(source)
          /\ e + 1 = position /\ position' = position
          /\ e = Len(source) \/ source[e + 1] = Current
          /\ SubSeq(source, s, e) = token.value \o <<>> /\ <<>> \in Seq(Saved)
      BY <1>1, <1>5, WordReturn
    <2>2. HexadecimalAt(source, s, e)
      BY <1>2
    <2> HIDE DEF e
    <2>3. Lexical!TokensFrom(source)[s]
             = <<Token("INT_X", SubSeq(source, s, e))>> \o Lexical!TokensFrom(source)[e + 1]
      BY <1>2, <1>5, <2>1, <2>2, HexadecimalIsToken
    <2>4. Rest(s) = <<Token("INT_X", SubSeq(source, s, e))>> \o Rest(position')
      BY <2>1, <2>3 DEF Rest
    <2>5. "INT_X" \in TokenType \ {"UNKNOWN", "EOS"}
      BY DEF TokenType
    <2> QED
      BY <1>5, <2>1, <2>4, <2>5, HasToken
  <1> QED
    BY <1>1, <1>4, <1>5 DEF Loop

LEMMA FractionAdvances ==
    ASSUME Inv, NEW s \in 1 .. position, Begun(s), Fraction
    PROVE  Advances(s)
  <1>1. mode = "fraction" /\ mode \in WordModes /\ Loop(Digit, "FLOAT")
    BY DEF Fraction, WordModes
  <1>2. source[s] \in Digit /\ FloatAt(source, s, position - 1)
    BY <1>1 DEF Begun, BegunAs
  <1>3. token \in Tokens
    BY DEF Inv, TypeOK
  <1>4. ASSUME Current \in Digit, Read(1), Goto(mode, <<Current>>) PROVE Advances(s)
    <2>1. Current # NUL
      BY <1>4, NotDigits
    <2>2. position' = position + 1 /\ source' = source
      BY <1>4 DEF Read, Goto, call
    <2>3. FloatAt(source, s, position)
      <3>1. PICK d \in s + 1 .. position - 1 :
                    source[d] = "." /\ \A i \in s .. position - 1 : i # d => source[i] \in Digit
        BY <1>2 DEF FloatAt
      <3>2. /\ source[position] = Current
            /\ \A i \in s .. position : i = position \/ i \in s .. position - 1
        BY <1>1, <2>1, <2>2, WordRound
      <3>3. d \in s + 1 .. position
        BY Here
      <3> QED
        BY <1>4, <3>1, <3>2, <3>3 DEF FloatAt
    <2> DEFINE v == token.value \o <<Current>>
    <2>4. v = SubSeq(source, s, position' - 1) /\ s < position' /\ position' - 1 = position
      BY <1>1, <2>1, <2>2, WordRound
    <2> HIDE DEF v
    <2>5. BegunAs(source, "fraction", delimiter, v, s, position')
      BY <1>2, <2>3, <2>4 DEF BegunAs
    <2>6. "fraction" \in Modes \ {"idle"} /\ s \in 1 .. position'
      BY <1>1, <2>1, <2>2, WordRound DEF Modes
    <2> QED
      BY <1>1, <1>3, <1>4, <2>2, <2>5, <2>6, GoesOn DEF v
  <1>5. ASSUME Current \notin Digit, UNCHANGED place, Finish("FLOAT", <<>>) PROVE Advances(s)
    <2> DEFINE e == position - 1
    <2>1. /\ source \in Seq(Char) /\ s \in 1 .. Len(source) /\ e \in s .. Len(source)
          /\ e + 1 = position /\ position' = position
          /\ e = Len(source) \/ source[e + 1] = Current
          /\ SubSeq(source, s, e) = token.value \o <<>> /\ <<>> \in Seq(Saved)
      BY <1>1, <1>5, WordReturn
    <2>2. FloatAt(source, s, e)
      BY <1>2
    <2> HIDE DEF e
    <2>3. Lexical!TokensFrom(source)[s]
             = <<Token("FLOAT", SubSeq(source, s, e))>> \o Lexical!TokensFrom(source)[e + 1]
      BY <1>2, <1>5, <2>1, <2>2, FloatIsToken
    <2>4. Rest(s) = <<Token("FLOAT", SubSeq(source, s, e))>> \o Rest(position')
      BY <2>1, <2>3 DEF Rest
    <2>5. "FLOAT" \in TokenType \ {"UNKNOWN", "EOS"}
      BY DEF TokenType
    <2> QED
      BY <1>5, <2>1, <2>4, <2>5, HasToken
  <1> QED
    BY <1>1, <1>4, <1>5 DEF Loop

LEMMA DecimalAdvances ==
    ASSUME Inv, NEW s \in 1 .. position, Begun(s), Decimal
    PROVE  Advances(s)
  <1>1. mode = "decimal" /\ mode \in WordModes
    BY DEF Decimal, WordModes
  <1>2. /\ DecimalAt(source, s, position - 1) /\ s < position
        /\ s = Len(source) \/ source[s + 1] \notin {"b", "B", "x", "X"}
    BY <1>1 DEF Begun, BegunAs
  <1>3. token \in Tokens /\ s \in s .. position - 1 /\ position \in Nat
    BY <1>2 DEF Inv, TypeOK
  <1>4. ASSUME Current \in Digit, Read(1), Goto(mode, <<Current>>) PROVE Advances(s)
    <2>1. Current # NUL
      BY <1>4, NotDigits
    <2>2. position' = position + 1 /\ source' = source
      BY <1>4 DEF Read, Goto, call
    <2>3. DecimalAt(source, s, position)
      BY <1>1, <1>2, <1>4, <2>1, <2>2, WordRound DEF DecimalAt
    <2> DEFINE v == token.value \o <<Current>>
    <2>4. v = SubSeq(source, s, position' - 1) /\ s < position' /\ position' - 1 = position
      BY <1>1, <2>1, <2>2, WordRound
    <2> HIDE DEF v
    <2>5. BegunAs(source, "decimal", delimiter, v, s, position')
      BY <1>2, <2>3, <2>4 DEF BegunAs
    <2>6. "decimal" \in Modes \ {"idle"} /\ s \in 1 .. position'
      BY <1>1, <2>1, <2>2, WordRound DEF Modes
    <2> QED
      BY <1>1, <1>3, <1>4, <2>2, <2>5, <2>6, GoesOn DEF v
  <1>5. ASSUME Current \notin Digit, Current # ".", UNCHANGED place, Finish("INT_D", <<>>) PROVE Advances(s)
    <2> DEFINE e == position - 1
    <2>1. /\ source \in Seq(Char) /\ s \in 1 .. Len(source) /\ e \in s .. Len(source)
          /\ e + 1 = position /\ position' = position
          /\ e = Len(source) \/ source[e + 1] = Current
          /\ SubSeq(source, s, e) = token.value \o <<>> /\ <<>> \in Seq(Saved)
      BY <1>1, <1>5, WordReturn
    <2>2. DecimalAt(source, s, e)
      BY <1>2
    <2> HIDE DEF e
    <2>3. Lexical!TokensFrom(source)[s]
             = <<Token("INT_D", SubSeq(source, s, e))>> \o Lexical!TokensFrom(source)[e + 1]
      BY <1>2, <1>5, <2>1, <2>2, DecimalIsToken
    <2>4. Rest(s) = <<Token("INT_D", SubSeq(source, s, e))>> \o Rest(position')
      BY <2>1, <2>3 DEF Rest
    <2>5. "INT_D" \in TokenType \ {"UNKNOWN", "EOS"}
      BY DEF TokenType
    <2> QED
      BY <1>5, <2>1, <2>4, <2>5, HasToken
  <1>6. ASSUME Current = ".", Read(1), Goto("fraction", <<".">>) PROVE Advances(s)
    <2>1. Current # NUL
      BY <1>6 DEF NUL
    <2>2. position' = position + 1 /\ source' = source
      BY <1>6 DEF Read, Goto, call
    <2>3. FloatAt(source, s, position)
      <3>11. /\ source[position] = Current /\ s \in 1 .. Len(source) /\ position \in s + 1 .. Len(source)
            /\ \A i \in s .. position : i = position \/ i \in s .. position - 1
        BY <1>1, <2>1, <2>2, WordRound
      <3>1. /\ source[position] = "." /\ position \in s + 1 .. position
            /\ \A i \in s .. position : i = position \/ i \in s .. position - 1
        BY <1>6, <3>11
      <3>2. \A i \in s .. position : i # position => source[i] \in Digit
        BY <1>2, <3>1 DEF DecimalAt
      <3> QED
        BY <3>1, <3>2 DEF FloatAt
    <2>4. source[s] \in Digit
      BY <1>2, <1>3 DEF DecimalAt
    <2> DEFINE v == token.value \o <<".">>
    <2>5. v = SubSeq(source, s, position' - 1) /\ s < position' /\ position' - 1 = position
      BY <1>1, <1>6, <2>1, <2>2, WordRound
    <2> HIDE DEF v
    <2>6. BegunAs(source, "fraction", delimiter, v, s, position')
      BY <2>3, <2>4, <2>5 DEF BegunAs
    <2>7. "fraction" \in Modes \ {"idle"} /\ s \in 1 .. position'
      BY <1>1, <2>1, <2>2, WordRound DEF Modes
    <2> QED
      BY <1>3, <1>6, <2>2, <2>6, <2>7, GoesOn DEF v
  <1> QED
    BY <1>4, <1>5, <1>6 DEF Decimal, Loop

LEMMA IdentifierAdvances ==
    ASSUME Inv, NEW s \in 1 .. position, Begun(s), Identifier
    PROVE  Advances(s)
  <1> DEFINE type == IF token.value \in Keyword THEN "keyword" ELSE "ID"
  <1>1. mode = "identifier" /\ mode \in WordModes /\ Loop(Letter \union Digit, type)
    BY DEF Identifier, WordModes
  <1>2. source[s] \in Letter /\ \A i \in s .. position - 1 : source[i] \in Letter \union Digit
    BY <1>1 DEF Begun, BegunAs
  <1>3. token \in Tokens
    BY DEF Inv, TypeOK
  <1>4. ASSUME Current \in Letter \union Digit, Read(1), Goto(mode, <<Current>>) PROVE Advances(s)
    <2>1. Current # NUL
      BY <1>4, NotDigits
    <2>2. position' = position + 1 /\ source' = source
      BY <1>4 DEF Read, Goto, call
    <2>3. \A i \in s .. position : source[i] \in Letter \union Digit
      BY <1>1, <1>2, <1>4, <2>1, <2>2, WordRound
    <2> DEFINE v == token.value \o <<Current>>
    <2>4. v = SubSeq(source, s, position' - 1) /\ s < position' /\ position' - 1 = position
      BY <1>1, <2>1, <2>2, WordRound
    <2> HIDE DEF v
    <2>5. BegunAs(source, "identifier", delimiter, v, s, position')
      BY <1>2, <2>3, <2>4 DEF BegunAs
    <2>6. "identifier" \in Modes \ {"idle"} /\ s \in 1 .. position'
      BY <1>1, <2>1, <2>2, WordRound DEF Modes
    <2> QED
      BY <1>1, <1>3, <1>4, <2>2, <2>5, <2>6, GoesOn DEF v
  <1>5. ASSUME Current \notin Letter \union Digit, UNCHANGED place, Finish(type, <<>>) PROVE Advances(s)
    <2> DEFINE e == position - 1
    <2>1. /\ source \in Seq(Char) /\ s \in 1 .. Len(source) /\ e \in s .. Len(source)
          /\ e + 1 = position /\ position' = position
          /\ e = Len(source) \/ source[e + 1] = Current
          /\ SubSeq(source, s, e) = token.value \o <<>> /\ SubSeq(source, s, e) = token.value
          /\ <<>> \in Seq(Saved)
      BY <1>1, <1>5, WordReturn
    <2>2. \A i \in s .. e : source[i] \in Letter \union Digit
      BY <1>2
    <2> HIDE DEF e
    <2>3. Lexical!TokensFrom(source)[s]
             = <<Token(type, SubSeq(source, s, e))>> \o Lexical!TokensFrom(source)[e + 1]
      BY <1>2, <1>5, <2>1, <2>2, WordIsToken
    <2>4. Rest(s) = <<Token(type, SubSeq(source, s, e))>> \o Rest(position')
      BY <2>1, <2>3 DEF Rest
    <2>5. type \in TokenType \ {"UNKNOWN", "EOS"}
      BY DEF TokenType
    <2> QED
      BY <1>5, <2>1, <2>4, <2>5, HasToken
  <1> QED
    BY <1>1, <1>4, <1>5 DEF Loop

-------------------------------------------------------------------------------
(* scan_string.                                                              *)

LEMMA StringHere ==
    ASSUME Inv, NEW s \in 1 .. position, Begun(s), mode = "string"
    PROVE  /\ source \in Seq(Char) /\ s \in 1 .. Len(source) /\ position \in s + 1 .. Len(source) + 1
           /\ s < position /\ source[s] = delimiter /\ source[s] \in Quote /\ delimiter \notin {NUL, "\\"}
           /\ StringSoFar(source, s, position, token.value)
           /\ token.value \in Seq(Saved) /\ token \in Tokens
           /\ Current # NUL => /\ Current = source[position] /\ position \in 1 .. Len(source)
                               /\ position \in s + 1 .. Len(source)
  <1>1. s < position /\ source[s] = delimiter /\ StringSoFar(source, s, position, token.value)
    BY DEF Begun, BegunAs
  <1>2. delimiter \in Quote /\ token \in Tokens /\ token.value \in Seq(Saved)
    BY DEF Inv, TypeOK, Tokens
  <1>3. delimiter \notin {NUL, "\\"}
    BY <1>2, BackslashIsNoQuote, Disjoint, Zenon
  <1>4. /\ source \in Seq(Char) /\ position \in 1 .. Len(source) + 1 /\ Len(source) \in Nat
        /\ Current # NUL => Current = source[position] /\ position \in 1 .. Len(source)
    BY Here
  <1>5. /\ s \in 1 .. Len(source) /\ position \in s + 1 .. Len(source) + 1
        /\ position \in 1 .. Len(source) => position \in s + 1 .. Len(source)
    BY <1>1, <1>4
  <1> QED
    BY <1>1, <1>2, <1>3, <1>4, <1>5

(* With a unit read and its value saved, the string goes on. *)
LEMMA StringUnit ==
    ASSUME Inv, NEW s \in 1 .. position, Begun(s), mode = "string", Current # NUL,
           NEW k \in position + 1 .. Len(source) + 1, UnitAt(source, s, position, k),
           NEW w, w = Value(source, position, k), Goto("string", w), position' = k
    PROVE  Advances(s)
  <1>1. /\ source \in Seq(Char) /\ s \in 1 .. Len(source) /\ position \in s + 1 .. Len(source)
        /\ s < position /\ source[s] = delimiter /\ source[s] \in Quote
        /\ StringSoFar(source, s, position, token.value)
        /\ token.value \in Seq(Saved) /\ token \in Tokens
    BY StringHere
  <1> DEFINE v == token.value \o w
  <1>2. StringSoFar(source, s, k, v)
    BY <1>1, StringGoesOn
  <1> HIDE DEF v
  <1>3. s < k /\ s \in 1 .. k
    BY <1>1
  <1>4. BegunAs(source, "string", delimiter, v, s, position')
    BY <1>1, <1>2, <1>3 DEF BegunAs, WordModes
  <1>5. "string" \in Modes \ {"idle"} /\ source' = source
    BY DEF Modes, Goto, call
  <1>6. s \in 1 .. position'
    BY <1>3
  <1> QED
    BY <1>1, <1>4, <1>5, <1>6, GoesOn DEF v

(* Where no unit follows, there is no string. *)
LEMMA StringStops ==
    ASSUME Inv, NEW s \in 1 .. position, Begun(s), mode = "string",
           Current # NUL => Current # delimiter /\ NoUnit(source, s, position),
           NEW word \in Seq(Saved), Finish("UNKNOWN", word)
    PROVE  Advances(s)
  <1>1. /\ source \in Seq(Char) /\ s \in 1 .. Len(source) /\ position \in s + 1 .. Len(source) + 1
        /\ source[s] = delimiter /\ source[s] \in Quote
        /\ StringSoFar(source, s, position, token.value)
    BY StringHere
  <1>2. position <= Len(source) => source[position] # source[s] /\ NoUnit(source, s, position)
    BY <1>1, Here
  <1>3. Rest(s) = <<NoToken>>
    BY <1>1, <1>2, StringIsBroken DEF Rest
  <1> QED
    BY <1>3, HasNone

LEMMA StringCharAdvances ==
    ASSUME Inv, NEW s \in 1 .. position, Begun(s), StringChar
    PROVE  Advances(s)
  <1>1. mode = "string" /\ Current \notin {delimiter, "\\"} \union NewLineChar /\ Current # NUL
        /\ position' = position + 1 /\ Goto("string", <<Current>>)
    BY DEF StringChar, Read
  <1>2. source \in Seq(Char) /\ position \in 1 .. Len(source) /\ Current = source[position] /\ source[s] = delimiter
    BY <1>1, StringHere
  <1>3. UnitAt(source, s, position, position + 1)
    BY <1>1, <1>2 DEF UnitAt
  <1>4. <<Current>> = Value(source, position, position + 1)
    BY <1>2, UnitsStandFor
  <1>5. position + 1 \in position + 1 .. Len(source) + 1
    BY <1>2
  <1> QED
    BY <1>1, <1>3, <1>4, <1>5, StringUnit

LEMMA StringBrokenAdvances ==
    ASSUME Inv, NEW s \in 1 .. position, Begun(s), StringBroken
    PROVE  Advances(s)
  <1>1. mode = "string" /\ Current \in {NUL} \union NewLineChar /\ Finish("UNKNOWN", <<>>)
    BY DEF StringBroken
  <1>2. ASSUME Current # NUL PROVE Current # delimiter /\ NoUnit(source, s, position)
    <2>1. Current \in NewLineChar /\ Current = source[position] /\ source[s] = delimiter /\ delimiter \in Quote
      BY <1>1, <1>2, StringHere
    <2>2. Current \notin Quote /\ Current # "\\"
      BY <2>1, ZenonT(30) DEF NewLineChar, Quote
    <2> QED
      BY <2>1, <2>2 DEF NoUnit, UnitAt
  <1>3. <<>> \in Seq(Saved)
    OBVIOUS
  <1> QED
    BY <1>1, <1>2, <1>3, StringStops

LEMMA StringEndAdvances ==
    ASSUME Inv, NEW s \in 1 .. position, Begun(s), StringEnd
    PROVE  Advances(s)
  <1>1. mode = "string" /\ Current = delimiter /\ position' = position + 1 /\ Finish("STRING", <<>>)
    BY DEF StringEnd, Read
  <1>2. Current # NUL
    BY <1>1, StringHere
  <1>3. /\ source \in Seq(Char) /\ s \in 1 .. Len(source) /\ position \in s + 1 .. Len(source)
        /\ source[s] \in Quote /\ StringSoFar(source, s, position, token.value)
        /\ token.value \in Seq(Saved) /\ source[position] = source[s]
    BY <1>1, <1>2, StringHere
  <1>4. Rest(s) = <<Token("STRING", token.value)>> \o Rest(position')
    BY <1>1, <1>3, StringIsToken DEF Rest
  <1>5. token.value = token.value \o <<>>
    BY <1>3
  <1>6. "STRING" \in TokenType \ {"UNKNOWN", "EOS"} /\ <<>> \in Seq(Saved)
    BY DEF TokenType
  <1> DEFINE v == token.value
             type == "STRING"
             word == <<>>
  <1>7. /\ type \in TokenType \ {"UNKNOWN", "EOS"} /\ word \in Seq(Saved) /\ Finish(type, word)
        /\ v = token.value \o word /\ Rest(s) = <<Token(type, v)>> \o Rest(position')
    BY <1>1, <1>4, <1>5, <1>6
  <1> HIDE DEF v, type, word
  <1> QED
    BY <1>7, HasToken

LEMMA EscapeLetters == "x" \notin Escapes /\ NUL \notin Escapes /\ NUL # "x" /\ NUL \notin Hex /\ NUL # "\\"
  BY ZenonT(30) DEF Escapes, Escape, Quote, NUL, Hex, HexLetter, Digit

LEMMA StringEscapeAdvances ==
    ASSUME Inv, NEW s \in 1 .. position, Begun(s), StringEscape
    PROVE  Advances(s)
  <1> DEFINE letter == At(position + 1)
             first == At(position + 2)
             second == At(position + 3)
  <1>1. mode = "string" /\ Current = "\\" /\ Current # NUL
    BY EscapeLetters DEF StringEscape
  <1>2. /\ source \in Seq(Char) /\ position \in 1 .. Len(source) /\ source[position] = "\\"
        /\ Current # delimiter
    BY <1>1, StringHere
  <1>3. /\ letter # NUL <=> position + 1 <= Len(source)
        /\ position + 1 <= Len(source) => letter = source[position + 1]
        /\ first # NUL <=> position + 2 <= Len(source)
        /\ position + 2 <= Len(source) => first = source[position + 2]
        /\ second # NUL <=> position + 3 <= Len(source)
        /\ position + 3 <= Len(source) => second = source[position + 3]
    BY TextAt, Offsets
  <1>4. /\ \A j : UnitAt(source, s, position, j) =>
              \/ j = position + 2 /\ source[position + 1] \in Escapes
              \/ j = position + 4 /\ source[position + 1] = "x"
                   /\ {source[position + 2], source[position + 3]} \subseteq Hex
        /\ source[position + 1] \in Escapes => UnitAt(source, s, position, position + 2)
        /\ source[position + 1] = "x" /\ {source[position + 2], source[position + 3]} \subseteq Hex
             => UnitAt(source, s, position, position + 4)
    BY <1>2 DEF UnitAt
  <1>5. <<>> \in Seq(Saved) /\ (first # NUL => <<first>> \in Seq(Saved))
    BY Facts, Offsets
  <1> HIDE DEF letter, first, second
  <1>6. ASSUME letter \in Escapes, Read(2), Goto("string", <<Unescaped(letter)>>) PROVE Advances(s)
    <2>1. letter = source[position + 1] /\ position + 1 <= Len(source)
      BY <1>3, <1>6, EscapeLetters
    <2>2. UnitAt(source, s, position, position + 2)
      BY <1>4, <1>6, <2>1
    <2>3. <<Unescaped(letter)>> = Value(source, position, position + 2)
      BY <1>2, <2>1, UnitsStandFor
    <2>4. position + 2 \in position + 1 .. Len(source) + 1 /\ position' = position + 2
      BY <1>2, <1>6, <2>1 DEF Read
    <2> QED
      BY <1>1, <1>6, <2>2, <2>3, <2>4, StringUnit
  <1>7. ASSUME letter = "x", first \in Hex, second \in Hex, Read(4), Goto("string", <<first, second>>)
        PROVE  Advances(s)
    <2>1. /\ first = source[position + 2] /\ second = source[position + 3]
          /\ position + 3 <= Len(source)
      BY <1>3, <1>7, EscapeLetters
    <2>2. letter = source[position + 1]
      BY <1>3, <1>7, EscapeLetters
    <2>3. UnitAt(source, s, position, position + 4)
      BY <1>4, <1>7, <2>1, <2>2
    <2>4. <<first, second>> = Value(source, position, position + 4)
      BY <1>2, <2>1, UnitsStandFor
    <2>5. position + 4 \in position + 1 .. Len(source) + 1 /\ position' = position + 4
      BY <1>2, <1>7, <2>1 DEF Read
    <2> QED
      BY <1>1, <1>7, <2>3, <2>4, <2>5, StringUnit
  <1>8. ASSUME NEW word \in Seq(Saved), Finish("UNKNOWN", word),
               \/ letter = "x" /\ (first \notin Hex \/ second \notin Hex)
               \/ letter \notin Escapes \union {"x"}
        PROVE  Advances(s)
    <2>1. ASSUME NEW j \in position + 1 .. Len(source) + 1, UnitAt(source, s, position, j) PROVE FALSE
      <3>1. CASE j = position + 2 /\ source[position + 1] \in Escapes
        <4>1. position + 1 <= Len(source)
          BY <1>2, <3>1
        <4> QED
          BY <1>3, <1>8, <3>1, <4>1, EscapeLetters
      <3>2. CASE j = position + 4 /\ source[position + 1] = "x"
                   /\ {source[position + 2], source[position + 3]} \subseteq Hex
        <4>1. position + 1 <= Len(source) /\ position + 2 <= Len(source) /\ position + 3 <= Len(source)
          BY <1>2, <3>2
        <4> QED
          BY <1>3, <1>8, <3>2, <4>1, EscapeLetters
      <3> QED
        BY <1>4, <2>1, <3>1, <3>2
    <2>2. NoUnit(source, s, position)
      BY <2>1 DEF NoUnit
    <2> QED
      BY <1>1, <1>2, <1>8, <2>2, StringStops
  <1>9. \/ letter \in Escapes /\ Read(2) /\ Goto("string", <<Unescaped(letter)>>)
        \/ letter = "x" /\ first \in Hex /\ second \in Hex /\ Read(4) /\ Goto("string", <<first, second>>)
        \/ letter = "x" /\ first \in Hex /\ second \notin Hex /\ Finish("UNKNOWN", <<first>>)
        \/ letter = "x" /\ first \notin Hex /\ Finish("UNKNOWN", <<>>)
        \/ letter \notin Escapes \union {"x"} /\ Finish("UNKNOWN", <<>>)
    BY DEF StringEscape, letter, first, second
  <1> QED
    BY <1>5, <1>6, <1>7, <1>8, <1>9, EscapeLetters

-------------------------------------------------------------------------------
(* Comments.                                                                 *)

LEMMA LineCommentAdvances ==
    ASSUME Inv, NEW s \in 1 .. position, Begun(s), LineComment
    PROVE  Advances(s)
  <1>1. mode = "lineComment"
    BY DEF LineComment
  <1>2. /\ s + 2 <= position /\ token.value = <<>> /\ source[s] = "/" /\ source[s + 1] = "/"
        /\ \A i \in s .. position - 1 : source[i] \notin NewLineChar
    BY <1>1 DEF Begun, BegunAs
  <1>3. /\ source \in Seq(Char) /\ position \in 1 .. Len(source) + 1 /\ Len(source) \in Nat
        /\ Current # NUL => Current = source[position]
        /\ Current # NUL <=> position <= Len(source)
    BY Here
  <1>4. token \in Tokens
    BY DEF Inv, TypeOK
  <1>5. ASSUME Current \notin NewLineChar \union {NUL}, Read(1), Goto(mode, <<>>) PROVE Advances(s)
    <2>1. position' = position + 1 /\ source' = source
      BY <1>5 DEF Read, Goto, call
    <2>2. \A i \in s .. position + 1 - 1 : i = position \/ i \in s .. position - 1
      BY <1>3
    <2>3. \A i \in s .. position + 1 - 1 : source[i] \notin NewLineChar
      BY <1>2, <1>3, <1>5, <2>2
    <2>4. s + 2 <= position + 1 /\ s \in 1 .. position + 1
      BY <1>2, <1>3
    <2> DEFINE v == token.value \o <<>>
    <2>5. v = <<>>
      BY <1>2
    <2> HIDE DEF v
    <2>6. s + 2 <= position' /\ \A i \in s .. position' - 1 : source[i] \notin NewLineChar
      <3>1. s + 2 <= position' /\ position' - 1 = position + 1 - 1
        BY <1>3, <2>1, <2>4
      <3> QED
        BY <2>3, <3>1
    <2>7. BegunAs(source, "lineComment", delimiter, v, s, position')
      BY <1>2, <2>6, <2>5 DEF BegunAs, WordModes
    <2>8. "lineComment" \in Modes \ {"idle"} /\ s \in 1 .. position'
      BY <2>1, <2>4 DEF Modes
    <2> QED
      BY <1>1, <1>4, <1>5, <2>1, <2>7, <2>8, GoesOn DEF v
  <1>6. ASSUME Current \in NewLineChar \union {NUL}, UNCHANGED place, Goto("scan", <<>>) PROVE Advances(s)
    <2> DEFINE e == position - 1
    <2>1. position' = position /\ source' = source
      BY <1>6 DEF place, Goto, call
    <2>2. s \in 1 .. Len(source) /\ e \in s + 1 .. Len(source) /\ e + 1 = position
          /\ (e = Len(source) \/ position <= Len(source))
      BY <1>2, <1>3
    <2>3. e = Len(source) \/ source[e + 1] \in NewLineChar
      BY <1>3, <1>6, <2>2
    <2>4. \A i \in s .. e : source[i] \notin NewLineChar
      BY <1>2
    <2> HIDE DEF e
    <2>5. Rest(s) = Rest(e + 1)
      BY <1>2, <1>3, <2>2, <2>3, <2>4, LineCommentIsSkipped DEF Rest
    <2>6. position' \in Nat \ {0} /\ Rest(position') = Rest(s)
      BY <1>3, <2>1, <2>2, <2>5
    <2> QED
      BY <1>2, <1>6, <2>1, <2>6, TopRound
  <1> QED
    BY <1>5, <1>6 DEF LineComment

LEMMA NoStarInNewLine == "*" \notin NewLineChar /\ "/" \notin NewLineChar /\ NUL \notin NewLineChar
                         /\ NUL # "*" /\ NUL # "/"
  BY ZenonT(30) DEF NewLineChar, NUL

LEMMA SectionCommentAdvances ==
    ASSUME Inv, NEW s \in 1 .. position, Begun(s), SectionComment
    PROVE  Advances(s)
  <1>1. mode = "sectionComment"
    BY DEF SectionComment
  <1>2. /\ s + 2 <= position /\ token.value = <<>> /\ source[s] = "/" /\ source[s + 1] = "*"
        /\ \A i \in s + 2 .. position - 1 : i < Len(source) => ~Closing(source, i)
    BY <1>1 DEF Begun, BegunAs
  <1>3. /\ source \in Seq(Char) /\ position \in 1 .. Len(source) + 1 /\ Len(source) \in Nat
        /\ Current # NUL => Current = source[position] /\ position \in 1 .. Len(source)
        /\ Current # NUL <=> position <= Len(source)
        /\ Current = NUL => position = Len(source) + 1
    BY Here
  <1>4. token \in Tokens
    BY DEF Inv, TypeOK
  <1>5. /\ At(position + 1) # NUL <=> position + 1 <= Len(source)
        /\ position + 1 <= Len(source) => At(position + 1) = source[position + 1]
    BY TextAt, Offsets
  <1>6. ASSUME NEW k \in {1, 2}, position' = position + k, Goto("sectionComment", <<>>),
               \A i \in position .. position + k - 1 : i < Len(source) => ~Closing(source, i)
        PROVE  Advances(s)
    <2>1. source' = source
      BY <1>6 DEF Goto, call
    <2>2. \A i \in s + 2 .. position + k - 1 : i \in position .. position + k - 1 \/ i \in s + 2 .. position - 1
      BY <1>3
    <2>3. \A i \in s + 2 .. position + k - 1 : i < Len(source) => ~Closing(source, i)
      BY <1>2, <1>6, <2>2
    <2>4. s + 2 <= position + k /\ s \in 1 .. position + k
      BY <1>2, <1>3
    <2> DEFINE v == token.value \o <<>>
    <2>5. v = <<>>
      BY <1>2
    <2> HIDE DEF v
    <2>6. s + 2 <= position'
      BY <1>6, <2>4
    <2>7. position' - 1 = position + k - 1
      <3>1. position' - 1 = (position + k) - 1
        BY <1>6
      <3> QED
        BY <1>3, <3>1
    <2>8. \A i \in s + 2 .. position' - 1 : i < Len(source) => ~Closing(source, i)
      BY <2>3, <2>7
    <2>9. BegunAs(source, "sectionComment", delimiter, v, s, position')
      BY <1>2, <2>8, <2>5, <2>6 DEF BegunAs, WordModes
    <2>10. "sectionComment" \in Modes \ {"idle"} /\ s \in 1 .. position'
      BY <1>6, <2>4 DEF Modes
    <2> QED
      BY <1>4, <1>6, <2>1, <2>9, <2>10, GoesOn DEF v
  <1>7. ASSUME NEW e \in s + 1 .. Len(source), position' = e + 1, Goto("scan", <<>>),
               \A i \in s + 2 .. e - 2 : ~Closing(source, i),
               \/ e >= s + 3 /\ Closing(source, e - 1)
               \/ e = Len(source) /\ \A i \in s + 2 .. e - 1 : ~Closing(source, i)
        PROVE  Advances(s)
    <2>1. s \in 1 .. Len(source)
      BY <1>3
    <2>2. Rest(s) = Rest(e + 1)
      BY <1>2, <1>3, <1>7, <2>1, SectionCommentIsSkipped DEF Rest
    <2>3. position' \in Nat \ {0} /\ Rest(position') = Rest(s)
      BY <1>7, <2>1, <2>2
    <2>4. source' = source
      BY <1>7 DEF Goto, call
    <2> QED
      BY <1>2, <1>7, <2>3, <2>4, TopRound
  <1>8. ASSUME Current = NUL, UNCHANGED place, Goto("scan", <<>>) PROVE Advances(s)
    <2> DEFINE e == Len(source)
    <2>1. position' = e + 1 /\ e \in s + 1 .. Len(source)
      BY <1>2, <1>3, <1>8 DEF place
    <2>2. \A i \in s + 2 .. e - 1 : i \in s + 2 .. position - 1 /\ i < Len(source)
      BY <1>3, <1>8
    <2>3. \A i \in s + 2 .. e - 1 : ~Closing(source, i)
      BY <1>2, <2>2
    <2>4. \A i \in s + 2 .. e - 2 : i \in s + 2 .. e - 1
      BY <1>3
    <2> QED
      BY <1>7, <1>8, <2>1, <2>3, <2>4
  <1>9. ASSUME Current \in NewLineChar, NewLine, Goto("sectionComment", <<>>) PROVE Advances(s)
    <2>1. Current # NUL /\ source[position] # "*"
      BY <1>3, <1>9, NoStarInNewLine
    <2>2. \/ position' = position + 1
          \/ position' = position + 2 /\ At(position + 1) \in NewLineChar
      BY <1>9 DEF NewLine, NewLineChar
    <2>3. CASE position' = position + 1
      <3>1. \A i \in position .. position + 1 - 1 : i = position
        BY <1>3
      <3>2. \A i \in position .. position + 1 - 1 : i < Len(source) => ~Closing(source, i)
        BY <2>1, <3>1 DEF Closing
      <3> QED
        BY <1>6, <1>9, <2>3, <3>2
    <2>4. CASE position' = position + 2 /\ At(position + 1) \in NewLineChar
      <3>1. \A i \in position .. position + 2 - 1 : i = position \/ i = position + 1
        BY <1>3
      <3>2. source[position + 1] # "*"
        BY <1>5, <2>4, NoStarInNewLine
      <3>3. \A i \in position .. position + 2 - 1 : i < Len(source) => ~Closing(source, i)
        BY <2>1, <3>1, <3>2 DEF Closing
      <3> QED
        BY <1>6, <1>9, <2>4, <3>3
    <2> QED
      BY <2>2, <2>3, <2>4
  <1>10. ASSUME Current # NUL, Read(1), Goto("sectionComment", <<>>),
                Current # "*" \/ At(position + 1) # "/"
         PROVE  Advances(s)
    <2>1. \A i \in position .. position + 1 - 1 : i = position
      BY <1>3
    <2>2. position < Len(source) => ~Closing(source, position)
      BY <1>3, <1>5, <1>10 DEF Closing
    <2>3. \A i \in position .. position + 1 - 1 : i < Len(source) => ~Closing(source, i)
      BY <2>1, <2>2
    <2>4. position' = position + 1
      BY <1>10 DEF Read
    <2> QED
      BY <1>6, <1>10, <2>3, <2>4
  <1>11. ASSUME Current = "*", At(position + 1) = "/", Read(2), Goto("scan", <<>>) PROVE Advances(s)
    <2> DEFINE e == position + 1
    <2>1. position + 1 <= Len(source) /\ source[position] = "*" /\ source[position + 1] = "/"
      BY <1>3, <1>5, <1>11, NoStarInNewLine
    <2>2. e \in s + 1 .. Len(source) /\ e >= s + 3 /\ e - 1 = position /\ position' = e + 1
      BY <1>2, <1>3, <1>11, <2>1 DEF Read
    <2>3. Closing(source, e - 1)
      BY <2>1, <2>2 DEF Closing
    <2>4. \A i \in s + 2 .. e - 2 : i \in s + 2 .. position - 1 /\ i < Len(source)
      BY <1>3, <2>1
    <2>5. \A i \in s + 2 .. e - 2 : ~Closing(source, i)
      BY <1>2, <2>4
    <2> QED
      BY <1>7, <1>11, <2>2, <2>3, <2>5
  <1> QED
    BY <1>1, <1>8, <1>9, <1>10, <1>11, NoStarInNewLine DEF SectionComment

-------------------------------------------------------------------------------
(* The scanner keeps track of the text.                                      *)

LEMMA ScanAdvances ==
    ASSUME Inv, NEW s \in 1 .. position, Begun(s), Scan
    PROVE  Advances(s)
  BY EndAdvances, NewLineAdvances, SpaceAdvances, SlashAdvances, OperatorAdvances, DotsAdvance,
     NumberAdvances, QuoteAdvances, LetterAdvances, SingleAdvances, BinaryAdvances,
     HexadecimalAdvances, DecimalAdvances, FractionAdvances, IdentifierAdvances,
     StringCharAdvances, StringEscapeAdvances, StringBrokenAdvances, StringEndAdvances,
     LineCommentAdvances, SectionCommentAdvances
  DEF Scan

LEMMA ScanTracks ==
    ASSUME Inv, Tracks, Scan, WordsKnown
    PROVE  Tracks'
  <1>1. Inv' /\ (Round \/ Return)
    BY ScanKeeps DEF Step
  <1>2. mode # "idle" /\ source' = source
    BY <1>1 DEF Round, Return, Finish, call
  <1>3. \A s \in 1 .. position : ~Stopped /\ Begun(s) => Advances(s)
    BY ScanAdvances
  <1> QED
    BY <1>1, <1>2, <1>3, AdvanceTracks

(* A call that scans begins where the token before it ended. *)
LEMMA BeginTracks ==
    ASSUME Inv, Tracks, NEW for \in {"next", "ahead"}, mode = "idle", ahead.type = "UNKNOWN",
           Begin(for), for = "ahead" => source \in LooksAhead
    PROVE  Tracks'
  <1>1. /\ mode' = "scan" /\ purpose' = for /\ token' = NoToken
        /\ UNCHANGED <<source, position, ahead, delivered>>
    BY DEF Begin, place
  <1>2. (Stopped' <=> Stopped) /\ Bared' = Bared /\ Rest(1)' = Rest(1)
    BY <1>1 DEF Stopped, Bared, Rest
  <1>3. position \in 1 .. position'
    BY <1>1, Here
  <1>4. ASSUME NEW p \in 1 .. position', p = position, ~Stopped
        PROVE  Begun(p)' /\ Rest(1)' = Bared' \o Rest(p)'
    <2>1. Begun(p)'
      BY <1>1, <1>4 DEF Begun, BegunAs, WordModes, NoToken, Token
    <2>2. Rest(p)' = Rest(position)
      BY <1>1, <1>4 DEF Rest
    <2>3. Rest(1)' = Bared' \o Rest(p)'
      BY <1>1, <1>2, <1>4, <2>2 DEF Tracks
    <2> QED
      BY <2>1, <2>3
  <1>5. ~Stopped => \E s \in 1 .. position' : Begun(s)' /\ Rest(1)' = Bared' \o Rest(s)'
    BY <1>3, <1>4
  <1>6. ahead'.type = "UNKNOWN"
    BY <1>1
  <1> QED
    BY <1>1, <1>2, <1>5, <1>6 DEF Tracks

(* So does a call that takes the token of the slot. *)
LEMMA TakeTracks ==
    ASSUME Inv, Tracks, mode = "idle", ahead.type # "UNKNOWN", Record(ahead),
           ahead' = NoToken, UNCHANGED <<call, place, mode>>
    PROVE  Tracks'
  <1>1. source' = source /\ position' = position /\ mode' = "idle" /\ ahead'.type = "UNKNOWN"
    BY DEF call, place, NoToken, Token
  <1>2. Rest(1)' = Rest(1) /\ Rest(position)' = Rest(position)
    BY <1>1 DEF Rest
  <1>3. CASE Stopped
    <2>1. delivered' = delivered
      BY <1>3 DEF Record
    <2>2. Stopped' /\ Bared' = Bared
      BY <1>3, <2>1 DEF Stopped, Bared
    <2> QED
      BY <1>1, <1>2, <1>3, <2>2 DEF Tracks
  <1>4. CASE ~Stopped
    <2>1. delivered' = Append(delivered, ahead)
      BY <1>4 DEF Record
    <2>2. /\ Bared' = Bared \o <<Bare(ahead)>>
          /\ Bared \in Seq({Bare(delivered[i]) : i \in DOMAIN delivered})
          /\ Stopped' <=> Final(ahead)
      BY <2>1, BaredAppends
    <2>3. Rest(1) = Bared \o Gives(ahead, position) /\ Bare(ahead) = ahead
      BY <1>4 DEF Tracks, Bare
    <2>4. CASE Final(ahead)
      <3>1. Gives(ahead, position) = <<ahead>>
        BY <2>4 DEF Final, Gives
      <3>2. Rest(1)' = Bared'
        BY <1>2, <2>2, <2>3, <3>1
      <3> QED
        BY <1>1, <2>2, <2>4, <3>2 DEF Tracks
    <2>5. CASE ~Final(ahead)
      <3>1. Gives(ahead, position) = <<ahead>> \o Rest(position)
        BY <2>5 DEF Final, Gives
      <3>2. position \in 1 .. Len(source) + 1
        BY Here
      <3>3. PICK X : Rest(position) \in Seq(X)
        BY <3>2, RestIsSequence
      <3>4. (Bared \o <<ahead>>) \o Rest(position) = Bared \o (<<ahead>> \o Rest(position))
        BY <2>2, <3>3, Catenation
      <3>5. Rest(1)' = Bared' \o Rest(position)'
        BY <1>2, <2>2, <2>3, <3>1, <3>4
      <3> QED
        BY <1>1, <2>2, <2>5, <3>5 DEF Tracks
    <2> QED
      BY <2>4, <2>5
  <1> QED
    BY <1>3, <1>4

LEMMA CallTracks ==
    ASSUME Inv, Tracks, NextToken \/ LookAheadToken
    PROVE  Tracks'
  <1>1. CASE mode = "idle" /\ ahead.type = "UNKNOWN" /\ Begin("next")
    BY <1>1, BeginTracks
  <1>2. CASE LookAheadToken
    BY <1>2, BeginTracks DEF LookAheadToken
  <1>3. CASE /\ mode = "idle" /\ ahead.type # "UNKNOWN" /\ Record(ahead) /\ ahead' = NoToken
             /\ UNCHANGED <<call, place, mode>>
    BY <1>3, TakeTracks
  <1> QED
    BY <1>1, <1>2, <1>3 DEF NextToken

LEMMA StutterTracks == ASSUME Tracks, UNCHANGED vars PROVE Tracks'
  <1>1. UNCHANGED <<source, position, mode, delimiter, token, ahead, purpose, delivered>>
    BY DEF vars, place
  <1> QED
    BY <1>1 DEF Tracks, Stopped, Bared, Rest, Gives, Begun

LEMMA NextTracks == ASSUME Inv, Tracks, [Next]_vars, WordsKnown PROVE Tracks'
  BY ScanTracks, CallTracks, StutterTracks DEF Next

LEMMA InitTracks == ASSUME Init PROVE Tracks
  <1>1. /\ position = 1 /\ mode = "idle" /\ ahead.type = "UNKNOWN" /\ ~Stopped
        /\ DOMAIN delivered = {}
    BY DEF Init, NoToken, Token, Stopped
  <1>2. Bared = <<>>
    BY <1>1 DEF Bared
  <1>3. 1 \in 1 .. Len(source) + 1 /\ Inv
    BY <1>1, InitInv, Here
  <1>4. PICK X : Rest(1) \in Seq(X)
    BY <1>3, RestIsSequence
  <1>5. Rest(1) = Bared \o Rest(position)
    BY <1>1, <1>2, <1>4
  <1> QED
    BY <1>1, <1>5 DEF Tracks

-------------------------------------------------------------------------------
(* The scanner implements Lexicon.                                           *)

(* What is still to come is a sequence of tokens. *)
ToCome == Rest(1) = Bared \/ \E X : \E R \in Seq(X) : Rest(1) = Bared \o R

LEMMA StillToCome == Inv /\ Tracks => ToCome
  <1> SUFFICES ASSUME Inv, Tracks PROVE Rest(1) = Bared \/ \E X : \E R \in Seq(X) : Rest(1) = Bared \o R
    BY DEF ToCome
  <1>1. position \in 1 .. Len(source) + 1
    BY Here
  <1>2. PICK P : Rest(position) \in Seq(P)
    BY <1>1, RestIsSequence
  <1>3. \E X : Gives(ahead, position) \in Seq(X)
    <2>1. <<NoToken>> \in Seq({NoToken}) /\ <<ahead>> \in Seq({ahead})
      OBVIOUS
    <2>2. <<ahead>> \o Rest(position) \in Seq(P \union {ahead})
      BY <1>2
    <2> QED
      BY <2>1, <2>2 DEF Gives
  <1>4. CASE mode = "idle"
    BY <1>2, <1>3, <1>4 DEF Tracks
  <1>5. CASE mode # "idle" /\ ~Stopped
    <2>1. PICK s \in 1 .. position : Rest(1) = Bared \o Rest(s)
      BY <1>5 DEF Tracks
    <2>2. s \in 1 .. Len(source) + 1
      BY <1>1
    <2> QED
      BY <2>1, <2>2, RestIsSequence
  <1>6. CASE Stopped
    BY <1>6 DEF Tracks
  <1> QED
    BY <1>4, <1>5, <1>6

LEMMA Concatenated ==
    ASSUME NEW X, NEW Y, NEW a \in Seq(X), NEW b \in Seq(Y)
    PROVE  /\ Len(a \o b) = Len(a) + Len(b) /\ Len(b) \in Nat
           /\ \A i \in 1 .. Len(a) : (a \o b)[i] = a[i]
  OBVIOUS

(* A step delivers nothing, or the next token of Lexicon. *)
LEMMA StepDelivers ==
    ASSUME Inv, Inv', Tracks', [Next]_vars
    PROVE  [Lexical!Deliver]_<<source, Bared>>
  <1>1. source' = source
    BY NextSource
  <1>2. delivered' = delivered \/ \E x : delivered' = Append(delivered, x)
    <2>1. CASE Scan
      BY <2>1, ScanKeeps DEF Step, Round, Return, Finish, Record
    <2>2. CASE NextToken \/ LookAheadToken
      BY <2>2 DEF NextToken, LookAheadToken, Begin, Record
    <2>3. CASE UNCHANGED vars
      BY <2>3 DEF vars
    <2> QED
      BY <2>1, <2>2, <2>3 DEF Next
  <1>3. CASE delivered' = delivered
    BY <1>1, <1>3 DEF Bared
  <1>4. ASSUME NEW x, delivered' = Append(delivered, x) PROVE Lexical!Deliver
    <2> DEFINE n == Len(Bared)
               T == Lexical!TokensOf(source)
               S == {Bare(delivered[i]) : i \in DOMAIN delivered}
    <2>1. /\ Bared' = Bared \o <<Bare(x)>> /\ Bared \in Seq(S)
          /\ Len(Bared') = n + 1 /\ Bared'[n + 1] = Bare(x)
      BY <1>4, BaredAppends
    <2>2. Rest(1)' = Bared' \/ \E X : \E R \in Seq(X) : Rest(1)' = Bared' \o R
      <3>1. ToCome'
        BY StillToCome, PTL
      <3> QED
        BY <3>1 DEF ToCome
    <2>3. Rest(1)' = T
      BY <1>1 DEF Rest, Lexical!TokensOf
    <2>4. Bared' = Append(Bared, Bare(x)) /\ n \in Nat
      BY <2>1
    <2>5. Bared' \in Seq(S \union {Bare(x)})
      BY <2>1, <2>4
    <2> HIDE DEF n, T, S
    <2>6. n < Len(T) /\ T[n + 1] = Bare(x)
      <3>1. CASE T = Bared'
        BY <2>1, <2>4, <3>1
      <3>2. ASSUME NEW X, NEW R \in Seq(X), T = Bared' \o R PROVE n < Len(T) /\ T[n + 1] = Bare(x)
        <4>1. /\ Len(T) = Len(Bared') + Len(R) /\ Len(R) \in Nat
              /\ \A i \in 1 .. Len(Bared') : T[i] = Bared'[i]
          BY <2>5, <3>2, Concatenated
        <4>2. n + 1 \in 1 .. Len(Bared')
          BY <2>1, <2>4
        <4> QED
          BY <2>1, <2>4, <4>1, <4>2
      <3> QED
        BY <2>2, <2>3, <3>1, <3>2
    <2>7. Bared' = Append(Bared, T[n + 1])
      BY <2>4, <2>6
    <2> QED
      BY <1>1, <2>6, <2>7 DEF Lexical!Deliver, Bared, n, T
  <1> QED
    BY <1>2, <1>3, <1>4

LEMMA InitDelivers == ASSUME Init PROVE Lexical!Init
  <1>1. source \in Seq(Char) /\ delivered = <<>>
    BY SourceAssumption DEF Init
  <1>2. Bared = <<>>
    BY <1>1 DEF Bared
  <1> QED
    BY <1>1, <1>2 DEF Lexical!Init, Bared

LEMMA TracksHolds == ASSUME WordsKnown PROVE Spec => [](Inv /\ Tracks)
  <1>1. Init => Inv /\ Tracks
    BY InitInv, InitTracks
  <1>2. Inv /\ Tracks /\ [Next]_vars => Inv' /\ Tracks'
    BY NextTracks, ScanKeeps, CallKeeps, StutterInv DEF Next, Step
  <1> QED
    BY <1>1, <1>2, PTL DEF Spec

(* Whatever the text, next_token delivers its tokens in order, each once, with *)
(* their types and values: the scanner's loops, its rounds of read_char and    *)
(* its look-ahead give what the lexical grammar's longest words are, as long   *)
(* as nobody looks ahead at a word that is no token (next_token,               *)
(* look_ahead_token and scan).                                                 *)
THEOREM ScannerDeliversLexemes == ASSUME WordsKnown PROVE Spec => DeliversLexemes
  <1>1. Init => Lexical!Init
    BY InitDelivers
  <1>2. Inv /\ Inv' /\ Tracks' /\ [Next]_vars => [Lexical!Deliver]_<<source, Bared>>
    BY StepDelivers
  <1> QED
    BY <1>1, <1>2, TracksHolds, PTL DEF Spec, DeliversLexemes, Lexical!Spec, Bared

(* When next_token has delivered the end of the source, or a word that is no   *)
(* token, nothing is missing: what it delivered are all the tokens of the text. *)
THEOREM NothingIsMissing ==
    ASSUME WordsKnown
    PROVE  Spec => [](Stopped => Bared = Lexical!TokensOf(source))
  <1>1. Inv /\ Tracks => (Stopped => Bared = Lexical!TokensOf(source))
    BY DEF Tracks, Rest, Lexical!TokensOf
  <1> QED
    BY <1>1, TracksHolds, PTL

(* The parser never calls look_ahead_token: what it gets are the tokens of its *)
(* text, whatever the text.                                                    *)
THEOREM ParserGetsLexemes == ASSUME LooksAhead = {} PROVE Spec => DeliversLexemes
  <1>1. WordsKnown
    BY DEF WordsKnown
  <1> QED
    BY <1>1, ScannerDeliversLexemes

===============================================================================
