--------------------------- MODULE FileTexts_proofs ---------------------------
(***************************************************************************)
(* What the two recursive functions of FileTools compute, for every text:  *)
(* a count of one means what FileStore says by positions, and the text     *)
(* with the replacement is the one FileStore describes.  And what          *)
(* FileStore's lines are to who goes through a text from newline to        *)
(* newline.                                                                *)
(***************************************************************************)
EXTENDS FileTools, TLAPS, SequenceTheorems, FiniteSetTheorems, WellFoundedInduction

\* A set of naturals has a least element.
LEMMA LeastElement ==
    ASSUME NEW S \in SUBSET Nat, S # {}
    PROVE  \E m \in S : \A k \in S : m <= k
<1> DEFINE R == OpToRel(<, Nat)
<1>1. IsWellFoundedOn(R, Nat)
  BY NatLessThanWellFounded
<1> HIDE DEF R
<1>2. PICK m \in S : \A k \in S : ~ (<<k, m>> \in R)
  BY <1>1, WFMin
<1>3. \A k \in S : ~ (k < m)
  BY <1>2 DEF R, OpToRel
<1> QED BY <1>3

\* Induction from the end of a text to its beginning.
LEMMA Downward ==
    ASSUME NEW n \in Nat, NEW S,
           \A i \in 1 .. n : (\A k \in (i + 1) .. n : k \in S) => i \in S
    PROVE  \A i \in 1 .. n : i \in S
<1> DEFINE Counter == {m \in Nat : m < n /\ n - m \notin S}
<1>1. SUFFICES Counter = {}
  <2> TAKE i \in 1 .. n
  <2>1. n - i \in Nat /\ n - i < n /\ n - (n - i) = i
    OBVIOUS
  <2> QED BY <1>1, <2>1
<1>2. ASSUME Counter # {} PROVE FALSE
  <2>1. Counter \in SUBSET Nat
    OBVIOUS
  <2>2. PICK m \in Counter : \A k \in Counter : m <= k
    <3> HIDE DEF Counter
    <3> QED BY <1>2, <2>1, LeastElement
  <2>3. \A k \in (n - m + 1) .. n : k \in S
    <3> TAKE k \in (n - m + 1) .. n
    <3>1. n - k \in Nat /\ n - k < m /\ n - k < n /\ n - (n - k) = k
      OBVIOUS
    <3> QED BY <2>2, <3>1
  <2> QED BY <2>3
<1> QED BY <1>2

\* A definition of a function that is recursive towards the end of a text: at
\* a place of `stop` it is given, at any other made of its value at a later one.
Forward(n, T, stop, base, next, make) ==
    /\ n \in Nat
    /\ base \in [1 .. n -> T]
    /\ next \in [1 .. n -> Nat]
    /\ make \in [1 .. n -> [T -> T]]
    /\ \A i \in 1 .. n : i \notin stop => next[i] > i /\ next[i] <= n

Solution(f, n, stop, base, next, make) ==
    \A i \in 1 .. n : f[i] = IF i \in stop THEN base[i] ELSE make[i][f[next[i]]]

\* There is a function that is as defined.
LEMMA Recursion ==
    ASSUME NEW n, NEW T, NEW stop, NEW base, NEW next, NEW make,
           Forward(n, T, stop, base, next, make)
    PROVE  \E f \in [1 .. n -> T] : Solution(f, n, stop, base, next, make)
<1> USE DEF Forward, Solution
<1> DEFINE Solves(f, m) ==
               \A i \in m .. n : f[i] = IF i \in stop THEN base[i] ELSE make[i][f[next[i]]]
           Solved == {m \in 1 .. n : \E f \in [m .. n -> T] : Solves(f, m)}
<1>1. ASSUME NEW m \in 1 .. n, \A k \in (m + 1) .. n : k \in Solved
      PROVE  m \in Solved
  <2>1. PICK f \in [(m + 1) .. n -> T] : Solves(f, m + 1)
    <3>1. CASE m = n
      <4> DEFINE e == [i \in (m + 1) .. n |-> base[i]]
      <4>1. (m + 1) .. n = {}
        BY <3>1
      <4>2. e \in [(m + 1) .. n -> T] /\ Solves(e, m + 1)
        BY <4>1
      <4> WITNESS e \in [(m + 1) .. n -> T]
      <4> QED BY <4>2
    <3>2. CASE m # n
      <4>1. m + 1 \in Solved
        <5> HIDE DEF Solved
        <5> QED BY <1>1, <3>2
      <4> HIDE DEF Solves
      <4> QED BY <4>1
    <3> QED BY <3>1, <3>2
  <2> DEFINE v == IF m \in stop THEN base[m] ELSE make[m][f[next[m]]]
             g == [i \in m .. n |-> IF i = m THEN v ELSE f[i]]
  <2>2. v \in T
    <3>1. m \notin stop => f[next[m]] \in T
      OBVIOUS
    <3> QED BY <3>1
  <2> HIDE DEF v
  <2>3. g \in [m .. n -> T]
    BY <2>2
  <2>4. Solves(g, m)
    <3> SUFFICES ASSUME NEW i \in m .. n
                 PROVE  g[i] = IF i \in stop THEN base[i] ELSE make[i][g[next[i]]]
      OBVIOUS
    <3>1. i \notin stop => g[next[i]] = f[next[i]]
      OBVIOUS
    <3>2. CASE i = m
      BY <3>1, <3>2 DEF v
    <3>3. CASE i # m
      <4>1. i \in (m + 1) .. n
        BY <3>3
      <4> QED BY <2>1, <3>1, <3>3, <4>1
    <3> QED BY <3>2, <3>3
  <2> HIDE DEF g, Solves
  <2> QED BY <2>3, <2>4
<1> HIDE DEF Solved
<1>2. \A m \in 1 .. n : m \in Solved
  BY <1>1, Downward
<1>3. CASE n = 0
  <2>1. base \in [1 .. n -> T] /\ Solves(base, 1)
    BY <1>3
  <2> QED BY <2>1
<1>4. CASE n # 0
  <2>1. 1 \in Solved
    BY <1>2, <1>4
  <2>2. PICK f \in [1 .. n -> T] : Solves(f, 1)
    BY <2>1 DEF Solved
  <2> QED BY <2>2
<1> QED BY <1>3, <1>4

\* What `strings.Count` computes is what its definition says of each place.
LEMMA CountEquation ==
    ASSUME NEW S, NEW T, NEW s \in Seq(S), NEW old \in Seq(T), old # <<>>
    PROVE  \E f :
               /\ Count(s, old) = f[1]
               /\ \A i \in 1 .. Len(s) + 1 :
                    f[i] = IF i + Len(old) > Len(s) + 1 THEN 0
                           ELSE IF Matches(s, old, i) THEN 1 + f[i + Len(old)]
                           ELSE f[i + 1]
<1> DEFINE n == Len(s) + 1
           D == 1 .. n
           L == Len(old)
           stop == {i \in D : i + L > n}
           base == [i \in D |-> 0]
           next == [i \in D |-> IF Matches(s, old, i) THEN i + L ELSE i + 1]
           make == [i \in D |-> [x \in Nat |-> IF Matches(s, old, i) THEN 1 + x ELSE x]]
           Def(f) == [i \in D |-> IF i + L > n THEN 0
                                  ELSE IF Matches(s, old, i) THEN 1 + f[i + L]
                                  ELSE f[i + 1]]
           from == CHOOSE f : f = Def(f)
<1>1. L \in Nat \ {0} /\ n \in Nat \ {0}
  BY EmptySeq, LenProperties
<1>2. Count(s, old) = from[1]
  BY DEF Count
<1> HIDE DEF L, n
<1>3. /\ base \in [D -> Nat] /\ next \in [D -> Nat] /\ make \in [D -> [Nat -> Nat]]
      /\ \A i \in D : i \notin stop => next[i] > i /\ next[i] <= n
  BY <1>1
<1>4. \E f \in [D -> Nat] : \A i \in D :
          f[i] = IF i \in stop THEN base[i] ELSE make[i][f[next[i]]]
  <2> HIDE DEF base, next, make, stop
  <2>1. Forward(n, Nat, stop, base, next, make)
    BY <1>1, <1>3 DEF Forward
  <2>2. \E f \in [D -> Nat] : Solution(f, n, stop, base, next, make)
    BY <2>1, Recursion
  <2> QED BY <2>2 DEF Solution
<1>5. PICK f \in [D -> Nat] : \A i \in D :
          f[i] = IF i \in stop THEN base[i] ELSE make[i][f[next[i]]]
  BY <1>4
<1>6. \A i \in D : f[i] = Def(f)[i]
  <2> TAKE i \in D
  <2>1. CASE i + L > n
    BY <1>5, <2>1
  <2>2. CASE i + L <= n /\ Matches(s, old, i)
    <3>1. i \notin stop /\ next[i] = i + L
      BY <1>1, <2>2
    <3>3. f[i] = make[i][f[i + L]]
      BY <1>5, <3>1
    <3>2. f[i + L] \in Nat
      BY <1>1, <2>2
    <3> QED BY <1>1, <2>2, <3>3, <3>2
  <2>3. CASE i + L <= n /\ ~Matches(s, old, i)
    <3>1. f[i] = make[i][f[i + 1]]
      BY <1>1, <1>5, <2>3
    <3>2. f[i + 1] \in Nat
      BY <1>1, <2>3
    <3> QED BY <1>1, <2>3, <3>1, <3>2
  <2> QED BY <1>1, <2>1, <2>2, <2>3
<1>7. f = Def(f)
  BY <1>6
<1>8. from = Def(from)
  <2> HIDE DEF Def
  <2> QED BY <1>7
<1>9. \A i \in D : from[i] = IF i + L > n THEN 0
                            ELSE IF Matches(s, old, i) THEN 1 + from[i + L]
                            ELSE from[i + 1]
  <2> HIDE DEF from
  <2> QED BY <1>8
<1> QED BY <1>2, <1>9 DEF L, n

\* Going on behind each match, one finds a single match if and only if there is
\* an occurrence and any two of them overlap.
THEOREM CountMeansEditable ==
    ASSUME NEW S, NEW T, NEW s \in Seq(S), NEW old \in Seq(T), old # <<>>, s # Absent
    PROVE  Count(s, old) = 1 <=> Store!Editable(s, old)
<1> DEFINE n == Len(s) + 1
           L == Len(old)
           Occ == Store!Occurrences(s, old)
<1>1. L \in Nat \ {0} /\ n \in Nat \ {0}
  BY EmptySeq, LenProperties
<1>2. PICK f :
        /\ Count(s, old) = f[1]
        /\ \A i \in 1 .. n : f[i] = IF i + L > n THEN 0
                                    ELSE IF Matches(s, old, i) THEN 1 + f[i + L]
                                    ELSE f[i + 1]
  BY CountEquation
<1>3. \A i : i \in Occ <=> i \in Int /\ i >= 1 /\ i + L <= n /\ Matches(s, old, i)
  <2>1. Occ = {i \in 1 .. Len(s) - L + 1 : Matches(s, old, i)}
    BY DEF Store!Occurrences, Store!Matches, Matches
  <2>2. Len(s) \in Nat
    BY LenProperties
  <2> HIDE DEF L, Occ
  <2> QED BY <1>1, <2>1, <2>2
<1> HIDE DEF L, n, Occ
<1> DEFINE None(i) == \A k \in Occ : k < i
           Single(i) == /\ \E k \in Occ : k >= i
                        /\ \A j, k \in Occ : j >= i /\ k >= i => j - k < L
           Found == {i \in 1 .. n : /\ f[i] \in Nat
                                    /\ f[i] = 0 <=> None(i)
                                    /\ f[i] = 1 <=> Single(i)}
<1>4. ASSUME NEW i \in 1 .. n, \A k \in (i + 1) .. n : k \in Found
      PROVE  i \in Found
  <2>1. CASE i + L > n
    BY <1>1, <1>2, <1>3, <2>1
  <2>2. CASE i + L <= n /\ Matches(s, old, i)
    <3>1. f[i] = 1 + f[i + L] /\ i + L \in Found /\ i \in Occ
      <4> HIDE DEF Found
      <4>1. i + L \in (i + 1) .. n
        BY <1>1, <2>2
      <4>2. i + L \in Found
        BY <1>4, <4>1
      <4>3. i \in Occ
        BY <1>1, <1>3, <2>2
      <4>4. ~ (i + L > n)
        BY <1>1, <2>2
      <4> QED BY <1>2, <2>2, <4>2, <4>3, <4>4
    <3>2. ~None(i)
      BY <1>1, <3>1
    <3>3. Single(i) <=> None(i + L)
      <4>1. ASSUME Single(i), NEW k \in Occ PROVE k < i + L
        BY <1>1, <1>3, <3>1, <4>1
      <4>2. ASSUME None(i + L), NEW j \in Occ, NEW k \in Occ, j >= i, k >= i
            PROVE  j - k < L
        BY <1>1, <1>3, <4>2
      <4> QED BY <3>1, <4>1, <4>2, SMTT(30)
    <3>4. /\ f[i + L] \in Nat
          /\ f[i + L] = 0 <=> None(i + L)
      BY <3>1
    <3> HIDE DEF None, Single
    <3> QED BY <3>1, <3>2, <3>3, <3>4
  <2>3. CASE i + L <= n /\ ~Matches(s, old, i)
    <3>1. f[i] = f[i + 1] /\ i + 1 \in Found /\ i \notin Occ
      <4> HIDE DEF Found
      <4> QED BY <1>1, <1>2, <1>3, <1>4, <2>3
    <3>2. \A k \in Occ : k >= i <=> k >= i + 1
      BY <1>3, <3>1
    <3>3. None(i) <=> None(i + 1)
      BY <1>3, <3>2
    <3>4. Single(i) <=> Single(i + 1)
      BY <3>2
    <3> QED BY <3>1, <3>3, <3>4
  <2> QED BY <1>1, <2>1, <2>2, <2>3
<1> HIDE DEF Found
<1>5. \A i \in 1 .. n : i \in Found
  BY <1>1, <1>4, Downward
<1>6. f[1] = 1 <=> Single(1)
  BY <1>1, <1>5 DEF Found
<1>7. Single(1) <=> Store!Editable(s, old)
  BY <1>3 DEF Store!Editable, L, Occ
<1> QED BY <1>2, <1>6, <1>7

\* What `strings.Replace` computes is what its definition says of each place.
LEMMA ReplaceEquation ==
    ASSUME NEW S, NEW T, NEW s \in Seq(S), NEW new \in Seq(S), NEW old \in Seq(T)
    PROVE  \E f :
               /\ Replace(s, old, new) = f[1]
               /\ \A i \in 1 .. Len(s) + 1 :
                    f[i] = IF i > Len(s) THEN <<>>
                           ELSE IF i + Len(old) <= Len(s) + 1 /\ Matches(s, old, i)
                           THEN new \o SubSeq(s, i + Len(old), Len(s))
                           ELSE <<s[i]>> \o f[i + 1]
<1> DEFINE n == Len(s) + 1
           D == 1 .. n
           L == Len(old)
           Here(i) == i + L <= n /\ Matches(s, old, i)
           stop == {i \in D : i > Len(s) \/ Here(i)}
           base == [i \in D |-> IF i > Len(s) THEN <<>>
                                ELSE IF Here(i) THEN new \o SubSeq(s, i + L, Len(s))
                                ELSE <<>>]
           next == [i \in D |-> i + 1]
           make == [i \in D |-> [x \in Seq(S) |->
                                     IF i <= Len(s) THEN <<s[i]>> \o x ELSE <<>>]]
           Def(f) == [i \in D |-> IF i > Len(s) THEN <<>>
                                  ELSE IF Here(i) THEN new \o SubSeq(s, i + L, Len(s))
                                  ELSE <<s[i]>> \o f[i + 1]]
           from == CHOOSE f : f = Def(f)
<1>1. L \in Nat /\ Len(s) \in Nat
  BY LenProperties
<1>2. Replace(s, old, new) = from[1]
  BY DEF Replace
<1> HIDE DEF L, Here
<1>3. Forward(n, Seq(S), stop, base, next, make)
  <2>1. \A i \in D : new \o SubSeq(s, i + L, Len(s)) \in Seq(S)
    <3> TAKE i \in D
    <3>1. SubSeq(s, i + L, Len(s)) \in Seq(S)
      BY <1>1, SubSeqProperties, ElementOfSeq
    <3> QED BY <3>1
  <2>2. base \in [D -> Seq(S)]
    BY <2>1
  <2>3. make \in [D -> [Seq(S) -> Seq(S)]]
    <3> SUFFICES ASSUME NEW i \in D, NEW x \in Seq(S), i <= Len(s)
                 PROVE  <<s[i]>> \o x \in Seq(S)
      BY <1>1
    <3>1. s[i] \in S
      BY <1>1
    <3> QED BY <3>1
  <2>4. next \in [D -> Nat] /\ n \in Nat
    BY <1>1
  <2>5. \A i \in D : i \notin stop => next[i] > i /\ next[i] <= n
    BY <1>1
  <2> HIDE DEF base, make, next, stop
  <2> QED BY <2>2, <2>3, <2>4, <2>5 DEF Forward
<1>4. PICK f \in [D -> Seq(S)] : Solution(f, n, stop, base, next, make)
  <2> HIDE DEF base, make, next, stop, n
  <2> QED BY <1>3, Recursion
<1>5. \A i \in D : f[i] = Def(f)[i]
  <2> TAKE i \in D
  <2>1. f[i] = IF i \in stop THEN base[i] ELSE make[i][f[next[i]]]
    BY <1>4 DEF Solution
  <2>2. i \in stop => f[i] = Def(f)[i]
    BY <2>1
  <2>3. i \notin stop => i + 1 \in D /\ next[i] = i + 1
    BY <1>1
  <2>4. i \notin stop => f[i + 1] \in Seq(S) /\ f[i] = make[i][f[i + 1]]
    <3> HIDE DEF stop, base, make, next
    <3> QED BY <2>1, <2>3
  <2>5. i \notin stop => f[i] = <<s[i]>> \o f[i + 1]
    BY <1>1, <2>4
  <2> QED BY <2>2, <2>5
<1>6. f = Def(f)
  BY <1>5
<1>7. from = Def(from)
  <2> HIDE DEF Def
  <2> QED BY <1>6
<1>8. \A i \in D : from[i] = IF i > Len(s) THEN <<>>
                            ELSE IF Here(i) THEN new \o SubSeq(s, i + L, Len(s))
                            ELSE <<s[i]>> \o from[i + 1]
  <2> HIDE DEF from
  <2> QED BY <1>7
<1> HIDE DEF from
<1> QED BY <1>2, <1>8 DEF L, Here

\* What an edit puts in its place is made of the lines of both texts.
LEMMA ReplaceIsText ==
    ASSUME NEW S, NEW T, NEW s \in Seq(S), NEW new \in Seq(S), NEW old \in Seq(T)
    PROVE  Replace(s, old, new) \in Seq(S)
<1> DEFINE n == Len(s) + 1
           L == Len(old)
           Here(i) == i + L <= n /\ Matches(s, old, i)
<1>1. L \in Nat /\ Len(s) \in Nat
  BY LenProperties
<1>2. PICK f :
        /\ Replace(s, old, new) = f[1]
        /\ \A i \in 1 .. n : f[i] = IF i > Len(s) THEN <<>>
                                    ELSE IF Here(i)
                                    THEN new \o SubSeq(s, i + L, Len(s))
                                    ELSE <<s[i]>> \o f[i + 1]
  BY ReplaceEquation
<1> HIDE DEF Here, L
<1> DEFINE Typed == {i \in 1 .. n : f[i] \in Seq(S)}
<1>3. ASSUME NEW i \in 1 .. n, \A k \in (i + 1) .. n : k \in Typed
      PROVE  i \in Typed
  <2>1. SubSeq(s, i + L, Len(s)) \in Seq(S)
    BY <1>1, SubSeqProperties, ElementOfSeq
  <2>2. new \o SubSeq(s, i + L, Len(s)) \in Seq(S)
    BY <2>1
  <2>3. i <= Len(s) => <<s[i]>> \in Seq(S) /\ f[i + 1] \in Seq(S)
    BY <1>1, <1>3
  <2>4. i <= Len(s) => <<s[i]>> \o f[i + 1] \in Seq(S)
    BY <2>3
  <2>5. f[i] = IF i > Len(s) THEN <<>>
               ELSE IF Here(i) THEN new \o SubSeq(s, i + L, Len(s))
               ELSE <<s[i]>> \o f[i + 1]
    BY <1>2
  <2>6. CASE i > Len(s)
    <3>1. f[i] = <<>>
      BY <2>5, <2>6
    <3>2. f[i] \in Seq(S)
      BY <3>1, EmptySeq
    <3> QED BY <3>2
  <2>7. CASE ~ (i > Len(s)) /\ Here(i)
    <3>1. f[i] = new \o SubSeq(s, i + L, Len(s))
      BY <2>5, <2>7
    <3>2. f[i] \in Seq(S)
      BY <2>2, <3>1
    <3> QED BY <3>2
  <2>8. CASE ~ (i > Len(s)) /\ ~Here(i)
    <3>1. f[i] = <<s[i]>> \o f[i + 1]
      BY <2>5, <2>8
    <3>2. f[i] \in Seq(S)
      BY <1>1, <2>4, <2>8, <3>1
    <3> QED BY <3>2
  <2> QED BY <2>6, <2>7, <2>8
<1> HIDE DEF Typed
<1>4. \A i \in 1 .. n : i \in Typed
  <2>1. n \in Nat
    BY <1>1
  <2> HIDE DEF n
  <2> QED BY <1>3, <2>1, Downward
<1> QED BY <1>1, <1>2, <1>4 DEF Typed

\* The first occurrence makes way for the new text.
THEOREM ReplaceMeansEdited ==
    ASSUME NEW S, NEW T, NEW s \in Seq(S), NEW new \in Seq(S), NEW old \in Seq(T),
           old # <<>>, Store!Editable(s, old)
    PROVE  Replace(s, old, new) = Store!Edited(s, old, new)
<1> DEFINE n == Len(s) + 1
           L == Len(old)
           Occ == Store!Occurrences(s, old)
           Least(m) == m \in Occ /\ \A k \in Occ : m <= k
           Rest(m) == SubSeq(s, m + L, Len(s))
<1>1. L \in Nat \ {0} /\ Len(s) \in Nat
  BY EmptySeq, LenProperties
<1>2. \A i : i \in Occ <=> i \in Int /\ i >= 1 /\ i + L <= n /\ Matches(s, old, i)
  BY <1>1 DEF Store!Occurrences, Store!Matches, Matches
<1>3. PICK f :
        /\ Replace(s, old, new) = f[1]
        /\ \A i \in 1 .. n : f[i] = IF i > Len(s) THEN <<>>
                                    ELSE IF i + L <= n /\ Matches(s, old, i)
                                    THEN new \o Rest(i)
                                    ELSE <<s[i]>> \o f[i + 1]
  BY ReplaceEquation
<1>4. Occ # {}
  BY DEF Store!Editable
<1> HIDE DEF L, Occ
<1>5. PICK m : Least(m)
  <2>1. Occ \in SUBSET Nat
    BY <1>2
  <2> QED BY <1>4, <2>1, LeastElement
<1>6. m \in 1 .. Len(s) /\ m + L <= n /\ Matches(s, old, m)
  BY <1>1, <1>2, <1>5
<1>7. Store!Edited(s, old, new) = (SubSeq(s, 1, m - 1) \o new) \o Rest(m)
  <2> DEFINE first == CHOOSE i \in Occ : \A k \in Occ : i <= k
  <2>1. first = m
    BY <1>2, <1>5
  <2>2. Store!Edited(s, old, new) = (SubSeq(s, 1, first - 1) \o new) \o Rest(first)
    BY DEF Store!Edited, Occ, L
  <2> HIDE DEF first
  <2> QED BY <2>1, <2>2
<1>8. Rest(m) \in Seq(S)
  BY <1>1, <1>6, SubSeqProperties, ElementOfSeq
<1> DEFINE Done == {i \in 1 .. m : f[i] = (SubSeq(s, i, m - 1) \o new) \o Rest(m)}
<1>9. ASSUME NEW i \in 1 .. m, \A k \in (i + 1) .. m : k \in Done
      PROVE  i \in Done
  <2>1. CASE i = m
    <3>1. f[m] = new \o Rest(m)
      <4>1. m \in 1 .. n /\ ~ (m > Len(s)) /\ (m + L <= n /\ Matches(s, old, m))
        BY <1>1, <1>6
      <4> HIDE DEF Rest, n
      <4> QED BY <1>3, <4>1
    <3>2. SubSeq(s, m, m - 1) = <<>>
      BY <1>6, SubSeqEmpty
    <3>3. SubSeq(s, m, m - 1) \o new = new
      BY <3>2, ConcatEmptySeq
    <3> HIDE DEF Rest
    <3> QED BY <2>1, <3>1, <3>3
  <2>2. CASE i < m
    <3> DEFINE Before(k) == SubSeq(s, k, m - 1)
    <3>1. f[i] = <<s[i]>> \o f[i + 1]
      <4>1. i \notin Occ
        BY <1>5, <1>6, <2>2
      <4>2. ~ (i + L <= n /\ Matches(s, old, i)) /\ ~ (i > Len(s)) /\ i \in 1 .. n
        BY <1>1, <1>2, <1>6, <2>2, <4>1, SMTT(30)
      <4> HIDE DEF Rest, n
      <4> QED BY <1>3, <4>2
    <3>2. f[i + 1] = (Before(i + 1) \o new) \o Rest(m)
      <4>1. i + 1 \in Done
        <5> HIDE DEF Done
        <5> QED BY <1>6, <1>9, <2>2
      <4> QED BY <4>1
    <3>3. Before(i) = <<s[i]>> \o Before(i + 1)
      BY <1>1, <1>6, <2>2, SubSeqRecursiveFirst
    <3>4. Before(i + 1) \in Seq(S) /\ <<s[i]>> \in Seq(S)
      BY <1>1, <1>6, <2>2, SubSeqProperties, ElementOfSeq
    <3> HIDE DEF Before, Rest
    <3>5. <<s[i]>> \o ((Before(i + 1) \o new) \o Rest(m))
              = (<<s[i]>> \o (Before(i + 1) \o new)) \o Rest(m)
      <4>1. Before(i + 1) \o new \in Seq(S)
        BY <3>4, ConcatProperties
      <4> DEFINE one == <<s[i]>>
                 t == Before(i + 1) \o new
                 u == Rest(m)
      <4>2. one \in Seq(S) /\ t \in Seq(S) /\ u \in Seq(S)
        BY <1>8, <3>4, <4>1
      <4> HIDE DEF one, t, u
      <4>3. one \o (t \o u) = (one \o t) \o u
        BY <4>2, ConcatAssociative, SMTT(60)
      <4> QED BY <4>3 DEF one, t, u
    <3>6. <<s[i]>> \o (Before(i + 1) \o new) = Before(i) \o new
      BY <3>3, <3>4, ConcatAssociative, SMTT(30)
    <3>7. f[i] = (Before(i) \o new) \o Rest(m)
      BY <3>1, <3>2, <3>5, <3>6
    <3>8. f[i] = (SubSeq(s, i, m - 1) \o new) \o Rest(m)
      BY <3>7 DEF Before
    <3> QED BY <3>8
  <2>3. i = m \/ i < m
    BY <1>1, <1>6
  <2> QED BY <2>1, <2>2, <2>3
<1> HIDE DEF Done
<1>10. m \in Nat
  BY <1>6
<1>11. \A i \in 1 .. m : i \in Done
  BY <1>9, <1>10, Downward
<1>12. 1 \in Done
  BY <1>6, <1>11
<1> HIDE DEF Rest
<1> QED BY <1>3, <1>7, <1>12 DEF Done

----------------------------------------------------------------------------
(* Lines.                                                                  *)

\* FileStore counts as this module does.
LEMMA SameCardinality == ASSUME NEW S PROVE Store!Cardinality(S) = Cardinality(S)
BY DEF Store!Cardinality, Cardinality

\* A line has an end.
LEMMA LineEndFacts ==
    ASSUME NEW S, NEW s \in Seq(S), NEW i \in 1 .. Len(s) + 1
    PROVE  /\ LineEnd(s, i) \in i - 1 .. Len(s)
           /\ LineEnd(s, i) = Len(s) \/ s[LineEnd(s, i) + 1] = NL
           /\ \A k \in i .. LineEnd(s, i) : s[k] # NL
<1> DEFINE Ends == {e \in Nat : e >= i - 1 /\ e <= Len(s) /\ (e = Len(s) \/ s[e + 1] = NL)}
<1>1. Len(s) \in Nat /\ i \in Nat /\ i >= 1
  BY LenProperties
<1>2. PICK m \in Ends : \A k \in Ends : m <= k
  <2>1. Len(s) \in Ends
    BY <1>1
  <2>2. Ends \in SUBSET Nat
    OBVIOUS
  <2> HIDE DEF Ends
  <2> QED BY <2>1, <2>2, LeastElement
<1>3. \A k \in i .. m : s[k] # NL
  <2> SUFFICES ASSUME NEW k \in i .. m, s[k] = NL PROVE FALSE
    OBVIOUS
  <2>1. k - 1 \in Nat /\ k - 1 >= i - 1 /\ k - 1 < m /\ (k - 1) + 1 = k
    BY <1>1
  <2>2. k - 1 <= Len(s) /\ s[(k - 1) + 1] = NL
    BY <1>1, <1>2, <2>1
  <2>3. k - 1 \in Ends
    BY <2>1, <2>2
  <2>4. m <= k - 1
    <3> HIDE DEF Ends
    <3> QED BY <1>2, <2>3
  <2> QED BY <1>1, <2>1, <2>4
<1>4. /\ m \in i - 1 .. Len(s)
      /\ m = Len(s) \/ s[m + 1] = NL
  BY <1>1, <1>2
<1> QED BY <1>3, <1>4 DEF LineEnd

\* The lines up to a position are finitely many.
LEMMA NumberFacts ==
    ASSUME NEW S, NEW s \in Seq(S)
    PROVE  /\ IsFiniteSet(Store!Starts(s))
           /\ Store!LineCount(s) \in Nat
           /\ \A p \in Nat : /\ IsFiniteSet({k \in Store!Starts(s) : k <= p})
                             /\ Store!Number(s, p) \in Nat
                             /\ Store!Number(s, p) <= Store!LineCount(s)
           /\ Store!Number(s, 0) = 0
           /\ Store!Number(s, Len(s)) = Store!LineCount(s)
<1> DEFINE Starts == Store!Starts(s)
           Until(p) == {k \in Starts : k <= p}
<1>1. Len(s) \in Nat /\ Starts \subseteq 1 .. Len(s)
  BY LenProperties DEF Store!Starts
<1>2. IsFiniteSet(Starts)
  <2>1. IsFiniteSet(1 .. Len(s))
    BY <1>1, FS_Interval
  <2> QED BY <1>1, <2>1, FS_Subset
<1>3. ASSUME NEW p \in Nat
      PROVE  /\ IsFiniteSet(Until(p))
             /\ Cardinality(Until(p)) \in Nat
             /\ Cardinality(Until(p)) <= Cardinality(Starts)
  <2>1. Until(p) \subseteq Starts
    OBVIOUS
  <2> HIDE DEF Until
  <2> QED BY <1>2, <2>1, FS_Subset, FS_CardinalityType
<1>4. Cardinality(Until(0)) = 0
  <2>1. Until(0) = {}
    BY <1>1
  <2> QED BY <2>1, FS_EmptySet
<1>5. Until(Len(s)) = Starts
  BY <1>1
<1>6. \A p : Store!Number(s, p) = Cardinality(Until(p))
  BY SameCardinality DEF Store!Number
<1>7. Store!LineCount(s) = Cardinality(Starts) /\ Cardinality(Starts) \in Nat
  BY <1>2, FS_CardinalityType, SameCardinality DEF Store!LineCount
<1>8. Store!Number(s, 0) = 0 /\ Store!Number(s, Len(s)) = Store!LineCount(s)
  <2> HIDE DEF Until, Starts
  <2> QED BY <1>4, <1>5, <1>6, <1>7
<1>9. \A p \in Nat : /\ IsFiniteSet(Until(p))
                     /\ Store!Number(s, p) \in Nat
                     /\ Store!Number(s, p) <= Store!LineCount(s)
  <2> HIDE DEF Until, Starts
  <2> QED BY <1>3, <1>6, <1>7
<1> QED BY <1>2, <1>7, <1>8, <1>9

\* No two lines have the same number.
LEMMA NumberGrows ==
    ASSUME NEW S, NEW s \in Seq(S), NEW i \in Store!Starts(s), NEW k \in Store!Starts(s), i < k
    PROVE  Store!Number(s, i) < Store!Number(s, k)
<1> DEFINE I == {m \in Store!Starts(s) : m <= i}
           K == {m \in Store!Starts(s) : m <= k}
<1>1. Store!Starts(s) \subseteq Nat
  BY LenProperties DEF Store!Starts
<1>2. I \cup {k} \subseteq K /\ k \notin I
  BY <1>1
<1>3. IsFiniteSet(I) /\ IsFiniteSet(K)
  BY <1>1, NumberFacts
<1> HIDE DEF I, K
<1>4. Cardinality(I \cup {k}) = Cardinality(I) + 1 /\ IsFiniteSet(I \cup {k})
  BY <1>2, <1>3, FS_AddElement
<1>5. Cardinality(I \cup {k}) <= Cardinality(K)
  BY <1>2, <1>3, FS_Subset
<1>6. Cardinality(I) \in Nat /\ Cardinality(K) \in Nat
  BY <1>3, FS_CardinalityType
<1>7. Cardinality(I) < Cardinality(K)
  BY <1>2, <1>4, <1>5, <1>6
<1>8. Store!Number(s, i) = Cardinality(I) /\ Store!Number(s, k) = Cardinality(K)
  BY SameCardinality DEF I, K, Store!Number
<1> QED BY <1>7, <1>8

\* The line that begins at a position is the one of its number.
LEMMA LineAt ==
    ASSUME NEW S, NEW s \in Seq(S), NEW i \in Store!Starts(s)
    PROVE  Store!Line(s, Store!Number(s, i)) = SubSeq(s, i, LineEnd(s, i))
<1> DEFINE n == Store!Number(s, i)
           j == CHOOSE k \in Store!Starts(s) : Store!Number(s, k) = n
<1>1. j \in Store!Starts(s) /\ Store!Number(s, j) = n
  OBVIOUS
<1>2. Store!Starts(s) \subseteq Nat
  BY LenProperties DEF Store!Starts
<1>3. Store!Number(s, j) \in Nat /\ n \in Nat
  BY <1>1, <1>2, NumberFacts
<1> HIDE DEF j
<1>4. j = i
  <2>1. ~ (j < i)
    <3> HIDE DEF n
    <3> QED BY <1>1, <1>3, NumberGrows DEF n
  <2>2. ~ (i < j)
    <3> HIDE DEF n
    <3> QED BY <1>1, <1>3, NumberGrows DEF n
  <2> QED BY <1>1, <1>2, <2>1, <2>2
<1>5. Store!Line(s, n) = SubSeq(s, j, Store!LineEnd(s, j))
  BY DEF Store!Line, j
<1>6. Store!LineEnd(s, i) = LineEnd(s, i)
  BY DEF Store!LineEnd, LineEnd
<1> QED BY <1>4, <1>5, <1>6

\* Where a line that begins behind p leads: one number further, to a place
\* where the next line begins or the text ends.
LEMMA NextLine ==
    ASSUME NEW S, NEW s \in Seq(S), NEW p \in Nat, p < Len(s), p = 0 \/ s[p] = NL,
           NEW q, q = IF LineEnd(s, p + 1) < Len(s) THEN LineEnd(s, p + 1) + 1
                      ELSE LineEnd(s, p + 1)
    PROVE  /\ q \in Nat /\ q <= Len(s)
           /\ q = Len(s) \/ s[q] = NL
           /\ Store!Number(s, q) = Store!Number(s, p) + 1
           /\ Store!Line(s, Store!Number(s, q)) = SubSeq(s, p + 1, LineEnd(s, p + 1))
<1> DEFINE e == LineEnd(s, p + 1)
           Starts == Store!Starts(s)
           Until(k) == {i \in Starts : i <= k}
<1>1. Len(s) \in Nat /\ p + 1 \in 1 .. Len(s) + 1 /\ (p + 1) - 1 = p
  BY LenProperties
<1>2. /\ e \in p .. Len(s)
      /\ e = Len(s) \/ s[e + 1] = NL
      /\ \A k \in p + 1 .. e : s[k] # NL
  BY <1>1, LineEndFacts
<1> HIDE DEF e
<1>3. q \in Nat /\ q <= Len(s) /\ p + 1 <= q /\ (q = e \/ q = e + 1)
  BY <1>1, <1>2 DEF e
<1>4. q = Len(s) \/ s[q] = NL
  BY <1>1, <1>2 DEF e
<1>5. p + 1 \in Starts
  BY <1>1 DEF Store!Starts
<1>6. ASSUME NEW i \in Starts, i > p + 1, i <= q PROVE FALSE
  <2>1. i \in 1 .. Len(s) /\ (i = 1 \/ s[i - 1] = NL)
    BY DEF Store!Starts
  <2>2. i - 1 \in p + 1 .. e /\ i # 1
    BY <1>1, <1>2, <1>3, <1>6, <2>1
  <2> QED BY <1>2, <2>1, <2>2
<1>7. Starts \subseteq Nat
  BY <1>1 DEF Store!Starts
<1> HIDE DEF Starts
<1>8. Until(q) = Until(p) \cup {p + 1} /\ Until(p + 1) = Until(p) \cup {p + 1}
      /\ p + 1 \notin Until(p)
  <2>1. \A i \in Starts : i <= q <=> i <= p \/ i = p + 1
    BY <1>3, <1>6, <1>7
  <2>2. \A i \in Starts : i <= p + 1 <=> i <= p \/ i = p + 1
    BY <1>7
  <2>3. ~ (p + 1 <= p)
    OBVIOUS
  <2> QED BY <1>5, <2>1, <2>2, <2>3
<1>9. IsFiniteSet(Until(p))
  BY NumberFacts DEF Starts
<1>10. Cardinality(Until(p) \cup {p + 1}) = Cardinality(Until(p)) + 1
  <2> HIDE DEF Until
  <2> QED BY <1>8, <1>9, FS_AddElement
<1>11. /\ Store!Number(s, q) = Store!Number(s, p) + 1
       /\ Store!Number(s, p + 1) = Store!Number(s, p) + 1
  <2>1. \A k : Store!Number(s, k) = Cardinality(Until(k))
    BY SameCardinality DEF Store!Number, Starts
  <2> HIDE DEF Until
  <2> QED BY <1>8, <1>10, <2>1
<1>12. Store!Line(s, Store!Number(s, p + 1)) = SubSeq(s, p + 1, LineEnd(s, p + 1))
  BY <1>5, LineAt DEF Starts
<1> QED BY <1>3, <1>4, <1>11, <1>12

\* What is shown of a line is made of the bytes of the text.
LEMMA LineIsText ==
    ASSUME NEW S, NEW s \in Seq(S), NEW p \in Nat, p < Len(s)
    PROVE  /\ SubSeq(s, p + 1, LineEnd(s, p + 1)) \in Seq(S)
           /\ Shown(SubSeq(s, p + 1, LineEnd(s, p + 1))) \in Seq(S)
<1> DEFINE line == SubSeq(s, p + 1, LineEnd(s, p + 1))
<1>1. line \in Seq(S)
  <2>1. Len(s) \in Nat /\ p + 1 \in 1 .. Len(s) + 1
    BY LenProperties
  <2>2. LineEnd(s, p + 1) \in Int /\ LineEnd(s, p + 1) <= Len(s)
    BY <2>1, LineEndFacts
  <2>3. \A i \in p + 1 .. LineEnd(s, p + 1) : s[i] \in S
    BY <2>1, <2>2, ElementOfSeq
  <2> QED BY <2>1, <2>2, <2>3, SubSeqProperties
<1> HIDE DEF line
<1>2. line # <<>> => SubSeq(line, 1, Len(line) - 1) \in Seq(S)
  <2>1. Len(line) \in Nat
    BY <1>1, LenProperties
  <2>2. \A i \in 1 .. Len(line) - 1 : line[i] \in S
    BY <1>1, <2>1, ElementOfSeq
  <2> QED BY <1>1, <2>1, <2>2, SubSeqProperties
<1>3. Shown(line) \in Seq(S)
  BY <1>1, <1>2 DEF Shown
<1> QED BY <1>1, <1>3 DEF line
=============================================================================
