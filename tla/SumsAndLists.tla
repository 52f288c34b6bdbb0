---------------------------- MODULE SumsAndLists ----------------------------
(***************************************************************************)
(* Lemmas that several of the proofs rest on. Sums: g[1] + ... + g[N] of   *)
(* numbers that are kept by number, which the models write as a recursive  *)
(* function of their own and the proofs bring into the form Sum. Lists:    *)
(* what it takes to join lists, lists of lists and their values. The       *)
(* library's induction theorems take an operator, which the provers cannot *)
(* supply, so that induction is stated here for a set of numbers.          *)
(***************************************************************************)
EXTENDS Integers, SequencesExt, SequenceTheorems, WellFoundedInduction, TLAPS

Sum(g, N) ==
    LET upTo[n \in 0 .. N] == IF n = 0 THEN 0 ELSE g[n] + upTo[n - 1]
    IN  upTo[N]

\* u[n] is the sum up to n.
IsSum(u, g, N) == u = [n \in 0 .. N |-> IF n = 0 THEN 0 ELSE g[n] + u[n - 1]]

\* A set that holds zero, and with a number the next one, holds every number:
\* a least one outside would have its predecessor inside.
LEMMA EveryNumber ==
    ASSUME NEW S \in SUBSET Nat, 0 \in S, \A n \in S : n + 1 \in S
    PROVE  S = Nat
  <1> SUFFICES ASSUME Nat \ S # {}
               PROVE  FALSE
    OBVIOUS
  <1>1. IsWellFoundedOn(OpToRel(<, Nat), Nat)
    BY NatLessThanWellFounded
  <1>2. PICK m \in Nat \ S : \A n \in Nat \ S : ~(<<n, m>> \in OpToRel(<, Nat))
    BY <1>1, WFMin
  <1>3. \A n \in Nat \ S : ~(n < m)
    BY <1>2 DEF OpToRel
  <1>4. m - 1 \in S
    BY <1>3
  <1>5. (m - 1) + 1 = m
    OBVIOUS
  <1>6. QED
    BY <1>4, <1>5

\* There is such a u for every length: a longer one extends a shorter one.
LEMMA SumExists ==
    ASSUME NEW g, NEW N \in Nat
    PROVE  \E u : IsSum(u, g, N)
  <1> DEFINE S == {m \in Nat : \E u : IsSum(u, g, m)}
  <1>1. 0 \in S
    <2>1. IsSum([n \in 0 .. 0 |-> 0], g, 0)
      BY DEF IsSum
    <2>2. QED
      BY <2>1
  <1>2. ASSUME NEW m \in S
        PROVE  m + 1 \in S
    <2>1. PICK u : IsSum(u, g, m)
      OBVIOUS
    <2> DEFINE v == [n \in 0 .. m + 1 |->
                       IF n <= m THEN u[n] ELSE g[m + 1] + u[m]]
    <2>2. m \in Nat
      OBVIOUS
    <2>3. \A n \in 0 .. m : u[n] = IF n = 0 THEN 0 ELSE g[n] + u[n - 1]
      BY <2>1 DEF IsSum
    <2>4. \A n \in 0 .. m + 1 : v[n] = IF n = 0 THEN 0 ELSE g[n] + v[n - 1]
      BY <2>2, <2>3
    <2>5. v = [n \in 0 .. m + 1 |-> v[n]]
      OBVIOUS
    <2> HIDE DEF v
    <2>6. IsSum(v, g, m + 1)
      BY <2>4, <2>5 DEF IsSum
    <2>7. QED
      BY <2>2, <2>6
  <1>3. S = Nat
    BY <1>1, <1>2, EveryNumber
  <1>4. QED
    BY <1>3

\* The recursive function of Sum is one.
LEMMA SumIs ==
    ASSUME NEW g, NEW N \in Nat
    PROVE  \E u : IsSum(u, g, N) /\ Sum(g, N) = u[N]
  <1> DEFINE upTo[n \in 0 .. N] == IF n = 0 THEN 0 ELSE g[n] + upTo[n - 1]
  <1>1. Sum(g, N) = upTo[N]
    BY DEF Sum
  <1>2. \E u : u = [n \in 0 .. N |-> IF n = 0 THEN 0 ELSE g[n] + u[n - 1]]
    BY SumExists DEF IsSum
  <1>3. upTo = [n \in 0 .. N |-> IF n = 0 THEN 0 ELSE g[n] + upTo[n - 1]]
    BY <1>2, Zenon
  <1>4. QED
    BY <1>1, <1>3 DEF IsSum

\* Numbers that differ in one place have sums that differ by as much, from
\* that place on.
LEMMA SumsDiffer ==
    ASSUME NEW N \in Nat, NEW g, NEW h, NEW u, NEW v,
           IsSum(u, g, N), IsSum(v, h, N),
           NEW k \in Nat, NEW d \in Int,
           \A n \in 1 .. N : /\ g[n] \in Int
                             /\ h[n] = IF n = k THEN g[n] + d ELSE g[n]
    PROVE  \A m \in 0 .. N :
               /\ u[m] \in Int
               /\ v[m] = IF 1 <= k /\ k <= m THEN u[m] + d ELSE u[m]
  <1> DEFINE P(m) == m <= N =>
                 /\ u[m] \in Int
                 /\ v[m] = IF 1 <= k /\ k <= m THEN u[m] + d ELSE u[m]
             S == {m \in Nat : P(m)}
  <1>1. \A n \in 0 .. N : /\ u[n] = IF n = 0 THEN 0 ELSE g[n] + u[n - 1]
                          /\ v[n] = IF n = 0 THEN 0 ELSE h[n] + v[n - 1]
    BY DEF IsSum
  <1>2. 0 \in S
    BY <1>1
  <1>3. ASSUME NEW m \in S
        PROVE  m + 1 \in S
    <2> SUFFICES ASSUME m + 1 <= N
                 PROVE  P(m + 1)
      OBVIOUS
    <2>1. m \in Nat /\ m <= N /\ m + 1 \in 1 .. N /\ (m + 1) - 1 = m
      OBVIOUS
    <2>2. /\ u[m] \in Int
          /\ v[m] = IF 1 <= k /\ k <= m THEN u[m] + d ELSE u[m]
      BY <2>1
    <2>3. u[m + 1] = g[m + 1] + u[m] /\ v[m + 1] = h[m + 1] + v[m]
      BY <1>1, <2>1
    <2>4. g[m + 1] \in Int /\ h[m + 1] = IF m + 1 = k THEN g[m + 1] + d
                                                      ELSE g[m + 1]
      BY <2>1
    <2>5. QED
      BY <2>1, <2>2, <2>3, <2>4
  <1>4. S = Nat
    BY <1>2, <1>3, EveryNumber
  <1>5. QED
    BY <1>4

\* The sum of integers is one, and changes by what one of them changes.
LEMMA SumChanges ==
    ASSUME NEW N \in Nat, NEW g, NEW h, NEW k \in 1 .. N, NEW d \in Int,
           \A n \in 1 .. N : /\ g[n] \in Int
                             /\ h[n] = IF n = k THEN g[n] + d ELSE g[n]
    PROVE  Sum(g, N) \in Int /\ Sum(h, N) = Sum(g, N) + d
  <1>1. PICK u : IsSum(u, g, N) /\ Sum(g, N) = u[N]
    BY SumIs
  <1>2. PICK v : IsSum(v, h, N) /\ Sum(h, N) = v[N]
    BY SumIs
  <1>3. /\ u[N] \in Int
        /\ v[N] = IF 1 <= k /\ k <= N THEN u[N] + d ELSE u[N]
    BY <1>1, <1>2, SumsDiffer
  <1>4. QED
    BY <1>1, <1>2, <1>3

\* The same for a function that is updated in one place.
LEMMA SumMoves ==
    ASSUME NEW N \in Nat, NEW g \in [1 .. N -> Int], NEW k \in 1 .. N, NEW d \in Int
    PROVE  /\ Sum(g, N) \in Int
           /\ Sum([g EXCEPT ![k] = @ + d], N) = Sum(g, N) + d
  <1> DEFINE h == [g EXCEPT ![k] = @ + d]
  <1>1. \A n \in 1 .. N : /\ g[n] \in Int
                          /\ h[n] = IF n = k THEN g[n] + d ELSE g[n]
    OBVIOUS
  <1> HIDE DEF h
  <1>2. Sum(g, N) \in Int /\ Sum(h, N) = Sum(g, N) + d
    BY <1>1, SumChanges, Zenon
  <1>3. QED
    BY <1>2 DEF h

\* Equal numbers have equal sums.
LEMMA SumSame ==
    ASSUME NEW N \in Nat, NEW g, NEW h,
           \A n \in 1 .. N : g[n] \in Int /\ h[n] = g[n]
    PROVE  Sum(g, N) \in Int /\ Sum(h, N) = Sum(g, N)
  <1>1. PICK u : IsSum(u, g, N) /\ Sum(g, N) = u[N]
    BY SumIs
  <1>2. PICK v : IsSum(v, h, N) /\ Sum(h, N) = v[N]
    BY SumIs
  <1>3. u[N] \in Int /\ v[N] = u[N]
    <2>1. \A n \in 1 .. N : /\ g[n] \in Int
                            /\ h[n] = IF n = 0 THEN g[n] + 0 ELSE g[n]
      OBVIOUS
    <2>2. \A m \in 0 .. N :
              /\ u[m] \in Int
              /\ v[m] = IF 1 <= 0 /\ 0 <= m THEN u[m] + 0 ELSE u[m]
      BY <1>1, <1>2, <2>1, SumsDiffer
    <2>3. QED
      BY <2>2
  <1>4. QED
    BY <1>1, <1>2, <1>3

\* The sum of one number more.
LEMMA SumLonger ==
    ASSUME NEW N \in Nat, NEW g, \A n \in 1 .. N : g[n] \in Int
    PROVE  Sum(g, N + 1) = g[N + 1] + Sum(g, N)
  <1>1. PICK u : IsSum(u, g, N + 1) /\ Sum(g, N + 1) = u[N + 1]
    BY SumIs
  <1>2. PICK v : IsSum(v, g, N) /\ Sum(g, N) = v[N]
    BY SumIs
  <1> DEFINE w == [n \in 0 .. N |-> u[n]]
  <1>3. \A n \in 0 .. N + 1 : u[n] = IF n = 0 THEN 0 ELSE g[n] + u[n - 1]
    BY <1>1 DEF IsSum
  <1>4. IsSum(w, g, N)
    BY <1>3 DEF IsSum
  <1>5. w[N] = u[N]
    OBVIOUS
  <1> HIDE DEF w
  <1>6. v[N] = w[N]
    <2>1. \A n \in 1 .. N : /\ g[n] \in Int
                            /\ g[n] = IF n = 0 THEN g[n] + 0 ELSE g[n]
      OBVIOUS
    <2>2. \A m \in 0 .. N :
              /\ w[m] \in Int
              /\ v[m] = IF 1 <= 0 /\ 0 <= m THEN w[m] + 0 ELSE w[m]
      BY <1>2, <1>4, <2>1, SumsDiffer
    <2>3. QED
      BY <2>2
  <1>7. u[N + 1] = g[N + 1] + u[N]
    BY <1>3
  <1>8. QED
    BY <1>1, <1>2, <1>5, <1>6, <1>7

\* The sum of nothing but zeros.
LEMMA SumOfZeros ==
    ASSUME NEW N \in Nat, NEW g, \A n \in 1 .. N : g[n] = 0
    PROVE  Sum(g, N) = 0
  <1>1. PICK u : IsSum(u, g, N) /\ Sum(g, N) = u[N]
    BY SumIs
  <1> DEFINE S == {m \in Nat : m <= N => u[m] = 0}
  <1>2. \A n \in 0 .. N : u[n] = IF n = 0 THEN 0 ELSE g[n] + u[n - 1]
    BY <1>1 DEF IsSum
  <1>3. 0 \in S
    BY <1>2
  <1>4. ASSUME NEW m \in S
        PROVE  m + 1 \in S
    BY <1>2
  <1>5. S = Nat
    BY <1>3, <1>4, EveryNumber
  <1>6. QED
    BY <1>1, <1>5

-----------------------------------------------------------------------------
(* Lists *)

\* A sequence, over whatever its elements are: the proofs need no set that
\* holds them.
IsList(s) == s \in Seq(ToSet(s))

\* Every sequence over a set is a list.
LEMMA ListIs ==
    ASSUME NEW S, NEW s \in Seq(S)
    PROVE  IsList(s)
  BY DEF IsList, ToSet

\* A list is the function of its places.
LEMMA ListLen ==
    ASSUME NEW s, IsList(s)
    PROVE  /\ Len(s) \in Nat
           /\ DOMAIN s = 1 .. Len(s)
           /\ s = [i \in 1 .. Len(s) |-> s[i]]
  BY DEF IsList

\* A function on 1 .. n is a list of n elements.
LEMMA ListOf ==
    ASSUME NEW n \in Nat, NEW f, f = [i \in 1 .. n |-> f[i]]
    PROVE  IsList(f) /\ Len(f) = n
  BY DEF IsList, ToSet

\* Two lists make a list: the elements of the first, then those of the second.
LEMMA ListConcat ==
    ASSUME NEW s, NEW t, IsList(s), IsList(t)
    PROVE  /\ IsList(s \o t)
           /\ Len(s \o t) = Len(s) + Len(t)
           /\ Len(s) \in Nat
           /\ Len(t) \in Nat
           /\ \A i \in 1 .. Len(s) : (s \o t)[i] = s[i]
           /\ \A i \in 1 .. Len(t) : (s \o t)[Len(s) + i] = t[i]
           /\ \A i \in 1 .. Len(s) + Len(t) :
                  i \notin 1 .. Len(s) =>
                      i - Len(s) \in 1 .. Len(t) /\ (s \o t)[i] = t[i - Len(s)]
  <1> DEFINE S == ToSet(s) \cup ToSet(t)
  <1>1. s \in Seq(S) /\ t \in Seq(S)
    BY SeqMonotonic DEF IsList
  <1> HIDE DEF S
  <1>2. IsList(s \o t)
    BY <1>1, ConcatProperties, ListIs
  <1>4. QED
    BY <1>1, <1>2, ConcatProperties, LenProperties

\* Lists with the same elements at the same places are equal.
LEMMA ListEqual ==
    ASSUME NEW s, NEW t, IsList(s), IsList(t), Len(s) = Len(t),
           \A i \in 1 .. Len(s) : s[i] = t[i]
    PROVE  s = t
  BY ListLen

\* The list without elements.
LEMMA ListEmpty ==
    IsList(<<>>) /\ Len(<<>>) = 0 /\ ToSet(<<>>) = {}
  BY DEF IsList, ToSet

\* There is only one such list.
LEMMA ListNone ==
    ASSUME NEW s, IsList(s), Len(s) = 0
    PROVE  s = <<>>
  BY ListEqual, ListEmpty

\* The list of one element.
LEMMA ListOne ==
    ASSUME NEW e
    PROVE  IsList(<<e>>) /\ Len(<<e>>) = 1 /\ <<e>>[1] = e
  BY DEF IsList, ToSet

\* A list of one element has it.
LEMMA OneElement ==
    ASSUME NEW x
    PROVE  ToSet(<<x>>) = {x}
  BY DEF ToSet

\* The empty list adds nothing, on either side.
LEMMA EmptyConcat ==
    ASSUME NEW s, IsList(s)
    PROVE  s \o <<>> = s /\ <<>> \o s = s
  BY DEF IsList

\* It does not matter which two of three lists are joined first.
LEMMA ConcatAssoc ==
    ASSUME NEW s, NEW t, NEW u, IsList(s), IsList(t), IsList(u)
    PROVE  (s \o t) \o u = s \o (t \o u)
  <1> DEFINE S == ToSet(s) \cup ToSet(t) \cup ToSet(u)
  <1>1. s \in Seq(S) /\ t \in Seq(S) /\ u \in Seq(S)
    BY SeqMonotonic DEF IsList
  <1> HIDE DEF S
  <1>3. QED
    BY <1>1, ConcatAssociative

\* The elements of two lists joined are those of either.
LEMMA ConcatSet ==
    ASSUME NEW s, NEW t, IsList(s), IsList(t)
    PROVE  ToSet(s \o t) = ToSet(s) \cup ToSet(t)
  <1>1. /\ IsList(s \o t) /\ Len(s \o t) = Len(s) + Len(t)
        /\ \A i \in 1 .. Len(s) : (s \o t)[i] = s[i]
        /\ \A i \in 1 .. Len(t) : (s \o t)[Len(s) + i] = t[i]
        /\ DOMAIN s = 1 .. Len(s)
        /\ DOMAIN t = 1 .. Len(t)
        /\ DOMAIN (s \o t) = 1 .. Len(s) + Len(t)
        /\ Len(s) \in Nat /\ Len(t) \in Nat
    BY ListConcat, ListLen
  <1>2. \A i \in 1 .. Len(s) + Len(t) :
            \/ i \in 1 .. Len(s)
            \/ (i - Len(s) \in 1 .. Len(t) /\ i = Len(s) + (i - Len(s)))
    BY <1>1
  <1>3. ASSUME NEW x \in ToSet(s \o t)
        PROVE  x \in ToSet(s) \cup ToSet(t)
    <2>1. PICK i \in 1 .. Len(s) + Len(t) : x = (s \o t)[i]
      BY <1>1 DEF ToSet
    <2>2. CASE i \in 1 .. Len(s)
      BY <1>1, <2>1, <2>2 DEF ToSet
    <2>3. CASE i - Len(s) \in 1 .. Len(t)
      <3>1. x = t[i - Len(s)]
        BY <1>1, <2>1, <2>3
      <3>2. QED
        BY <3>1, <1>1, <2>3 DEF ToSet
    <2>4. QED
      BY <1>2, <2>2, <2>3
  <1>4. ASSUME NEW x \in ToSet(s)
        PROVE  x \in ToSet(s \o t)
    <2>1. PICK i \in 1 .. Len(s) : x = s[i]
      BY <1>1 DEF ToSet
    <2>2. x = (s \o t)[i] /\ i \in 1 .. Len(s) + Len(t)
      BY <1>1, <2>1
    <2>3. QED
      BY <1>1, <2>2 DEF ToSet
  <1>5. ASSUME NEW x \in ToSet(t)
        PROVE  x \in ToSet(s \o t)
    <2>1. PICK i \in 1 .. Len(t) : x = t[i]
      BY <1>1 DEF ToSet
    <2>2. x = (s \o t)[Len(s) + i] /\ Len(s) + i \in 1 .. Len(s) + Len(t)
      BY <1>1, <2>1
    <2>3. QED
      BY <1>1, <2>2 DEF ToSet
  <1>6. QED
    BY <1>3, <1>4, <1>5

\* The first n elements of a list are a list.
LEMMA ListPrefix ==
    ASSUME NEW s, IsList(s), NEW n \in 0 .. Len(s)
    PROVE  /\ IsList(SubSeq(s, 1, n)) /\ Len(SubSeq(s, 1, n)) = n
           /\ \A i \in 1 .. n : SubSeq(s, 1, n)[i] = s[i]
  <1>1. Len(s) \in Nat /\ \A i \in 1 .. n : s[i] \in ToSet(s)
    BY ListLen DEF ToSet
  <1>2. /\ SubSeq(s, 1, n) \in Seq(ToSet(s))
        /\ Len(SubSeq(s, 1, n)) = n
        /\ \A i \in 1 .. n : SubSeq(s, 1, n)[i] = s[i]
    BY <1>1, SubSeqProperties
  <1>3. QED
    BY <1>2, ListIs

-----------------------------------------------------------------------------
(* Lists of lists, joined *)

\* A list of lists.
AllLists(ss) == IsList(ss) /\ \A i \in 1 .. Len(ss) : IsList(ss[i])

\* f[i] is the first i lists of ss joined, for every i up to n.
IsFlat(f, ss, n) ==
    f = [i \in 1 .. n |-> IF i = 1 THEN ss[i] ELSE f[i - 1] \o ss[i]]

\* The first n lists of ss joined.
Upto(ss, n) == FlattenSeq(SubSeq(ss, 1, n))

\* There is such an f for every length: a longer one extends a shorter one.
LEMMA FlatExists ==
    ASSUME NEW ss, NEW N \in Nat
    PROVE  \E f : IsFlat(f, ss, N)
  <1> DEFINE S == {m \in Nat : \E f : IsFlat(f, ss, m)}
  <1>1. 0 \in S
    <2>1. IsFlat([i \in 1 .. 0 |-> i], ss, 0)
      BY DEF IsFlat
    <2>3. QED
      BY <2>1
  <1>2. ASSUME NEW m \in S
        PROVE  m + 1 \in S
    <2>1. PICK f : IsFlat(f, ss, m)
      OBVIOUS
    <2> DEFINE g ==
                   [i \in 1 .. m + 1 |-> IF i <= m THEN f[i]
                                         ELSE IF i = 1 THEN ss[i] ELSE f[i - 1] \o ss[i]]
    <2>2. m \in Nat
      OBVIOUS
    <2>3. \A i \in 1 .. m : f[i] = IF i = 1 THEN ss[i] ELSE f[i - 1] \o ss[i]
      BY <2>1 DEF IsFlat
    <2>4. \A i \in 1 .. m + 1 :
              g[i] = IF i = 1 THEN ss[i] ELSE g[i - 1] \o ss[i]
      <3> SUFFICES ASSUME NEW i \in 1 .. m + 1
                   PROVE  g[i] = IF i = 1 THEN ss[i] ELSE g[i - 1] \o ss[i]
        OBVIOUS
      <3>1. CASE i <= m
        <4>1. g[i] = f[i] /\ (i # 1 => g[i - 1] = f[i - 1])
          BY <2>2, <3>1
        <4>2. QED
          BY <4>1, <2>3, <3>1, <2>2
      <3>2. CASE ~(i <= m)
        <4>1. i = m + 1
          BY <2>2, <3>2
        <4>2. i # 1 => g[i - 1] = f[i - 1]
          BY <2>2, <4>1
        <4>3. QED
          BY <4>1, <4>2, <2>2
      <3>3. QED
        BY <3>1, <3>2
    <2>5. g = [i \in 1 .. m + 1 |-> g[i]]
      OBVIOUS
    <2> HIDE DEF g
    <2>6. IsFlat(g, ss, m + 1)
      BY <2>4, <2>5 DEF IsFlat
    <2>8. QED
      BY <2>2, <2>6
  <1>3. S = Nat
    BY <1>1, <1>2, EveryNumber
  <1>5. QED
    BY <1>3

\* The library's FlattenSeq is the last element of such an f.
LEMMA FlattenIs ==
    ASSUME NEW ss, Len(ss) \in Nat, Len(ss) # 0
    PROVE  \E f : IsFlat(f, ss, Len(ss)) /\ FlattenSeq(ss) = f[Len(ss)]
  <1> DEFINE flatten[i \in 1 .. Len(ss)] ==
                 IF i = 1 THEN ss[i] ELSE flatten[i-1] \o ss[i]
  <1>1. FlattenSeq(ss) = flatten[Len(ss)]
    BY DEF FlattenSeq
  <1>2. \E u :
            u =
                [i \in 1 .. Len(ss) |-> IF i = 1 THEN ss[i] ELSE u[i-1] \o ss[i]]
    BY FlatExists DEF IsFlat
  <1>3. flatten =
            [i \in 1 .. Len(ss) |-> IF i = 1 THEN ss[i] ELSE flatten[i-1] \o ss[i]]
    BY <1>2, Zenon
  <1>5. QED
    BY <1>1, <1>3 DEF IsFlat

\* What lists of lists join to up to m depends on their first m lists alone.
LEMMA FlatsAgree ==
    ASSUME NEW ss, NEW tt, NEW m \in Nat, NEW n \in Nat, m <= n, NEW f, NEW g,
           IsFlat(f, ss, m), IsFlat(g, tt, n), \A i \in 1 .. m : ss[i] = tt[i]
    PROVE  \A i \in 1 .. m : f[i] = g[i]
  <1> DEFINE S == {k \in Nat : k \in 1 .. m => f[k] = g[k]}
  <1>1. 0 \in S
    OBVIOUS
  <1>2. ASSUME NEW k \in S
        PROVE  k + 1 \in S
    <2> SUFFICES ASSUME k + 1 \in 1 .. m
                 PROVE  f[k + 1] = g[k + 1]
      OBVIOUS
    <2>1. k \in Nat /\ (k + 1) - 1 = k /\ k + 1 \in 1 .. n
      OBVIOUS
    <2>2. f[k + 1] = IF k + 1 = 1 THEN ss[k + 1] ELSE f[k] \o ss[k + 1]
      BY <2>1 DEF IsFlat
    <2>3. g[k + 1] = IF k + 1 = 1 THEN tt[k + 1] ELSE g[k] \o tt[k + 1]
      BY <2>1 DEF IsFlat
    <2>4. k + 1 # 1 => f[k] = g[k]
      BY <2>1
    <2>5. QED
      BY <2>2, <2>3, <2>4
  <1>3. S = Nat
    BY <1>1, <1>2, EveryNumber
  <1>4. QED
    BY <1>3

\* All of them joined.
LEMMA UptoAll ==
    ASSUME NEW ss, IsList(ss)
    PROVE  Upto(ss, Len(ss)) = FlattenSeq(ss)
  BY SubSeqFull DEF Upto, IsList

\* None of them joined.
LEMMA UptoNone ==
    ASSUME NEW ss, IsList(ss)
    PROVE  Upto(ss, 0) = <<>>
  <1>1. Len(ss) \in Nat
    BY ListLen
  <1>2. SubSeq(ss, 1, 0) = <<>>
    BY ListPrefix, ListNone, <1>1
  <1>3. QED
    BY <1>2, ListEmpty DEF Upto, FlattenSeq

\* One more list goes to the end.
LEMMA UptoStep ==
    ASSUME NEW ss, AllLists(ss), NEW n \in Nat, n < Len(ss)
    PROVE  Upto(ss, n + 1) = Upto(ss, n) \o ss[n + 1]
  <1>1. /\ IsList(ss)
        /\ Len(ss) \in Nat
        /\ n \in 0 .. Len(ss)
        /\ n + 1 \in 0 .. Len(ss)
        /\ IsList(ss[n + 1])
    BY ListLen DEF AllLists
  <1> DEFINE s == SubSeq(ss, 1, n)
             t == SubSeq(ss, 1, n + 1)
  <1>2. /\ Len(s) = n
        /\ (\A i \in 1 .. n : s[i] = ss[i])
        /\ Len(t) = n + 1
        /\ (\A i \in 1 .. n + 1 : t[i] = ss[i])
    BY <1>1, ListPrefix
  <1>3. Upto(ss, n) = FlattenSeq(s) /\ Upto(ss, n + 1) = FlattenSeq(t)
    BY DEF Upto
  <1> HIDE DEF s, t
  <1>4. PICK g : IsFlat(g, t, n + 1) /\ FlattenSeq(t) = g[n + 1]
    BY <1>2, FlattenIs
  <1>5. g[n + 1] = IF n + 1 = 1 THEN t[n + 1] ELSE g[n] \o t[n + 1]
    <2>1. g = [i \in 1 .. n + 1 |-> IF i = 1 THEN t[i] ELSE g[i - 1] \o t[i]]
      BY <1>4, Zenon DEF IsFlat
    <2>2. n + 1 \in 1 .. n + 1 /\ (n + 1) - 1 = n
      OBVIOUS
    <2>3. QED
      BY <2>1, <2>2
  <1>6. CASE n = 0
    <2>1. FlattenSeq(t) = ss[n + 1]
      BY <1>2, <1>4, <1>5, <1>6
    <2>2. Upto(ss, n) = <<>>
      BY <1>1, <1>6, UptoNone
    <2>3. QED
      BY <1>1, <1>3, <2>1, <2>2, EmptyConcat
  <1>7. CASE n # 0
    <2>1. PICK f : IsFlat(f, s, n) /\ FlattenSeq(s) = f[n]
      BY <1>2, <1>7, FlattenIs
    <2>2. f[n] = g[n]
      <3>1. \A i \in 1 .. n : s[i] = t[i]
        BY <1>2
      <3>2. \A i \in 1 .. n : f[i] = g[i]
        BY <1>4, <2>1, <3>1, FlatsAgree
      <3>3. QED
        BY <3>2, <1>7
    <2>3. n + 1 # 1 /\ t[n + 1] = ss[n + 1]
      BY <1>2, <1>7
    <2>4. QED
      BY <1>4, <1>3, <1>5, <2>1, <2>2, <2>3
  <1>8. QED
    BY <1>6, <1>7

\* Lists joined are a list.
LEMMA UptoList ==
    ASSUME NEW ss, AllLists(ss), NEW n \in 0 .. Len(ss)
    PROVE  IsList(Upto(ss, n))
  <1>1. IsList(ss) /\ Len(ss) \in Nat
    BY ListLen DEF AllLists
  <1> DEFINE S == {k \in Nat : k <= Len(ss) => IsList(Upto(ss, k))}
  <1>2. 0 \in S
    BY <1>1, UptoNone, ListEmpty
  <1>3. ASSUME NEW k \in S
        PROVE  k + 1 \in S
    <2> SUFFICES ASSUME k + 1 <= Len(ss)
                 PROVE  IsList(Upto(ss, k + 1))
      OBVIOUS
    <2>1. k \in Nat /\ k < Len(ss) /\ IsList(Upto(ss, k))
      BY <1>1
    <2>2. IsList(ss[k + 1])
      BY <2>1 DEF AllLists
    <2>3. Upto(ss, k + 1) = Upto(ss, k) \o ss[k + 1]
      BY <2>1, UptoStep
    <2>4. IsList(Upto(ss, k) \o ss[k + 1])
      BY <2>1, <2>2, ListConcat
    <2>5. QED
      BY <2>3, <2>4
  <1>4. S = Nat
    BY <1>2, <1>3, EveryNumber
  <1>5. QED
    BY <1>4, <1>1

\* So are all of them.
LEMMA FlattenList ==
    ASSUME NEW ss, AllLists(ss)
    PROVE  IsList(FlattenSeq(ss))
  BY UptoList, UptoAll, ListLen DEF AllLists

\* Two lists of lists make a list of lists.
LEMMA AllListsConcat ==
    ASSUME NEW ss, NEW tt, AllLists(ss), AllLists(tt)
    PROVE  AllLists(ss \o tt)
  <1>1. /\ IsList(ss \o tt)
        /\ Len(ss \o tt) = Len(ss) + Len(tt)
        /\ Len(ss) \in Nat
        /\ Len(tt) \in Nat
        /\ \A i \in 1 .. Len(ss) : (ss \o tt)[i] = ss[i]
        /\ \A i \in 1 .. Len(tt) : (ss \o tt)[Len(ss) + i] = tt[i]
    BY ListConcat, ListLen DEF AllLists
  <1>2. ASSUME NEW i \in 1 .. Len(ss) + Len(tt)
        PROVE  IsList((ss \o tt)[i])
    <2>1. CASE i \in 1 .. Len(ss)
      BY <1>1, <2>1 DEF AllLists
    <2>2. CASE i \notin 1 .. Len(ss)
      <3>1. i - Len(ss) \in 1 .. Len(tt) /\ i = Len(ss) + (i - Len(ss))
        BY <1>1, <2>2
      <3>2. (ss \o tt)[i] = tt[i - Len(ss)]
        BY <1>1, <3>1
      <3>3. QED
        BY <3>1, <3>2 DEF AllLists
    <2>3. QED
      BY <2>1, <2>2
  <1>3. QED
    BY <1>1, <1>2 DEF AllLists

\* Joining two lists of lists joins what each of them joins to.
LEMMA FlattenConcat ==
    ASSUME NEW ss, NEW tt, AllLists(ss), AllLists(tt)
    PROVE  FlattenSeq(ss \o tt) = FlattenSeq(ss) \o FlattenSeq(tt)
  <1> DEFINE uu == ss \o tt
  <1>1. /\ IsList(uu)
        /\ Len(uu) = Len(ss) + Len(tt)
        /\ Len(ss) \in Nat
        /\ Len(tt) \in Nat
        /\ \A i \in 1 .. Len(ss) : uu[i] = ss[i]
        /\ \A i \in 1 .. Len(tt) : uu[Len(ss) + i] = tt[i]
        /\ IsList(ss) /\ IsList(tt)
    BY ListConcat, ListLen DEF AllLists
  <1>2. AllLists(uu)
    BY AllListsConcat
  <1> HIDE DEF uu
  <1>3. Upto(uu, Len(ss)) = FlattenSeq(ss)
    <2>1. /\ IsList(SubSeq(uu, 1, Len(ss)))
          /\ Len(SubSeq(uu, 1, Len(ss))) = Len(ss)
          /\ \A i \in 1 .. Len(ss) : SubSeq(uu, 1, Len(ss))[i] = uu[i]
      BY <1>1, ListPrefix
    <2>2. SubSeq(uu, 1, Len(ss)) = ss
      BY <1>1, <2>1, ListEqual
    <2>3. QED
      BY <2>2 DEF Upto
  <1>4. IsList(FlattenSeq(ss))
    BY FlattenList
  <1> DEFINE S ==
                 {k \in Nat :
                     k <= Len(tt) =>
                         Upto(uu, Len(ss) + k) = FlattenSeq(ss) \o Upto(tt, k)}
  <1>5. 0 \in S
    <2>1. Len(ss) + 0 = Len(ss) /\ Upto(tt, 0) = <<>>
      BY <1>1, UptoNone
    <2>2. FlattenSeq(ss) \o <<>> = FlattenSeq(ss)
      BY <1>4, EmptyConcat
    <2>3. QED
      BY <2>1, <2>2, <1>3
  <1>6. ASSUME NEW k \in S
        PROVE  k + 1 \in S
    <2> SUFFICES ASSUME k + 1 <= Len(tt)
                 PROVE  Upto(uu, Len(ss) + (k + 1)) =
                            FlattenSeq(ss) \o Upto(tt, k + 1)
      OBVIOUS
    <2>1. /\ k \in Nat
          /\ k < Len(tt)
          /\ Upto(uu, Len(ss) + k) = FlattenSeq(ss) \o Upto(tt, k)
          /\ k + 1 \in 1 .. Len(tt)
          /\ k \in 0 .. Len(tt)
      BY <1>1
    <2> HIDE DEF S
    <2>2. /\ Len(ss) + k \in Nat
          /\ Len(ss) + k < Len(uu)
          /\ Len(ss) + (k + 1) = (Len(ss) + k) + 1
      BY <1>1, <2>1
    <2>3. Upto(uu, (Len(ss) + k) + 1) =
              Upto(uu, Len(ss) + k) \o uu[(Len(ss) + k) + 1]
      BY <1>2, <2>2, UptoStep
    <2>4. uu[(Len(ss) + k) + 1] = tt[k + 1]
      BY <1>1, <2>1, <2>2
    <2>5. Upto(tt, k + 1) = Upto(tt, k) \o tt[k + 1]
      BY <2>1, UptoStep
    <2>6. IsList(Upto(tt, k)) /\ IsList(tt[k + 1])
      BY <2>1, UptoList DEF AllLists
    <2>7. (FlattenSeq(ss) \o Upto(tt, k)) \o tt[k + 1] =
              FlattenSeq(ss) \o (Upto(tt, k) \o tt[k + 1])
      <3> DEFINE a == FlattenSeq(ss)
                 b == Upto(tt, k)
                 c == tt[k + 1]
      <3>1. IsList(a) /\ IsList(b) /\ IsList(c)
        BY <1>4, <2>6
      <3> HIDE DEF a, b, c
      <3>2. (a \o b) \o c = a \o (b \o c)
        BY <3>1, ConcatAssoc
      <3>3. QED
        BY <3>2 DEF a, b, c
    <2>8. QED
      BY <2>1, <2>2, <2>3, <2>4, <2>5, <2>7
  <1>7. S = Nat
    <2>1. S \in SUBSET Nat
      OBVIOUS
    <2> HIDE DEF S
    <2>2. QED
      BY <1>5, <1>6, <2>1, EveryNumber
  <1>8. Upto(uu, Len(ss) + Len(tt)) = FlattenSeq(ss) \o Upto(tt, Len(tt))
    <2>1. Len(tt) \in S
      BY <1>1, <1>7
    <2>2. Len(tt) <= Len(tt)
      BY <1>1
    <2>4. QED
      BY <2>1, <2>2
  <1>9. Upto(uu, Len(uu)) = FlattenSeq(uu) /\ Upto(tt, Len(tt)) = FlattenSeq(tt)
    BY <1>1, UptoAll
  <1>10. QED
    BY <1>1, <1>8, <1>9 DEF uu

\* A single list joined is that list.
LEMMA FlattenOne ==
    ASSUME NEW s, IsList(s)
    PROVE  AllLists(<<s>>) /\ FlattenSeq(<<s>>) = s
  <1>1. AllLists(<<s>>)
    BY ListOne DEF AllLists
  <1>2. Upto(<<s>>, 0 + 1) = Upto(<<s>>, 0) \o <<s>>[0 + 1]
    BY <1>1, ListOne, UptoStep
  <1>3. Upto(<<s>>, 0) = <<>>
    BY ListOne, UptoNone
  <1>4. Upto(<<s>>, 1) = FlattenSeq(<<s>>)
    BY ListOne, UptoAll
  <1>5. <<>> \o s = s
    BY EmptyConcat
  <1>6. <<s>>[0 + 1] = s /\ 0 + 1 = 1
    OBVIOUS
  <1>7. FlattenSeq(<<s>>) = s
    BY <1>2, <1>3, <1>4, <1>5, <1>6
  <1>8. QED
    BY <1>1, <1>7

\* x is in one of the first n lists.
Among(x, ss, n) == \E i \in 1 .. n : x \in ToSet(ss[i])

\* What the lists joined hold is what any of them holds.
LEMMA FlattenElements ==
    ASSUME NEW ss, AllLists(ss), NEW x
    PROVE  x \in ToSet(FlattenSeq(ss)) <=> Among(x, ss, Len(ss))
  <1>1. IsList(ss) /\ Len(ss) \in Nat
    BY ListLen DEF AllLists
  <1> DEFINE S ==
                 {k \in Nat :
                     k <= Len(ss) => (x \in ToSet(Upto(ss, k)) <=> Among(x, ss, k))}
  <1>2. 0 \in S
    BY <1>1, UptoNone, ListEmpty DEF Among
  <1>3. ASSUME NEW k \in S
        PROVE  k + 1 \in S
    <2> SUFFICES ASSUME k + 1 <= Len(ss)
                 PROVE  x \in ToSet(Upto(ss, k + 1)) <=> Among(x, ss, k + 1)
      OBVIOUS
    <2>1. /\ k \in Nat
          /\ k < Len(ss)
          /\ (x \in ToSet(Upto(ss, k)) <=> Among(x, ss, k))
      BY <1>1
    <2> HIDE DEF S
    <2>2. IsList(ss[k + 1]) /\ IsList(Upto(ss, k))
      BY <2>1, <1>1, UptoList DEF AllLists
    <2>3. Upto(ss, k + 1) = Upto(ss, k) \o ss[k + 1]
      BY <2>1, UptoStep
    <2>4. ToSet(Upto(ss, k + 1)) = ToSet(Upto(ss, k)) \cup ToSet(ss[k + 1])
      BY <2>2, <2>3, ConcatSet
    <2>5. 1 .. k + 1 = (1 .. k) \cup {k + 1}
      BY <2>1
    <2>6. Among(x, ss, k + 1) <=> Among(x, ss, k) \/ x \in ToSet(ss[k + 1])
      BY <2>5 DEF Among
    <2>7. QED
      BY <2>1, <2>4, <2>6
  <1>4. S = Nat
    <2>1. S \in SUBSET Nat
      OBVIOUS
    <2> HIDE DEF S
    <2>2. QED
      BY <1>2, <1>3, <2>1, EveryNumber
  <1>5. x \in ToSet(Upto(ss, Len(ss))) <=> Among(x, ss, Len(ss))
    BY <1>1, <1>4
  <1>6. QED
    BY <1>1, <1>5, UptoAll

\* The lists of one element each join to the list of their elements.
LEMMA FlattenSingles ==
    ASSUME NEW e, IsList(e)
    PROVE  /\ AllLists([i \in DOMAIN e |-> <<e[i]>>])
           /\ FlattenSeq([i \in DOMAIN e |-> <<e[i]>>]) = e
  <1> DEFINE ss == [i \in DOMAIN e |-> <<e[i]>>]
  <1>1. Len(e) \in Nat /\ DOMAIN e = 1 .. Len(e)
    BY ListLen
  <1>2. /\ IsList(ss)
        /\ Len(ss) = Len(e)
        /\ \A i \in 1 .. Len(e) : ss[i] = <<e[i]>>
    BY <1>1, ListOf
  <1>3. AllLists(ss)
    <2> HIDE DEF ss
    <2>1. QED
      BY <1>2, ListOne DEF AllLists
  <1> HIDE DEF ss
  <1> DEFINE S == {k \in Nat : k <= Len(e) => Upto(ss, k) = SubSeq(e, 1, k)}
  <1>4. 0 \in S
    <2>1. SubSeq(e, 1, 0) = <<>>
      BY <1>1, ListPrefix, ListNone
    <2>2. QED
      BY <1>2, <2>1, UptoNone
  <1>5. ASSUME NEW k \in S
        PROVE  k + 1 \in S
    <2> SUFFICES ASSUME k + 1 <= Len(e)
                 PROVE  Upto(ss, k + 1) = SubSeq(e, 1, k + 1)
      OBVIOUS
    <2>1. /\ k \in Nat
          /\ k < Len(e)
          /\ Upto(ss, k) = SubSeq(e, 1, k)
          /\ k + 1 \in 1 .. Len(e)
      BY <1>1
    <2> HIDE DEF S
    <2>2. Upto(ss, k + 1) = SubSeq(e, 1, k) \o <<e[k + 1]>>
      BY <2>1, <1>2, <1>3, UptoStep
    <2>3. SubSeq(e, 1, k + 1) = SubSeq(e, 1, (k + 1) - 1) \o <<e[k + 1]>>
      <3>1. e \in Seq(ToSet(e)) /\ 1 \in 1 .. Len(e) /\ k + 1 \in 1 .. Len(e)
        BY <2>1, <1>1 DEF IsList
      <3>2. QED
        BY <3>1, SubSeqRecursiveSecond
    <2>4. (k + 1) - 1 = k
      BY <2>1
    <2>5. QED
      BY <2>2, <2>3, <2>4
  <1>6. S = Nat
    <2>1. S \in SUBSET Nat
      OBVIOUS
    <2> HIDE DEF S
    <2>2. QED
      BY <1>4, <1>5, <2>1, EveryNumber
  <1>7. Upto(ss, Len(e)) = SubSeq(e, 1, Len(e))
    BY <1>1, <1>6
  <1>8. FlattenSeq(ss) = e
    BY <1>2, <1>7, UptoAll, SubSeqFull DEF IsList
  <1>9. QED
    BY <1>3, <1>8 DEF ss

\* A list is its first n elements and then the others.
LEMMA ListCut ==
    ASSUME NEW s, IsList(s), NEW n \in 0 .. Len(s)
    PROVE  /\ IsList(SubSeq(s, n + 1, Len(s)))
           /\ s = SubSeq(s, 1, n) \o SubSeq(s, n + 1, Len(s))
  <1>1. Len(s) \in Nat
    BY ListLen
  <1>2. s \in Seq(ToSet(s))
    BY DEF IsList
  <1>3. SubSeq(s, 1, n) \o SubSeq(s, n + 1, Len(s)) = SubSeq(s, 1, Len(s))
    <2>1. /\ 1 \in 1 .. Len(s) + 1
          /\ n \in 1 - 1 .. Len(s)
          /\ Len(s) \in n .. Len(s)
      BY <1>1
    <2>2. QED
      BY <1>2, <2>1, ConcatAdjacentSubSeq
  <1>4. SubSeq(s, 1, Len(s)) = s
    BY <1>2, SubSeqFull
  <1>5. SubSeq(s, n + 1, Len(s)) \in Seq(ToSet(s))
    <2>1. /\ n + 1 \in Int
          /\ Len(s) \in Int
          /\ \A i \in n + 1 .. Len(s) : s[i] \in ToSet(s)
      BY <1>1, ListLen DEF ToSet
    <2>2. QED
      BY <2>1, SubSeqProperties
  <1>6. QED
    BY <1>3, <1>4, <1>5, ListIs

\* The others, one by one.
LEMMA ListPast ==
    ASSUME NEW s, IsList(s), NEW n \in 0 .. Len(s)
    PROVE  /\ Len(SubSeq(s, n + 1, Len(s))) = Len(s) - n
           /\ \A i \in 1 .. Len(s) - n : SubSeq(s, n + 1, Len(s))[i] = s[n + i]
  <1>1. Len(s) \in Nat
    BY ListLen
  <1>2. /\ n + 1 \in Int
        /\ Len(s) \in Int
        /\ \A i \in n + 1 .. Len(s) : s[i] \in ToSet(s)
    BY <1>1, ListLen DEF ToSet
  <1>3. QED
    BY <1>1, <1>2, SubSeqProperties

\* Both parts of a list of lists are lists of lists.
LEMMA AllListsCut ==
    ASSUME NEW ss, AllLists(ss), NEW n \in 0 .. Len(ss)
    PROVE  AllLists(SubSeq(ss, 1, n)) /\ AllLists(SubSeq(ss, n + 1, Len(ss)))
  <1>1. Len(ss) \in Nat /\ IsList(ss)
    BY ListLen DEF AllLists
  <1>2. AllLists(SubSeq(ss, 1, n))
    BY <1>1, ListPrefix DEF AllLists
  <1>3. \A i \in 1 .. Len(ss) - n : n + i \in 1 .. Len(ss)
    BY <1>1
  <1>4. AllLists(SubSeq(ss, n + 1, Len(ss)))
    <2>1. /\ IsList(SubSeq(ss, n + 1, Len(ss)))
          /\ Len(SubSeq(ss, n + 1, Len(ss))) = Len(ss) - n
           /\ \A i \in 1 .. Len(ss) - n :
                  SubSeq(ss, n + 1, Len(ss))[i] = ss[n + i]
      BY <1>1, ListCut, ListPast
    <2>2. QED
      BY <1>3, <2>1 DEF AllLists
  <1>5. QED
    BY <1>2, <1>4

\* The lists joined grow by the length of each, and never past the whole.
LEMMA UptoLen ==
    ASSUME NEW ss, AllLists(ss), NEW n \in Nat, n < Len(ss)
    PROVE  /\ Len(Upto(ss, n)) \in Nat
           /\ Len(Upto(ss, n + 1)) = Len(Upto(ss, n)) + Len(ss[n + 1])
           /\ Len(Upto(ss, n)) + Len(ss[n + 1]) <= Len(FlattenSeq(ss))
  <1>1. /\ Len(ss) \in Nat
        /\ IsList(ss)
        /\ n \in 0 .. Len(ss)
        /\ n + 1 \in 0 .. Len(ss)
        /\ IsList(ss[n + 1])
    BY ListLen DEF AllLists
  <1>2. IsList(Upto(ss, n))
    BY <1>1, UptoList
  <1>3. Upto(ss, n + 1) = Upto(ss, n) \o ss[n + 1]
    BY UptoStep
  <1>4. /\ Len(Upto(ss, n)) \in Nat
        /\ Len(Upto(ss, n + 1)) = Len(Upto(ss, n)) + Len(ss[n + 1])
    BY <1>1, <1>2, <1>3, ListConcat
  <1> DEFINE a == SubSeq(ss, 1, n + 1)
             b == SubSeq(ss, (n + 1) + 1, Len(ss))
  <1>5. ss = a \o b
    BY <1>1, ListCut
  <1>6. AllLists(a) /\ AllLists(b)
    BY <1>1, AllListsCut
  <1>7. FlattenSeq(a) = Upto(ss, n + 1)
    BY DEF Upto
  <1> HIDE DEF a, b
  <1>8. FlattenSeq(ss) = FlattenSeq(a) \o FlattenSeq(b)
    BY <1>5, <1>6, FlattenConcat
  <1>9. IsList(FlattenSeq(a)) /\ IsList(FlattenSeq(b))
    BY <1>6, FlattenList
  <1>10. /\ Len(FlattenSeq(ss)) = Len(FlattenSeq(a)) + Len(FlattenSeq(b))
         /\ Len(FlattenSeq(b)) \in Nat
         /\ Len(FlattenSeq(a)) \in Nat
    BY <1>8, <1>9, ListConcat
  <1>11. QED
    BY <1>4, <1>7, <1>10

\* A list is two others joined when its elements are theirs, in that order.
LEMMA ConcatIs ==
    ASSUME NEW u, NEW v, NEW w, IsList(u), IsList(v), IsList(w),
           Len(w) = Len(u) + Len(v), \A i \in 1 .. Len(u) : w[i] = u[i],
           \A i \in 1 .. Len(v) : w[Len(u) + i] = v[i]
    PROVE  w = u \o v
  <1>1. /\ IsList(u \o v)
        /\ Len(u \o v) = Len(u) + Len(v)
        /\ Len(u) \in Nat
        /\ Len(v) \in Nat
        /\ \A i \in 1 .. Len(u) : (u \o v)[i] = u[i]
        /\ \A i \in 1 .. Len(v) : (u \o v)[Len(u) + i] = v[i]
    BY ListConcat
  <1>2. ASSUME NEW i \in 1 .. Len(w)
        PROVE  w[i] = (u \o v)[i]
    <2>1. CASE i \in 1 .. Len(u)
      BY <1>1, <2>1
    <2>2. CASE i \notin 1 .. Len(u)
      <3>1. i - Len(u) \in 1 .. Len(v) /\ i = Len(u) + (i - Len(u))
        BY <1>1, <2>2
      <3>2. QED
        BY <1>1, <3>1
    <2>3. QED
      BY <2>1, <2>2
  <1>3. QED
    BY <1>1, <1>2, ListEqual

\* Two lists of one element are joined to one of two.
LEMMA SinglesConcat ==
    ASSUME NEW u, NEW v, NEW w, IsList(u), IsList(v), IsList(w), Len(u) = 1, Len(v) = 1,
           Len(w) = 2, u[1] = w[1], v[1] = w[2]
    PROVE  u \o v = w
  <1>1. Len(w) = Len(u) + Len(v)
    OBVIOUS
  <1>2. \A i \in 1 .. Len(u) : w[i] = u[i]
    <2>1. \A i \in 1 .. Len(u) : i = 1
      OBVIOUS
    <2>2. QED
      BY <2>1
  <1>3. \A i \in 1 .. Len(v) : w[Len(u) + i] = v[i]
    <2>1. \A i \in 1 .. Len(v) : i = 1 /\ Len(u) + i = 2
      OBVIOUS
    <2>2. QED
      BY <2>1
  <1>4. QED
    BY <1>1, <1>2, <1>3, ConcatIs

\* The list of two elements.
LEMMA ListTwo ==
    ASSUME NEW a, NEW b
    PROVE  /\ IsList(<<a, b>>) /\ Len(<<a, b>>) = 2
           /\ <<a, b>>[1] = a /\ <<a, b>>[2] = b
           /\ <<a>> \o <<b>> = <<a, b>>
  <1>1. IsList(<<a, b>>) /\ Len(<<a, b>>) = 2 /\ <<a, b>>[1] = a /\ <<a, b>>[2] = b
    BY DEF IsList, ToSet
  <1>2. /\ IsList(<<a>>) /\ Len(<<a>>) = 1 /\ <<a>>[1] = a
        /\ IsList(<<b>>) /\ Len(<<b>>) = 1 /\ <<b>>[1] = b
    BY ListOne
  <1>3. <<a>> \o <<b>> = <<a, b>>
    <2> DEFINE u == <<a>>
               v == <<b>>
               w == <<a, b>>
    <2>1. /\ IsList(u) /\ IsList(v) /\ IsList(w) /\ Len(u) = 1 /\ Len(v) = 1 /\ Len(w) = 2
          /\ u[1] = w[1] /\ v[1] = w[2]
      BY <1>1, <1>2
    <2> HIDE DEF u, v, w
    <2>2. u \o v = w
      BY <2>1, SinglesConcat
    <2>3. QED
      BY <2>2 DEF u, v, w
  <1>4. QED
    BY <1>1, <1>3

\* A list with one more element.
LEMMA AppendIs ==
    ASSUME NEW s, IsList(s), NEW e
    PROVE  /\ IsList(Append(s, e)) /\ Len(Append(s, e)) = Len(s) + 1
           /\ \A i \in 1 .. Len(s) : Append(s, e)[i] = s[i]
           /\ Append(s, e)[Len(s) + 1] = e
  <1>1. s \in Seq(ToSet(s) \cup {e})
    BY DEF IsList
  <1>2. Append(s, e) \in Seq(ToSet(s) \cup {e})
    BY <1>1
  <1>3. Len(s) \in Nat /\ Len(Append(s, e)) = Len(s) + 1
    BY <1>1
  <1>4. \A i \in 1 .. Len(s) : Append(s, e)[i] = s[i]
    BY <1>1
  <1>5. Append(s, e)[Len(s) + 1] = e
    BY <1>1
  <1> DEFINE a == Append(s, e)
  <1>6. IsList(a)
    <2> HIDE DEF a
    <2>1. QED
      BY <1>2, ListIs DEF a
  <1>7. QED
    BY <1>3, <1>4, <1>5, <1>6

\* A list of an element and another list.
Follows(t, x, s) ==
    /\ IsList(t) /\ Len(t) = Len(s) + 1 /\ Len(s) \in Nat
    /\ t[1] = x
    /\ \A i \in 1 .. Len(s) : t[i + 1] = s[i]

\* Such is the list of one joined to the other.
LEMMA OneBefore ==
    ASSUME NEW x, NEW s, IsList(s)
    PROVE  Follows(<<x>> \o s, x, s)
  <1> DEFINE u == <<x>>
             c == u \o s
  <1>0. IsList(u) /\ Len(u) = 1 /\ u[1] = x
    BY ListOne
  <1> HIDE DEF u
  <1>1. /\ IsList(c) /\ Len(c) = Len(u) + Len(s) /\ Len(s) \in Nat
        /\ \A i \in 1 .. Len(u) : c[i] = u[i]
        /\ \A i \in 1 .. Len(s) : c[Len(u) + i] = s[i]
    <2>1. IsList(c) /\ Len(c) = Len(u) + Len(s) /\ Len(s) \in Nat
      BY <1>0, ListConcat
    <2>2. \A i \in 1 .. Len(u) : c[i] = u[i]
      BY <1>0, ListConcat
    <2>3. ASSUME NEW i \in 1 .. Len(s)
          PROVE  c[Len(u) + i] = s[i]
      <3>1. IsList(u)
        BY <1>0
      <3>2. QED
        BY <3>1, ListConcat
    <2> HIDE DEF c
    <2>4. QED
      BY <2>1, <2>2, <2>3
  <1> HIDE DEF c
  <1>3. Len(c) = Len(s) + 1
    BY <1>0, <1>1
  <1>4. c[1] = u[1]
    <2>1. 1 \in 1 .. Len(u)
      BY <1>0
    <2>2. QED
      BY <1>1, <2>1
  <1>5. \A i \in 1 .. Len(s) : c[i + 1] = s[i]
    <2>1. \A i \in 1 .. Len(s) : Len(u) + i = i + 1
      BY <1>0
    <2>2. QED
      BY <1>1, <2>1
  <1>6. QED
    BY <1>0, <1>1, <1>3, <1>4, <1>5 DEF Follows, c, u

\* Where the list i begins in the lists joined.
Ahead(ss, i) == Len(Upto(ss, i - 1))

\* A place of a list is one of the lists joined.
LEMMA FlatAt ==
    ASSUME NEW ss, AllLists(ss), NEW i \in 1 .. Len(ss), NEW m \in 1 .. Len(ss[i])
    PROVE  /\ Ahead(ss, i) \in Nat
           /\ Ahead(ss, i) + m \in 1 .. Len(FlattenSeq(ss))
           /\ FlattenSeq(ss)[Ahead(ss, i) + m] = ss[i][m]
  <1> DEFINE a == Upto(ss, i - 1)
             b == ss[i]
             c == FlattenSeq(SubSeq(ss, i + 1, Len(ss)))
  <1>1. IsList(ss) /\ Len(ss) \in Nat /\ i - 1 \in Nat /\ i - 1 < Len(ss) /\ (i - 1) + 1 = i
        /\ i \in 0 .. Len(ss) /\ i - 1 \in 0 .. Len(ss) /\ i \in Nat
    BY ListLen DEF AllLists
  <1>2. IsList(a) /\ IsList(b)
    BY <1>1, UptoList DEF AllLists
  <1>3. AllLists(SubSeq(ss, 1, i)) /\ AllLists(SubSeq(ss, i + 1, Len(ss)))
    BY <1>1, AllListsCut
  <1>4. IsList(c)
    BY <1>3, FlattenList
  <1>5. ss = SubSeq(ss, 1, i) \o SubSeq(ss, i + 1, Len(ss))
    BY <1>1, ListCut
  <1>6. FlattenSeq(SubSeq(ss, 1, i) \o SubSeq(ss, i + 1, Len(ss))) = Upto(ss, i) \o c
    BY <1>3, FlattenConcat DEF Upto
  <1>7. FlattenSeq(ss) = Upto(ss, i) \o c
    BY <1>5, <1>6
  <1>8. Upto(ss, i) = a \o b
    BY <1>1, UptoStep
  <1> HIDE DEF a, b, c
  <1>9. /\ IsList(a \o b) /\ Len(a \o b) = Len(a) + Len(b) /\ Len(a) \in Nat /\ Len(b) \in Nat
        /\ (a \o b)[Len(a) + m] = b[m]
    BY <1>2, ListConcat DEF b
  <1>10. /\ Len((a \o b) \o c) = Len(a \o b) + Len(c) /\ Len(c) \in Nat
         /\ \A k \in 1 .. Len(a \o b) : ((a \o b) \o c)[k] = (a \o b)[k]
    BY <1>4, <1>9, ListConcat
  <1>11. m \in Nat /\ 1 <= m /\ m <= Len(b)
    BY <1>9 DEF b
  <1>12. Len(a) + m \in 1 .. Len(a \o b)
    BY <1>9, <1>11
  <1>13. Len(a) + m \in 1 .. Len(FlattenSeq(ss)) /\ FlattenSeq(ss)[Len(a) + m] = b[m]
    BY <1>7, <1>8, <1>9, <1>10, <1>11, <1>12
  <1>14. QED
    BY <1>9, <1>13 DEF Ahead, a, b

\* A place in one of some lists.
PlaceOf(ss, k, i, m) ==
    i \in 1 .. Len(ss) /\ m \in 1 .. Len(ss[i]) /\ k = Ahead(ss, i) + m

\* Each place of the lists joined is one of them.
LEMMA FlatFrom ==
    ASSUME NEW ss, AllLists(ss), NEW k \in 1 .. Len(FlattenSeq(ss))
    PROVE  \E i, m : PlaceOf(ss, k, i, m)
  <1> DEFINE S == {n \in Nat : n <= Len(ss) =>
                      \A j \in 1 .. Len(Upto(ss, n)) : \E i, m : PlaceOf(ss, j, i, m)}
  <1>1. IsList(ss) /\ Len(ss) \in Nat
    BY ListLen DEF AllLists
  <1>2. 0 \in S
    <2>1. Upto(ss, 0) = <<>>
      BY <1>1, UptoNone
    <2>2. 1 .. Len(Upto(ss, 0)) = {}
      BY <2>1
    <2>3. QED
      BY <2>2
  <1>3. ASSUME NEW n \in S
        PROVE  n + 1 \in S
    <2>1. n \in Nat
      OBVIOUS
    <2>2. ASSUME n + 1 <= Len(ss), NEW j \in 1 .. Len(Upto(ss, n + 1))
          PROVE  \E i, m : PlaceOf(ss, j, i, m)
      <3>1. n < Len(ss) /\ n <= Len(ss) /\ n + 1 \in 1 .. Len(ss) /\ (n + 1) - 1 = n
        BY <1>1, <2>1, <2>2
      <3>2. /\ Len(Upto(ss, n)) \in Nat
            /\ Len(Upto(ss, n + 1)) = Len(Upto(ss, n)) + Len(ss[n + 1])
        BY <2>1, <3>1, UptoLen
      <3>3. CASE j \in 1 .. Len(Upto(ss, n))
        BY <3>1, <3>3
      <3>4. CASE j \notin 1 .. Len(Upto(ss, n))
        <4> DEFINE m == j - Len(Upto(ss, n))
        <4>1. Len(ss[n + 1]) \in Nat
          BY <3>1, ListLen DEF AllLists
        <4>2. m \in 1 .. Len(ss[n + 1]) /\ j = Len(Upto(ss, n)) + m
          BY <3>2, <3>4, <4>1
        <4>3. PlaceOf(ss, j, n + 1, m)
          BY <3>1, <4>2 DEF PlaceOf, Ahead
        <4>4. QED
          BY <4>3
      <3>5. QED
        BY <3>3, <3>4
    <2>3. n + 1 \in Nat
      BY <2>1
    <2>4. QED
      BY <2>2, <2>3
  <1>4. S \in SUBSET Nat
    OBVIOUS
  <1> HIDE DEF S
  <1>5. S = Nat
    BY <1>2, <1>3, <1>4, EveryNumber
  <1>6. Len(ss) \in S
    BY <1>1, <1>5
  <1>7. Upto(ss, Len(ss)) = FlattenSeq(ss)
    BY <1>1, UptoAll
  <1>8. QED
    BY <1>1, <1>6, <1>7 DEF S

-----------------------------------------------------------------------------
(* Values at the elements of a list *)

\* The values of g at the elements of a list.
Image(g, s) == [i \in DOMAIN s |-> g[s[i]]]

\* One value for each element.
LEMMA ImageIs ==
    ASSUME NEW g, NEW s, IsList(s)
    PROVE  /\ IsList(Image(g, s))
           /\ Len(Image(g, s)) = Len(s)
           /\ \A i \in 1 .. Len(s) : Image(g, s)[i] = g[s[i]]
  <1>1. Len(s) \in Nat /\ DOMAIN s = 1 .. Len(s)
    BY ListLen
  <1>2. QED
    BY <1>1, ListOf DEF Image

\* The values of two lists joined are their values joined.
LEMMA ImageConcat ==
    ASSUME NEW g, NEW s, NEW t, IsList(s), IsList(t)
    PROVE  Image(g, s \o t) = Image(g, s) \o Image(g, t)
  <1> DEFINE u == Image(g, s)
             v == Image(g, t)
             w == Image(g, s \o t)
  <1>1. /\ IsList(s \o t)
        /\ Len(s \o t) = Len(s) + Len(t)
        /\ Len(s) \in Nat
        /\ Len(t) \in Nat
        /\ \A i \in 1 .. Len(s) : (s \o t)[i] = s[i]
        /\ \A i \in 1 .. Len(t) : (s \o t)[Len(s) + i] = t[i]
    BY ListConcat
  <1>2. /\ IsList(u)
        /\ Len(u) = Len(s)
        /\ IsList(v)
        /\ Len(v) = Len(t)
        /\ IsList(w)
        /\ Len(w) = Len(s) + Len(t)
        /\ \A i \in 1 .. Len(s) : u[i] = g[s[i]]
        /\ \A i \in 1 .. Len(t) : v[i] = g[t[i]]
        /\ \A i \in 1 .. Len(s \o t) : w[i] = g[(s \o t)[i]]
    <2>1. IsList(u) /\ Len(u) = Len(s) /\ \A i \in 1 .. Len(s) : u[i] = g[s[i]]
      BY ImageIs
    <2>2. IsList(v) /\ Len(v) = Len(t) /\ \A i \in 1 .. Len(t) : v[i] = g[t[i]]
      BY ImageIs
    <2>3. /\ IsList(w)
          /\ Len(w) = Len(s \o t)
          /\ \A i \in 1 .. Len(s \o t) : w[i] = g[(s \o t)[i]]
      <3> DEFINE x == s \o t
      <3>1. IsList(x)
        BY <1>1
      <3> HIDE DEF x
      <3>2. /\ IsList(Image(g, x))
            /\ Len(Image(g, x)) = Len(x)
            /\ \A i \in 1 .. Len(x) : Image(g, x)[i] = g[x[i]]
        BY <3>1, ImageIs
      <3>3. QED
        BY <3>2 DEF x
    <2> HIDE DEF u, v, w
    <2>4. QED
      BY <1>1, <2>1, <2>2, <2>3
  <1> HIDE DEF u, v, w
  <1>3. ASSUME NEW i \in 1 .. Len(u)
        PROVE  w[i] = u[i]
    <2>1. i \in 1 .. Len(s \o t)
      BY <1>1, <1>2
    <2>2. QED
      BY <1>1, <1>2, <2>1
  <1>4. ASSUME NEW i \in 1 .. Len(v)
        PROVE  w[Len(u) + i] = v[i]
    <2>1. Len(s) + i \in 1 .. Len(s \o t)
      BY <1>1, <1>2
    <2>2. QED
      BY <1>1, <1>2, <2>1
  <1>5. /\ Len(w) = Len(u) + Len(v)
        /\ (\A i \in 1 .. Len(u) : w[i] = u[i])
        /\ \A i \in 1 .. Len(v) : w[Len(u) + i] = v[i]
    BY <1>2, <1>3, <1>4
  <1>6. w = u \o v
    BY <1>2, <1>5, ConcatIs
  <1>7. QED
    BY <1>6 DEF u, v, w

\* The values of g at the elements of each list.
Images(g, ss) == [i \in DOMAIN ss |-> Image(g, ss[i])]

\* The values of lists joined are their values joined.
LEMMA ImageFlatten ==
    ASSUME NEW g, NEW ss, AllLists(ss)
    PROVE  /\ AllLists(Images(g, ss))
           /\ Image(g, FlattenSeq(ss)) = FlattenSeq(Images(g, ss))
  <1> DEFINE tt == Images(g, ss)
  <1>1. IsList(ss) /\ Len(ss) \in Nat /\ DOMAIN ss = 1 .. Len(ss)
    BY ListLen DEF AllLists
  <1>2. /\ IsList(tt)
        /\ Len(tt) = Len(ss)
        /\ \A i \in 1 .. Len(ss) : tt[i] = Image(g, ss[i])
    BY <1>1, ListOf DEF Images
  <1> HIDE DEF tt
  <1>3. AllLists(tt)
    BY <1>2, ImageIs DEF AllLists
  <1> DEFINE S ==
                 {k \in Nat : k <= Len(ss) => Image(g, Upto(ss, k)) = Upto(tt, k)}
  <1>4. 0 \in S
    <2>1. Upto(ss, 0) = <<>> /\ Upto(tt, 0) = <<>>
      BY <1>1, <1>2, UptoNone
    <2>2. Image(g, <<>>) = <<>>
      BY ImageIs, ListEmpty, ListNone
    <2>3. QED
      BY <2>1, <2>2
  <1>5. ASSUME NEW k \in S
        PROVE  k + 1 \in S
    <2> SUFFICES ASSUME k + 1 <= Len(ss)
                 PROVE  Image(g, Upto(ss, k + 1)) = Upto(tt, k + 1)
      OBVIOUS
    <2>1. /\ k \in Nat
          /\ k < Len(ss)
          /\ k \in 0 .. Len(ss)
          /\ k + 1 \in 1 .. Len(ss)
          /\ Image(g, Upto(ss, k)) = Upto(tt, k)
      BY <1>1
    <2>2. Upto(ss, k + 1) = Upto(ss, k) \o ss[k + 1]
      BY <2>1, UptoStep
    <2>3. Upto(tt, k + 1) = Upto(tt, k) \o tt[k + 1]
      BY <2>1, <1>2, <1>3, UptoStep
    <2>4. IsList(Upto(ss, k)) /\ IsList(ss[k + 1])
      BY <2>1, UptoList DEF AllLists
    <2>5. Image(g, Upto(ss, k + 1)) =
              Image(g, Upto(ss, k)) \o Image(g, ss[k + 1])
      BY <2>2, <2>4, ImageConcat
    <2>6. QED
      BY <2>1, <2>3, <2>5, <1>2
  <1>6. S = Nat
    <2>1. S \in SUBSET Nat
      OBVIOUS
    <2> HIDE DEF S
    <2>2. QED
      BY <1>4, <1>5, <2>1, EveryNumber
  <1>7. Image(g, Upto(ss, Len(ss))) = Upto(tt, Len(ss))
    BY <1>1, <1>6
  <1>8. Image(g, FlattenSeq(ss)) = FlattenSeq(tt)
    BY <1>1, <1>2, <1>7, UptoAll
  <1>9. QED
    BY <1>3, <1>8 DEF tt
=============================================================================
