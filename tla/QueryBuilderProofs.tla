------------------------- MODULE QueryBuilderProofs -------------------------
(***************************************************************************)
(* What the SQL builders make, for every value of the constants:           *)
(* conditions whose placeholders are those of their arguments, one for     *)
(* one, and rows that meet them no wider than the parameters they are made *)
(* of. A piece is a list of clauses with its arguments; Join, AnyOf,       *)
(* NoneOf, In and Given make pieces of pieces, and each builder is proved  *)
(* from what they do. At the end, the filters that a search is parsed to,  *)
(* by the formula that it was written from.                                *)
(***************************************************************************)
EXTENDS QuerySql, SumsAndLists

-----------------------------------------------------------------------------
(* Conditions, their placeholders and their arguments *)

\* The columns that the placeholders of a clause stand for.
ColsOf(tests) == [j \in DOMAIN tests |-> tests[j].col]

\* A clause is a record of a sign and its tests.
IsClause(c) == c = [neg |-> c.neg, tests |-> c.tests]

\* Conditions: a list of clauses, each with a list of tests.
IsWhere(where) ==
    /\ IsList(where)
    /\ \A i \in 1 .. Len(where) :
          IsList(where[i].tests) /\ IsClause(where[i])

\* The columns that some arguments are for.
ForsOf(args) == [i \in DOMAIN args |-> args[i].for]

\* The arguments are those of the placeholders, one for one and in their
\* order.
Fit(where, args) ==
    /\ IsWhere(where) /\ IsList(args)
    /\ Slots(where) = ForsOf(args)

\* The placeholders of each clause.
SlotLists(where) == [i \in DOMAIN where |-> ColsOf(where[i].tests)]

\* Slots joins them.
LEMMA SlotsIs ==
    ASSUME NEW where
    PROVE  Slots(where) = FlattenSeq(SlotLists(where))
  BY DEF Slots, SlotLists, ColsOf

\* Each clause has as many placeholders as tests.
LEMMA SlotListsType ==
    ASSUME NEW w, IsWhere(w)
    PROVE  /\ AllLists(SlotLists(w))
           /\ Len(SlotLists(w)) = Len(w)
           /\ \A i \in 1 .. Len(w) :
                  /\ SlotLists(w)[i] = ColsOf(w[i].tests)
                  /\ Len(ColsOf(w[i].tests)) = Len(w[i].tests)
  <1>1. Len(w) \in Nat /\ DOMAIN w = 1 .. Len(w)
    BY ListLen DEF IsWhere
  <1>2. /\ IsList(SlotLists(w))
        /\ Len(SlotLists(w)) = Len(w)
        /\ \A i \in 1 .. Len(w) : SlotLists(w)[i] = ColsOf(w[i].tests)
    BY <1>1, ListOf DEF SlotLists
  <1>3. ASSUME NEW i \in 1 .. Len(w)
        PROVE  /\ IsList(ColsOf(w[i].tests))
               /\ Len(ColsOf(w[i].tests)) = Len(w[i].tests)
    <2>1. IsList(w[i].tests)
      BY DEF IsWhere
    <2>2. Len(w[i].tests) \in Nat /\ DOMAIN w[i].tests = 1 .. Len(w[i].tests)
      BY <2>1, ListLen
    <2>3. QED
      BY <2>2, ListOf DEF ColsOf
  <1>4. QED
    BY <1>2, <1>3 DEF AllLists

\* The placeholders of conditions are a list.
LEMMA SlotsList ==
    ASSUME NEW w, IsWhere(w)
    PROVE  IsList(Slots(w))
  BY SlotsIs, SlotListsType, FlattenList

\* Conditions and conditions are conditions.
LEMMA WhereConcat ==
    ASSUME NEW v, NEW w, IsWhere(v), IsWhere(w)
    PROVE  /\ IsWhere(v \o w)
           /\ Len(v \o w) = Len(v) + Len(w)
           /\ Len(v) \in Nat
           /\ Len(w) \in Nat
           /\ \A i \in 1 .. Len(v) : (v \o w)[i] = v[i]
           /\ \A i \in 1 .. Len(w) : (v \o w)[Len(v) + i] = w[i]
           /\ \A i \in 1 .. Len(v) + Len(w) :
                  \/ i \in 1 .. Len(v)
                  \/ (i - Len(v) \in 1 .. Len(w) /\ (v \o w)[i] = w[i - Len(v)])
  <1>1. /\ IsList(v \o w)
        /\ Len(v \o w) = Len(v) + Len(w)
        /\ Len(v) \in Nat
        /\ Len(w) \in Nat
        /\ \A i \in 1 .. Len(v) : (v \o w)[i] = v[i]
        /\ \A i \in 1 .. Len(w) : (v \o w)[Len(v) + i] = w[i]
    BY ListConcat, ListLen DEF IsWhere
  <1>2. ASSUME NEW i \in 1 .. Len(v) + Len(w), i \notin 1 .. Len(v)
        PROVE  i - Len(v) \in 1 .. Len(w) /\ (v \o w)[i] = w[i - Len(v)]
    <2>1. i - Len(v) \in 1 .. Len(w) /\ i = Len(v) + (i - Len(v))
      BY <1>1, <1>2
    <2>2. QED
      BY <1>1, <2>1
  <1>3. ASSUME NEW i \in 1 .. Len(v) + Len(w)
        PROVE  IsList((v \o w)[i].tests) /\ IsClause((v \o w)[i])
    BY <1>1, <1>2 DEF IsWhere
  <1>4. QED
    BY <1>1, <1>2, <1>3 DEF IsWhere

\* So are the first few.
LEMMA WherePrefix ==
    ASSUME NEW w, IsWhere(w), NEW n \in 0 .. Len(w)
    PROVE  IsWhere(SubSeq(w, 1, n))
  BY ListPrefix DEF IsWhere

\* Their placeholders follow each other as they do.
LEMMA SlotsConcat ==
    ASSUME NEW v, NEW w, IsWhere(v), IsWhere(w)
    PROVE  Slots(v \o w) = Slots(v) \o Slots(w)
  <1> DEFINE a == SlotLists(v) \o SlotLists(w)
  <1>1. /\ IsWhere(v \o w)
        /\ Len(v \o w) = Len(v) + Len(w)
        /\ Len(v) \in Nat
        /\ Len(w) \in Nat
        /\ \A i \in 1 .. Len(v) : (v \o w)[i] = v[i]
        /\ \A i \in 1 .. Len(w) : (v \o w)[Len(v) + i] = w[i]
        /\ \A i \in 1 .. Len(v) + Len(w) :
               \/ i \in 1 .. Len(v)
               \/ (i - Len(v) \in 1 .. Len(w) /\ (v \o w)[i] = w[i - Len(v)])
    BY WhereConcat
  <1>2. /\ AllLists(SlotLists(v))
        /\ AllLists(SlotLists(w))
        /\ AllLists(SlotLists(v \o w))
        /\ Len(SlotLists(v)) = Len(v)
        /\ Len(SlotLists(w)) = Len(w)
        /\ Len(SlotLists(v \o w)) = Len(v) + Len(w)
    BY <1>1, SlotListsType
  <1>3. /\ IsList(a)
        /\ Len(a) = Len(v) + Len(w)
        /\ \A i \in 1 .. Len(v) : a[i] = SlotLists(v)[i]
    BY <1>2, ListConcat DEF AllLists
  <1>4. \A i \in 1 .. Len(w) : a[Len(v) + i] = SlotLists(w)[i]
    BY <1>2, ListConcat DEF AllLists
  <1>5. ASSUME NEW i \in 1 .. Len(v) + Len(w)
        PROVE  SlotLists(v \o w)[i] = a[i]
    <2>1. SlotLists(v \o w)[i] = ColsOf((v \o w)[i].tests)
      BY <1>1, SlotListsType
    <2>2. CASE i \in 1 .. Len(v)
      BY <2>1, <2>2, <1>1, <1>3, SlotListsType
    <2>3. CASE i - Len(v) \in 1 .. Len(w) /\ (v \o w)[i] = w[i - Len(v)]
      <3>1. i = Len(v) + (i - Len(v))
        BY <1>1
      <3>2. a[i] = SlotLists(w)[i - Len(v)]
        BY <1>4, <2>3, <3>1
      <3>3. SlotLists(w)[i - Len(v)] = ColsOf(w[i - Len(v)].tests)
        BY <2>3, SlotListsType
      <3>4. QED
        BY <2>1, <2>3, <3>2, <3>3
    <2>4. QED
      BY <1>1, <2>2, <2>3
  <1> HIDE DEF a
  <1>6. SlotLists(v \o w) = a
    BY <1>2, <1>3, <1>5, ListEqual DEF AllLists
  <1>7. FlattenSeq(a) = FlattenSeq(SlotLists(v)) \o FlattenSeq(SlotLists(w))
    BY <1>2, FlattenConcat DEF a
  <1>8. QED
    BY <1>6, <1>7, SlotsIs

\* The columns of arguments as values of a function.
LEMMA ForsIs ==
    ASSUME NEW s, IsList(s), NEW A, ToSet(s) \subseteq A
    PROVE  ForsOf(s) = Image([a \in A |-> a.for], s)
  BY DEF ForsOf, Image, ToSet

\* The columns of two lists of arguments follow each other as they do.
LEMMA ForsConcat ==
    ASSUME NEW s, NEW t, IsList(s), IsList(t)
    PROVE  /\ IsList(ForsOf(s))
           /\ Len(ForsOf(s)) = Len(s)
           /\ ForsOf(s \o t) = ForsOf(s) \o ForsOf(t)
  <1> DEFINE A == ToSet(s) \cup ToSet(t)
             g == [a \in A |-> a.for]
  <1>1. ToSet(s \o t) = A /\ IsList(s \o t)
    BY ConcatSet, ListConcat
  <1>2. /\ ForsOf(s) = Image(g, s)
        /\ ForsOf(t) = Image(g, t)
        /\ ForsOf(s \o t) = Image(g, s \o t)
    BY <1>1, ForsIs
  <1> HIDE DEF g
  <1>3. IsList(Image(g, s)) /\ Len(Image(g, s)) = Len(s)
    BY ImageIs, Zenon
  <1>4. Image(g, s \o t) = Image(g, s) \o Image(g, t)
    BY ImageConcat, Zenon
  <1>5. QED
    BY <1>2, <1>3, <1>4

\* What fits, followed by what fits, fits.
LEMMA FitConcat ==
    ASSUME NEW v, NEW a, NEW w, NEW b, Fit(v, a), Fit(w, b)
    PROVE  Fit(v \o w, a \o b)
  <1>1. IsWhere(v \o w) /\ Slots(v \o w) = Slots(v) \o Slots(w)
    BY WhereConcat, SlotsConcat DEF Fit
  <1>2. IsList(a \o b) /\ ForsOf(a \o b) = ForsOf(a) \o ForsOf(b)
    BY ListConcat, ForsConcat DEF Fit
  <1>3. QED
    BY <1>1, <1>2 DEF Fit

\* The clause i of some conditions holds for a row. Its arguments come after
\* those that the clauses before it take.
Meets(row, where, args, i) ==
    where[i].neg #
        \E j \in DOMAIN where[i].tests :
            Passes(row, where[i].tests[j],
                   args[Len(Slots(SubSeq(where, 1, i - 1))) + j].is)

\* A row meets the conditions.
AllMeet(row, where, args) == \A i \in DOMAIN where : Meets(row, where, args, i)

\* The placeholders of a clause are within those of the conditions.
LEMMA PrefixSlots ==
    ASSUME NEW w, IsWhere(w), NEW i \in 1 .. Len(w)
    PROVE  /\ Len(Slots(SubSeq(w, 1, i - 1))) \in Nat
           /\ Len(Slots(SubSeq(w, 1, i - 1))) + Len(w[i].tests) <= Len(Slots(w))
           /\ DOMAIN w[i].tests = 1 .. Len(w[i].tests)
  <1>1. /\ Len(w) \in Nat
        /\ DOMAIN w = 1 .. Len(w)
        /\ IsList(w[i].tests)
        /\ i - 1 \in 0 .. Len(w)
    BY ListLen DEF IsWhere
  <1> DEFINE ss == SlotLists(w)
             v == SubSeq(w, 1, i - 1)
  <1>2. /\ AllLists(ss)
        /\ Len(ss) = Len(w)
        /\ \A k \in 1 .. Len(w) :
               /\ ss[k] = ColsOf(w[k].tests)
               /\ Len(ColsOf(w[k].tests)) = Len(w[k].tests)
    BY SlotListsType
  <1>3. IsWhere(v) /\ Len(v) = i - 1 /\ \A k \in 1 .. i - 1 : v[k] = w[k]
    BY <1>1, WherePrefix, ListPrefix DEF IsWhere
  <1>4. /\ IsList(SlotLists(v))
        /\ Len(SlotLists(v)) = i - 1
        /\ \A k \in 1 .. i - 1 : SlotLists(v)[k] = ColsOf(v[k].tests)
    BY <1>3, SlotListsType DEF AllLists
  <1>5. /\ IsList(SubSeq(ss, 1, i - 1))
        /\ Len(SubSeq(ss, 1, i - 1)) = i - 1
        /\ \A k \in 1 .. i - 1 : SubSeq(ss, 1, i - 1)[k] = ss[k]
    <2>1. IsList(ss) /\ i - 1 \in 0 .. Len(ss)
      BY <1>1, <1>2 DEF AllLists
    <2> HIDE DEF ss
    <2>2. QED
      BY <2>1, ListPrefix
  <1> HIDE DEF ss, v
  <1>6. \A k \in 1 .. i - 1 : SlotLists(v)[k] = SubSeq(ss, 1, i - 1)[k]
    <2>1. \A k \in 1 .. i - 1 : k \in 1 .. Len(w)
      BY <1>1
    <2>2. QED
      BY <2>1, <1>2, <1>3, <1>4, <1>5
  <1>7. SlotLists(v) = SubSeq(ss, 1, i - 1)
    BY <1>4, <1>5, <1>6, ListEqual
  <1>8. Slots(v) = Upto(ss, i - 1)
    BY <1>7, SlotsIs DEF Upto
  <1>9. Slots(w) = FlattenSeq(ss)
    BY SlotsIs DEF ss
  <1>10. /\ Len(Upto(ss, i - 1)) \in Nat
         /\ Len(Upto(ss, i - 1)) + Len(ss[(i - 1) + 1]) <= Len(FlattenSeq(ss))
    <2>1. i - 1 \in Nat /\ i - 1 < Len(ss)
      BY <1>1, <1>2
    <2>2. QED
      BY <2>1, <1>2, UptoLen
  <1>11. Len(ss[(i - 1) + 1]) = Len(w[i].tests)
    <2>1. (i - 1) + 1 = i
      BY <1>1
    <2>2. QED
      BY <2>1, <1>2
  <1>12. DOMAIN w[i].tests = 1 .. Len(w[i].tests)
    BY <1>1, ListLen
  <1>13. QED
    BY <1>8, <1>9, <1>10, <1>11, <1>12 DEF v

\* Every test of fitting conditions has its argument.
LEMMA ArgumentIn ==
    ASSUME NEW w, NEW a, Fit(w, a), NEW i \in 1 .. Len(w),
           NEW j \in DOMAIN w[i].tests
    PROVE  /\ Len(Slots(SubSeq(w, 1, i - 1))) + j \in 1 .. Len(a)
           /\ Len(Slots(SubSeq(w, 1, i - 1))) \in Nat
           /\ j \in Nat
  <1>1. Len(Slots(w)) = Len(a)
    BY ForsConcat DEF Fit
  <1>2. Len(a) \in Nat /\ Len(w[i].tests) \in Nat
    BY ListLen DEF Fit, IsWhere
  <1>3. /\ Len(Slots(SubSeq(w, 1, i - 1))) \in Nat
        /\ Len(Slots(SubSeq(w, 1, i - 1))) + Len(w[i].tests) <= Len(Slots(w))
        /\ DOMAIN w[i].tests = 1 .. Len(w[i].tests)
    BY PrefixSlots DEF Fit
  <1>4. j \in 1 .. Len(w[i].tests)
    BY <1>3
  <1> DEFINE n == Len(Slots(SubSeq(w, 1, i - 1)))
             k == Len(w[i].tests)
  <1>5. n \in Nat /\ k \in Nat /\ n + k <= Len(a) /\ j \in 1 .. k
    BY <1>1, <1>2, <1>3, <1>4
  <1> HIDE DEF n, k
  <1>6. n + j \in 1 .. Len(a) /\ n \in Nat /\ j \in Nat
    BY <1>2, <1>5
  <1>7. QED
    BY <1>6 DEF n

\* A clause of the first of two conditions is met with them as it is alone.
LEMMA FirstMeets ==
    ASSUME NEW v, NEW a, NEW w, NEW b, Fit(v, a), Fit(w, b), NEW row,
           NEW i \in 1 .. Len(v)
    PROVE  Meets(row, v \o w, a \o b, i) <=> Meets(row, v, a, i)
  <1> DEFINE u == v \o w
             n == Len(Slots(SubSeq(v, 1, i - 1)))
  <1>1. /\ IsList(v)
        /\ IsList(u)
        /\ Len(u) = Len(v) + Len(w)
        /\ Len(v) \in Nat
        /\ Len(w) \in Nat
        /\ \A k \in 1 .. Len(v) : u[k] = v[k]
    BY WhereConcat DEF Fit, IsWhere
  <1>2. SubSeq(u, 1, i - 1) = SubSeq(v, 1, i - 1)
    <2> HIDE DEF u
    <2>1. i - 1 \in 0 .. Len(v) /\ i - 1 \in 0 .. Len(u)
      BY <1>1
    <2>2. /\ IsList(SubSeq(v, 1, i - 1)) /\ Len(SubSeq(v, 1, i - 1)) = i - 1
          /\ \A k \in 1 .. i - 1 : SubSeq(v, 1, i - 1)[k] = v[k]
      BY <1>1, <2>1, ListPrefix
    <2>3. /\ IsList(SubSeq(u, 1, i - 1)) /\ Len(SubSeq(u, 1, i - 1)) = i - 1
          /\ \A k \in 1 .. i - 1 : SubSeq(u, 1, i - 1)[k] = u[k]
      BY <1>1, <2>1, ListPrefix
    <2>4. \A k \in 1 .. i - 1 : k \in 1 .. Len(v)
      BY <1>1
    <2>5. \A k \in 1 .. i - 1 : SubSeq(u, 1, i - 1)[k] = SubSeq(v, 1, i - 1)[k]
      BY <1>1, <2>2, <2>3, <2>4
    <2>6. QED
      BY <2>2, <2>3, <2>5, ListEqual
  <1>3. \A j \in DOMAIN v[i].tests : (a \o b)[n + j] = a[n + j]
    <2> TAKE j \in DOMAIN v[i].tests
    <2>1. n + j \in 1 .. Len(a)
      BY ArgumentIn
    <2>2. IsList(a) /\ IsList(b)
      BY DEF Fit
    <2>3. \A k \in 1 .. Len(a) : (a \o b)[k] = a[k]
      BY <2>2, ListConcat
    <2> HIDE DEF n
    <2>4. QED
      BY <2>1, <2>3
  <1>4. u[i] = v[i]
    BY <1>1
  <1> HIDE DEF u, n
  <1>5. (\E j \in DOMAIN v[i].tests : Passes(row, v[i].tests[j], (a \o b)[n + j].is))
         <=> (\E j \in DOMAIN v[i].tests : Passes(row, v[i].tests[j], a[n + j].is))
    BY <1>3
  <1>6. Meets(row, u, a \o b, i) <=> Meets(row, v, a, i)
    BY <1>2, <1>4, <1>5 DEF Meets, n
  <1>7. QED
    BY <1>6 DEF u

\* So is a clause of the second: its arguments have moved with it.
LEMMA SecondMeets ==
    ASSUME NEW v, NEW a, NEW w, NEW b, Fit(v, a), Fit(w, b), NEW row,
           NEW i \in 1 .. Len(w)
    PROVE  Meets(row, v \o w, a \o b, Len(v) + i) <=> Meets(row, w, b, i)
  <1> DEFINE u == v \o w
             n == Len(v) + i
             x == SubSeq(w, 1, i - 1)
             y == v \o x
             m == Len(Slots(x))
  <1>1. /\ IsList(v)
        /\ IsList(w)
        /\ IsList(u)
        /\ Len(u) = Len(v) + Len(w)
        /\ Len(v) \in Nat
        /\ Len(w) \in Nat
        /\ IsWhere(v) /\ IsWhere(w)
        /\ (\A k \in 1 .. Len(v) : u[k] = v[k])
        /\ (\A k \in 1 .. Len(w) : u[Len(v) + k] = w[k])
    BY WhereConcat DEF Fit, IsWhere
  <1>2. SubSeq(u, 1, n - 1) = y
    <2> HIDE DEF u, x
    <2>1. /\ i - 1 \in 0 .. Len(w)
          /\ n - 1 \in 0 .. Len(u)
          /\ n - 1 = Len(v) + (i - 1)
      BY <1>1
    <2>2. /\ IsList(x) /\ Len(x) = i - 1
          /\ \A k \in 1 .. i - 1 : x[k] = w[k]
      BY <1>1, <2>1, ListPrefix DEF x
    <2> HIDE DEF n
    <2>3. /\ IsList(SubSeq(u, 1, n - 1)) /\ Len(SubSeq(u, 1, n - 1)) = n - 1
          /\ \A k \in 1 .. n - 1 : SubSeq(u, 1, n - 1)[k] = u[k]
      BY <1>1, <2>1, ListPrefix
    <2>4. /\ IsList(y) /\ Len(y) = Len(v) + Len(x)
          /\ (\A k \in 1 .. Len(v) : y[k] = v[k])
          /\ (\A k \in 1 .. Len(x) : y[Len(v) + k] = x[k])
      BY <1>1, <2>2, ListConcat
    <2> HIDE DEF y
    <2>5. ASSUME NEW k \in 1 .. n - 1
          PROVE  SubSeq(u, 1, n - 1)[k] = y[k]
      <3>1. CASE k \in 1 .. Len(v)
        BY <3>1, <1>1, <2>3, <2>4
      <3>2. CASE k \notin 1 .. Len(v)
        <4>1. /\ k - Len(v) \in 1 .. i - 1
              /\ k = Len(v) + (k - Len(v))
              /\ k - Len(v) \in 1 .. Len(w)
          BY <1>1, <2>1, <3>2
        <4>2. y[k] = w[k - Len(v)]
          BY <4>1, <2>2, <2>4
        <4>3. u[k] = w[k - Len(v)]
          BY <4>1, <1>1
        <4>4. QED
          BY <4>2, <4>3, <2>3
      <3>3. QED
        BY <3>1, <3>2
    <2>6. QED
      BY <2>1, <2>2, <2>3, <2>4, <2>5, ListEqual
  <1>3. Len(Slots(y)) = Len(a) + m
    <2>1. i - 1 \in 0 .. Len(w)
      BY <1>1
    <2>2. IsWhere(x)
      BY <1>1, <2>1, WherePrefix
    <2> HIDE DEF x
    <2>3. Slots(y) = Slots(v) \o Slots(x)
      BY <1>1, <2>2, SlotsConcat
    <2>4. Len(Slots(y)) = Len(Slots(v)) + Len(Slots(x))
      BY <1>1, <2>2, <2>3, SlotsList, ListConcat
    <2>5. Len(Slots(v)) = Len(a)
      BY ForsConcat DEF Fit
    <2>6. QED
      BY <2>4, <2>5
  <1>4. \A j \in DOMAIN w[i].tests : (a \o b)[(Len(a) + m) + j] = b[m + j]
    <2> TAKE j \in DOMAIN w[i].tests
    <2>1. m + j \in 1 .. Len(b) /\ m \in Nat /\ j \in Nat
      BY ArgumentIn
    <2>2. IsList(a) /\ IsList(b)
      BY DEF Fit
    <2>3. Len(a) \in Nat /\ \A k \in 1 .. Len(b) : (a \o b)[Len(a) + k] = b[k]
      BY <2>2, ListConcat
    <2> HIDE DEF m
    <2>4. (Len(a) + m) + j = Len(a) + (m + j)
      BY <2>1, <2>3
    <2>5. QED
      BY <2>1, <2>3, <2>4
  <1>5. u[n] = w[i]
    BY <1>1
  <1>6. (\E j \in DOMAIN w[i].tests :
             Passes(row, w[i].tests[j], (a \o b)[(Len(a) + m) + j].is))
         <=> (\E j \in DOMAIN w[i].tests : Passes(row, w[i].tests[j], b[m + j].is))
    <2> HIDE DEF m
    <2>1. QED
      BY <1>4
  <1>7. m = Len(Slots(SubSeq(w, 1, i - 1)))
    OBVIOUS
  <1> HIDE DEF u, n, x, y, m
  <1>8. Meets(row, u, a \o b, n) <=> Meets(row, w, b, i)
    BY <1>2, <1>3, <1>5, <1>6, <1>7 DEF Meets
  <1>9. QED
    BY <1>8 DEF u, n

\* A row meets two conditions together when it meets each of them.
LEMMA ConcatMeets ==
    ASSUME NEW v, NEW a, NEW w, NEW b, Fit(v, a), Fit(w, b), NEW row
    PROVE  AllMeet(row, v \o w, a \o b) <=>
               AllMeet(row, v, a) /\ AllMeet(row, w, b)
  <1>1. /\ DOMAIN v = 1 .. Len(v) /\ DOMAIN w = 1 .. Len(w)
        /\ DOMAIN (v \o w) = 1 .. Len(v) + Len(w)
        /\ Len(v) \in Nat
        /\ Len(w) \in Nat
    BY ListLen, WhereConcat DEF Fit, IsWhere
  <1>2. ASSUME AllMeet(row, v \o w, a \o b)
        PROVE  AllMeet(row, v, a) /\ AllMeet(row, w, b)
    <2>1. \A i \in 1 .. Len(v) : Meets(row, v, a, i)
      <3> TAKE i \in 1 .. Len(v)
      <3>1. i \in 1 .. Len(v) + Len(w)
        BY <1>1
      <3>2. Meets(row, v \o w, a \o b, i)
        BY <3>1, <1>1, <1>2 DEF AllMeet
      <3>3. QED
        BY <3>2, FirstMeets
    <2>2. \A i \in 1 .. Len(w) : Meets(row, w, b, i)
      <3> TAKE i \in 1 .. Len(w)
      <3>1. Len(v) + i \in 1 .. Len(v) + Len(w)
        BY <1>1
      <3>2. Meets(row, v \o w, a \o b, Len(v) + i)
        BY <3>1, <1>1, <1>2 DEF AllMeet
      <3>3. QED
        BY <3>2, SecondMeets
    <2>3. QED
      BY <1>1, <2>1, <2>2 DEF AllMeet
  <1>3. ASSUME AllMeet(row, v, a), AllMeet(row, w, b)
        PROVE  AllMeet(row, v \o w, a \o b)
    <2>1. ASSUME NEW i \in 1 .. Len(v) + Len(w)
          PROVE  Meets(row, v \o w, a \o b, i)
      <3>1. CASE i \in 1 .. Len(v)
        <4>1. Meets(row, v, a, i)
          BY <1>1, <1>3, <3>1 DEF AllMeet
        <4>2. QED
          BY <4>1, <3>1, FirstMeets
      <3>2. CASE i \notin 1 .. Len(v)
        <4>1. i - Len(v) \in 1 .. Len(w) /\ i = Len(v) + (i - Len(v))
          BY <1>1, <3>2
        <4>2. Meets(row, w, b, i - Len(v))
          BY <1>1, <1>3, <4>1 DEF AllMeet
        <4>3. Meets(row, v \o w, a \o b, Len(v) + (i - Len(v)))
          BY <4>1, <4>2, SecondMeets
        <4>4. QED
          BY <4>1, <4>3
      <3>3. QED
        BY <3>1, <3>2
    <2>2. QED
      BY <1>1, <2>1 DEF AllMeet
  <1>4. QED
    BY <1>2, <1>3

-----------------------------------------------------------------------------
(* Pieces joined *)

\* The conditions of some pieces.
Wheres(ps) == [i \in DOMAIN ps |-> ps[i].where]

\* The arguments of some pieces.
Args(ps) == [i \in DOMAIN ps |-> ps[i].args]

\* A list of pieces that fit.
AllFit(ps) == IsList(ps) /\ \A i \in 1 .. Len(ps) : Fit(ps[i].where, ps[i].args)

\* No conditions need no arguments, and every row meets them.
LEMMA NothingFits ==
    ASSUME NEW row
    PROVE  Fit(<<>>, <<>>) /\ AllMeet(row, <<>>, <<>>)
  <1>1. DOMAIN <<>> = {} /\ Len(<<>>) = 0
    OBVIOUS
  <1>2. IsWhere(<<>>)
    BY ListEmpty DEF IsWhere
  <1>3. IsList(SlotLists(<<>>)) /\ Len(SlotLists(<<>>)) = 0
    BY <1>2, SlotListsType, ListEmpty DEF AllLists
  <1>4. SlotLists(<<>>) = <<>>
    BY <1>3, ListNone
  <1>5. Slots(<<>>) = <<>>
    BY <1>4, SlotsIs, ListEmpty DEF FlattenSeq
  <1>6. IsList(ForsOf(<<>>)) /\ Len(ForsOf(<<>>)) = 0
    BY ForsConcat, ListEmpty
  <1>7. ForsOf(<<>>) = <<>>
    BY <1>6, ListNone
  <1>8. AllMeet(row, <<>>, <<>>)
    BY <1>1, Zenon DEF AllMeet
  <1>9. QED
    BY <1>2, <1>5, <1>7, <1>8, ListEmpty DEF Fit

\* The parts of pieces are lists of lists.
LEMMA PiecesType ==
    ASSUME NEW ps, AllFit(ps)
    PROVE  /\ Len(ps) \in Nat /\ AllLists(Wheres(ps)) /\ AllLists(Args(ps))
           /\ Len(Wheres(ps)) = Len(ps) /\ Len(Args(ps)) = Len(ps)
           /\ \A i \in 1 .. Len(ps) :
                  /\ Wheres(ps)[i] = ps[i].where
                  /\ Args(ps)[i] = ps[i].args
                  /\ Fit(Wheres(ps)[i], Args(ps)[i])
  <1>1. Len(ps) \in Nat /\ DOMAIN ps = 1 .. Len(ps)
    BY ListLen DEF AllFit
  <1>2. /\ /\ IsList(Wheres(ps))
        /\ Len(Wheres(ps)) = Len(ps)
        /\ \A i \in 1 .. Len(ps) : Wheres(ps)[i] = ps[i].where
    BY <1>1, ListOf DEF Wheres
  <1>3. /\ /\ IsList(Args(ps))
        /\ Len(Args(ps)) = Len(ps)
        /\ \A i \in 1 .. Len(ps) : Args(ps)[i] = ps[i].args
    BY <1>1, ListOf DEF Args
  <1>4. \A i \in 1 .. Len(ps) :
            /\ Fit(ps[i].where, ps[i].args)
            /\ IsList(ps[i].where)
            /\ IsList(ps[i].args)
    BY DEF AllFit, Fit, IsWhere
  <1>5. QED
    BY <1>1, <1>2, <1>3, <1>4 DEF AllLists

\* The first n pieces joined fit, and a row meets them when it meets each.
LEMMA JoinUpto ==
    ASSUME NEW ps, AllFit(ps), NEW row, NEW n \in 0 .. Len(ps)
    PROVE  /\ Fit(Upto(Wheres(ps), n), Upto(Args(ps), n))
           /\ AllMeet(row, Upto(Wheres(ps), n), Upto(Args(ps), n)) <=>
                  \A i \in 1 .. n : AllMeet(row, ps[i].where, ps[i].args)
  <1> DEFINE W == Wheres(ps)
             A == Args(ps)
  <1>1. /\ Len(ps) \in Nat
        /\ AllLists(W)
        /\ AllLists(A)
        /\ Len(W) = Len(ps)
        /\ Len(A) = Len(ps)
        /\ \A i \in 1 .. Len(ps) :
               W[i] = ps[i].where /\ A[i] = ps[i].args /\ Fit(W[i], A[i])
    BY PiecesType
  <1> HIDE DEF W, A
  <1> DEFINE M(k) == AllMeet(row, Upto(W, k), Upto(A, k))
             Each(k) == \A i \in 1 .. k : AllMeet(row, W[i], A[i])
             S == {k \in Nat :
                      k <= Len(ps) =>
                          Fit(Upto(W, k), Upto(A, k)) /\ (M(k) <=> Each(k))}
  <1>2. 0 \in S
    <2>1. Upto(W, 0) = <<>> /\ Upto(A, 0) = <<>>
      BY <1>1, UptoNone DEF AllLists
    <2>2. M(0)
      BY <2>1, NothingFits
    <2>3. Fit(Upto(W, 0), Upto(A, 0))
      BY <2>1, NothingFits
    <2>4. QED
      BY <2>2, <2>3
  <1>3. ASSUME NEW k \in S
        PROVE  k + 1 \in S
    <2> SUFFICES ASSUME k + 1 <= Len(ps)
                 PROVE  /\ Fit(Upto(W, k + 1), Upto(A, k + 1))
                        /\ (M(k + 1) <=> Each(k + 1))
      OBVIOUS
    <2>1. k \in Nat /\ k < Len(ps) /\ k + 1 \in 1 .. Len(ps)
      BY <1>1
    <2>2. Fit(Upto(W, k), Upto(A, k)) /\ (M(k) <=> Each(k))
      BY <2>1
    <2>3. /\ Upto(W, k + 1) = Upto(W, k) \o W[k + 1]
          /\ Upto(A, k + 1) = Upto(A, k) \o A[k + 1]
      BY <2>1, <1>1, UptoStep
    <2>4. Fit(W[k + 1], A[k + 1])
      BY <1>1, <2>1
    <2>5. Fit(Upto(W, k + 1), Upto(A, k + 1))
      BY <2>2, <2>3, <2>4, FitConcat
    <2> DEFINE v == Upto(W, k)
               a == Upto(A, k)
               w == W[k + 1]
               b == A[k + 1]
    <2>6. M(k + 1) <=> M(k) /\ AllMeet(row, W[k + 1], A[k + 1])
      <3>1. /\ Fit(v, a)
            /\ Fit(w, b)
            /\ Upto(W, k + 1) = v \o w
            /\ Upto(A, k + 1) = a \o b
        BY <2>2, <2>3, <2>4
      <3> HIDE DEF v, a, w, b
      <3>2. AllMeet(row, v \o w, a \o b) <=>
                AllMeet(row, v, a) /\ AllMeet(row, w, b)
        BY <3>1, ConcatMeets
      <3>3. M(k + 1) <=> AllMeet(row, v, a) /\ AllMeet(row, w, b)
        BY <3>1, <3>2
      <3>4. QED
        BY <3>3 DEF v, a, w, b
    <2>7. Each(k + 1) <=> Each(k) /\ AllMeet(row, W[k + 1], A[k + 1])
      <3>1. \A i \in 1 .. k + 1 : i \in 1 .. k \/ i = k + 1
        BY <2>1
      <3>2. \A i \in 1 .. k : i \in 1 .. k + 1
        BY <2>1
      <3>3. k + 1 \in 1 .. k + 1
        BY <2>1
      <3>4. QED
        BY <3>1, <3>2, <3>3, Zenon
    <2> HIDE DEF M, Each
    <2>8. QED
      BY <2>2, <2>5, <2>6, <2>7
  <1>4. S = Nat
    <2>1. S \in SUBSET Nat
      OBVIOUS
    <2> HIDE DEF S
    <2>2. QED
      BY <1>2, <1>3, <2>1, EveryNumber
  <1>5. n \in Nat /\ n <= Len(ps)
    BY <1>1
  <1>6. Fit(Upto(W, n), Upto(A, n)) /\ (M(n) <=> Each(n))
    BY <1>4, <1>5
  <1>7. Each(n) <=> \A i \in 1 .. n : AllMeet(row, ps[i].where, ps[i].args)
    <2>1. \A i \in 1 .. n : i \in 1 .. Len(ps)
      BY <1>1
    <2>2. \A i \in 1 .. n : W[i] = ps[i].where /\ A[i] = ps[i].args
      BY <1>1, <2>1
    <2>3. QED
      BY <2>2
  <1> HIDE DEF Each
  <1>8. QED
    BY <1>6, <1>7 DEF W, A

\* So do all of them: what Join makes of its parts.
LEMMA JoinFits ==
    ASSUME NEW ps, AllFit(ps)
    PROVE  /\ Fit(Join(ps).where, Join(ps).args)
           /\ \A row :
                  AllMeet(row, Join(ps).where, Join(ps).args) <=>
                      \A i \in 1 .. Len(ps) :
                          AllMeet(row, ps[i].where, ps[i].args)
  <1>1. /\ Join(ps).where = FlattenSeq(Wheres(ps))
        /\ Join(ps).args = FlattenSeq(Args(ps))
    BY DEF Join, Wheres, Args
  <1>2. /\ Len(ps) \in Nat /\ AllLists(Wheres(ps)) /\ AllLists(Args(ps))
        /\ Len(Wheres(ps)) = Len(ps) /\ Len(Args(ps)) = Len(ps)
    BY PiecesType
  <1>3. /\ Join(ps).where = Upto(Wheres(ps), Len(ps))
        /\ Join(ps).args = Upto(Args(ps), Len(ps))
    BY <1>1, <1>2, UptoAll DEF AllLists
  <1>4. Len(ps) \in 0 .. Len(ps)
    BY <1>2
  <1>5. QED
    BY <1>3, <1>4, JoinUpto

\* A single condition fits, and holds for the rows that pass its test.
LEMMA CondFits ==
    ASSUME NEW col, NEW op, NEW v
    PROVE  /\ Fit(Cond(col, op, v).where, Cond(col, op, v).args)
           /\ \A row :
                     AllMeet(row, Cond(col, op, v).where, Cond(col, op, v).args)
                  <=> Passes(row, [col |-> col, op |-> op], v)
  <1> DEFINE t == [col |-> col, op |-> op]
             a == [for |-> col, is |-> v]
             w == <<Clause(<<t>>)>>
             b == <<a>>
  <1>1. t.col = col /\ a.for = col /\ a.is = v
    OBVIOUS
  <1>2. Cond(col, op, v).where = w /\ Cond(col, op, v).args = b
    BY DEF Cond
  <1> HIDE DEF t, a
  <1>3. IsList(<<t>>) /\ Len(<<t>>) = 1 /\ <<t>>[1] = t /\ DOMAIN <<t>> = {1}
    BY ListOne
  <1>4. /\ IsClause(w[1])
        /\ w[1].tests = <<t>>
        /\ w[1].neg = FALSE
        /\ IsList(w)
        /\ Len(w) = 1
        /\ DOMAIN w = {1}
    BY ListOne DEF Clause, IsClause
  <1>5. IsList(b) /\ Len(b) = 1 /\ b[1] = a /\ DOMAIN b = {1}
    BY ListOne
  <1> HIDE DEF w, b
  <1>6. IsWhere(w)
    BY <1>3, <1>4 DEF IsWhere
  <1>7. ColsOf(<<t>>) = <<col>>
    BY <1>1, <1>3 DEF ColsOf
  <1>8. ForsOf(b) = <<col>>
    BY <1>1, <1>5 DEF ForsOf
  <1>9. SlotLists(w) = << <<col>> >>
    BY <1>4, <1>7 DEF SlotLists
  <1>10. Slots(w) = <<col>>
    BY <1>9, SlotsIs, FlattenOne, ListOne
  <1>11. Fit(w, b)
    BY <1>5, <1>6, <1>8, <1>10 DEF Fit
  <1>12. ASSUME NEW row
         PROVE  AllMeet(row, w, b) <=> Passes(row, t, v)
    <2>1. SubSeq(w, 1, 1 - 1) = <<>>
      <3>1. 1 - 1 = 0 /\ 0 \in 0 .. Len(w)
        BY <1>4
      <3>2. QED
        BY <1>4, <3>1, ListPrefix, ListNone
    <2>2. SlotLists(<<>>) = <<>>
      BY DEF SlotLists
    <2>3. Slots(<<>>) = <<>>
      BY <2>2, SlotsIs, ListEmpty DEF FlattenSeq
    <2>4. Len(Slots(SubSeq(w, 1, 1 - 1))) + 1 = 1
      <3>1. Len(Slots(SubSeq(w, 1, 1 - 1))) = Len(<<>>)
        BY <2>1, <2>3
      <3>2. Len(Slots(SubSeq(w, 1, 1 - 1))) = 0
        BY <3>1, ListEmpty
      <3>3. QED
        BY <3>2
    <2>5. Meets(row, w, b, 1) <=> Passes(row, t, v)
      <3>1. Meets(row, w, b, 1) <=>
                \E j \in {1} :
                    Passes(row, <<t>>[j], b[Len(Slots(SubSeq(w, 1, 1 - 1))) + j].is)
        BY <1>3, <1>4, Zenon DEF Meets
      <3> DEFINE n == Len(Slots(SubSeq(w, 1, 1 - 1)))
      <3> HIDE DEF n
      <3>2. (\E j \in {1} : Passes(row, <<t>>[j], b[n + j].is)) <=>
                Passes(row, <<t>>[1], b[n + 1].is)
        OBVIOUS
      <3>3. Passes(row, <<t>>[1], b[n + 1].is) <=> Passes(row, t, v)
        BY <2>4, <1>1, <1>3, <1>5 DEF n
      <3>4. QED
        BY <3>1, <3>2, <3>3 DEF n
    <2>6. QED
      BY <2>5, <1>4 DEF AllMeet
  <1>13. QED
    BY <1>2, <1>11, <1>12 DEF t

-----------------------------------------------------------------------------
(* Alternatives and negations *)

\* The columns of tests as values of a function.
LEMMA ColsIs ==
    ASSUME NEW s, IsList(s), NEW A, ToSet(s) \subseteq A
    PROVE  ColsOf(s) = Image([a \in A |-> a.col], s)
  BY DEF ColsOf, Image, ToSet

\* A row meets one clause that is not negated when it passes one of its tests.
LEMMA OneClause ==
    ASSUME NEW tests, IsList(tests)
    PROVE  /\ IsWhere(<<Clause(tests)>>)
           /\ Slots(<<Clause(tests)>>) = ColsOf(tests)
           /\ \A row, a :
                  AllMeet(row, <<Clause(tests)>>, a) <=>
                      \E j \in 1 .. Len(tests) : Passes(row, tests[j], a[j].is)
  <1> DEFINE w == <<Clause(tests)>>
  <1>1. Len(tests) \in Nat /\ DOMAIN tests = 1 .. Len(tests)
    BY ListLen
  <1>2. /\ IsClause(w[1])
        /\ w[1].tests = tests
        /\ w[1].neg = FALSE
        /\ IsList(w)
        /\ Len(w) = 1
        /\ DOMAIN w = {1}
    BY ListOne DEF Clause, IsClause
  <1> HIDE DEF w
  <1>3. IsWhere(w)
    BY <1>2 DEF IsWhere
  <1>4. SlotLists(w) = << ColsOf(tests) >>
    BY <1>2 DEF SlotLists
  <1>5. IsList(ColsOf(tests))
    BY <1>1, ListOf DEF ColsOf
  <1>6. Slots(w) = ColsOf(tests)
    BY <1>4, <1>5, SlotsIs, FlattenOne
  <1>7. ASSUME NEW row, NEW a
        PROVE  AllMeet(row, w, a) <=>
                   \E j \in 1 .. Len(tests) : Passes(row, tests[j], a[j].is)
    <2> DEFINE n == Len(Slots(SubSeq(w, 1, 1 - 1)))
    <2>1. SubSeq(w, 1, 1 - 1) = <<>>
      <3>1. 1 - 1 = 0 /\ 0 \in 0 .. Len(w)
        BY <1>2
      <3>2. QED
        BY <1>2, <3>1, ListPrefix, ListNone
    <2>2. SlotLists(<<>>) = <<>>
      BY DEF SlotLists
    <2>3. Slots(<<>>) = <<>>
      BY <2>2, SlotsIs, ListEmpty DEF FlattenSeq
    <2>4. n = 0
      <3>1. n = Len(<<>>)
        BY <2>1, <2>3
      <3>2. QED
        BY <3>1, ListEmpty
    <2>5. Meets(row, w, a, 1) <=>
              \E j \in DOMAIN tests : Passes(row, tests[j], a[n + j].is)
      BY <1>2, Zenon DEF Meets
    <2> HIDE DEF n
    <2>6. \A j \in 1 .. Len(tests) : n + j = j
      BY <1>1, <2>4
    <2>7. Meets(row, w, a, 1) <=>
              \E j \in 1 .. Len(tests) : Passes(row, tests[j], a[j].is)
      BY <1>1, <2>5, <2>6
    <2>8. QED
      BY <1>2, <2>7 DEF AllMeet
  <1>8. QED
    BY <1>3, <1>6, <1>7 DEF w

\* The tests of each clause.
Tests(w) == [i \in DOMAIN w |-> w[i].tests]

\* The tests of all clauses in one list have the placeholders of the clauses.
LEMMA TestsFlatten ==
    ASSUME NEW w, IsWhere(w)
    PROVE  /\ AllLists(Tests(w))
           /\ IsList(FlattenSeq(Tests(w)))
           /\ ColsOf(FlattenSeq(Tests(w))) = Slots(w)
  <1> DEFINE ss == Tests(w)
             t == FlattenSeq(ss)
             A == ToSet(t)
             g == [a \in A |-> a.col]
  <1>1. Len(w) \in Nat /\ DOMAIN w = 1 .. Len(w)
    BY ListLen DEF IsWhere
  <1>2. /\ IsList(ss)
        /\ Len(ss) = Len(w)
        /\ \A i \in 1 .. Len(w) : ss[i] = w[i].tests
    BY <1>1, ListOf DEF Tests
  <1> HIDE DEF ss
  <1>3. AllLists(ss)
    BY <1>2 DEF AllLists, IsWhere
  <1>4. IsList(t)
    BY <1>3, FlattenList
  <1>5. ColsOf(t) = Image(g, t)
    BY <1>4, ColsIs
  <1>6. \A i \in 1 .. Len(w) : ToSet(ss[i]) \subseteq A
    <2> SUFFICES ASSUME NEW i \in 1 .. Len(w), NEW x \in ToSet(ss[i])
                 PROVE  x \in A
      OBVIOUS
    <2>1. Among(x, ss, Len(ss))
      BY <1>2 DEF Among
    <2>2. QED
      BY <2>1, <1>3, FlattenElements
  <1>7. \A i \in 1 .. Len(w) : ColsOf(ss[i]) = Image(g, ss[i])
    <2> TAKE i \in 1 .. Len(w)
    <2>1. ToSet(ss[i]) \subseteq A /\ IsList(ss[i])
      BY <1>2, <1>3, <1>6 DEF AllLists
    <2>2. QED
      BY <2>1, ColsIs
  <1> HIDE DEF t, A, g
  <1>8. DOMAIN ss = 1 .. Len(w)
    BY <1>2, ListLen
  <1>9. SlotLists(w) = Images(g, ss)
    BY <1>1, <1>2, <1>7, <1>8 DEF SlotLists, Images
  <1>10. Image(g, FlattenSeq(ss)) = FlattenSeq(Images(g, ss))
    BY <1>3, ImageFlatten, Zenon
  <1>11. ColsOf(t) = Slots(w)
    BY <1>5, <1>9, <1>10, SlotsIs DEF t
  <1>12. QED
    BY <1>3, <1>4, <1>11 DEF t, ss

\* AnyOf puts the tests of its parts into one clause and keeps their
\* arguments.
LEMMA AnyOfIs ==
    ASSUME NEW ps, ps # <<>>
    PROVE  /\ AnyOf(ps).where = <<Clause(FlattenSeq(Tests(Join(ps).where)))>>
           /\ AnyOf(ps).args = Join(ps).args
  BY DEF AnyOf, Tests, Join

\* It fits when its parts do.
LEMMA AnyOfFits ==
    ASSUME NEW ps, AllFit(ps)
    PROVE  Fit(AnyOf(ps).where, AnyOf(ps).args)
  <1>1. CASE ps = <<>>
    <2>1. AnyOf(ps).where = <<>> /\ AnyOf(ps).args = <<>>
      BY <1>1 DEF AnyOf, Nothing
    <2>2. QED
      BY <2>1, NothingFits
  <1>2. CASE ps # <<>>
    <2> DEFINE w == Join(ps).where
               a == Join(ps).args
               t == FlattenSeq(Tests(w))
    <2>1. Fit(w, a)
      BY JoinFits
    <2>2. AnyOf(ps).where = <<Clause(t)>> /\ AnyOf(ps).args = a
      BY <1>2, AnyOfIs
    <2> HIDE DEF w, a
    <2>3. IsList(t) /\ ColsOf(t) = Slots(w)
      BY <2>1, TestsFlatten DEF Fit
    <2> HIDE DEF t
    <2>4. IsWhere(<<Clause(t)>>) /\ Slots(<<Clause(t)>>) = ColsOf(t)
      BY <2>3, OneClause
    <2>5. QED
      BY <2>1, <2>2, <2>3, <2>4 DEF Fit
  <1>3. QED
    BY <1>1, <1>2

\* A clause with its sign replaced.
LEMMA NegIs ==
    ASSUME NEW n, NEW t, NEW z
    PROVE  [[neg |-> n, tests |-> t] EXCEPT !.neg = z] =
               [neg |-> z, tests |-> t]
  OBVIOUS

\* The negation fits as well: it takes the same arguments.
LEMMA NoneOfFits ==
    ASSUME NEW ps, AllFit(ps)
    PROVE  Fit(NoneOf(ps).where, NoneOf(ps).args)
  <1> DEFINE w == Join(ps).where
             a == Join(ps).args
             v == [i \in DOMAIN w |-> [w[i] EXCEPT !.neg = TRUE]]
  <1>1. Fit(w, a)
    BY JoinFits
  <1>2. NoneOf(ps).where = v /\ NoneOf(ps).args = a
    BY DEF NoneOf, Join
  <1> HIDE DEF w, a
  <1>3. Len(w) \in Nat /\ DOMAIN w = 1 .. Len(w)
    BY <1>1, ListLen DEF IsWhere, Fit
  <1>4. IsList(v) /\ Len(v) = Len(w)
    BY <1>3, ListOf
  <1>5. \A i \in 1 .. Len(w) : IsClause(v[i]) /\ v[i].tests = w[i].tests
    <2> TAKE i \in 1 .. Len(w)
    <2>1. w[i] = [neg |-> w[i].neg, tests |-> w[i].tests]
      BY <1>1 DEF Fit, IsWhere, IsClause
    <2>2. v[i] = [w[i] EXCEPT !.neg = TRUE]
      BY <1>3
    <2> DEFINE c == w[i]
               n == c.neg
               t == c.tests
    <2> HIDE DEF c
    <2>3. c = [neg |-> n, tests |-> t]
      BY <2>1 DEF c
    <2> HIDE DEF n, t
    <2>4. [c EXCEPT !.neg = TRUE] = [neg |-> TRUE, tests |-> t]
      <3>1. [[neg |-> n, tests |-> t] EXCEPT !.neg = TRUE] =
                [neg |-> TRUE, tests |-> t]
        BY NegIs, Zenon
      <3>2. QED
        BY <2>3, <3>1
    <2>5. v[i] = [neg |-> TRUE, tests |-> t]
      BY <2>2, <2>4 DEF c
    <2> HIDE DEF v
    <2>6. IsClause(v[i]) /\ v[i].tests = t
      BY <2>5 DEF IsClause
    <2>7. QED
      BY <2>6 DEF t, c
  <1>6. IsWhere(v)
    <2> HIDE DEF v
    <2>1. QED
      BY <1>1, <1>4, <1>5 DEF IsWhere, Fit
  <1>7. DOMAIN v = DOMAIN w
    OBVIOUS
  <1> HIDE DEF v
  <1>8. SlotLists(v) = SlotLists(w)
    BY <1>3, <1>5, <1>7 DEF SlotLists
  <1>9. Slots(v) = Slots(w)
    BY <1>8, SlotsIs
  <1>10. QED
    BY <1>1, <1>2, <1>6, <1>9 DEF Fit

\* A row meets any of some conditions when it passes one of their tests.
LEMMA AnyOfConds ==
    ASSUME NEW ps, IsList(ps), ps # <<>>, NEW c, NEW o, NEW v,
           \A i \in 1 .. Len(ps) : ps[i] = Cond(c[i], o[i], v[i])
    PROVE  \A row : AllMeet(row, AnyOf(ps).where, AnyOf(ps).args) <=>
              \E i \in 1 .. Len(ps) : Passes(row, [col |-> c[i], op |-> o[i]], v[i])
  <1> DEFINE T == [i \in DOMAIN ps |-> [col |-> c[i], op |-> o[i]]]
             A == [i \in DOMAIN ps |-> [for |-> c[i], is |-> v[i]]]
             C == [i \in DOMAIN ps |-> Clause(<<T[i]>>)]
  <1>1. Len(ps) \in Nat /\ DOMAIN ps = 1 .. Len(ps)
    BY ListLen
  <1>2. /\ /\ IsList(T)
        /\ Len(T) = Len(ps)
        /\ DOMAIN T = 1 .. Len(ps)
        /\ \A i \in 1 .. Len(ps) : T[i] = [col |-> c[i], op |-> o[i]]
    BY <1>1, ListOf
  <1>3. /\ /\ IsList(A)
        /\ Len(A) = Len(ps)
        /\ DOMAIN A = 1 .. Len(ps)
        /\ \A i \in 1 .. Len(ps) : A[i] = [for |-> c[i], is |-> v[i]]
    BY <1>1, ListOf
  <1> HIDE DEF T, A
  <1>4. /\ /\ IsList(C)
        /\ Len(C) = Len(ps)
        /\ DOMAIN C = 1 .. Len(ps)
        /\ \A i \in 1 .. Len(ps) : C[i] = Clause(<<T[i]>>)
    BY <1>1, ListOf
  <1> HIDE DEF C
  <1>5. /\ Wheres(ps) = [i \in DOMAIN C |-> <<C[i]>>]
        /\ Args(ps) = [i \in DOMAIN A |-> <<A[i]>>]
    <2>1. \A i \in 1 .. Len(ps) :
              ps[i].where = <<C[i]>> /\ ps[i].args = <<A[i]>>
      <3> TAKE i \in 1 .. Len(ps)
      <3>1. ps[i] = Cond(c[i], o[i], v[i])
        OBVIOUS
      <3>2. /\ Cond(c[i], o[i], v[i]).where =
                   <<Clause(<<[col |-> c[i], op |-> o[i]]>>)>>
            /\ Cond(c[i], o[i], v[i]).args = <<[for |-> c[i], is |-> v[i]]>>
        BY DEF Cond
      <3>3. /\ C[i] = Clause(<<T[i]>>)
            /\ T[i] = [col |-> c[i], op |-> o[i]]
            /\ A[i] = [for |-> c[i], is |-> v[i]]
        BY <1>2, <1>3, <1>4
      <3>4. QED
        BY <3>1, <3>2, <3>3
    <2>2. QED
      BY <2>1, <1>1, <1>3, <1>4 DEF Wheres, Args
  <1>6. FlattenSeq(Wheres(ps)) = C /\ FlattenSeq(Args(ps)) = A
    BY <1>3, <1>4, <1>5, FlattenSingles
  <1>7. Join(ps).where = C /\ Join(ps).args = A
    BY <1>6 DEF Join, Wheres, Args
  <1>8. Tests(C) = [i \in DOMAIN T |-> <<T[i]>>]
    BY <1>2, <1>4 DEF Tests, Clause
  <1>9. FlattenSeq(Tests(C)) = T
    BY <1>2, <1>8, FlattenSingles
  <1>10. AnyOf(ps).where = <<Clause(T)>> /\ AnyOf(ps).args = A
    BY <1>7, <1>9, AnyOfIs
  <1>11. \A row :
             AllMeet(row, <<Clause(T)>>, A) <=>
                 \E j \in 1 .. Len(T) : Passes(row, T[j], A[j].is)
    BY <1>2, OneClause
  <1> TAKE row
  <1>12. \A j \in 1 .. Len(T) :
             T[j] = [col |-> c[j], op |-> o[j]] /\ A[j].is = v[j]
    BY <1>2, <1>3
  <1>13. (\E j \in 1 .. Len(T) : Passes(row, T[j], A[j].is)) <=>
             \E i \in 1 .. Len(ps) :
                 Passes(row, [col |-> c[i], op |-> o[i]], v[i])
    BY <1>2, <1>12
  <1>14. QED
    BY <1>10, <1>11, <1>13

-----------------------------------------------------------------------------
(* Names of a request *)

\* The elements of a list are at its places.
LEMMA ListElements ==
    ASSUME NEW s, IsList(s), NEW x
    PROVE  x \in ToSet(s) <=> \E i \in 1 .. Len(s) : s[i] = x
  BY ListLen DEF ToSet

\* Only keeps the elements that are in a set.
LEMMA OnlyIs ==
    ASSUME NEW list, IsList(list), NEW S
    PROVE  IsList(Only(list, S)) /\ ToSet(Only(list, S)) = ToSet(list) \cap S
  <1> DEFINE ss ==
                 [i \in DOMAIN list |-> IF list[i] \in S THEN <<list[i]>> ELSE <<>>]
  <1>1. Len(list) \in Nat /\ DOMAIN list = 1 .. Len(list)
    BY ListLen
  <1>2. /\ IsList(ss)
        /\ Len(ss) = Len(list)
        /\ \A i \in 1 .. Len(list) :
               ss[i] = IF list[i] \in S THEN <<list[i]>> ELSE <<>>
    BY <1>1, ListOf
  <1>3. Only(list, S) = FlattenSeq(ss)
    BY DEF Only
  <1> HIDE DEF ss
  <1>4. \A i \in 1 .. Len(list) :
            IsList(ss[i]) /\ ToSet(ss[i]) = {list[i]} \cap S
    <2> TAKE i \in 1 .. Len(list)
    <2>1. CASE list[i] \in S
      <3>1. ss[i] = <<list[i]>>
        BY <1>2, <2>1
      <3>2. ToSet(<<list[i]>>) = {list[i]}
        BY DEF ToSet
      <3>3. QED
        BY <3>1, <3>2, <2>1, ListOne
    <2>2. CASE list[i] \notin S
      <3>1. ss[i] = <<>>
        BY <1>2, <2>2
      <3>2. QED
        BY <3>1, <2>2, ListEmpty
    <2>3. QED
      BY <2>1, <2>2
  <1>5. AllLists(ss)
    BY <1>2, <1>4 DEF AllLists
  <1>6. \A x : x \in ToSet(FlattenSeq(ss)) <=> x \in ToSet(list) \cap S
    <2> TAKE x
    <2>1. x \in ToSet(FlattenSeq(ss)) <=>
              \E i \in 1 .. Len(list) : x \in ToSet(ss[i])
      BY <1>2, <1>5, FlattenElements DEF Among
    <2>2. x \in ToSet(list) <=> \E i \in 1 .. Len(list) : list[i] = x
      BY ListElements
    <2>3. QED
      BY <1>4, <2>1, <2>2
  <1>7. QED
    BY <1>3, <1>5, <1>6, FlattenList

\* Every element has a first place.
LEMMA FirstOne ==
    ASSUME NEW s, IsList(s), NEW x \in ToSet(s)
    PROVE  \E i \in 1 .. Len(s) :
               s[i] = x /\ ~ \E j \in 1 .. i - 1 : s[j] = s[i]
  <1>1. Len(s) \in Nat /\ DOMAIN s = 1 .. Len(s)
    BY ListLen
  <1> SUFFICES ASSUME \A i \in 1 .. Len(s) :
                          s[i] = x => \E j \in 1 .. i - 1 : s[j] = s[i]
               PROVE  FALSE
    OBVIOUS
  <1> DEFINE S == {k \in Nat : \A i \in 1 .. Len(s) : i <= k => s[i] # x}
  <1>2. 0 \in S
    OBVIOUS
  <1>3. ASSUME NEW k \in S
        PROVE  k + 1 \in S
    <2> SUFFICES ASSUME NEW i \in 1 .. Len(s), i <= k + 1, s[i] = x
                 PROVE  FALSE
      OBVIOUS
    <2>1. PICK j \in 1 .. i - 1 : s[j] = s[i]
      OBVIOUS
    <2>2. j \in 1 .. Len(s) /\ j <= k
      BY <1>1
    <2>3. QED
      BY <2>1, <2>2
  <1>4. S = Nat
    <2>1. S \in SUBSET Nat
      OBVIOUS
    <2> HIDE DEF S
    <2>2. QED
      BY <1>2, <1>3, <2>1, EveryNumber
  <1>5. PICK i \in 1 .. Len(s) : s[i] = x
    BY ListElements
  <1>6. i \in Nat /\ i <= i
    BY <1>1
  <1>7. i \in S
    BY <1>4, <1>6
  <1>8. s[i] # x
    BY <1>6, <1>7
  <1>9. QED
    BY <1>5, <1>8

\* cleanStringArray keeps the names that are not empty.
LEMMA CleanIs ==
    ASSUME NEW list, IsList(list)
    PROVE  /\ IsList(cleanStringArray(list))
           /\ ToSet(cleanStringArray(list)) = ToSet(list) \ {""}
  <1>1. ToSet(list) \cap (ToSet(list) \ {""}) = ToSet(list) \ {""}
    OBVIOUS
  <1>2. QED
    BY <1>1, OnlyIs DEF cleanStringArray

\* parseNamespaceInput has the names of both parameters, without the empty
\* one.
LEMMA InputIs ==
    ASSUME NEW single, IsList(single), NEW list, IsList(list)
    PROVE  /\ IsList(parseNamespaceInput(single, list))
           /\ ToSet(parseNamespaceInput(single, list)) =
                  (ToSet(single) \cup ToSet(list)) \ {""}
  <1> DEFINE names == cleanStringArray(single \o list)
             ss == [i \in DOMAIN names |->
                       IF \E j \in 1 .. i - 1 : names[j] = names[i]
                       THEN <<>> ELSE <<names[i]>>]
  <1>1. /\ IsList(single \o list)
        /\ ToSet(single \o list) = ToSet(single) \cup ToSet(list)
    BY ListConcat, ConcatSet
  <1>2. IsList(names) /\ ToSet(names) = (ToSet(single) \cup ToSet(list)) \ {""}
    BY <1>1, CleanIs
  <1>3. parseNamespaceInput(single, list) = FlattenSeq(ss)
    BY DEF parseNamespaceInput
  <1> HIDE DEF names
  <1>4. Len(names) \in Nat /\ DOMAIN names = 1 .. Len(names)
    BY <1>2, ListLen
  <1>5. /\ IsList(ss)
        /\ Len(ss) = Len(names)
        /\ \A i \in 1 .. Len(names) :
               ss[i] =
                   IF \E j \in 1 .. i - 1 : names[j] = names[i]
                   THEN <<>>
                   ELSE <<names[i]>>
    BY <1>4, ListOf
  <1> HIDE DEF ss
  <1>6. \A i \in 1 .. Len(names) :
            /\ IsList(ss[i])
            /\ ToSet(ss[i]) =
                   IF \E j \in 1 .. i - 1 : names[j] = names[i]
                   THEN {}
                   ELSE {names[i]}
    <2> TAKE i \in 1 .. Len(names)
    <2>1. CASE ~ \E j \in 1 .. i - 1 : names[j] = names[i]
      <3>1. ss[i] = <<names[i]>>
        BY <1>5, <2>1
      <3>2. ToSet(<<names[i]>>) = {names[i]}
        BY DEF ToSet
      <3>3. QED
        BY <3>1, <3>2, <2>1, ListOne
    <2>2. CASE \E j \in 1 .. i - 1 : names[j] = names[i]
      <3>1. ss[i] = <<>>
        BY <1>5, <2>2
      <3>2. QED
        BY <3>1, <2>2, ListEmpty
    <2>3. QED
      BY <2>1, <2>2
  <1>7. AllLists(ss)
    BY <1>5, <1>6 DEF AllLists
  <1>8. \A x : x \in ToSet(FlattenSeq(ss)) <=> x \in ToSet(names)
    <2> TAKE x
    <2>1. x \in ToSet(FlattenSeq(ss)) <=>
              \E i \in 1 .. Len(names) : x \in ToSet(ss[i])
      BY <1>5, <1>7, FlattenElements DEF Among
    <2>2. x \in ToSet(names) <=> \E i \in 1 .. Len(names) : names[i] = x
      BY <1>2, ListElements
    <2>3. x \in ToSet(names) =>
              \E i \in 1 .. Len(names) :
                  names[i] = x /\ ~ \E j \in 1 .. i - 1 : names[j] = names[i]
      BY <1>2, FirstOne
    <2>4. ASSUME NEW i \in 1 .. Len(names), x \in ToSet(ss[i])
          PROVE  names[i] = x
      BY <1>6, <2>4
    <2>5. ASSUME NEW i \in 1 .. Len(names), names[i] = x,
                 ~ \E j \in 1 .. i - 1 : names[j] = names[i]
          PROVE  x \in ToSet(ss[i])
      BY <1>6, <2>5
    <2>6. QED
      BY <2>1, <2>2, <2>3, <2>4, <2>5
  <1>9. IsList(FlattenSeq(ss))
    BY <1>7, FlattenList
  <1>10. QED
    BY <1>2, <1>3, <1>8, <1>9

\* The names that a single parameter and a list of them give, whichever of the
\* two ways the handler joins them.
LEMMA ParametersAre ==
    ASSUME NEW single, IsList(single), NEW lists, IsList(lists)
    PROVE  /\ IsList(parseNamespaceInput(single, parseK8sParameters(single, lists)))
           /\ IsList(cleanStringArray(single \o lists))
           /\ ToSet(parseNamespaceInput(single, parseK8sParameters(single, lists))) =
                  ToSet(cleanStringArray(single \o lists))
           /\ ToSet(cleanStringArray(single \o lists)) =
                  (ToSet(single) \cup ToSet(lists)) \ {""}
  <1> DEFINE given == parseK8sParameters(single, lists)
  <1>1. given = cleanStringArray(single \o lists)
    BY DEF parseK8sParameters
  <1>2. /\ IsList(single \o lists)
        /\ ToSet(single \o lists) = ToSet(single) \cup ToSet(lists)
    BY ListConcat, ConcatSet
  <1>3. IsList(given) /\ ToSet(given) = (ToSet(single) \cup ToSet(lists)) \ {""}
    BY <1>1, <1>2, CleanIs
  <1> HIDE DEF given
  <1>4. /\ IsList(parseNamespaceInput(single, given))
        /\ ToSet(parseNamespaceInput(single, given)) =
               (ToSet(single) \cup ToSet(given)) \ {""}
    BY <1>3, InputIs
  <1>5. ToSet(parseNamespaceInput(single, given)) = ToSet(given)
    BY <1>3, <1>4
  <1>6. QED
    BY <1>1, <1>3, <1>4, <1>5 DEF given

-----------------------------------------------------------------------------
(* Filters that a parse gives *)

\* The filters of some namespaces.
Spaces(a) == [i \in DOMAIN a |-> parseNamespaceFilter(a[i])]

\* The filters of some pods.
PodFilters(b) == [i \in DOMAIN b |-> parsePodFilter(b[i])]

\* A parse that succeeds gives one filter for every name, all of them valid
\* and no more than the limit.
LEMMA K8sFilters ==
    ASSUME NEW a, IsList(a), NEW b, IsList(b),
           ToSet(a) \cup ToSet(b) \subseteq DOMAIN Entries,
           ParseK8sFilters(a, b).ok
    PROVE  /\ IsList(ParseK8sFilters(a, b).filters)
           /\ Len(ParseK8sFilters(a, b).filters) \in Nat
           /\ Len(ParseK8sFilters(a, b).filters) <= MaxFilterCount
           /\ \A e \in ToSet(a) \cup ToSet(b) : Entries[e].valid
           /\ ToSet(ParseK8sFilters(a, b).filters) =
                  {parseNamespaceFilter(e) : e \in ToSet(a)}
                    \cup {parsePodFilter(e) : e \in ToSet(b)}
  <1> DEFINE s == Spaces(a)
             t == PodFilters(b)
  <1>1. /\ Len(a) \in Nat
        /\ DOMAIN a = 1 .. Len(a)
        /\ Len(b) \in Nat
        /\ DOMAIN b = 1 .. Len(b)
    BY ListLen
  <1>2. /\ IsList(s)
        /\ Len(s) = Len(a)
        /\ \A i \in 1 .. Len(a) : s[i] = parseNamespaceFilter(a[i])
    BY <1>1, ListOf DEF Spaces
  <1>3. /\ IsList(t)
        /\ Len(t) = Len(b)
        /\ \A i \in 1 .. Len(b) : t[i] = parsePodFilter(b[i])
    BY <1>1, ListOf DEF PodFilters
  <1>4. ToSet(a \o b) = ToSet(a) \cup ToSet(b)
    BY ConcatSet
  <1>5. ~(\/ \E e \in ToSet(a \o b) : ~Entries[e].valid
          \/ Len(a) + Len(b) > MaxFilterCount)
    BY DEF ParseK8sFilters, Refusal
  <1>6. ParseK8sFilters(a, b).filters = s \o t
    BY <1>5 DEF ParseK8sFilters, Accepted, Spaces, PodFilters
  <1> HIDE DEF s, t
  <1>7. /\ IsList(s \o t)
        /\ Len(s \o t) = Len(s) + Len(t)
        /\ ToSet(s \o t) = ToSet(s) \cup ToSet(t)
    BY <1>2, <1>3, ListConcat, ConcatSet
  <1>8. ToSet(s) = {parseNamespaceFilter(e) : e \in ToSet(a)}
    <2>1. \A x : x \in ToSet(s) <=> \E i \in 1 .. Len(a) : s[i] = x
      BY <1>2, ListElements
    <2>2. \A x : x \in ToSet(a) <=> \E i \in 1 .. Len(a) : a[i] = x
      BY ListElements
    <2>3. QED
      BY <2>1, <2>2, <1>2
  <1>9. ToSet(t) = {parsePodFilter(e) : e \in ToSet(b)}
    <2>1. \A x : x \in ToSet(t) <=> \E i \in 1 .. Len(b) : t[i] = x
      BY <1>3, ListElements
    <2>2. \A x : x \in ToSet(b) <=> \E i \in 1 .. Len(b) : b[i] = x
      BY ListElements
    <2>3. QED
      BY <2>1, <2>2, <1>3
  <1>10. Len(s \o t) \in Nat /\ Len(s \o t) <= MaxFilterCount
    BY <1>1, <1>2, <1>3, <1>5, <1>7, LimitsAssumption
  <1>11. QED
    BY <1>4, <1>5, <1>6, <1>7, <1>8, <1>9, <1>10

\* The kinds of filter that a search parses to.
Kinds == {"exact", "icase", "wildcard", "regex", "phrase", "proximity"}

\* A filter of a search.
IsFilter(f) ==
    /\ f.type \in Kinds /\ IsList(f.words)
    /\ f.type = "regex" => Len(f.pattern) \in Nat
    /\ f.type = "proximity" => f.distance \in Nat

\* The filters of a search.
AreFilters(filters) ==
    IsList(filters) /\ \A i \in 1 .. Len(filters) : IsFilter(filters[i])

\* A search may have none.
LEMMA NoFilters ==
    AreFilters(<<>>)
  BY ListEmpty DEF AreFilters

\* A filter of a kind without a list or a number of its own.
LEMMA ContentFilterIs ==
    ASSUME NEW type \in {"exact", "icase", "wildcard", "phrase"}, NEW p, NEW o
    PROVE  IsFilter(ContentFilter(type, p, o))
  BY ListEmpty DEF IsFilter, ContentFilter, Kinds

\* A regular expression parses to a filter.
LEMMA RegexFilters ==
    ASSUME NEW s, IsSearch(s), s.kind = "regex"
    PROVE  AreFilters(parseRegexSearch(s).filters)
  <1> DEFINE f == ContentFilter("regex", s.pattern, "")
  <1>1. Len(s.pattern) \in Nat
    BY DEF IsSearch
  <1>2. IsFilter(f)
    BY <1>1, ListEmpty DEF ContentFilter, IsFilter, Kinds
  <1>3. AreFilters(<<f>>)
    <2> HIDE DEF f
    <2>1. QED
      BY <1>2, ListOne DEF AreFilters
  <1>4. QED
    BY <1>3, NoFilters DEF parseRegexSearch, Accepted, Refusal

\* A proximity search parses to a filter.
LEMMA ProximityFilters ==
    ASSUME NEW s, IsSearch(s), s.kind = "proximity"
    PROVE  AreFilters(parseProximitySearch(s).filters)
  <1> DEFINE f ==
                 [ContentFilter("proximity", "", "")
                     EXCEPT !.words = s.words, !.distance = s.distance]
  <1>1. s.distance \in Nat /\ IsList(s.words)
    BY ListIs DEF IsSearch
  <1>2. f.type = "proximity" /\ f.words = s.words /\ f.distance = s.distance
    BY DEF ContentFilter
  <1> HIDE DEF f
  <1>3. IsFilter(f)
    BY <1>1, <1>2 DEF IsFilter, Kinds
  <1>4. AreFilters(<<f>>)
    BY <1>3, ListOne DEF AreFilters
  <1>5. QED
    BY <1>4, NoFilters DEF parseProximitySearch, Accepted, Refusal, f

\* Phrases parse to one filter each.
LEMMA PhraseFilters ==
    ASSUME NEW s, IsSearch(s), s.kind = "phrase"
    PROVE  AreFilters(parsePhraseSearch(s).filters)
  <1> DEFINE all == [i \in DOMAIN s.phrases |-> s.phrases[i].phrase]
             phrases == extractQuotedPhrases(s)
             F == [i \in DOMAIN phrases |->
                      ContentFilter("phrase", phrases[i],
                          IF i <= Len(extractOperators(s))
                          THEN extractOperators(s)[i] ELSE "AND")]
  <1>1. IsList(s.phrases)
    BY ListIs DEF IsSearch
  <1>2. Len(s.phrases) \in Nat /\ DOMAIN s.phrases = 1 .. Len(s.phrases)
    BY <1>1, ListLen
  <1>3. IsList(all)
    BY <1>2, ListOf
  <1> DEFINE closed == IF s.closed THEN all ELSE Front(all)
  <1>4. phrases = Only(closed, ToSet(closed) \ {""})
    BY DEF extractQuotedPhrases
  <1> HIDE DEF all
  <1>5. IsList(Front(all))
    <2>1. Len(all) \in Nat
      BY <1>3, ListLen
    <2>2. CASE Len(all) = 0
      <3>1. all = <<>>
        BY <1>3, <2>2, ListNone
      <3>2. Front(<<>>) = <<>>
        BY DEF Front
      <3>3. QED
        BY <3>1, <3>2, ListEmpty
    <2>3. CASE Len(all) # 0
      <3>1. Len(all) - 1 \in 0 .. Len(all)
        BY <2>1, <2>3
      <3>2. QED
        BY <1>3, <3>1, ListPrefix DEF Front
    <2>4. QED
      BY <2>2, <2>3
  <1>6. IsList(phrases)
    <2>1. IsList(closed)
      BY <1>3, <1>5
    <2> HIDE DEF closed, phrases, F
    <2>2. QED
      BY <1>4, <2>1, OnlyIs
  <1>7. parsePhraseSearch(s).filters = F
    BY DEF parsePhraseSearch, Accepted
  <1> HIDE DEF phrases
  <1>8. Len(phrases) \in Nat /\ DOMAIN phrases = 1 .. Len(phrases)
    BY <1>6, ListLen
  <1>9. IsList(F) /\ Len(F) = Len(phrases)
        /\ \A i \in 1 .. Len(phrases) : F[i] = ContentFilter("phrase", phrases[i],
                          IF i <= Len(extractOperators(s))
                          THEN extractOperators(s)[i] ELSE "AND")
    BY <1>8, ListOf
  <1> HIDE DEF F
  <1>10. AreFilters(F)
    <2>1. ASSUME NEW i \in 1 .. Len(F)
          PROVE  IsFilter(F[i])
      <3>1. \E o : F[i] = ContentFilter("phrase", phrases[i], o)
        BY <1>9
      <3>2. QED
        BY <3>1, ContentFilterIs
    <2>2. QED
      BY <2>1, <1>9 DEF AreFilters
  <1>11. QED
    BY <1>7, <1>10

\* What can stand before a token.
Marks == {"", "icase:", "NOT:"}

\* A token parses to a filter.
LEMMA SimpleFilterIs ==
    ASSUME NEW t, NEW o, t.mark \in Marks
    PROVE  IsFilter(SimpleFilter(t, o))
  <1> DEFINE k == CASE t.mark = "icase:" -> "icase"
                     [] t.mark # "icase:" /\ t.wild -> "wildcard"
                     [] OTHER -> "exact"
             p == IF t.mark = "NOT:" /\ t.wild THEN "NOT:" \o t.word ELSE t.word
             c == t.mark = "icase:"
  <1>1. k \in {"exact", "icase", "wildcard"}
    OBVIOUS
  <1>2. SimpleFilter(t, o) = [ContentFilter(k, p, o) EXCEPT !.icase = c]
    BY DEF SimpleFilter
  <1> HIDE DEF k, p, c
  <1>3. SimpleFilter(t, o).type = k /\ SimpleFilter(t, o).words = <<>>
    BY <1>2 DEF ContentFilter
  <1>4. QED
    BY <1>1, <1>3, ListEmpty DEF IsFilter, Kinds

\* Words parse to one filter each.
LEMMA SimpleFilters ==
    ASSUME NEW s, IsSearch(s), s.kind = "simple", NEW o
    PROVE  AreFilters(parseSimpleSearch(s, o).filters)
  <1> DEFINE R == [mark : {"", "icase:", "NOT:"}, wild : BOOLEAN, word : STRING]
             ts == s.terms
             F == [i \in DOMAIN ts |-> SimpleFilter(ts[i], o)]
  <1>1. ts \in Seq(R)
    BY DEF IsSearch
  <1>2. parseSimpleSearch(s, o).filters \in {<<>>, F}
    BY DEF parseSimpleSearch, Accepted, Refusal
  <1>3. \A t \in R : t.mark \in Marks
    BY DEF Marks
  <1> HIDE DEF ts, R
  <1>4. /\ Len(ts) \in Nat
        /\ DOMAIN ts = 1 .. Len(ts)
        /\ \A i \in 1 .. Len(ts) : ts[i] \in R
    BY <1>1
  <1>5. /\ IsList(F)
        /\ Len(F) = Len(ts)
        /\ \A i \in 1 .. Len(ts) : F[i] = SimpleFilter(ts[i], o)
    BY <1>4, ListOf
  <1> HIDE DEF F
  <1>6. ASSUME NEW i \in 1 .. Len(F)
        PROVE  IsFilter(F[i])
    <2> DEFINE t == ts[i]
    <2>1. t.mark \in Marks /\ F[i] = SimpleFilter(t, o)
      BY <1>3, <1>4, <1>5
    <2> HIDE DEF t
    <2>2. t.mark \in Marks
      BY <2>1
    <2>3. IsFilter(SimpleFilter(t, o))
      BY <2>2, SimpleFilterIs, Zenon
    <2>4. QED
      BY <2>1, <2>3, Zenon
  <1>7. AreFilters(F)
    BY <1>5, <1>6 DEF AreFilters
  <1>8. QED
    BY <1>2, <1>7, NoFilters

\* A formula parses to one filter for each of its tokens.
LEMMA BooleanFilters ==
    ASSUME NEW s, IsSearch(s), s.kind = "boolean"
    PROVE  AreFilters(parseBooleanSearch(s).filters)
  <1> DEFINE tokens == s.tokens
             O(i) ==
            LET before == {j \in 1 .. i : Operator(tokens[j]) # ""}
            IN  IF before = {} THEN "AND" ELSE Operator(tokens[Max(before)])
             ss == [i \in DOMAIN tokens |->
            IF Operator(tokens[i]) # "" \/ tokens[i] \in {"(", ")"}
            THEN <<>>
            ELSE <<ContentFilter("exact", tokens[i], O(i))>>]
  <1>1. IsList(tokens)
    BY ListIs DEF IsSearch
  <1>2. convertTokensToFilters(tokens) = FlattenSeq(ss)
    BY DEF convertTokensToFilters
  <1> HIDE DEF tokens, O
  <1>3. Len(tokens) \in Nat /\ DOMAIN tokens = 1 .. Len(tokens)
    BY <1>1, ListLen
  <1>4. IsList(ss) /\ Len(ss) = Len(tokens) /\ \A i \in 1 .. Len(tokens) : ss[i] =
            IF Operator(tokens[i]) # "" \/ tokens[i] \in {"(", ")"}
            THEN <<>>
            ELSE <<ContentFilter("exact", tokens[i], O(i))>>
    BY <1>3, ListOf
  <1> HIDE DEF ss
  <1>5. \A i \in 1 .. Len(tokens) :
            IsList(ss[i]) /\ \A f \in ToSet(ss[i]) : IsFilter(f)
    <2> TAKE i \in 1 .. Len(tokens)
    <2> DEFINE f == ContentFilter("exact", tokens[i], O(i))
    <2>1. IsFilter(f)
      BY ContentFilterIs
    <2> HIDE DEF f
    <2>2. IsList(<<f>>) /\ ToSet(<<f>>) = {f}
      BY ListOne DEF ToSet
    <2>3. ss[i] = <<>> \/ ss[i] = <<f>>
      BY <1>4 DEF f
    <2>4. QED
      BY <2>1, <2>2, <2>3, ListEmpty
  <1>6. AllLists(ss)
    BY <1>4, <1>5 DEF AllLists
  <1>7. IsList(FlattenSeq(ss))
    BY <1>6, FlattenList
  <1>8. ASSUME NEW i \in 1 .. Len(FlattenSeq(ss))
        PROVE  IsFilter(FlattenSeq(ss)[i])
    <2> DEFINE t == FlattenSeq(ss)
               f == t[i]
    <2>1. f \in ToSet(t)
      BY <1>7, ListElements
    <2> HIDE DEF f
    <2>2. \E k \in 1 .. Len(ss) : f \in ToSet(ss[k])
      BY <1>6, <2>1, FlattenElements DEF Among
    <2>3. QED
      BY <1>4, <1>5, <2>2 DEF f
  <1>9. AreFilters(FlattenSeq(ss))
    BY <1>7, <1>8 DEF AreFilters
  <1>10. QED
    BY <1>2, <1>9, NoFilters DEF parseBooleanSearch, Accepted, Refusal, tokens

\* A filter weighs a number.
LEMMA WeightIs ==
    ASSUME NEW f, IsFilter(f)
    PROVE  Weight(f) \in Int
  <1> DEFINE n == Len(f.pattern)
             d == f.distance
  <1>1. f.type = "regex" => n \in Nat
    BY DEF IsFilter
  <1>2. f.type = "proximity" => d \in Nat
    BY DEF IsFilter
  <1>3. Weight(f) = CASE f.type = "exact" -> 10
      [] f.type = "icase" -> 15
      [] f.type = "wildcard" -> 30
      [] f.type = "regex" -> 50 + n
      [] f.type = "phrase" -> 20
      [] f.type = "proximity" -> 40 + d
    BY DEF Weight
  <1> HIDE DEF n, d
  <1>4. f.type \in Kinds
    BY DEF IsFilter
  <1>5. QED
    BY <1>1, <1>2, <1>3, <1>4 DEF Kinds

\* The complexity of filters is a number, and zero without any.
LEMMA ComplexityIs ==
    ASSUME NEW filters, AreFilters(filters)
    PROVE  /\ calculateComplexity(filters) \in Int
           /\ (filters = <<>> => calculateComplexity(filters) = 0)
  <1> DEFINE N == Len(filters)
             g == [n \in 1 .. N |-> Weight(filters[n])]
             sum[n \in 0 .. N] == IF n = 0 THEN 0 ELSE Weight(filters[n]) + sum[n - 1]
             c == IF N > 1 THEN 15 ELSE 10
  <1>1. N \in Nat
    BY ListLen DEF AreFilters
  <1>2. calculateComplexity(filters) = sum[N] * c
    BY DEF calculateComplexity
  <1>3. \A n \in 1 .. N : g[n] = Weight(filters[n]) /\ g[n] \in Int
    <2> TAKE n \in 1 .. N
    <2>1. IsFilter(filters[n])
      BY DEF AreFilters
    <2>2. QED
      BY <2>1, WeightIs
  <1>4. \E u :
            u =
                [n \in 0 .. N |-> IF n = 0 THEN 0 ELSE Weight(filters[n]) + u[n - 1]]
    <2>1. PICK u : IsSum(u, g, N)
      BY <1>1, SumExists
    <2> HIDE DEF g
    <2>2. \A n \in 0 .. N : n # 0 => n \in 1 .. N
      BY <1>1
    <2>3. u =
              [n \in 0 .. N |-> IF n = 0 THEN 0 ELSE Weight(filters[n]) + u[n - 1]]
      BY <2>1, <2>2, <1>3 DEF IsSum
    <2>4. QED
      BY <2>3
  <1>5. sum =
            [n \in 0 .. N |-> IF n = 0 THEN 0 ELSE Weight(filters[n]) + sum[n - 1]]
    BY <1>4, Zenon
  <1> HIDE DEF sum, g
  <1>6. IsSum(sum, g, N)
    <2>1. \A n \in 0 .. N : n # 0 => n \in 1 .. N
      BY <1>1
    <2>2. QED
      BY <1>3, <1>5, <2>1 DEF IsSum
  <1>7. sum[N] \in Int
    <2>1. 0 \in Nat /\ 0 \in Int /\ N \in 0 .. N
      BY <1>1
    <2>2. \A n \in 1 .. N :
              g[n] \in Int /\ g[n] = IF n = 0 THEN g[n] + 0 ELSE g[n]
      BY <1>3
    <2>3. QED
      BY <1>1, <1>6, <2>1, <2>2, SumsDiffer
  <1>8. filters = <<>> => sum[N] = 0
    <2>1. filters = <<>> => N = 0
      BY ListEmpty
    <2> HIDE DEF N
    <2>2. sum[0] = 0
      BY <1>1, <1>5
    <2>3. QED
      BY <2>1, <2>2
  <1>9. c \in Int
    OBVIOUS
  <1> HIDE DEF c, N
  <1>10. QED
    BY <1>2, <1>7, <1>8, <1>9

\* Whatever its kind, a search parses to filters.
LEMMA ParsedFilters ==
    ASSUME NEW s, IsSearch(s), s.kind # "none", NEW o
    PROVE  AreFilters(parseSearchExpression(s, o).filters)
  <1> DEFINE p == parseSearchExpression(s, o)
  <1>1. s.kind \in {"simple", "boolean", "phrase", "regex", "proximity"}
    BY DEF IsSearch
  <1>2. CASE s.kind = "boolean"
    <2>1. p = parseBooleanSearch(s)
      BY <1>2 DEF parseSearchExpression
    <2> HIDE DEF p
    <2>2. QED
      BY <1>2, <2>1, BooleanFilters DEF p
  <1>3. CASE s.kind = "regex"
    <2>1. p = parseRegexSearch(s)
      BY <1>3 DEF parseSearchExpression
    <2> HIDE DEF p
    <2>2. QED
      BY <1>3, <2>1, RegexFilters DEF p
  <1>4. CASE s.kind = "proximity"
    <2>1. p = parseProximitySearch(s)
      BY <1>4 DEF parseSearchExpression
    <2> HIDE DEF p
    <2>2. QED
      BY <1>4, <2>1, ProximityFilters DEF p
  <1>5. CASE s.kind = "phrase"
    <2>1. p = parsePhraseSearch(s)
      BY <1>5 DEF parseSearchExpression
    <2> HIDE DEF p
    <2>2. QED
      BY <1>5, <2>1, PhraseFilters DEF p
  <1>6. CASE s.kind = "simple"
    <2>1. p = parseSimpleSearch(s, o)
      BY <1>6 DEF parseSearchExpression
    <2> HIDE DEF p
    <2>2. QED
      BY <1>6, <2>1, SimpleFilters DEF p
  <1>7. QED
    BY <1>1, <1>2, <1>3, <1>4, <1>5, <1>6

\* A search that is not refused is within the limit on complexity (in tenths).
LEMMA SearchParsed ==
    ASSUME NEW s, IsSearch(s), NEW o, ParseContentSearch(s, o).ok
    PROVE  /\ AreFilters(ParseContentSearch(s, o).filters)
           /\ calculateComplexity(ParseContentSearch(s, o).filters)
                  <= 10 * MaxQueryComplexity
  <1> DEFINE p == parseSearchExpression(s, o)
             q == ParseContentSearch(s, o)
             c == calculateComplexity(p.filters)
             m == 10 * MaxQueryComplexity
  <1>1. m \in Nat
    BY LimitsAssumption
  <1>2. CASE s.kind = "none"
    <2>1. q = Accepted(<<>>)
      BY <1>2 DEF ParseContentSearch
    <2>2. q.filters = <<>>
      BY <2>1 DEF Accepted
    <2> HIDE DEF q, m
    <2>3. calculateComplexity(q.filters) = 0
      BY <2>2, NoFilters, ComplexityIs
    <2>4. QED
      BY <1>1, <2>2, <2>3, NoFilters DEF q, m
  <1>3. CASE s.kind # "none"
    <2>1. AreFilters(p.filters)
      BY <1>3, ParsedFilters
    <2>2. c \in Int
      BY <2>1, ComplexityIs
    <2>3. q = IF p.ok /\ c > m THEN Refusal ELSE p
      BY <1>3 DEF ParseContentSearch
    <2>4. ~Refusal.ok
      BY DEF Refusal
    <2>5. q.ok
      OBVIOUS
    <2> HIDE DEF q, p, c, m
    <2>6. q = p /\ ~(c > m)
      BY <2>3, <2>4, <2>5, Zenon
    <2>7. c <= m
      BY <1>1, <2>2, <2>6
    <2>8. QED
      BY <2>1, <2>6, <2>7 DEF c, m, q
  <1>4. QED
    BY <1>2, <1>3

-----------------------------------------------------------------------------
(* The parts of a builder *)

\* The arguments of a piece fit its conditions.
FitPiece(p) == Fit(p.where, p.args)

\* A row meets the conditions of a piece.
RowMeets(row, p) == AllMeet(row, p.where, p.args)

\* A list of pieces that fit.
Pieces(ps) == IsList(ps) /\ \A i \in 1 .. Len(ps) : FitPiece(ps[i])

\* Pieces joined fit, and a row meets them when it meets each.
LEMMA JoinPieces ==
    ASSUME NEW ps, Pieces(ps)
    PROVE  /\ FitPiece(Join(ps))
           /\ \A row :
                  RowMeets(row, Join(ps)) <=>
                      \A i \in 1 .. Len(ps) : RowMeets(row, ps[i])
  BY JoinFits DEF FitPiece, RowMeets, Pieces, AllFit

\* So do their alternatives and the negation of those.
LEMMA AnyOfPieces ==
    ASSUME NEW ps, Pieces(ps)
    PROVE  FitPiece(AnyOf(ps)) /\ FitPiece(NoneOf(ps))
  BY AnyOfFits, NoneOfFits DEF FitPiece, Pieces, AllFit

\* The piece without conditions.
LEMMA NothingPiece ==
    FitPiece(Nothing) /\ \A row : RowMeets(row, Nothing)
  BY NothingFits DEF FitPiece, RowMeets, Nothing

\* The piece of one condition.
LEMMA CondPiece ==
    ASSUME NEW c, NEW o, NEW v
    PROVE  /\ FitPiece(Cond(c, o, v))
           /\ \A row :
                  RowMeets(row, Cond(c, o, v)) <=>
                      Passes(row, [col |-> c, op |-> o], v)
  BY CondFits DEF FitPiece, RowMeets

\* The piece of a parameter that may be absent.
LEMMA OptionalPiece ==
    ASSUME NEW c, NEW o, NEW v
    PROVE  /\ FitPiece(Optional(c, o, v))
           /\ \A row :
                  RowMeets(row, Optional(c, o, v)) <=>
                      v = "" \/ Passes(row, [col |-> c, op |-> o], v)
  <1>1. CASE v = ""
    <2>1. Optional(c, o, v) = Nothing
      BY <1>1 DEF Optional, Given
    <2>2. QED
      BY <1>1, <2>1, NothingPiece
  <1>2. CASE v # ""
    <2>1. Optional(c, o, v) = Cond(c, o, v)
      BY <1>2 DEF Optional, Given
    <2>2. QED
      BY <1>2, <2>1, CondPiece
  <1>3. QED
    BY <1>1, <1>2

\* Conditions on one column.
Conds(c, o, v, n) == [i \in 1 .. n |-> Cond(c, o[i], v[i])]

\* They are pieces.
LEMMA CondsArePieces ==
    ASSUME NEW c, NEW o, NEW v, NEW n \in Nat
    PROVE  /\ Pieces(Conds(c, o, v, n))
           /\ Len(Conds(c, o, v, n)) = n
           /\ IsList(Conds(c, o, v, n))
  <1>1. /\ IsList(Conds(c, o, v, n))
        /\ Len(Conds(c, o, v, n)) = n
        /\ \A i \in 1 .. n : Conds(c, o, v, n)[i] = Cond(c, o[i], v[i])
    BY ListOf DEF Conds
  <1>2. QED
    BY <1>1, CondPiece DEF Pieces

\* A row meets any of them when it passes one, or when there are none.
LEMMA AnyOfColumn ==
    ASSUME NEW c, NEW o, NEW v, NEW n \in Nat
    PROVE  /\ FitPiece(AnyOf(Conds(c, o, v, n)))
           /\ \A row :
                  RowMeets(row, AnyOf(Conds(c, o, v, n))) <=>
                      (\/ n = 0
                       \/ \E i \in 1 .. n : Passes(row, [col |-> c, op |-> o[i]], v[i]))
  <1> DEFINE ps == Conds(c, o, v, n)
             cs == [i \in 1 .. n |-> c]
  <1>1. Pieces(ps) /\ Len(ps) = n /\ IsList(ps)
    BY CondsArePieces
  <1>2. \A i \in 1 .. n : ps[i] = Cond(cs[i], o[i], v[i])
    BY DEF Conds
  <1>3. \A i \in 1 .. n : cs[i] = c
    OBVIOUS
  <1> HIDE DEF ps, cs
  <1>4. FitPiece(AnyOf(ps))
    BY <1>1, AnyOfPieces
  <1>5. CASE ps = <<>>
    <2>1. AnyOf(ps) = Nothing
      BY <1>5 DEF AnyOf
    <2>2. n = 0
      BY <1>1, <1>5, ListEmpty
    <2>3. QED
      BY <2>1, <2>2, <1>4, NothingPiece DEF ps
  <1>6. CASE ps # <<>>
    <2>1. \A row :
              RowMeets(row, AnyOf(ps)) <=>
                  \E i \in 1 .. n :
                      Passes(row, [col |-> cs[i], op |-> o[i]], v[i])
      BY <1>1, <1>2, <1>6, AnyOfConds DEF RowMeets
    <2>2. n # 0
      BY <1>1, <1>6, ListNone
    <2>3. QED
      BY <1>3, <1>4, <2>1, <2>2 DEF ps
  <1>7. QED
    BY <1>5, <1>6

\* The IN of a list holds for the rows with one of its values, or for all rows
\* when the list is empty.
LEMMA InPiece ==
    ASSUME NEW c, NEW s, IsList(s)
    PROVE  /\ FitPiece(In(c, s))
           /\ \A row :
                  RowMeets(row, In(c, s)) <=>
                      (\/ s = <<>>
                       \/ \E x \in ToSet(s) : Passes(row, [col |-> c, op |-> "="], x))
  <1> DEFINE o == [i \in 1 .. Len(s) |-> "="]
  <1>1. Len(s) \in Nat /\ DOMAIN s = 1 .. Len(s)
    BY ListLen
  <1>2. In(c, s) = AnyOf(Conds(c, o, s, Len(s)))
    <2>1. [i \in DOMAIN s |-> Cond(c, "=", s[i])] = Conds(c, o, s, Len(s))
      BY <1>1 DEF Conds
    <2>2. QED
      BY <2>1 DEF In
  <1>3. \A i \in 1 .. Len(s) : o[i] = "="
    OBVIOUS
  <1> HIDE DEF o
  <1>4. /\ FitPiece(In(c, s))
        /\ \A row :
               RowMeets(row, In(c, s)) <=>
                   (\/ Len(s) = 0
                    \/ \E i \in 1 .. Len(s) : Passes(row, [col |-> c, op |-> o[i]], s[i]))
    BY <1>1, <1>2, AnyOfColumn
  <1>5. Len(s) = 0 <=> s = <<>>
    BY ListNone, ListEmpty
  <1>6. \A x : x \in ToSet(s) <=> \E i \in 1 .. Len(s) : s[i] = x
    BY ListElements
  <1>7. \A row :
               (\E i \in 1 .. Len(s) : Passes(row, [col |-> c, op |-> o[i]], s[i]))
            <=> \E x \in ToSet(s) : Passes(row, [col |-> c, op |-> "="], x)
    BY <1>3, <1>6
  <1>8. QED
    BY <1>4, <1>5, <1>7

\* The clause of the filters of one type on a column: a row meets it when it
\* passes one of them, or when there are none.
IsGroup(filters, field, type, some, p, v) ==
    /\ DOMAIN some = 1 .. Len(some)
    /\ FitPiece(AnyOf(Conds(field, p, v, Len(some))))
    /\ \A i \in 1 .. Len(some) :
           some[i] \in ToSet(filters) /\ some[i].field = field /\ some[i].type = type
    /\ \A f \in ToSet(filters) : f.field = field /\ f.type = type =>
           \E i \in 1 .. Len(some) : some[i] = f
    /\ \A row : RowMeets(row, AnyOf(Conds(field, p, v, Len(some)))) <=>
             \A f \in ToSet(filters) : f.field = field /\ f.type = type =>
                 \E i \in 1 .. Len(some) :
                     Passes(row, [col |-> field, op |-> p[i]], some[i].pattern)

\* It is made of the list of those filters.
LEMMA GroupPiece ==
    ASSUME NEW filters, IsList(filters), NEW field, NEW type, NEW some,
           some = OfType(filters, field, type), NEW p, NEW v,
           v = [i \in DOMAIN some |-> some[i].pattern]
    PROVE  IsGroup(filters, field, type, some, p, v)
  <1> DEFINE n == Len(some)
             group == AnyOf(Conds(field, p, v, n))
  <1>1. /\ IsList(some)
        /\ ToSet(some) =
               ToSet(filters)
                   \cap {f \in ToSet(filters) : f.field = field /\ f.type = type}
    BY OnlyIs DEF OfType
  <1>2. n \in Nat /\ DOMAIN some = 1 .. n
    BY <1>1, ListLen
  <1>3. \A i \in 1 .. n : v[i] = some[i].pattern
    BY <1>2
  <1>4. \A x : x \in ToSet(some) <=> \E i \in 1 .. n : some[i] = x
    BY <1>1, ListElements
  <1>5. \A i \in 1 .. n : some[i] \in ToSet(some)
    BY <1>4
  <1>6. \A g \in ToSet(some) :
            g \in ToSet(filters) /\ g.field = field /\ g.type = type
    BY <1>1
  <1>7. \A i \in 1 .. n :
            /\ some[i] \in ToSet(filters)
            /\ some[i].field = field
            /\ some[i].type = type
    BY <1>5, <1>6
  <1> HIDE DEF n, group
  <1>8. /\ FitPiece(group)
        /\ \A row :
               RowMeets(row, group) <=>
                   (\/ n = 0
                    \/ \E i \in 1 .. n : Passes(row, [col |-> field, op |-> p[i]], v[i]))
    BY <1>2, AnyOfColumn DEF group
  <1>9. ASSUME NEW row, RowMeets(row, group), NEW f \in ToSet(filters),
               f.field = field, f.type = type
        PROVE  \E i \in 1 .. n :
                   Passes(row, [col |-> field, op |-> p[i]], some[i].pattern)
    <2>1. f \in ToSet(some)
      BY <1>1, <1>9
    <2>2. n # 0
      BY <1>2, <1>4, <2>1
    <2>3. PICK i \in 1 .. n : Passes(row, [col |-> field, op |-> p[i]], v[i])
      BY <1>8, <1>9, <2>2
    <2>4. Passes(row, [col |-> field, op |-> p[i]], some[i].pattern)
      BY <1>3, <2>3
    <2>5. QED
      BY <2>4
  <1>10. ASSUME NEW row,
                \A f \in ToSet(filters) : f.field = field /\ f.type = type =>
                    \E i \in 1 .. n :
                        Passes(row, [col |-> field, op |-> p[i]], some[i].pattern)
         PROVE  RowMeets(row, group)
    <2>1. CASE n = 0
      BY <1>8, <2>1
    <2>2. CASE n # 0
      <3>1. 1 \in 1 .. n
        BY <1>2, <2>2
      <3>2. PICK i \in 1 .. n :
                Passes(row, [col |-> field, op |-> p[i]], some[i].pattern)
        BY <1>7, <1>10, <3>1
      <3>3. Passes(row, [col |-> field, op |-> p[i]], v[i])
        BY <1>3, <3>2
      <3>4. QED
        BY <1>8, <3>3
    <2>3. QED
      BY <2>1, <2>2
  <1>11. \A f \in ToSet(filters) : f.field = field /\ f.type = type =>
             \E i \in 1 .. n : some[i] = f
    BY <1>1, <1>4
  <1>12. QED
    BY <1>2, <1>7, <1>8, <1>9, <1>10, <1>11 DEF n, group, IsGroup

-----------------------------------------------------------------------------
(* The names in the Kubernetes builder *)

\* The clause that the namespace filters of a type give.
NamespaceGroup(filters, type) ==
    LET some == OfType(filters, "namespace_name", type)
    IN  AnyOf([i \in DOMAIN some |->
                  Cond("namespace_name", OpOf[type], some[i].pattern)])

\* The clause that the pod filters of a type give.
PodGroup(filters, type) ==
    LET some == OfType(filters, "pod_name", type)
    IN  AnyOf([i \in DOMAIN some |->
            Cond("pod_name", Folded(OpOf[type], some[i].icase /\ type # "exact"),
                 some[i].pattern)])

\* A row passes what the builder makes of a namespace filter.
PassesNamespace(row, g) ==
    Passes(row, [col |-> "namespace_name", op |-> OpOf[g.type]], g.pattern)

\* A row passes what the builder makes of a pod filter.
PassesPod(row, g) ==
    Passes(row,
           [col |-> "pod_name",
            op |-> Folded(OpOf[g.type], g.icase /\ g.type # "exact")],
           g.pattern)

\* A row meets the clause of a type when it passes a namespace filter of that
\* type, or when there are none.
LEMMA NamespaceGroupPiece ==
    ASSUME NEW filters, IsList(filters), NEW type
    PROVE  /\ FitPiece(NamespaceGroup(filters, type))
           /\ \A row : RowMeets(row, NamespaceGroup(filters, type)) <=>
                \A f \in ToSet(filters) :
                  f.field = "namespace_name" /\ f.type = type =>
                    \E g \in ToSet(filters) :
                       /\ g.field = "namespace_name" /\ g.type = type
                       /\ PassesNamespace(row, g)
  <1> DEFINE some == OfType(filters, "namespace_name", type)
             p == [i \in DOMAIN some |-> OpOf[type]]
             v == [i \in DOMAIN some |-> some[i].pattern]
             group == AnyOf(Conds("namespace_name", p, v, Len(some)))
  <1>1. \A i \in DOMAIN some : p[i] = OpOf[type] /\ v[i] = some[i].pattern
    OBVIOUS
  <1>2. v = [i \in DOMAIN some |-> some[i].pattern]
    OBVIOUS
  <1> HIDE DEF p, v
  <1>3. some = OfType(filters, "namespace_name", type)
    OBVIOUS
  <1> HIDE DEF some
  <1>4. IsGroup(filters, "namespace_name", type, some, p, v)
    BY <1>2, <1>3, GroupPiece
  <1>5. /\ DOMAIN some = 1 .. Len(some) /\ FitPiece(group)
        /\ \A i \in 1 .. Len(some) :
               /\ some[i] \in ToSet(filters)
               /\ some[i].field = "namespace_name"
               /\ some[i].type = type
        /\ \A f \in ToSet(filters) : f.field = "namespace_name" /\ f.type = type =>
               \E i \in 1 .. Len(some) : some[i] = f
        /\ \A row : RowMeets(row, group) <=>
             \A f \in ToSet(filters) : f.field = "namespace_name" /\ f.type = type =>
                \E i \in 1 .. Len(some) :
                    Passes(row, [col |-> "namespace_name", op |-> p[i]], some[i].pattern)
    BY <1>4 DEF IsGroup
  <1>6. NamespaceGroup(filters, type) = group
    <2>1. [i \in DOMAIN some |->
              Cond("namespace_name", OpOf[type], some[i].pattern)] =
              Conds("namespace_name", p, v, Len(some))
      BY <1>1, <1>5 DEF Conds
    <2>2. QED
      BY <2>1, <1>3 DEF NamespaceGroup
  <1>7. ASSUME NEW i \in 1 .. Len(some), NEW row,
               Passes(row, [col |-> "namespace_name", op |-> p[i]], some[i].pattern)
        PROVE  \E g \in ToSet(filters) :
                   /\ g.field = "namespace_name" /\ g.type = type
                   /\ PassesNamespace(row, g)
    <2> DEFINE g == some[i]
    <2>1. g \in ToSet(filters) /\ g.field = "namespace_name" /\ g.type = type
      BY <1>5
    <2>2. p[i] = OpOf[g.type]
      BY <1>1, <1>5
    <2>3. Passes(row, [col |-> "namespace_name", op |-> p[i]], g.pattern)
      BY <1>7
    <2>4. PassesNamespace(row, g)
      BY <2>2, <2>3 DEF PassesNamespace
    <2>5. QED
      BY <2>1, <2>4
  <1>8. ASSUME NEW row, NEW g \in ToSet(filters), g.field = "namespace_name",
               g.type = type, PassesNamespace(row, g)
        PROVE  \E i \in 1 .. Len(some) :
                   Passes(row, [col |-> "namespace_name", op |-> p[i]], some[i].pattern)
    <2>1. PICK i \in 1 .. Len(some) : some[i] = g
      BY <1>5, <1>8
    <2>2. p[i] = OpOf[type]
      BY <1>1, <1>5
    <2>3. Passes(row, [col |-> "namespace_name", op |-> p[i]], some[i].pattern)
      BY <1>8, <2>1, <2>2 DEF PassesNamespace
    <2>4. QED
      BY <2>3
  <1> HIDE DEF group, some
  <1>9. QED
    BY <1>5, <1>6, <1>7, <1>8

\* A row meets the clause of a type when it passes a pod filter of that type, or
\* when there are none.
LEMMA PodGroupPiece ==
    ASSUME NEW filters, IsList(filters), NEW type
    PROVE  /\ FitPiece(PodGroup(filters, type))
           /\ \A row : RowMeets(row, PodGroup(filters, type)) <=>
                \A f \in ToSet(filters) :
                  f.field = "pod_name" /\ f.type = type =>
                    \E g \in ToSet(filters) :
                       /\ g.field = "pod_name" /\ g.type = type
                       /\ PassesPod(row, g)
  <1> DEFINE some == OfType(filters, "pod_name", type)
             p == [i \in DOMAIN some |->
                      Folded(OpOf[type], some[i].icase /\ type # "exact")]
             v == [i \in DOMAIN some |-> some[i].pattern]
             group == AnyOf(Conds("pod_name", p, v, Len(some)))
  <1>1. \A i \in DOMAIN some :
            /\ p[i] = Folded(OpOf[type], some[i].icase /\ type # "exact")
            /\ v[i] = some[i].pattern
    OBVIOUS
  <1>2. v = [i \in DOMAIN some |-> some[i].pattern]
    OBVIOUS
  <1> HIDE DEF p, v
  <1>3. some = OfType(filters, "pod_name", type)
    OBVIOUS
  <1> HIDE DEF some
  <1>4. IsGroup(filters, "pod_name", type, some, p, v)
    BY <1>2, <1>3, GroupPiece
  <1>5. /\ DOMAIN some = 1 .. Len(some) /\ FitPiece(group)
        /\ \A i \in 1 .. Len(some) :
               /\ some[i] \in ToSet(filters)
               /\ some[i].field = "pod_name"
               /\ some[i].type = type
        /\ \A f \in ToSet(filters) : f.field = "pod_name" /\ f.type = type =>
               \E i \in 1 .. Len(some) : some[i] = f
        /\ \A row : RowMeets(row, group) <=>
             \A f \in ToSet(filters) : f.field = "pod_name" /\ f.type = type =>
                \E i \in 1 .. Len(some) :
                    Passes(row, [col |-> "pod_name", op |-> p[i]], some[i].pattern)
    BY <1>4 DEF IsGroup
  <1>6. PodGroup(filters, type) = group
    <2>1. [i \in DOMAIN some |->
              Cond("pod_name",
                   Folded(OpOf[type], some[i].icase /\ type # "exact"),
                   some[i].pattern)] =
              Conds("pod_name", p, v, Len(some))
      BY <1>1, <1>5 DEF Conds
    <2>2. QED
      BY <2>1, <1>3 DEF PodGroup
  <1>7. ASSUME NEW i \in 1 .. Len(some), NEW row,
               Passes(row, [col |-> "pod_name", op |-> p[i]], some[i].pattern)
        PROVE  \E g \in ToSet(filters) :
                   /\ g.field = "pod_name" /\ g.type = type
                   /\ PassesPod(row, g)
    <2> DEFINE g == some[i]
    <2>1. g \in ToSet(filters) /\ g.field = "pod_name" /\ g.type = type
      BY <1>5
    <2>2. p[i] = Folded(OpOf[g.type], g.icase /\ g.type # "exact")
      BY <1>1, <1>5
    <2>3. Passes(row, [col |-> "pod_name", op |-> p[i]], g.pattern)
      BY <1>7
    <2>4. PassesPod(row, g)
      BY <2>2, <2>3 DEF PassesPod
    <2>5. QED
      BY <2>1, <2>4
  <1>8. ASSUME NEW row, NEW g \in ToSet(filters), g.field = "pod_name",
               g.type = type, PassesPod(row, g)
        PROVE  \E i \in 1 .. Len(some) :
                   Passes(row, [col |-> "pod_name", op |-> p[i]], some[i].pattern)
    <2>1. PICK i \in 1 .. Len(some) : some[i] = g
      BY <1>5, <1>8
    <2>2. p[i] = Folded(OpOf[type], some[i].icase /\ type # "exact")
      BY <1>1, <1>5
    <2>3. Passes(row, [col |-> "pod_name", op |-> p[i]], some[i].pattern)
      BY <1>8, <2>1, <2>2 DEF PassesPod
    <2>4. QED
      BY <2>3
  <1> HIDE DEF group, some
  <1>9. QED
    BY <1>5, <1>6, <1>7, <1>8

\* The types that buildNamespaceConditions looks for.
NamespaceTypes == {"exact", "prefix", "regex", "wildcard"}

\* A row meets the namespace conditions when it passes one of the namespace
\* filters of each type.
LEMMA NamespacePiece ==
    ASSUME NEW filters, IsList(filters)
    PROVE  /\ FitPiece(buildNamespaceConditions(filters))
           /\ \A row : RowMeets(row, buildNamespaceConditions(filters)) <=>
                \A f \in ToSet(filters) :
                  f.field = "namespace_name" /\ f.type \in NamespaceTypes =>
                    \E g \in ToSet(filters) :
                       /\ g.field = "namespace_name" /\ g.type = f.type
                       /\ PassesNamespace(row, g)
  <1> DEFINE G(t) == NamespaceGroup(filters, t)
             ps == <<G("exact"), G("prefix"), G("regex"), G("wildcard")>>
  <1>1. buildNamespaceConditions(filters) = Join(ps)
    BY DEF buildNamespaceConditions, NamespaceGroup
  <1> HIDE DEF G
  <1>2. /\ IsList(ps)
        /\ Len(ps) = 4
        /\ ps[1] = G("exact")
        /\ ps[2] = G("prefix")
        /\ ps[3] = G("regex")
        /\ ps[4] = G("wildcard")
    BY DEF IsList, ToSet
  <1> HIDE DEF ps
  <1>3. \A t : FitPiece(G(t)) /\ \A row : RowMeets(row, G(t)) <=>
             \A f \in ToSet(filters) : f.field = "namespace_name" /\ f.type = t =>
                 \E g \in ToSet(filters) :
                    g.field = "namespace_name" /\ g.type = t /\ PassesNamespace(row, g)
    BY NamespaceGroupPiece DEF G
  <1>4. \A i \in 1 .. Len(ps) : i \in {1, 2, 3, 4}
    BY <1>2
  <1>5. Pieces(ps)
    BY <1>2, <1>3, <1>4 DEF Pieces
  <1>6. /\ 1 \in 1 .. Len(ps)
        /\ 2 \in 1 .. Len(ps)
        /\ 3 \in 1 .. Len(ps)
        /\ 4 \in 1 .. Len(ps)
    BY <1>2
  <1>7. FitPiece(Join(ps))
        /\ \A row : RowMeets(row, Join(ps)) <=>
               \A i \in 1 .. Len(ps) : RowMeets(row, ps[i])
    BY <1>5, JoinPieces
  <1>8. \A row : (\A i \in 1 .. Len(ps) : RowMeets(row, ps[i])) <=>
                    \A t \in NamespaceTypes : RowMeets(row, G(t))
    <2> TAKE row
    <2>1. (\A i \in 1 .. Len(ps) : RowMeets(row, ps[i])) <=>
              RowMeets(row, ps[1]) /\ RowMeets(row, ps[2]) /\ RowMeets(row, ps[3]) /\ RowMeets(row, ps[4])
      BY <1>4, <1>6
    <2>2. (\A t \in NamespaceTypes : RowMeets(row, G(t))) <=>
              /\ RowMeets(row, G("exact")) /\ RowMeets(row, G("prefix"))
              /\ RowMeets(row, G("regex")) /\ RowMeets(row, G("wildcard"))
      BY DEF NamespaceTypes
    <2>3. QED
      BY <1>2, <2>1, <2>2
  <1>9. \A row : (\A t \in NamespaceTypes : RowMeets(row, G(t))) <=>
            \A f \in ToSet(filters) :
               f.field = "namespace_name" /\ f.type \in NamespaceTypes =>
                 \E g \in ToSet(filters) :
                    g.field = "namespace_name" /\ g.type = f.type /\ PassesNamespace(row, g)
    BY <1>3
  <1>10. QED
    BY <1>1, <1>7, <1>8, <1>9

\* The types that buildPodConditions looks for.
PodTypes == {"exact", "prefix", "suffix", "contains", "regex", "wildcard"}

\* A row meets the pod conditions when it passes one of the pod filters of each
\* type.
LEMMA PodPiece ==
    ASSUME NEW filters, IsList(filters)
    PROVE  /\ FitPiece(buildPodConditions(filters))
           /\ \A row : RowMeets(row, buildPodConditions(filters)) <=>
                \A f \in ToSet(filters) :
                  f.field = "pod_name" /\ f.type \in PodTypes =>
                    \E g \in ToSet(filters) :
                       /\ g.field = "pod_name" /\ g.type = f.type
                       /\ PassesPod(row, g)
  <1> DEFINE G(t) == PodGroup(filters, t)
             ps == <<G("exact"), G("prefix"), G("suffix"), G("contains"),
                     G("regex"), G("wildcard")>>
  <1>1. buildPodConditions(filters) = Join(ps)
    BY DEF buildPodConditions, PodGroup
  <1> HIDE DEF G
  <1>2. /\ IsList(ps)
        /\ Len(ps) = 6
        /\ ps[1] = G("exact")
        /\ ps[2] = G("prefix")
        /\ ps[3] = G("suffix")
        /\ ps[4] = G("contains")
        /\ ps[5] = G("regex")
        /\ ps[6] = G("wildcard")
    BY DEF IsList, ToSet
  <1> HIDE DEF ps
  <1>3. \A t : FitPiece(G(t)) /\ \A row : RowMeets(row, G(t)) <=>
             \A f \in ToSet(filters) : f.field = "pod_name" /\ f.type = t =>
                 \E g \in ToSet(filters) :
                    g.field = "pod_name" /\ g.type = t /\ PassesPod(row, g)
    BY PodGroupPiece DEF G
  <1>4. \A i \in 1 .. Len(ps) : i \in {1, 2, 3, 4, 5, 6}
    BY <1>2
  <1>5. Pieces(ps)
    BY <1>2, <1>3, <1>4 DEF Pieces
  <1>6. /\ 1 \in 1 .. Len(ps)
        /\ 2 \in 1 .. Len(ps)
        /\ 3 \in 1 .. Len(ps)
        /\ 4 \in 1 .. Len(ps)
        /\ 5 \in 1 .. Len(ps)
        /\ 6 \in 1 .. Len(ps)
    BY <1>2
  <1>7. FitPiece(Join(ps))
        /\ \A row : RowMeets(row, Join(ps)) <=>
               \A i \in 1 .. Len(ps) : RowMeets(row, ps[i])
    BY <1>5, JoinPieces
  <1>8. \A row : (\A i \in 1 .. Len(ps) : RowMeets(row, ps[i])) <=>
                    \A t \in PodTypes : RowMeets(row, G(t))
    <2> TAKE row
    <2>1. (\A i \in 1 .. Len(ps) : RowMeets(row, ps[i])) <=>
              /\ RowMeets(row, ps[1]) /\ RowMeets(row, ps[2]) /\ RowMeets(row, ps[3])
              /\ RowMeets(row, ps[4]) /\ RowMeets(row, ps[5]) /\ RowMeets(row, ps[6])
      BY <1>4, <1>6
    <2>2. (\A t \in PodTypes : RowMeets(row, G(t))) <=>
              /\ RowMeets(row, G("exact")) /\ RowMeets(row, G("prefix")) /\ RowMeets(row, G("suffix"))
              /\ RowMeets(row, G("contains")) /\ RowMeets(row, G("regex")) /\ RowMeets(row, G("wildcard"))
      BY DEF PodTypes
    <2>3. QED
      BY <1>2, <2>1, <2>2
  <1>9. \A row : (\A t \in PodTypes : RowMeets(row, G(t))) <=>
            \A f \in ToSet(filters) :
               f.field = "pod_name" /\ f.type \in PodTypes =>
                 \E g \in ToSet(filters) :
                    g.field = "pod_name" /\ g.type = f.type /\ PassesPod(row, g)
    BY <1>3
  <1>10. QED
    BY <1>1, <1>7, <1>8, <1>9

-----------------------------------------------------------------------------
(* The Kubernetes builder and the time builder *)

\* A row meets the condition of a parameter that may be absent.
Met(row, c, o, v) == v = "" \/ Passes(row, [col |-> c, op |-> o], v)

\* That is what Optional says.
LEMMA OptionalMet ==
    ASSUME NEW c, NEW o, NEW v
    PROVE  /\ FitPiece(Optional(c, o, v))
           /\ \A row : RowMeets(row, Optional(c, o, v)) <=> Met(row, c, o, v)
  BY OptionalPiece DEF Met

\* A row passes one of the namespace filters of each type that there is, and one
\* of the pod filters.
PassesNames(row, filters) ==
    /\ \A f \in ToSet(filters) :
          f.field = "namespace_name" /\ f.type \in NamespaceTypes =>
            \E g \in ToSet(filters) :
               g.field = "namespace_name" /\ g.type = f.type /\ PassesNamespace(row, g)
    /\ \A f \in ToSet(filters) :
          f.field = "pod_name" /\ f.type \in PodTypes =>
            \E g \in ToSet(filters) :
               g.field = "pod_name" /\ g.type = f.type /\ PassesPod(row, g)

\* That is what the conditions of the Kubernetes builder say.
LEMMA K8sNamesPiece ==
    ASSUME NEW filters, IsList(filters)
    PROVE  /\ FitPiece(BuildK8sFilterConditions(filters))
           /\ \A row :
                  RowMeets(row, BuildK8sFilterConditions(filters)) <=>
                      PassesNames(row, filters)
  <1> DEFINE a == buildNamespaceConditions(filters)
             b == buildPodConditions(filters)
             ps == <<a, b>>
  <1>1. BuildK8sFilterConditions(filters) = Join(ps)
    BY DEF BuildK8sFilterConditions
  <1>2. /\ FitPiece(a)
        /\ FitPiece(b)
        /\ \A row :
               RowMeets(row, a) /\ RowMeets(row, b) <=> PassesNames(row, filters)
    BY NamespacePiece, PodPiece DEF PassesNames
  <1> HIDE DEF a, b
  <1>3. IsList(ps) /\ Len(ps) = 2 /\ ps[1] = a /\ ps[2] = b
    BY DEF IsList, ToSet
  <1> HIDE DEF ps
  <1>4. /\ 1 \in 1 .. Len(ps)
        /\ 2 \in 1 .. Len(ps)
        /\ \A i \in 1 .. Len(ps) : i \in {1, 2}
    BY <1>3
  <1>5. Pieces(ps)
    BY <1>2, <1>3, <1>4 DEF Pieces
  <1>6. /\ FitPiece(Join(ps))
        /\ \A row :
               RowMeets(row, Join(ps)) <=> RowMeets(row, a) /\ RowMeets(row, b)
    BY <1>3, <1>4, <1>5, JoinPieces
  <1>7. QED
    BY <1>1, <1>2, <1>6

\* A row meets the parameters that every builder of the logs route looks at, the
\* times as the builder holds them.
MetParameters(row, q, start, end) ==
    /\ Met(row, "dataset", "=", q.dataset)
    /\ Met(row, "Timestamp", ">=", start)
    /\ Met(row, "Timestamp", "<=", end)
    /\ Met(row, "SeverityText", "=", q.severity)
    /\ Met(row, "container_name", "=", q.container)

\* Eight pieces joined.
Eight(a, b, c, d, e, f, g, h) == Join(<<a, b, c, d, e, f, g, h>>)

\* A row meets eight pieces joined when it meets each of them.
LEMMA EightPieces ==
    ASSUME NEW a, NEW b, NEW c, NEW d, NEW e, NEW f, NEW g, NEW h, FitPiece(a),
           FitPiece(b), FitPiece(c), FitPiece(d), FitPiece(e), FitPiece(f),
           FitPiece(g), FitPiece(h)
    PROVE  /\ FitPiece(Eight(a, b, c, d, e, f, g, h))
           /\ \A row : RowMeets(row, Eight(a, b, c, d, e, f, g, h)) <=>
                                          /\ RowMeets(row, a)
                                          /\ RowMeets(row, b)
                                          /\ RowMeets(row, c)
                                          /\ RowMeets(row, d)
                                          /\ RowMeets(row, e)
                                          /\ RowMeets(row, f)
                                          /\ RowMeets(row, g)
                                          /\ RowMeets(row, h)
  <1> DEFINE ps == <<a, b, c, d, e, f, g, h>>
             j == Eight(a, b, c, d, e, f, g, h)
  <1>1. j = Join(ps)
    BY DEF Eight
  <1>2. /\ IsList(ps)
        /\ Len(ps) = 8
        /\ ps[1] = a
        /\ ps[2] = b
        /\ ps[3] = c
        /\ ps[4] = d
        /\ ps[5] = e
        /\ ps[6] = f
        /\ ps[7] = g
        /\ ps[8] = h
    BY DEF IsList, ToSet
  <1> HIDE DEF ps, j
  <1>3. \A i \in 1 .. Len(ps) :
            i = 1 \/ i = 2 \/ i = 3 \/ i = 4 \/ i = 5 \/ i = 6 \/ i = 7 \/ i = 8
    BY <1>2
  <1>4. Pieces(ps)
    BY <1>2, <1>3 DEF Pieces
  <1>5. /\ 1 \in 1 .. Len(ps)
        /\ 2 \in 1 .. Len(ps)
        /\ 3 \in 1 .. Len(ps)
        /\ 4 \in 1 .. Len(ps)
        /\ 5 \in 1 .. Len(ps)
        /\ 6 \in 1 .. Len(ps)
        /\ 7 \in 1 .. Len(ps)
        /\ 8 \in 1 .. Len(ps)
    BY <1>2
  <1>6. /\ FitPiece(j)
        /\ \A row :
               RowMeets(row, j) <=> \A i \in 1 .. Len(ps) : RowMeets(row, ps[i])
    BY <1>1, <1>4, JoinPieces
  <1>7. \A row : (\A i \in 1 .. Len(ps) : RowMeets(row, ps[i])) <=>
                          /\ RowMeets(row, a)
                          /\ RowMeets(row, b)
                          /\ RowMeets(row, c)
                          /\ RowMeets(row, d)
                          /\ RowMeets(row, e)
                          /\ RowMeets(row, f)
                          /\ RowMeets(row, g) /\ RowMeets(row, h)
    <2> TAKE row
    <2> DEFINE M(i) == RowMeets(row, ps[i])
    <2>1. /\ M(1) <=> RowMeets(row, a)
          /\ M(2) <=> RowMeets(row, b)
          /\ M(3) <=> RowMeets(row, c)
          /\ M(4) <=> RowMeets(row, d)
          /\ M(5) <=> RowMeets(row, e)
          /\ M(6) <=> RowMeets(row, f)
          /\ M(7) <=> RowMeets(row, g)
          /\ M(8) <=> RowMeets(row, h)
      BY <1>2
    <2> HIDE DEF M
    <2>2. (\A i \in 1 .. Len(ps) : M(i)) <=>
              /\ M(1) /\ M(2) /\ M(3) /\ M(4)
              /\ M(5) /\ M(6) /\ M(7) /\ M(8)
      BY <1>3, <1>5, Zenon
    <2>3. QED
      BY <2>1, <2>2 DEF M
  <1>8. QED
    BY <1>6, <1>7 DEF j

\* The Kubernetes builder fits when no node is named, and asks for the
\* parameters, the names and the text of the filter.
LEMMA K8sPiece ==
    ASSUME NEW q, IsList(q.k8s), q.node = ""
    PROVE  /\ FitPiece(BuildK8sOptimizedQuery(q))
           /\ \A row :
                  RowMeets(row, BuildK8sOptimizedQuery(q)) <=>
                      /\ MetParameters(row, q, AsDriverTime(q.start), AsDriverTime(q.end))
                      /\ PassesNames(row, q.k8s)
                      /\ Met(row, "Content", "positionFold", q.text)
  <1> DEFINE a == Optional("dataset", "=", q.dataset)
             b == Optional("Timestamp", ">=", AsDriverTime(q.start))
             c == Optional("Timestamp", "<=", AsDriverTime(q.end))
             d == BuildK8sFilterConditions(q.k8s)
             e == Optional("Content", "positionFold", q.text)
             f == Optional("SeverityText", "=", q.severity)
             g == NodeNameArgument(q)
             h == Optional("container_name", "=", q.container)
             j == BuildK8sOptimizedQuery(q)
  <1>1. j = Eight(a, b, c, d, e, f, g, h)
    BY DEF BuildK8sOptimizedQuery, Eight
  <1>2. /\ FitPiece(a)
        /\ FitPiece(b)
        /\ FitPiece(c)
        /\ FitPiece(e)
        /\ FitPiece(f)
        /\ FitPiece(h)
    BY OptionalMet
  <1>3. FitPiece(d) /\ \A row : RowMeets(row, d) <=> PassesNames(row, q.k8s)
    BY K8sNamesPiece
  <1>4. FitPiece(g) /\ \A row : RowMeets(row, g)
    <2>1. g = Nothing
      BY DEF NodeNameArgument, Given
    <2>2. QED
      BY <2>1, NothingPiece
  <1>5. \A row :
               /\ RowMeets(row, a)
               /\ RowMeets(row, b)
               /\ RowMeets(row, c)
               /\ RowMeets(row, e)
               /\ RowMeets(row, f)
               /\ RowMeets(row, h)
            <=> /\ MetParameters(row, q, AsDriverTime(q.start), AsDriverTime(q.end))
                /\ Met(row, "Content", "positionFold", q.text)
    BY OptionalMet DEF MetParameters
  <1> HIDE DEF a, b, c, d, e, f, g, h, j
  <1>6. /\ FitPiece(j)
         /\ \A row : RowMeets(row, j) <=>
                          /\ RowMeets(row, a)
                          /\ RowMeets(row, b)
                          /\ RowMeets(row, c)
                          /\ RowMeets(row, d)
                          /\ RowMeets(row, e)
                          /\ RowMeets(row, f)
                          /\ RowMeets(row, g) /\ RowMeets(row, h)
    BY <1>1, <1>2, <1>3, <1>4, EightPieces
  <1>7. QED
    BY <1>3, <1>4, <1>5, <1>6 DEF j

\* A row meets what the time builder adds at the end: the names as they are, the
\* text of the filter, the container and the severity.
MetAdditional(row, q) ==
    /\ Met(row, "namespace_name", "=", q.namespace)
    /\ Met(row, "pod_name", "LIKE", q.pod)
    /\ Met(row, "container_name", "=", q.container)
    /\ Met(row, "SeverityText", "=", q.severity)
    /\ Met(row, "Content", "positionFold", q.text)

\* That is what its last piece says.
LEMMA AdditionalPiece ==
    ASSUME NEW q
    PROVE  /\ FitPiece(applyAdditionalFilters(q))
           /\ \A row :
                  RowMeets(row, applyAdditionalFilters(q)) <=> MetAdditional(row, q)
  <1> DEFINE a == Optional("namespace_name", "=", q.namespace)
             b == Optional("pod_name", "LIKE", q.pod)
             c == Optional("container_name", "=", q.container)
             d == Optional("SeverityText", "=", q.severity)
             e == Optional("Content", "positionFold", q.text)
             ps == <<a, b, c, d, e>>
  <1>1. applyAdditionalFilters(q) = Join(ps)
    BY DEF applyAdditionalFilters
  <1>2. FitPiece(a) /\ FitPiece(b) /\ FitPiece(c) /\ FitPiece(d) /\ FitPiece(e)
    BY OptionalMet
  <1>3. \A row :
               /\ RowMeets(row, a)
               /\ RowMeets(row, b)
               /\ RowMeets(row, c)
               /\ RowMeets(row, d)
               /\ RowMeets(row, e)
            <=> MetAdditional(row, q)
    BY OptionalMet DEF MetAdditional
  <1> HIDE DEF a, b, c, d, e
  <1>4. /\ IsList(ps)
        /\ Len(ps) = 5
        /\ ps[1] = a
        /\ ps[2] = b
        /\ ps[3] = c
        /\ ps[4] = d
        /\ ps[5] = e
    BY DEF IsList, ToSet
  <1> HIDE DEF ps
  <1>5. /\ (\A i \in 1 .. Len(ps) : i \in {1, 2, 3, 4, 5})
        /\ {1, 2, 3, 4, 5} \subseteq 1 .. Len(ps)
    BY <1>4
  <1>6. Pieces(ps)
    BY <1>2, <1>4, <1>5 DEF Pieces
  <1>7. /\ FitPiece(Join(ps))
        /\ \A row :
               RowMeets(row, Join(ps)) <=>
                   /\ RowMeets(row, a)
                   /\ RowMeets(row, b)
                   /\ RowMeets(row, c)
                   /\ RowMeets(row, d)
                   /\ RowMeets(row, e)
    BY <1>4, <1>5, <1>6, JoinPieces
  <1>8. QED
    BY <1>1, <1>3, <1>7

\* The time builder fits and asks for the parameters and what it adds.
LEMMA TimePiece ==
    ASSUME NEW q
    PROVE  /\ FitPiece(BuildOptimizedTimeRangeQuery(q))
           /\ \A row :
                  RowMeets(row, BuildOptimizedTimeRangeQuery(q)) <=>
                      /\ MetParameters(row, q, AsFloat(q.start), AsFloat(q.end))
                      /\ MetAdditional(row, q)
  <1> DEFINE a == Optional("dataset", "=", q.dataset)
             b == AddTimeCondition(">=", q.start)
             c == AddTimeCondition("<=", q.end)
             d == applyAdditionalFilters(q)
             ps == <<a, b, c, d>>
  <1>1. BuildOptimizedTimeRangeQuery(q) = Join(ps)
    BY DEF BuildOptimizedTimeRangeQuery
  <1>2. FitPiece(a) /\ FitPiece(b) /\ FitPiece(c)
    BY OptionalMet DEF AddTimeCondition
  <1>3. FitPiece(d)
    BY AdditionalPiece
  <1>4. \A row :
               /\ RowMeets(row, a)
               /\ RowMeets(row, b)
               /\ RowMeets(row, c)
               /\ RowMeets(row, d)
            <=> /\ MetParameters(row, q, AsFloat(q.start), AsFloat(q.end))
                /\ MetAdditional(row, q)
    BY OptionalMet, AdditionalPiece DEF AddTimeCondition, MetParameters, MetAdditional
  <1> HIDE DEF a, b, c, d
  <1>5. /\ IsList(ps)
        /\ Len(ps) = 4
        /\ ps[1] = a
        /\ ps[2] = b
        /\ ps[3] = c
        /\ ps[4] = d
    BY DEF IsList, ToSet
  <1> HIDE DEF ps
  <1>6. /\ (\A i \in 1 .. Len(ps) : i \in {1, 2, 3, 4})
        /\ {1, 2, 3, 4} \subseteq 1 .. Len(ps)
    BY <1>5
  <1>7. Pieces(ps)
    BY <1>2, <1>3, <1>5, <1>6 DEF Pieces
  <1>8. /\ FitPiece(Join(ps))
        /\ \A row :
               RowMeets(row, Join(ps)) <=>
                   /\ RowMeets(row, a)
                   /\ RowMeets(row, b)
                   /\ RowMeets(row, c)
                   /\ RowMeets(row, d)
    BY <1>5, <1>6, <1>7, JoinPieces
  <1>9. QED
    BY <1>1, <1>4, <1>8

\* A piece has an argument for a column.
Places(p, c) == \E x \in ToSet(p.args) : x.for = c

\* An optional condition has one, when its value is given.
LEMMA OptionalPlaces ==
    ASSUME NEW c, NEW o, NEW v
    PROVE  v = "" \/ Places(Optional(c, o, v), c)
  <1> DEFINE x == [for |-> c, is |-> v]
  <1>1. v = "" \/ Optional(c, o, v).args = <<x>>
    BY DEF Optional, Given, Cond
  <1>2. x.for = c
    OBVIOUS
  <1> HIDE DEF x
  <1>3. ToSet(<<x>>) = {x}
    BY DEF ToSet
  <1>4. Optional(c, o, v).args = <<x>> => Places(Optional(c, o, v), c)
    BY <1>2, <1>3 DEF Places
  <1>5. QED
    BY <1>1, <1>4

\* Pieces joined have the arguments of each.
LEMMA JoinPlaces ==
    ASSUME NEW ps, Pieces(ps), NEW i \in 1 .. Len(ps), NEW c, Places(ps[i], c)
    PROVE  Places(Join(ps), c)
  <1>1. AllFit(ps)
    BY DEF AllFit, Pieces, FitPiece
  <1>2. AllLists(Args(ps)) /\ Len(Args(ps)) = Len(ps) /\ Args(ps)[i] = ps[i].args
    BY <1>1, PiecesType
  <1>3. Join(ps).args = FlattenSeq(Args(ps))
    BY DEF Join, Args
  <1>4. PICK x \in ToSet(ps[i].args) : x.for = c
    BY DEF Places
  <1>5. x \in ToSet(FlattenSeq(Args(ps)))
    BY <1>2, <1>4, FlattenElements DEF Among
  <1>6. QED
    BY <1>3, <1>4, <1>5 DEF Places

\* Two lists of pieces are a list of pieces.
LEMMA PiecesConcat ==
    ASSUME NEW ps, NEW qs, Pieces(ps), Pieces(qs)
    PROVE  /\ Pieces(ps \o qs)
           /\ \A row : (\A i \in 1 .. Len(ps \o qs) : RowMeets(row, (ps \o qs)[i])) <=>
                 /\ \A i \in 1 .. Len(ps) : RowMeets(row, ps[i])
                 /\ \A i \in 1 .. Len(qs) : RowMeets(row, qs[i])
  <1>1. /\ IsList(ps \o qs)
        /\ Len(ps \o qs) = Len(ps) + Len(qs)
        /\ Len(ps) \in Nat
        /\ Len(qs) \in Nat
        /\ \A i \in 1 .. Len(ps) : (ps \o qs)[i] = ps[i]
        /\ \A i \in 1 .. Len(qs) : (ps \o qs)[Len(ps) + i] = qs[i]
        /\ \A i \in 1 .. Len(ps) + Len(qs) :
               i \notin 1 .. Len(ps) =>
                   /\ i - Len(ps) \in 1 .. Len(qs)
                   /\ (ps \o qs)[i] = qs[i - Len(ps)]
    BY ListConcat DEF Pieces
  <1>2. ASSUME NEW i \in 1 .. Len(ps \o qs)
        PROVE  FitPiece((ps \o qs)[i])
    <2>1. i \in 1 .. Len(ps) + Len(qs)
      BY <1>1
    <2>2. CASE i \in 1 .. Len(ps)
      BY <2>2, <1>1 DEF Pieces
    <2>3. CASE i \notin 1 .. Len(ps)
      BY <2>1, <2>3, <1>1 DEF Pieces
    <2>4. QED
      BY <2>2, <2>3
  <1>3. /\ (\A i \in 1 .. Len(ps) : i \in 1 .. Len(ps \o qs))
        /\ (\A i \in 1 .. Len(qs) : Len(ps) + i \in 1 .. Len(ps \o qs))
    BY <1>1
  <1>4. Pieces(ps \o qs)
    BY <1>1, <1>2 DEF Pieces
  <1>5. ASSUME NEW row, \A i \in 1 .. Len(ps) : RowMeets(row, ps[i]),
               \A i \in 1 .. Len(qs) : RowMeets(row, qs[i]),
               NEW i \in 1 .. Len(ps \o qs)
        PROVE  RowMeets(row, (ps \o qs)[i])
    <2>1. i \in 1 .. Len(ps) + Len(qs)
      BY <1>1
    <2>2. CASE i \in 1 .. Len(ps)
      BY <1>1, <1>5, <2>2
    <2>3. CASE i \notin 1 .. Len(ps)
      <3> DEFINE k == i - Len(ps)
      <3>1. k \in 1 .. Len(qs) /\ (ps \o qs)[i] = qs[k]
        BY <1>1, <2>1, <2>3
      <3> HIDE DEF k
      <3>2. QED
        BY <1>5, <3>1
    <2>4. QED
      BY <2>2, <2>3
  <1>6. QED
    BY <1>1, <1>3, <1>4, <1>5

\* A row passes what the content builder makes of a filter, whatever its
\* column.
PassesSingle(row, f) ==
    Passes(row,
           [col |-> f.field,
            op |-> Folded(OpOf[f.type], f.icase /\ f.type # "regex")],
           f.pattern)

\* A row meets what the content builder makes of the names: the parameters as
\* they are, and every filter.
MetNames(row, q) ==
    /\ Met(row, "namespace_name", "=", q.namespace)
    /\ Met(row, "pod_name", "=", q.pod)
    /\ Met(row, "node_name", "=", q.node)
    /\ Met(row, "container_name", "=", q.container)
    /\ \A f \in ToSet(q.k8s) : PassesSingle(row, f)

\* A node that is given is one of the arguments.
PlacesNode(p, q) == q.node = "" \/ Places(p, "node_name")

\* The content builder asks for every filter of a name, not for one of them.
LEMMA SingleNamesPiece ==
    ASSUME NEW q, IsList(q.k8s)
    PROVE  /\ FitPiece(buildK8sConditions(q))
           /\ PlacesNode(buildK8sConditions(q), q)
           /\ \A row : RowMeets(row, buildK8sConditions(q)) <=> MetNames(row, q)
  <1> DEFINE a == Optional("namespace_name", "=", q.namespace)
             b == Optional("pod_name", "=", q.pod)
             c == Optional("node_name", "=", q.node)
             d == Optional("container_name", "=", q.container)
             k == q.k8s
             ps == <<a, b, c, d>>
             qs == [i \in DOMAIN k |-> buildSingleK8sCondition(k[i])]
  <1>1. buildK8sConditions(q) = Join(ps \o qs)
    BY DEF buildK8sConditions
  <1>2. FitPiece(a) /\ FitPiece(b) /\ FitPiece(c) /\ FitPiece(d)
    BY OptionalMet
  <1>3. \A row :
            /\ RowMeets(row, a) <=> Met(row, "namespace_name", "=", q.namespace)
            /\ RowMeets(row, b) <=> Met(row, "pod_name", "=", q.pod)
            /\ RowMeets(row, c) <=> Met(row, "node_name", "=", q.node)
            /\ RowMeets(row, d) <=> Met(row, "container_name", "=", q.container)
    BY OptionalMet
  <1>4. IsList(k)
    OBVIOUS
  <1> HIDE DEF a, b, c, d, k
  <1>5. /\ IsList(ps)
        /\ Len(ps) = 4
        /\ ps[1] = a
        /\ ps[2] = b
        /\ ps[3] = c
        /\ ps[4] = d
    BY DEF IsList, ToSet
  <1> HIDE DEF ps
  <1>6. /\ \A i \in 1 .. Len(ps) : i \in {1, 2, 3, 4}
        /\ 1 \in 1 .. Len(ps) /\ 2 \in 1 .. Len(ps)
        /\ 3 \in 1 .. Len(ps) /\ 4 \in 1 .. Len(ps)
    BY <1>5
  <1>7. Pieces(ps)
    BY <1>2, <1>5, <1>6 DEF Pieces
  <1>8. Len(k) \in Nat /\ DOMAIN k = 1 .. Len(k)
    BY <1>4, ListLen
  <1>9. /\ IsList(qs)
        /\ Len(qs) = Len(k)
        /\ \A i \in 1 .. Len(k) : qs[i] = buildSingleK8sCondition(k[i])
    BY <1>8, ListOf
  <1> HIDE DEF qs
  <1>10. \A f :
             /\ FitPiece(buildSingleK8sCondition(f))
             /\ \A row :
                    RowMeets(row, buildSingleK8sCondition(f)) <=>
                        PassesSingle(row, f)
    BY CondPiece DEF buildSingleK8sCondition, PassesSingle
  <1>11. Pieces(qs)
    BY <1>9, <1>10 DEF Pieces
  <1>12. Pieces(ps \o qs)
         /\ \A row :
              (\A i \in 1 .. Len(ps \o qs) : RowMeets(row, (ps \o qs)[i])) <=>
              /\ \A i \in 1 .. Len(ps) : RowMeets(row, ps[i])
              /\ \A i \in 1 .. Len(qs) : RowMeets(row, qs[i])
    BY <1>7, <1>11, PiecesConcat
  <1>13. FitPiece(Join(ps \o qs)) /\ \A row : RowMeets(row, Join(ps \o qs)) <=>
              /\ \A i \in 1 .. Len(ps) : RowMeets(row, ps[i])
              /\ \A i \in 1 .. Len(qs) : RowMeets(row, qs[i])
    BY <1>12, JoinPieces
  <1>14. \A row :
             (\A i \in 1 .. Len(qs) : RowMeets(row, qs[i])) <=>
                 \A f \in ToSet(k) : PassesSingle(row, f)
    <2>1. \A f : f \in ToSet(k) <=> \E i \in 1 .. Len(k) : k[i] = f
      BY <1>4, ListElements
    <2>2. QED
      BY <2>1, <1>9, <1>10
  <1>15. \A row : (\A i \in 1 .. Len(ps) : RowMeets(row, ps[i])) <=>
             /\ RowMeets(row, a) /\ RowMeets(row, b)
             /\ RowMeets(row, c) /\ RowMeets(row, d)
    <2> TAKE row
    <2>1. (\A i \in 1 .. Len(ps) : RowMeets(row, ps[i])) <=>
              /\ RowMeets(row, ps[1]) /\ RowMeets(row, ps[2])
              /\ RowMeets(row, ps[3]) /\ RowMeets(row, ps[4])
      BY <1>6
    <2>2. QED
      BY <1>5, <2>1
  <1>16. \A row : (\A f \in ToSet(k) : PassesSingle(row, f)) /\ RowMeets(row, a)
                   /\ RowMeets(row, b) /\ RowMeets(row, c) /\ RowMeets(row, d)
             <=> MetNames(row, q)
    BY <1>3 DEF MetNames, k
  <1>17. q.node = "" \/ Places(c, "node_name")
    BY OptionalPlaces DEF c
  <1>18. Places(c, "node_name") => Places(Join(ps \o qs), "node_name")
    <2>1. /\ Len(ps \o qs) = Len(ps) + Len(qs) /\ Len(ps) \in Nat /\ Len(qs) \in Nat
          /\ \A i \in 1 .. Len(ps) : (ps \o qs)[i] = ps[i]
      BY <1>5, <1>9, ListConcat
    <2>2. 3 \in 1 .. Len(ps \o qs) /\ (ps \o qs)[3] = c
      BY <1>5, <2>1
    <2> DEFINE pqs == ps \o qs
    <2> HIDE DEF pqs
    <2>3. Pieces(pqs) /\ 3 \in 1 .. Len(pqs) /\ pqs[3] = c
      BY <1>12, <2>2 DEF pqs
    <2>4. Places(c, "node_name") => Places(Join(pqs), "node_name")
      BY <2>3, JoinPlaces
    <2>5. QED
      BY <2>4 DEF pqs
  <1>19. PlacesNode(Join(ps \o qs), q)
    BY <1>17, <1>18 DEF PlacesNode
  <1>20. QED
    BY <1>1, <1>13, <1>14, <1>15, <1>16, <1>19

-----------------------------------------------------------------------------
(* The search in the content builder *)

\* Every kind of filter gives a condition with its arguments.
LEMMA FilterPiece ==
    ASSUME NEW f, IsFilter(f)
    PROVE  FitPiece(buildSingleFilterCondition(f))
  <1>1. CASE f.type # "proximity"
    <2>1. \E c, o, v : buildSingleFilterCondition(f) = Cond(c, o, v)
      <3>1. f.type \in {"exact", "icase", "regex", "phrase", "wildcard"}
        BY <1>1 DEF IsFilter, Kinds
      <3>2. QED
        BY <3>1 DEF buildSingleFilterCondition
    <2>2. QED
      BY <2>1, CondPiece
  <1>2. CASE f.type = "proximity"
    <2> DEFINE w == f.words
               o == [i \in 1 .. Len(w) |-> "position"]
               ps == Conds("Content", o, w, Len(w))
    <2>1. IsList(w)
      BY DEF IsFilter
    <2>2. Len(w) \in Nat /\ DOMAIN w = 1 .. Len(w)
      BY <2>1, ListLen
    <2>3. buildSingleFilterCondition(f) =
              Join([i \in DOMAIN w |-> Cond("Content", "position", w[i])])
      BY <1>2 DEF buildSingleFilterCondition
    <2>4. [i \in DOMAIN w |-> Cond("Content", "position", w[i])] = ps
      BY <2>2 DEF Conds
    <2>5. Pieces(ps)
      BY <2>2, CondsArePieces
    <2> HIDE DEF ps, w
    <2>6. QED
      BY <2>3, <2>4, <2>5, JoinPieces
  <1>3. QED
    BY <1>1, <1>2

\* So do those of the filters with an operator.
LEMMA FiltersPieces ==
    ASSUME NEW filters, AreFilters(filters), NEW S
    PROVE  Pieces(buildFilterConditions(Only(filters, S)))
  <1> DEFINE o == Only(filters, S)
             ps == buildFilterConditions(o)
  <1>1. IsList(o) /\ ToSet(o) \subseteq ToSet(filters)
    BY OnlyIs DEF AreFilters
  <1> HIDE DEF o
  <1>2. Len(o) \in Nat /\ DOMAIN o = 1 .. Len(o)
    BY <1>1, ListLen
  <1>3. /\ IsList(ps)
        /\ Len(ps) = Len(o)
        /\ \A i \in 1 .. Len(o) : ps[i] = buildSingleFilterCondition(o[i])
    BY <1>2, ListOf DEF buildFilterConditions
  <1> HIDE DEF ps
  <1>4. \A f \in ToSet(filters) : IsFilter(f)
    BY ListElements DEF AreFilters
  <1>5. \A i \in 1 .. Len(o) : IsFilter(o[i])
    <2> TAKE i \in 1 .. Len(o)
    <2>1. o[i] \in ToSet(o)
      BY <1>1, ListElements
    <2>2. QED
      BY <1>1, <1>4, <2>1
  <1>6. Pieces(ps)
    BY <1>3, <1>5, FilterPiece DEF Pieces
  <1>7. QED
    BY <1>6 DEF ps, o

\* The conditions of a search fit: its AND, OR and NOT parts in the order
\* their arguments go.
LEMMA SearchPiece ==
    ASSUME NEW filters, AreFilters(filters)
    PROVE  FitPiece(buildContentSearchConditions(filters))
  <1> DEFINE W(operators) ==
                 buildFilterConditions(
                     Only(filters, {f \in ToSet(filters) : f.operator \in operators}))
             a == Join(W({"AND", ""}))
             b == AnyOf(W({"OR"}))
             c == NoneOf(W({"NOT"}))
             ps == <<a, b, c>>
  <1>1. buildContentSearchConditions(filters) = Join(ps)
    BY DEF buildContentSearchConditions
  <1>2. \A s : Pieces(W(s))
    BY FiltersPieces
  <1> HIDE DEF W
  <1>3. FitPiece(a) /\ FitPiece(b) /\ FitPiece(c)
    BY <1>2, JoinPieces, AnyOfPieces
  <1> HIDE DEF a, b, c
  <1>4. IsList(ps) /\ Len(ps) = 3 /\ ps[1] = a /\ ps[2] = b /\ ps[3] = c
    BY DEF IsList, ToSet
  <1> HIDE DEF ps
  <1>5. \A i \in 1 .. Len(ps) : i \in {1, 2, 3}
    BY <1>4
  <1>6. Pieces(ps)
    BY <1>3, <1>4, <1>5 DEF Pieces
  <1>7. QED
    BY <1>1, <1>6, JoinPieces

\* A list of conditions: of columns, operators and values.
AreConds(ps, c, o, v) ==
    IsList(ps) /\ \A i \in 1 .. Len(ps) : ps[i] = Cond(c[i], o[i], v[i])

\* Some conditions: their tests, one clause each.
LEMMA JoinConds ==
    ASSUME NEW ps, NEW c, NEW o, NEW v, AreConds(ps, c, o, v)
    PROVE  /\ Join(ps).where =
                  [i \in 1 .. Len(ps) |-> Clause(<<[col |-> c[i], op |-> o[i]]>>)]
           /\ Join(ps).args = [i \in 1 .. Len(ps) |-> [for |-> c[i], is |-> v[i]]]
           /\ Len(ps) \in Nat
  <1> DEFINE A == [i \in 1 .. Len(ps) |-> [for |-> c[i], is |-> v[i]]]
             C == [i \in 1 .. Len(ps) |-> Clause(<<[col |-> c[i], op |-> o[i]]>>)]
  <1>1. Len(ps) \in Nat /\ DOMAIN ps = 1 .. Len(ps)
    BY ListLen DEF AreConds
  <1>2. /\ IsList(A) /\ DOMAIN A = 1 .. Len(ps)
        /\ IsList(C) /\ DOMAIN C = 1 .. Len(ps)
    BY <1>1, ListOf
  <1>3. \A i \in 1 .. Len(ps) : ps[i].where = <<C[i]>> /\ ps[i].args = <<A[i]>>
    <2> TAKE i \in 1 .. Len(ps)
    <2>1. ps[i] = Cond(c[i], o[i], v[i])
      BY DEF AreConds
    <2>2. /\ Cond(c[i], o[i], v[i]).where =
                 <<Clause(<<[col |-> c[i], op |-> o[i]]>>)>>
          /\ Cond(c[i], o[i], v[i]).args = <<[for |-> c[i], is |-> v[i]]>>
      BY DEF Cond
    <2>3. /\ C[i] = Clause(<<[col |-> c[i], op |-> o[i]]>>)
          /\ A[i] = [for |-> c[i], is |-> v[i]]
      OBVIOUS
    <2>4. QED
      BY <2>1, <2>2, <2>3
  <1> HIDE DEF A, C
  <1>4. /\ Wheres(ps) = [i \in DOMAIN C |-> <<C[i]>>]
        /\ Args(ps) = [i \in DOMAIN A |-> <<A[i]>>]
    BY <1>1, <1>2, <1>3 DEF Wheres, Args
  <1>5. FlattenSeq(Wheres(ps)) = C /\ FlattenSeq(Args(ps)) = A
    BY <1>2, <1>4, FlattenSingles
  <1>6. Join(ps).where = C /\ Join(ps).args = A
    BY <1>5 DEF Join, Wheres, Args
  <1>7. QED
    BY <1>1, <1>6 DEF A, C

\* A row meets none of some conditions when it passes none of their tests.
LEMMA NoneOfConds ==
    ASSUME NEW ps, NEW c, NEW o, NEW v, AreConds(ps, c, o, v)
    PROVE  \A row : AllMeet(row, NoneOf(ps).where, NoneOf(ps).args) <=>
              \A i \in 1 .. Len(ps) : ~Passes(row, [col |-> c[i], op |-> o[i]], v[i])
  <1> DEFINE T(i) == [col |-> c[i], op |-> o[i]]
             A == [i \in 1 .. Len(ps) |-> [for |-> c[i], is |-> v[i]]]
             N == [i \in 1 .. Len(ps) |-> [neg |-> TRUE, tests |-> <<T(i)>>]]
  <1>1. Len(ps) \in Nat
    BY ListLen DEF AreConds
  <1>2. NoneOf(ps).where = N /\ NoneOf(ps).args = A
    <2> DEFINE C == [i \in 1 .. Len(ps) |-> Clause(<<T(i)>>)]
    <2>1. Join(ps).where = C /\ Join(ps).args = A
      BY JoinConds
    <2>2. NoneOf(ps).where = [i \in DOMAIN C |-> [C[i] EXCEPT !.neg = TRUE]]
      <3>1. Join(ps) = [where |-> C, args |-> A]
        BY <2>1 DEF Join
      <3> HIDE DEF C, A
      <3>2. QED
        BY <3>1 DEF NoneOf
    <2>3. NoneOf(ps).args = A
      <3>1. Join(ps) = [where |-> C, args |-> A]
        BY <2>1 DEF Join
      <3> HIDE DEF C, A
      <3>2. QED
        BY <3>1 DEF NoneOf
    <2>4. \A i \in 1 .. Len(ps) : [C[i] EXCEPT !.neg = TRUE] = N[i]
      <3> TAKE i \in 1 .. Len(ps)
      <3> DEFINE t == <<T(i)>>
                 k == C[i]
      <3>1. k = [neg |-> FALSE, tests |-> t]
        BY DEF Clause
      <3>2. N[i] = [neg |-> TRUE, tests |-> t]
        OBVIOUS
      <3> HIDE DEF k, t, N
      <3>3. [[neg |-> FALSE, tests |-> t] EXCEPT !.neg = TRUE] = [neg |-> TRUE, tests |-> t]
        BY NegIs, Zenon
      <3>4. [k EXCEPT !.neg = TRUE] = N[i]
        BY <3>1, <3>2, <3>3
      <3>5. QED
        BY <3>4 DEF k
    <2>5. DOMAIN C = 1 .. Len(ps)
      OBVIOUS
    <2> HIDE DEF C
    <2>6. [i \in DOMAIN C |-> [C[i] EXCEPT !.neg = TRUE]] = N
      BY <2>4, <2>5
    <2>7. QED
      BY <2>2, <2>3, <2>6
  <1>3. /\ IsList(N) /\ Len(N) = Len(ps) /\ DOMAIN N = 1 .. Len(ps)
        /\ \A i \in 1 .. Len(ps) : N[i] = [neg |-> TRUE, tests |-> <<T(i)>>]
    BY <1>1, ListOf
  <1>4. \A i \in 1 .. Len(ps) : A[i].is = v[i]
    OBVIOUS
  <1> HIDE DEF N, A
  <1>5. \A i \in 0 .. Len(ps) : Len(Slots(SubSeq(N, 1, i))) = i
    <2> TAKE i \in 0 .. Len(ps)
    <2>1. IsWhere(N)
      <3>1. \A j \in 1 .. Len(N) : IsList(N[j].tests) /\ IsClause(N[j])
        BY <1>3, ListOne DEF IsClause
      <3>2. QED
        BY <1>3, <3>1 DEF IsWhere
    <2> DEFINE P == SubSeq(N, 1, i)
               e == [j \in 1 .. i |-> c[j]]
    <2>2. IsList(P) /\ Len(P) = i /\ \A j \in 1 .. i : P[j] = N[j]
      BY <1>3, ListPrefix
    <2>3. DOMAIN P = 1 .. i
      BY <2>2, ListLen
    <2> HIDE DEF P
    <2>4. \A j \in 1 .. i : ColsOf(P[j].tests) = <<c[j]>>
      <3> TAKE j \in 1 .. i
      <3>1. j \in 1 .. Len(ps)
        BY <1>1
      <3>2. P[j].tests = <<T(j)>>
        BY <3>1, <1>3, <2>2
      <3>3. ColsOf(<<T(j)>>) = <<c[j]>>
        BY DEF ColsOf
      <3>4. QED
        BY <3>2, <3>3
    <2>5. IsList(e) /\ Len(e) = i /\ DOMAIN e = 1 .. i
      BY <1>1, ListOf
    <2>6. SlotLists(P) = [j \in DOMAIN e |-> <<e[j]>>]
      BY <2>3, <2>4, <2>5 DEF SlotLists
    <2> HIDE DEF e
    <2>7. Slots(P) = e
      BY <2>5, <2>6, FlattenSingles, SlotsIs
    <2>8. QED
      BY <2>5, <2>7 DEF P
  <1> TAKE row
  <1>6. \A i \in 1 .. Len(ps) : Meets(row, N, A, i) <=> ~Passes(row, T(i), v[i])
    <2> TAKE i \in 1 .. Len(ps)
    <2>1. Len(Slots(SubSeq(N, 1, i - 1))) = i - 1
      BY <1>1, <1>5
    <2>2. /\ N[i].neg = TRUE
          /\ N[i].tests = <<T(i)>>
      BY <1>3
    <2>3. DOMAIN <<T(i)>> = {1} /\ <<T(i)>>[1] = T(i) /\ (i - 1) + 1 = i
      BY <1>1
    <2> HIDE DEF T
    <2>4. Meets(row, N, A, i) <=> ~Passes(row, T(i), A[i].is)
      BY <2>1, <2>2, <2>3 DEF Meets
    <2>5. QED
      BY <2>4, <1>4
  <1>7. QED
    BY <1>2, <1>3, <1>6 DEF AllMeet

\* The column that a filter of one text looks at.
ColumnOf(f) == IF f.type = "wildcard" THEN "Body" ELSE "Content"

\* How it looks there.
LookOf(f) ==
    CASE f.type = "exact" -> Folded("position", f.icase)
      [] f.type = "icase" -> "positionFold"
      [] f.type = "regex" -> "match"
      [] f.type = "phrase" -> "matchWhole"
      [] f.type = "wildcard" -> Folded("LIKE", f.icase)

\* A row passes a filter: every word of it, when it is about distances.
FilterMet(row, f) ==
    IF f.type = "proximity"
    THEN \A i \in 1 .. Len(f.words) :
             Passes(row, [col |-> "Content", op |-> "position"], f.words[i])
    ELSE Passes(row, [col |-> ColumnOf(f), op |-> LookOf(f)], f.pattern)

\* A filter of one text is one condition.
LEMMA FilterIsCond ==
    ASSUME NEW f, IsFilter(f), f.type # "proximity"
    PROVE  buildSingleFilterCondition(f) = Cond(ColumnOf(f), LookOf(f), f.pattern)
  <1>1. f.type \in {"exact", "icase", "regex", "phrase", "wildcard"}
    BY DEF IsFilter, Kinds
  <1>2. QED
    BY <1>1 DEF buildSingleFilterCondition, ColumnOf, LookOf

\* A row meets the condition of a filter when it passes the filter.
LEMMA FilterMeets ==
    ASSUME NEW f, IsFilter(f), NEW row
    PROVE  RowMeets(row, buildSingleFilterCondition(f)) <=> FilterMet(row, f)
  <1>1. CASE f.type # "proximity"
    <2>1. RowMeets(row, Cond(ColumnOf(f), LookOf(f), f.pattern)) <=>
              Passes(row, [col |-> ColumnOf(f), op |-> LookOf(f)], f.pattern)
      BY CondPiece
    <2>2. QED
      BY <1>1, <2>1, FilterIsCond DEF FilterMet
  <1>2. CASE f.type = "proximity"
    <2> DEFINE w == f.words
               ps == [i \in DOMAIN w |-> Cond("Content", "position", w[i])]
    <2>1. Len(w) \in Nat /\ DOMAIN w = 1 .. Len(w)
      BY ListLen DEF IsFilter
    <2>2. buildSingleFilterCondition(f) = Join(ps)
      BY <1>2 DEF buildSingleFilterCondition
    <2>3. /\ IsList(ps) /\ Len(ps) = Len(w)
          /\ \A i \in 1 .. Len(w) : ps[i] = Cond("Content", "position", w[i])
      BY <2>1, ListOf
    <2> HIDE DEF ps, w
    <2>4. \A i \in 1 .. Len(ps) :
              /\ FitPiece(ps[i])
              /\ RowMeets(row, ps[i]) <=>
                     Passes(row, [col |-> "Content", op |-> "position"], w[i])
      BY <2>3, CondPiece
    <2>5. Pieces(ps)
      BY <2>3, <2>4 DEF Pieces
    <2>6. RowMeets(row, Join(ps)) <=> \A i \in 1 .. Len(ps) : RowMeets(row, ps[i])
      BY <2>5, JoinPieces
    <2>7. FilterMet(row, f) <=>
              \A i \in 1 .. Len(w) :
                  Passes(row, [col |-> "Content", op |-> "position"], w[i])
      BY <1>2 DEF FilterMet, w
    <2>8. QED
      BY <2>2, <2>3, <2>4, <2>6, <2>7
  <1>3. QED
    BY <1>1, <1>2

\* The filters with one of some operators, in their order.
With(filters, operators) ==
    Only(filters, {f \in ToSet(filters) : f.operator \in operators})

\* They are those of the filters that have it, and filters.
LEMMA WithIs ==
    ASSUME NEW filters, AreFilters(filters), NEW S
    PROVE  /\ IsList(With(filters, S))
           /\ Len(With(filters, S)) \in Nat
           /\ DOMAIN With(filters, S) = 1 .. Len(With(filters, S))
           /\ \A i \in 1 .. Len(With(filters, S)) :
                  /\ With(filters, S)[i] \in ToSet(filters)
                  /\ With(filters, S)[i].operator \in S
                  /\ IsFilter(With(filters, S)[i])
           /\ \A f \in ToSet(filters) : f.operator \in S =>
                  \E i \in 1 .. Len(With(filters, S)) : With(filters, S)[i] = f
  <1> DEFINE o == With(filters, S)
  <1>1. /\ IsList(o)
        /\ ToSet(o) = ToSet(filters) \cap {f \in ToSet(filters) : f.operator \in S}
    BY OnlyIs DEF AreFilters, With
  <1> HIDE DEF o
  <1>2. Len(o) \in Nat /\ DOMAIN o = 1 .. Len(o)
    BY <1>1, ListLen
  <1>3. \A f \in ToSet(filters) : IsFilter(f)
    BY ListElements DEF AreFilters
  <1>4. \A x : x \in ToSet(o) <=> \E i \in 1 .. Len(o) : o[i] = x
    BY <1>1, ListElements
  <1>5. \A i \in 1 .. Len(o) :
            o[i] \in ToSet(filters) /\ o[i].operator \in S /\ IsFilter(o[i])
    BY <1>1, <1>3, <1>4
  <1>6. \A f \in ToSet(filters) : f.operator \in S => \E i \in 1 .. Len(o) : o[i] = f
    BY <1>1, <1>4
  <1>7. QED
    BY <1>1, <1>2, <1>5, <1>6 DEF o

\* A row passes a search: the filters of AND, one of those of OR, none of NOT.
SearchMet(row, filters) ==
    /\ \A f \in ToSet(filters) : f.operator \in {"AND", ""} => FilterMet(row, f)
    /\ \A f \in ToSet(filters) : f.operator = "OR" =>
           \E g \in ToSet(filters) : g.operator = "OR" /\ FilterMet(row, g)
    /\ \A f \in ToSet(filters) : f.operator = "NOT" => ~FilterMet(row, f)

\* Only filters of one text have an operator.
Flat(filters) ==
    \A f \in ToSet(filters) : f.operator \in {"OR", "NOT"} => f.type # "proximity"

\* The filters of AND, as conditions.
LEMMA AndMeets ==
    ASSUME NEW filters, AreFilters(filters), NEW S, NEW row
    PROVE  RowMeets(row, Join(buildFilterConditions(With(filters, S)))) <=>
               \A f \in ToSet(filters) : f.operator \in S => FilterMet(row, f)
  <1> DEFINE o == With(filters, S)
             ps == buildFilterConditions(o)
  <1>1. Pieces(ps)
    BY FiltersPieces DEF With
  <1>2. Len(ps) = Len(o) /\ \A i \in 1 .. Len(o) : ps[i] = buildSingleFilterCondition(o[i])
    BY WithIs, ListOf DEF buildFilterConditions
  <1> HIDE DEF ps
  <1>3. \A i \in 1 .. Len(o) : RowMeets(row, ps[i]) <=> FilterMet(row, o[i])
    BY <1>2, WithIs, FilterMeets
  <1>4. RowMeets(row, Join(ps)) <=> \A i \in 1 .. Len(o) : FilterMet(row, o[i])
    BY <1>1, <1>2, <1>3, JoinPieces
  <1>5. (\A i \in 1 .. Len(o) : FilterMet(row, o[i])) <=>
            \A f \in ToSet(filters) : f.operator \in S => FilterMet(row, f)
    BY WithIs
  <1>6. QED
    BY <1>4, <1>5 DEF ps

\* Filters of one text, as conditions.
LEMMA FlatConds ==
    ASSUME NEW filters, AreFilters(filters), Flat(filters), NEW S, S \subseteq {"OR", "NOT"},
           NEW o, o = With(filters, S)
    PROVE  /\ AreConds(buildFilterConditions(o), [i \in 1 .. Len(o) |-> ColumnOf(o[i])],
                       [i \in 1 .. Len(o) |-> LookOf(o[i])],
                       [i \in 1 .. Len(o) |-> o[i].pattern])
           /\ Len(buildFilterConditions(o)) = Len(o)
           /\ \A row : \A i \in 1 .. Len(o) :
                  Passes(row, [col |-> ColumnOf(o[i]), op |-> LookOf(o[i])], o[i].pattern)
                      <=> FilterMet(row, o[i])
  <1> DEFINE ps == buildFilterConditions(o)
  <1>1. /\ IsList(ps) /\ Len(ps) = Len(o)
        /\ \A i \in 1 .. Len(o) : ps[i] = buildSingleFilterCondition(o[i])
    BY WithIs, ListOf DEF buildFilterConditions
  <1>2. \A i \in 1 .. Len(o) : IsFilter(o[i]) /\ o[i].type # "proximity"
    BY WithIs DEF Flat
  <1> HIDE DEF ps
  <1>3. \A i \in 1 .. Len(o) : ps[i] = Cond(ColumnOf(o[i]), LookOf(o[i]), o[i].pattern)
    BY <1>1, <1>2, FilterIsCond
  <1>4. AreConds(ps, [i \in 1 .. Len(o) |-> ColumnOf(o[i])],
                 [i \in 1 .. Len(o) |-> LookOf(o[i])], [i \in 1 .. Len(o) |-> o[i].pattern])
    BY <1>1, <1>3 DEF AreConds
  <1>5. \A row : \A i \in 1 .. Len(o) :
            Passes(row, [col |-> ColumnOf(o[i]), op |-> LookOf(o[i])], o[i].pattern)
                <=> FilterMet(row, o[i])
    BY <1>2 DEF FilterMet
  <1>6. QED
    BY <1>1, <1>4, <1>5 DEF ps

\* A row meets the conditions of a search when it passes the search.
LEMMA SearchMeets ==
    ASSUME NEW filters, AreFilters(filters), Flat(filters), NEW row
    PROVE  RowMeets(row, buildContentSearchConditions(filters)) <=> SearchMet(row, filters)
  <1> DEFINE a == Join(buildFilterConditions(With(filters, {"AND", ""})))
             b == AnyOf(buildFilterConditions(With(filters, {"OR"})))
             c == NoneOf(buildFilterConditions(With(filters, {"NOT"})))
             ps == <<a, b, c>>
  <1>1. buildContentSearchConditions(filters) = Join(ps)
    BY DEF buildContentSearchConditions, With
  <1>2. \A s : Pieces(buildFilterConditions(With(filters, s)))
    BY FiltersPieces DEF With
  <1>3. FitPiece(a) /\ FitPiece(b) /\ FitPiece(c)
    BY <1>2, JoinPieces, AnyOfPieces
  <1>4. RowMeets(row, a) <=>
            \A f \in ToSet(filters) : f.operator \in {"AND", ""} => FilterMet(row, f)
    BY AndMeets
  <1>5. RowMeets(row, b) <=>
            \A f \in ToSet(filters) : f.operator = "OR" =>
                \E g \in ToSet(filters) : g.operator = "OR" /\ FilterMet(row, g)
    <2> DEFINE o == With(filters, {"OR"})
               qs == buildFilterConditions(o)
               C == [i \in 1 .. Len(o) |-> ColumnOf(o[i])]
               L == [i \in 1 .. Len(o) |-> LookOf(o[i])]
               V == [i \in 1 .. Len(o) |-> o[i].pattern]
    <2>1. /\ AreConds(qs, C, L, V) /\ Len(qs) = Len(o)
          /\ \A i \in 1 .. Len(o) :
                 Passes(row, [col |-> ColumnOf(o[i]), op |-> LookOf(o[i])], o[i].pattern)
                     <=> FilterMet(row, o[i])
      BY FlatConds
    <2>2. \A i \in 1 .. Len(o) : C[i] = ColumnOf(o[i]) /\ L[i] = LookOf(o[i])
                                   /\ V[i] = o[i].pattern
      OBVIOUS
    <2>3. /\ Len(o) \in Nat
          /\ \A i \in 1 .. Len(o) : o[i] \in ToSet(filters) /\ o[i].operator \in {"OR"}
          /\ \A f \in ToSet(filters) : f.operator \in {"OR"} => \E i \in 1 .. Len(o) : o[i] = f
      BY WithIs
    <2> HIDE DEF C, L, V, qs, o
    <2>4. CASE Len(o) = 0
      <3>1. qs = <<>>
        BY <2>1, <2>3, <2>4, ListNone DEF AreConds
      <3>2. b = Nothing
        BY <3>1 DEF AnyOf, qs, o
      <3>3. QED
        BY <3>2, <2>3, <2>4, NothingPiece
    <2>5. CASE Len(o) # 0
      <3>1. qs # <<>>
        BY <2>1, <2>5
      <3>2. IsList(qs) /\ \A i \in 1 .. Len(qs) : qs[i] = Cond(C[i], L[i], V[i])
        BY <2>1 DEF AreConds
      <3>3. AllMeet(row, AnyOf(qs).where, AnyOf(qs).args) <=>
                \E i \in 1 .. Len(qs) : Passes(row, [col |-> C[i], op |-> L[i]], V[i])
        BY <3>1, <3>2, AnyOfConds
      <3>4. RowMeets(row, b) <=> \E i \in 1 .. Len(o) : FilterMet(row, o[i])
        BY <3>3, <2>1, <2>2 DEF RowMeets, qs, o
      <3>5. 1 \in 1 .. Len(o)
        BY <2>3, <2>5
      <3>6. QED
        BY <3>4, <3>5, <2>3
    <2>6. QED
      BY <2>4, <2>5
  <1>6. RowMeets(row, c) <=>
            \A f \in ToSet(filters) : f.operator = "NOT" => ~FilterMet(row, f)
    <2> DEFINE o == With(filters, {"NOT"})
               qs == buildFilterConditions(o)
               C == [i \in 1 .. Len(o) |-> ColumnOf(o[i])]
               L == [i \in 1 .. Len(o) |-> LookOf(o[i])]
               V == [i \in 1 .. Len(o) |-> o[i].pattern]
    <2>1. /\ AreConds(qs, C, L, V) /\ Len(qs) = Len(o)
          /\ \A i \in 1 .. Len(o) :
                 Passes(row, [col |-> ColumnOf(o[i]), op |-> LookOf(o[i])], o[i].pattern)
                     <=> FilterMet(row, o[i])
      BY FlatConds
    <2>2. \A i \in 1 .. Len(o) : C[i] = ColumnOf(o[i]) /\ L[i] = LookOf(o[i])
                                   /\ V[i] = o[i].pattern
      OBVIOUS
    <2>3. /\ \A i \in 1 .. Len(o) : o[i] \in ToSet(filters) /\ o[i].operator \in {"NOT"}
          /\ \A f \in ToSet(filters) : f.operator \in {"NOT"} => \E i \in 1 .. Len(o) : o[i] = f
      BY WithIs
    <2> HIDE DEF C, L, V, qs, o
    <2>4. AllMeet(row, NoneOf(qs).where, NoneOf(qs).args) <=>
              \A i \in 1 .. Len(qs) : ~Passes(row, [col |-> C[i], op |-> L[i]], V[i])
      BY <2>1, NoneOfConds
    <2>5. RowMeets(row, c) <=> \A i \in 1 .. Len(o) : ~FilterMet(row, o[i])
      BY <2>1, <2>2, <2>4 DEF RowMeets, qs, o
    <2>6. QED
      BY <2>3, <2>5
  <1> HIDE DEF a, b, c
  <1>7. IsList(ps) /\ Len(ps) = 3 /\ ps[1] = a /\ ps[2] = b /\ ps[3] = c
    BY DEF IsList, ToSet
  <1> HIDE DEF ps
  <1>8. \A i \in 1 .. Len(ps) : i \in {1, 2, 3}
    BY <1>7
  <1>9. Pieces(ps)
    BY <1>3, <1>7, <1>8 DEF Pieces
  <1>10. RowMeets(row, Join(ps)) <=>
             RowMeets(row, a) /\ RowMeets(row, b) /\ RowMeets(row, c)
    BY <1>7, <1>8, <1>9, JoinPieces
  <1>11. QED
    BY <1>1, <1>4, <1>5, <1>6, <1>10 DEF SearchMet

-----------------------------------------------------------------------------
(* The content builder and the aggregation *)

\* The content builder fits and asks for the parameters, the names and the
\* search.
LEMMA ContentPiece ==
    ASSUME NEW q, IsList(q.k8s), AreFilters(q.search)
    PROVE  /\ FitPiece(buildWhereClause(q))
           /\ PlacesNode(buildWhereClause(q), q)
           /\ \A row :
                  RowMeets(row, buildWhereClause(q)) <=>
                      /\ MetParameters(row, q, AsDriverTime(q.start), AsDriverTime(q.end))
                      /\ MetNames(row, q)
                      /\ RowMeets(row, buildContentSearchConditions(q.search))
  <1> DEFINE a == Optional("dataset", "=", q.dataset)
             b == Optional("Timestamp", ">=", AsDriverTime(q.start))
             c == Optional("Timestamp", "<=", AsDriverTime(q.end))
             d == Optional("SeverityText", "=", q.severity)
             e == buildK8sConditions(q)
             f == buildContentSearchConditions(q.search)
             ps == <<a, b, c, d, e, f>>
  <1>1. buildWhereClause(q) = Join(ps)
    BY DEF buildWhereClause
  <1>2. FitPiece(a) /\ FitPiece(b) /\ FitPiece(c) /\ FitPiece(d)
    BY OptionalMet
  <1>3. FitPiece(e) /\ FitPiece(f)
    BY SingleNamesPiece, SearchPiece
  <1>4. \A row :
                  /\ RowMeets(row, a)
                  /\ RowMeets(row, b)
                  /\ RowMeets(row, c)
                  /\ RowMeets(row, d)
                  /\ RowMeets(row, e)
             <=> /\ MetParameters(row, q, AsDriverTime(q.start), AsDriverTime(q.end))
                 /\ MetNames(row, q)
    BY OptionalMet, SingleNamesPiece DEF MetParameters, MetNames
  <1> HIDE DEF a, b, c, d, e, f
  <1>5. /\ IsList(ps)
        /\ Len(ps) = 6
        /\ ps[1] = a
        /\ ps[2] = b
        /\ ps[3] = c
        /\ ps[4] = d
        /\ ps[5] = e
        /\ ps[6] = f
    BY DEF IsList, ToSet
  <1> HIDE DEF ps
  <1>6. /\ (\A i \in 1 .. Len(ps) : i \in {1, 2, 3, 4, 5, 6})
        /\ {1, 2, 3, 4, 5, 6} \subseteq 1 .. Len(ps)
    BY <1>5
  <1>7. Pieces(ps)
    BY <1>2, <1>3, <1>5, <1>6 DEF Pieces
  <1>8. /\ FitPiece(Join(ps))
        /\ \A row :
               RowMeets(row, Join(ps)) <=>
                   /\ RowMeets(row, a)
                   /\ RowMeets(row, b)
                   /\ RowMeets(row, c)
                   /\ RowMeets(row, d)
                   /\ RowMeets(row, e)
                   /\ RowMeets(row, f)
    BY <1>5, <1>6, <1>7, JoinPieces
  <1>9. PlacesNode(e, q)
    BY SingleNamesPiece DEF e
  <1>10. Places(e, "node_name") => Places(Join(ps), "node_name")
    BY <1>5, <1>6, <1>7, JoinPlaces
  <1>11. PlacesNode(Join(ps), q)
    BY <1>9, <1>10 DEF PlacesNode
  <1>12. QED
    BY <1>1, <1>4, <1>8, <1>11 DEF f

\* A row meets what the aggregation makes of its parameters.
MetAggregation(row, r) ==
    /\ Met(row, "dataset", "=", r.dataset)
    /\ Met(row, "Timestamp", ">=", AsDriverTime(r.start))
    /\ Met(row, "Timestamp", "<=", AsDriverTime(r.end))
    /\ \/ r.namespaces = <<>>
       \/ \E x \in ToSet(r.namespaces) :
              Passes(row, [col |-> "namespace_name", op |-> "="], x)
    /\ \/ r.pods = <<>>
       \/ \E x \in ToSet(r.pods) : Passes(row, [col |-> "pod_name", op |-> "="], x)
    /\ Met(row, "SeverityText", "=", r.severity)
    /\ Met(row, "Content", "positionFold", r.text)

\* The aggregation's conditions fit and ask for its parameters.
LEMMA AggregationPiece ==
    ASSUME NEW r, IsList(r.namespaces), IsList(r.pods)
    PROVE  /\ FitPiece(AggregationWhereClause(r))
           /\ \A row :
                  RowMeets(row, AggregationWhereClause(r)) <=> MetAggregation(row, r)
  <1> DEFINE a == Optional("dataset", "=", r.dataset)
             b == Optional("Timestamp", ">=", AsDriverTime(r.start))
             c == Optional("Timestamp", "<=", AsDriverTime(r.end))
             d == In("namespace_name", r.namespaces)
             e == In("pod_name", r.pods)
             f == Optional("SeverityText", "=", r.severity)
             g == Optional("Content", "positionFold", r.text)
             ps == <<a, b, c, d, e, f, g>>
  <1>1. AggregationWhereClause(r) = Join(ps)
    BY DEF AggregationWhereClause
  <1>2. FitPiece(a) /\ FitPiece(b) /\ FitPiece(c) /\ FitPiece(f) /\ FitPiece(g)
    BY OptionalMet
  <1>3. FitPiece(d) /\ FitPiece(e)
    BY InPiece
  <1>4. \A row :
                  /\ RowMeets(row, a)
                  /\ RowMeets(row, b)
                  /\ RowMeets(row, c)
                  /\ RowMeets(row, d)
                  /\ RowMeets(row, e)
                  /\ RowMeets(row, f)
                  /\ RowMeets(row, g)
             <=> MetAggregation(row, r)
    BY OptionalMet, InPiece DEF MetAggregation
  <1> HIDE DEF a, b, c, d, e, f, g
  <1>5. /\ IsList(ps)
        /\ Len(ps) = 7
        /\ ps[1] = a
        /\ ps[2] = b
        /\ ps[3] = c
        /\ ps[4] = d
        /\ ps[5] = e
        /\ ps[6] = f
        /\ ps[7] = g
    BY DEF IsList, ToSet
  <1> HIDE DEF ps
  <1>6. /\ (\A i \in 1 .. Len(ps) : i \in {1, 2, 3, 4, 5, 6, 7})
        /\ {1, 2, 3, 4, 5, 6, 7} \subseteq 1 .. Len(ps)
    BY <1>5
  <1>7. Pieces(ps)
    BY <1>2, <1>3, <1>5, <1>6 DEF Pieces
  <1>8. /\ FitPiece(Join(ps))
        /\ \A row :
               RowMeets(row, Join(ps)) <=>
                   /\ RowMeets(row, a)
                   /\ RowMeets(row, b)
                   /\ RowMeets(row, c)
                   /\ RowMeets(row, d)
                   /\ RowMeets(row, e)
                   /\ RowMeets(row, f)
                   /\ RowMeets(row, g)
    BY <1>5, <1>6, <1>7, JoinPieces
  <1>9. QED
    BY <1>1, <1>4, <1>8

-----------------------------------------------------------------------------
(* The first route *)

\* A condition that is there when a parameter is.
LEMMA GivenPiece ==
    ASSUME NEW v, NEW p, FitPiece(p)
    PROVE  /\ FitPiece(Given(v, p))
           /\ \A row : RowMeets(row, Given(v, p)) <=> v = "" \/ RowMeets(row, p)
  BY NothingPiece DEF Given

\* One of the columns that may hold the host has it.
AtHost(row, v) ==
    \/ Passes(row, [col |-> "host.name", op |-> "="], v)
    \/ Passes(row, [col |-> "__hostname__", op |-> "="], v)

\* The two columns that may hold the host.
Hosts(v) == <<Cond("host.name", "=", v), Cond("__hostname__", "=", v)>>

\* A row meets their alternative when one of them is the host.
LEMMA HostPiece ==
    ASSUME NEW v
    PROVE  /\ FitPiece(AnyOf(Hosts(v)))
           /\ \A row : RowMeets(row, AnyOf(Hosts(v))) <=> AtHost(row, v)
  <1> DEFINE ps == Hosts(v)
             c == [i \in 1 .. 2 |-> IF i = 1 THEN "host.name" ELSE "__hostname__"]
             o == [i \in 1 .. 2 |-> "="]
             w == [i \in 1 .. 2 |-> v]
  <1>1. /\ /\ IsList(ps)
        /\ Len(ps) = 2
        /\ ps[1] = Cond("host.name", "=", v)
        /\ ps[2] = Cond("__hostname__", "=", v)
    BY DEF Hosts, IsList, ToSet
  <1>2. /\ c[1] = "host.name"
        /\ c[2] = "__hostname__"
        /\ o[1] = "="
        /\ o[2] = "="
        /\ w[1] = v
        /\ w[2] = v
    OBVIOUS
  <1> HIDE DEF ps, c, o, w
  <1>3. /\ (\A i \in 1 .. Len(ps) : i = 1 \/ i = 2)
        /\ 1 \in 1 .. Len(ps)
        /\ 2 \in 1 .. Len(ps)
    BY <1>1
  <1>4. Pieces(ps)
    BY <1>1, <1>3, CondPiece DEF Pieces
  <1>5. \A i \in 1 .. Len(ps) : ps[i] = Cond(c[i], o[i], w[i])
    BY <1>1, <1>2, <1>3
  <1>6. ps # <<>>
    BY <1>1, ListEmpty
  <1>7. FitPiece(AnyOf(ps))
    BY <1>4, AnyOfPieces
  <1>8. \A row :
            RowMeets(row, AnyOf(ps)) <=>
                \E i \in 1 .. Len(ps) :
                    Passes(row, [col |-> c[i], op |-> o[i]], w[i])
    BY <1>1, <1>5, <1>6, AnyOfConds DEF RowMeets
  <1>9. \A row :
           (\E i \in 1 .. Len(ps) : Passes(row, [col |-> c[i], op |-> o[i]], w[i]))
            <=> AtHost(row, v)
    <2> TAKE row
    <2>1. (\E i \in 1 .. Len(ps) : Passes(row, [col |-> c[i], op |-> o[i]], w[i]))
            <=> \/ Passes(row, [col |-> c[1], op |-> o[1]], w[1])
                \/ Passes(row, [col |-> c[2], op |-> o[2]], w[2])
      BY <1>3
    <2>2. QED
      BY <2>1, <1>2 DEF AtHost
  <1>10. QED
    BY <1>7, <1>8, <1>9 DEF ps

\* The condition on the path of a log file, when a path is made of a name.
Lasting(name, path) ==
    IF name = <<>> THEN Nothing ELSE Cond("log.file.path", "path", path)

\* A row meets it.
Lasts(row, name, path) ==
    name = <<>> \/ Passes(row, [col |-> "log.file.path", op |-> "path"], path)

\* It fits either way.
LEMMA LastingPiece ==
    ASSUME NEW name, NEW path
    PROVE  /\ FitPiece(Lasting(name, path))
           /\ \A row : RowMeets(row, Lasting(name, path)) <=> Lasts(row, name, path)
  <1>1. CASE name = <<>>
    <2>1. Lasting(name, path) = Nothing
      BY <1>1 DEF Lasting
    <2>2. QED
      BY <1>1, <2>1, NothingPiece DEF Lasts
  <1>2. CASE name # <<>>
    <2>1. Lasting(name, path) = Cond("log.file.path", "path", path)
      BY <1>2 DEF Lasting
    <2>2. QED
      BY <1>2, <2>1, CondPiece DEF Lasts
  <1>3. QED
    BY <1>1, <1>2

\* A row meets what the first route makes of its parameters.
MetLegacy(row, r) ==
    /\ Passes(row, [col |-> "Timestamp", op |-> ">="], AsDriverTime(r.start))
    /\ Passes(row, [col |-> "Timestamp", op |-> "<="], AsDriverTime(r.end))
    /\ Lasts(row, r.namespaceParts, <<"_">> \o r.namespaceParts \o <<"_">>)
    /\ Lasts(row, r.podParts, <<"/">> \o r.podParts \o <<"_">>)
    /\ Lasts(row, r.containerParts, <<"_">> \o r.containerParts \o <<"-">>)
    /\ r.node = "" \/ AtHost(row, r.node)
    /\ Met(row, "Body", "LIKEText", r.text)
    /\ Met(row, "SeverityText", "=", r.severity)

\* The conditions of the first route fit and ask for its parameters.
LEMMA LegacyPiece ==
    ASSUME NEW r
    PROVE  /\ FitPiece(LegacyConditions(r))
           /\ \A row : RowMeets(row, LegacyConditions(r)) <=> MetLegacy(row, r)
  <1> DEFINE a == Cond("Timestamp", ">=", AsDriverTime(r.start))
             b == Cond("Timestamp", "<=", AsDriverTime(r.end))
             c == Lasting(r.namespaceParts, <<"_">> \o r.namespaceParts \o <<"_">>)
             d == Lasting(r.podParts, <<"/">> \o r.podParts \o <<"_">>)
             e == Lasting(r.containerParts, <<"_">> \o r.containerParts \o <<"-">>)
             f == Given(r.node, AnyOf(Hosts(r.node)))
             g == Optional("Body", "LIKEText", r.text)
             h == Optional("SeverityText", "=", r.severity)
             j == LegacyConditions(r)
  <1>1. j = Eight(a, b, c, d, e, f, g, h)
    BY DEF LegacyConditions, Eight, Lasting, Hosts
  <1>2. FitPiece(a) /\ FitPiece(b) /\ FitPiece(g) /\ FitPiece(h)
    BY CondPiece, OptionalMet
  <1>3. FitPiece(c) /\ FitPiece(d) /\ FitPiece(e)
    BY LastingPiece
  <1>4. FitPiece(f)
    BY HostPiece, GivenPiece
  <1>5. \A row :
            /\ RowMeets(row, a) <=> Passes(row, [col |-> "Timestamp", op |-> ">="], AsDriverTime(r.start))
            /\ RowMeets(row, b) <=> Passes(row, [col |-> "Timestamp", op |-> "<="], AsDriverTime(r.end))
    BY CondPiece
  <1>6. \A row :
            /\ RowMeets(row, c) <=>
                   Lasts(row, r.namespaceParts, <<"_">> \o r.namespaceParts \o <<"_">>)
            /\ RowMeets(row, d) <=>
                   Lasts(row, r.podParts, <<"/">> \o r.podParts \o <<"_">>)
            /\ RowMeets(row, e) <=>
                   Lasts(row, r.containerParts, <<"_">> \o r.containerParts \o <<"-">>)
    BY LastingPiece
  <1>7. \A row : RowMeets(row, f) <=> r.node = "" \/ AtHost(row, r.node)
    BY HostPiece, GivenPiece
  <1>8. \A row : /\ RowMeets(row, g) <=> Met(row, "Body", "LIKEText", r.text)
                 /\ RowMeets(row, h) <=> Met(row, "SeverityText", "=", r.severity)
    BY OptionalMet
  <1> HIDE DEF a, b, c, d, e, f, g, h, j
  <1>9. /\ FitPiece(j)
        /\ \A row : RowMeets(row, j) <=>
                         /\ RowMeets(row, a)
                         /\ RowMeets(row, b)
                         /\ RowMeets(row, c)
                         /\ RowMeets(row, d)
                         /\ RowMeets(row, e)
                         /\ RowMeets(row, f)
                         /\ RowMeets(row, g) /\ RowMeets(row, h)
    BY <1>1, <1>2, <1>3, <1>4, EightPieces
  <1>10. \A row :
              /\ RowMeets(row, a)
              /\ RowMeets(row, b)
              /\ RowMeets(row, c)
              /\ RowMeets(row, d)
              /\ RowMeets(row, e)
              /\ RowMeets(row, f)
              /\ RowMeets(row, g) /\ RowMeets(row, h)
             <=> MetLegacy(row, r)
    BY <1>5, <1>6, <1>7, <1>8 DEF MetLegacy
  <1>11. QED
    BY <1>9, <1>10 DEF j

-----------------------------------------------------------------------------
(* Boolean expressions *)

\* The operator that holds for a token: the last one up to it.
OperatorAt(tokens, i) ==
    LET before == {j \in 1 .. i : Operator(tokens[j]) # ""}
    IN  IF before = {} THEN "AND" ELSE Operator(tokens[Max(before)])

\* A token that is searched for.
IsTerm(t) == Operator(t) = "" /\ t \notin {"(", ")"}

\* The filters of a boolean expression are those of its terms.
LEMMA ConvertIs ==
    ASSUME NEW tokens, IsList(tokens), NEW f
    PROVE  f \in ToSet(convertTokensToFilters(tokens)) <=>
               \E i \in 1 .. Len(tokens) :
                   /\ IsTerm(tokens[i])
                   /\ f = ContentFilter("exact", tokens[i], OperatorAt(tokens, i))
  <1> DEFINE F(i) == ContentFilter("exact", tokens[i], OperatorAt(tokens, i))
             ss == [i \in DOMAIN tokens |->
                       IF Operator(tokens[i]) # "" \/ tokens[i] \in {"(", ")"}
                       THEN <<>> ELSE <<F(i)>>]
  <1>1. convertTokensToFilters(tokens) = FlattenSeq(ss)
    BY DEF convertTokensToFilters, OperatorAt
  <1>2. Len(tokens) \in Nat /\ DOMAIN tokens = 1 .. Len(tokens)
    BY ListLen
  <1> HIDE DEF F
  <1>3. /\ IsList(ss) /\ Len(ss) = Len(tokens)
        /\ \A i \in 1 .. Len(tokens) : ss[i] = IF IsTerm(tokens[i]) THEN <<F(i)>> ELSE <<>>
    BY <1>2, ListOf DEF IsTerm
  <1> HIDE DEF ss
  <1>4. \A x : IsList(<<x>>) /\ ToSet(<<x>>) = {x}
    <2> TAKE x
    <2>1. IsList(<<x>>)
      BY ListOne
    <2>2. ToSet(<<x>>) = {x}
      BY DEF ToSet
    <2>3. QED
      BY <2>1, <2>2
  <1>5. AllLists(ss)
    BY <1>3, <1>4, ListEmpty DEF AllLists
  <1>6. \A i \in 1 .. Len(tokens) : f \in ToSet(ss[i]) <=> IsTerm(tokens[i]) /\ f = F(i)
    BY <1>3, <1>4, ListEmpty
  <1>7. f \in ToSet(FlattenSeq(ss)) <=> \E i \in 1 .. Len(tokens) : f \in ToSet(ss[i])
    BY <1>3, <1>5, FlattenElements DEF Among
  <1>8. QED
    BY <1>1, <1>6, <1>7 DEF F

\* A token that is an operator.
IsOperator(t) == Operator(t) # ""

\* The largest of some numbers.
LEMMA MaxIs ==
    ASSUME NEW S \in SUBSET Int, NEW j \in S, \A i \in S : i <= j
    PROVE  Max(S) = j
  <1>1. j \in S /\ \A y \in S : j >= y
    OBVIOUS
  <1>2. \A x \in S : (\A y \in S : x >= y) => x = j
    OBVIOUS
  <1>3. QED
    BY <1>1, <1>2 DEF Max

\* An operator holds up to the next one.
LEMMA OperatorNear ==
    ASSUME NEW tokens, NEW k \in Nat, NEW j \in 1 .. k, IsOperator(tokens[j]),
           \A i \in j + 1 .. k : ~IsOperator(tokens[i])
    PROVE  OperatorAt(tokens, k) = Operator(tokens[j])
  <1> DEFINE S == {i \in 1 .. k : IsOperator(tokens[i])}
  <1>1. \A i \in 1 .. k : i \in Int /\ (i <= j \/ i \in j + 1 .. k)
    OBVIOUS
  <1>2. j \in S /\ S \in SUBSET Int /\ \A i \in S : i <= j
    BY <1>1
  <1> HIDE DEF S
  <1>3. Max(S) = j /\ S # {}
    BY <1>2, MaxIs
  <1>4. OperatorAt(tokens, k) = IF S = {} THEN "AND" ELSE Operator(tokens[Max(S)])
    BY DEF OperatorAt, IsOperator, S
  <1>5. QED
    BY <1>3, <1>4

\* Before the first operator it is AND.
LEMMA OperatorNone ==
    ASSUME NEW tokens, NEW k \in Nat, \A i \in 1 .. k : ~IsOperator(tokens[i])
    PROVE  OperatorAt(tokens, k) = "AND"
  BY DEF OperatorAt, IsOperator

\* The operators and the parentheses are none of the words.
LEMMA Symbols ==
    /\ Operator("AND") = "AND" /\ Operator("OR") = "OR" /\ Operator("NOT") = "NOT"
    /\ Operator("(") = "" /\ Operator(")") = ""
  BY UpperAssumption DEF ToUpper, Operator

\* The operators and the parentheses.
LEMMA OperatorIs ==
    ASSUME NEW o \in {"OR", "AND", "NOT"}
    PROVE  Operator(o) = o /\ IsOperator(o)
  BY UpperAssumption DEF ToUpper, Operator, IsOperator

\* A boolean expression asks for words only.
LEMMA BooleanFlat ==
    ASSUME NEW tokens, IsList(tokens)
    PROVE  Flat(convertTokensToFilters(tokens))
  <1> DEFINE F == convertTokensToFilters(tokens)
  <1>1. ASSUME NEW f \in ToSet(F)
        PROVE  f.type = "exact"
    <2>1. PICK i \in 1 .. Len(tokens) :
                   f = ContentFilter("exact", tokens[i], OperatorAt(tokens, i))
      BY <1>1, ConvertIs
    <2>2. QED
      BY <2>1 DEF ContentFilter
  <1>2. QED
    BY <1>1 DEF Flat

-----------------------------------------------------------------------------
(* How a sum is written *)

\* The literal j of the clause i, as it is written.
WordOf(sum, i, j) ==
    [phrase |-> sum[i][j].word, before |-> Before(i, j, sum[i][j].neg)]

\* The words of each clause.
ClauseWords(sum) ==
    [i \in DOMAIN sum |-> [j \in DOMAIN sum[i] |-> WordOf(sum, i, j)]]

\* The operator that is given to it.
SignOf(i, j, neg) == IF neg THEN "NOT" ELSE IF j = 1 /\ i > 1 THEN "OR" ELSE "AND"

\* A list of clauses is a list of lists.
LEMMA SumIsLists ==
    ASSUME NEW sum, SumOfClauses(sum)
    PROVE  /\ IsList(sum) /\ Len(sum) \in Nat /\ DOMAIN sum = 1 .. Len(sum) /\ 1 \in 1 .. Len(sum)
           /\ \A i \in 1 .. Len(sum) :
                  /\ IsList(sum[i]) /\ Len(sum[i]) \in Nat
                  /\ DOMAIN sum[i] = 1 .. Len(sum[i]) /\ 1 \in 1 .. Len(sum[i])
                  /\ \A j \in 1 .. Len(sum[i]) : sum[i][j].neg \in BOOLEAN
  <1> DEFINE L == [neg : BOOLEAN, word : STRING]
             C == Seq(L) \ {<<>>}
  <1>1. sum \in Seq(C) /\ sum # <<>>
    BY DEF SumOfClauses
  <1>2. \A c \in C : c \in Seq(L) /\ c # <<>>
    OBVIOUS
  <1>3. \A l \in L : l.neg \in BOOLEAN
    OBVIOUS
  <1> HIDE DEF L, C
  <1>4. IsList(sum)
    BY <1>1, ListIs
  <1>5. Len(sum) \in Nat /\ DOMAIN sum = 1 .. Len(sum)
    BY <1>4, ListLen
  <1>6. 1 \in 1 .. Len(sum)
    BY <1>1, <1>4, <1>5, ListNone
  <1>7. ASSUME NEW i \in 1 .. Len(sum)
        PROVE  /\ IsList(sum[i]) /\ Len(sum[i]) \in Nat
               /\ DOMAIN sum[i] = 1 .. Len(sum[i]) /\ 1 \in 1 .. Len(sum[i])
               /\ \A j \in 1 .. Len(sum[i]) : sum[i][j].neg \in BOOLEAN
    <2> DEFINE c == sum[i]
    <2>1. c \in C
      BY <1>1, <1>5
    <2> HIDE DEF c
    <2>2. c \in Seq(L) /\ c # <<>>
      BY <1>2, <2>1
    <2>3. IsList(c)
      BY <2>2, ListIs
    <2>4. Len(c) \in Nat /\ DOMAIN c = 1 .. Len(c)
      BY <2>3, ListLen
    <2>5. 1 \in 1 .. Len(c)
      BY <2>2, <2>3, <2>4, ListNone
    <2>6. \A j \in 1 .. Len(c) : c[j].neg \in BOOLEAN
      BY <1>3, <2>2
    <2>7. QED
      BY <2>3, <2>4, <2>5, <2>6 DEF c
  <1>8. QED
    BY <1>4, <1>5, <1>6, <1>7

\* The words of a sum, in the order in which they are written.
LEMMA WrittenIs ==
    ASSUME NEW sum, SumOfClauses(sum)
    PROVE  /\ Written(sum) = FlattenSeq(ClauseWords(sum))
           /\ AllLists(ClauseWords(sum)) /\ IsList(Written(sum))
           /\ Len(Written(sum)) \in Nat
           /\ Len(ClauseWords(sum)) = Len(sum)
           /\ \A i \in 1 .. Len(sum) :
                  /\ Len(ClauseWords(sum)[i]) = Len(sum[i])
                  /\ \A j \in 1 .. Len(sum[i]) : ClauseWords(sum)[i][j] = WordOf(sum, i, j)
  <1> DEFINE ss == ClauseWords(sum)
  <1>1. Written(sum) = FlattenSeq(ss)
    BY DEF Written, ClauseWords, WordOf
  <1>2. /\ IsList(ss) /\ Len(ss) = Len(sum)
        /\ \A i \in 1 .. Len(sum) : ss[i] = [j \in DOMAIN sum[i] |-> WordOf(sum, i, j)]
    BY SumIsLists, ListOf DEF ClauseWords
  <1>3. ASSUME NEW i \in 1 .. Len(sum)
        PROVE  /\ IsList(ss[i]) /\ Len(ss[i]) = Len(sum[i])
               /\ \A j \in 1 .. Len(sum[i]) : ss[i][j] = WordOf(sum, i, j)
    <2> DEFINE c == [j \in DOMAIN sum[i] |-> WordOf(sum, i, j)]
    <2>1. DOMAIN sum[i] = 1 .. Len(sum[i]) /\ Len(sum[i]) \in Nat
      BY SumIsLists
    <2>2. IsList(c) /\ Len(c) = Len(sum[i])
          /\ \A j \in 1 .. Len(sum[i]) : c[j] = WordOf(sum, i, j)
      BY <2>1, ListOf
    <2> HIDE DEF c, ss
    <2>3. ss[i] = c
      BY <1>2 DEF c
    <2>4. QED
      BY <2>2, <2>3
  <1>4. AllLists(ss)
    BY <1>2, <1>3 DEF AllLists
  <1>5. IsList(FlattenSeq(ss))
    BY <1>4, FlattenList
  <1> HIDE DEF ss
  <1>6. QED
    BY <1>1, <1>2, <1>3, <1>4, <1>5, ListLen DEF ss

\* Each literal is one of them; the first is the first one.
LEMMA LiteralWritten ==
    ASSUME NEW sum, SumOfClauses(sum), NEW i \in 1 .. Len(sum), NEW j \in 1 .. Len(sum[i])
    PROVE  \E k \in 1 .. Len(Written(sum)) :
               Written(sum)[k] = WordOf(sum, i, j) /\ (i = 1 /\ j = 1 => k = 1)
  <1> DEFINE ss == ClauseWords(sum)
             k == Ahead(ss, i) + j
  <1>1. /\ AllLists(ss) /\ i \in 1 .. Len(ss) /\ j \in 1 .. Len(ss[i])
        /\ ss[i][j] = WordOf(sum, i, j) /\ Written(sum) = FlattenSeq(ss)
    BY WrittenIs
  <1>2. Upto(ss, 0) = <<>>
    BY <1>1, UptoNone DEF AllLists
  <1> HIDE DEF ss
  <1>3. k \in 1 .. Len(FlattenSeq(ss)) /\ FlattenSeq(ss)[k] = ss[i][j]
    BY <1>1, FlatAt
  <1>4. i = 1 /\ j = 1 => k = 1
    BY <1>2 DEF Ahead
  <1> HIDE DEF k
  <1>5. QED
    BY <1>1, <1>3, <1>4

\* Each of them is a literal.
LEMMA WrittenLiteral ==
    ASSUME NEW sum, SumOfClauses(sum), NEW k \in 1 .. Len(Written(sum))
    PROVE  \E i \in 1 .. Len(sum) : \E j \in 1 .. Len(sum[i]) :
               Written(sum)[k] = WordOf(sum, i, j) /\ (i = 1 /\ j = 1 => k = 1)
  <1> DEFINE ss == ClauseWords(sum)
  <1>1. /\ AllLists(ss) /\ Len(ss) = Len(sum) /\ Written(sum) = FlattenSeq(ss)
        /\ \A i \in 1 .. Len(sum) :
               /\ Len(ss[i]) = Len(sum[i])
               /\ \A j \in 1 .. Len(sum[i]) : ss[i][j] = WordOf(sum, i, j)
    BY WrittenIs
  <1>2. Upto(ss, 0) = <<>>
    BY <1>1, UptoNone DEF AllLists
  <1> HIDE DEF ss
  <1>3. PICK i, j : PlaceOf(ss, k, i, j)
    BY <1>1, FlatFrom
  <1>4. i \in 1 .. Len(sum) /\ j \in 1 .. Len(sum[i]) /\ k = Ahead(ss, i) + j
    BY <1>1, <1>3 DEF PlaceOf
  <1>5. FlattenSeq(ss)[Ahead(ss, i) + j] = ss[i][j]
    BY <1>1, <1>4, FlatAt
  <1>6. i = 1 /\ j = 1 => k = 1
    BY <1>2, <1>4 DEF Ahead
  <1>7. QED
    BY <1>1, <1>4, <1>5, <1>6

\* Some operators that end in that of a literal.
Leads(b, i, j, neg) ==
    /\ IsList(b) /\ Len(b) \in Nat
    /\ b = <<>> => i = 1 /\ j = 1 /\ SignOf(i, j, neg) = "AND"
    /\ b # <<>> => Len(b) \in 1 .. Len(b) /\ b[Len(b)] = SignOf(i, j, neg)
    /\ \A m \in 1 .. Len(b) : b[m] \in {"OR", "AND", "NOT"}
    /\ \A m \in 1 .. Len(b) : b[m] = "NOT" => neg

\* What is written before a literal ends in its operator.
LEMMA BeforeIs ==
    ASSUME NEW i \in Nat \ {0}, NEW j \in Nat \ {0}, NEW neg \in BOOLEAN, NEW b,
           b = Before(i, j, neg)
    PROVE  Leads(b, i, j, neg)
  <1> DEFINE o == SignOf(i, j, neg)
  <1>1. \/ b = <<>> /\ i = 1 /\ j = 1 /\ o = "AND"
        \/ b = <<"OR">> /\ o = "OR"
        \/ b = <<"AND">> /\ o = "AND"
        \/ b = <<"NOT">> /\ o = "NOT"
        \/ b = <<"OR", "NOT">> /\ o = "NOT"
    <2>1. CASE neg
      <3>1. b = (IF j = 1 /\ i > 1 THEN <<"OR">> \o <<"NOT">> ELSE <<>> \o <<"NOT">>)
            /\ o = "NOT"
        BY <2>1 DEF Before, SignOf
      <3>2. <<>> \o <<"NOT">> = <<"NOT">>
        BY ListOne, EmptyConcat
      <3>3. <<"OR">> \o <<"NOT">> = <<"OR", "NOT">>
        BY ListTwo
      <3>4. QED
        BY <3>1, <3>2, <3>3
    <2>2. CASE ~neg
      <3>1. b = (IF j = 1 /\ i > 1 THEN <<"OR">> \o <<>>
                 ELSE IF j > 1 THEN <<"AND">> \o <<>> ELSE <<>> \o <<>>)
            /\ o = IF j = 1 /\ i > 1 THEN "OR" ELSE "AND"
        BY <2>2 DEF Before, SignOf
      <3>2. <<"OR">> \o <<>> = <<"OR">> /\ <<"AND">> \o <<>> = <<"AND">> /\ <<>> \o <<>> = <<>>
        BY ListOne, ListEmpty, EmptyConcat
      <3>3. CASE j = 1 /\ i > 1
        BY <3>1, <3>2, <3>3
      <3>4. CASE ~(j = 1 /\ i > 1)
        <4>1. j > 1 \/ (j = 1 /\ i = 1)
          BY <3>4
        <4>2. QED
          BY <3>1, <3>2, <3>4, <4>1
      <3>5. QED
        BY <3>3, <3>4
    <2>3. QED
      BY <2>1, <2>2
  <1> HIDE DEF o
  <1>2. /\ IsList(<<>>) /\ IsList(<<"OR">>) /\ IsList(<<"AND">>) /\ IsList(<<"NOT">>)
        /\ Len(<<>>) = 0 /\ Len(<<"OR">>) = 1 /\ Len(<<"AND">>) = 1 /\ Len(<<"NOT">>) = 1
    BY ListEmpty, ListOne
  <1>3. IsList(<<"OR", "NOT">>) /\ Len(<<"OR", "NOT">>) = 2
    BY DEF IsList, ToSet
  <1>4. /\ IsList(b) /\ Len(b) \in Nat
        /\ b = <<>> => i = 1 /\ j = 1 /\ o = "AND"
        /\ b # <<>> => Len(b) \in 1 .. Len(b) /\ b[Len(b)] = o
        /\ \A m \in 1 .. Len(b) : b[m] \in {"OR", "AND", "NOT"}
        /\ \A m \in 1 .. Len(b) : b[m] = "NOT" => o = "NOT"
    <2>1. CASE b = <<>> /\ i = 1 /\ j = 1 /\ o = "AND"
      BY <1>2, <2>1
    <2>2. CASE b = <<"OR">> /\ o = "OR"
      BY <1>2, <2>2
    <2>3. CASE b = <<"AND">> /\ o = "AND"
      BY <1>2, <2>3
    <2>4. CASE b = <<"NOT">> /\ o = "NOT"
      BY <1>2, <2>4
    <2>5. CASE b = <<"OR", "NOT">> /\ o = "NOT"
      BY <1>3, <2>5
    <2>6. QED
      BY <1>1, <2>1, <2>2, <2>3, <2>4, <2>5
  <1>5. o = "NOT" => neg
    BY DEF o, SignOf
  <1>6. QED
    BY <1>4, <1>5 DEF o, Leads

\* The words of a sum as tokens.
TokenLists(words) == [k \in DOMAIN words |-> Append(words[k].before, words[k].phrase)]

\* The word k is a token, and the one before it is its operator.
LEMMA TokensOfWord ==
    ASSUME NEW words, IsList(words), \A k \in 1 .. Len(words) : IsList(words[k].before)
    PROVE  /\ AllLists(TokenLists(words)) /\ Len(TokenLists(words)) = Len(words)
           /\ IsList(FlattenSeq(TokenLists(words)))
           /\ \A k \in 1 .. Len(words) :
                 /\ Len(words[k].before) \in Nat
                 /\ Len(TokenLists(words)[k]) = Len(words[k].before) + 1
                 /\ \A m \in 1 .. Len(words[k].before) :
                        TokenLists(words)[k][m] = words[k].before[m]
                 /\ TokenLists(words)[k][Len(words[k].before) + 1] = words[k].phrase
  <1> DEFINE ss == TokenLists(words)
  <1>1. Len(words) \in Nat /\ DOMAIN words = 1 .. Len(words)
    BY ListLen
  <1>2. /\ IsList(ss) /\ Len(ss) = Len(words)
        /\ \A k \in 1 .. Len(words) : ss[k] = Append(words[k].before, words[k].phrase)
    BY <1>1, ListOf DEF TokenLists
  <1> HIDE DEF ss
  <1>3. ASSUME NEW k \in 1 .. Len(words)
        PROVE  /\ IsList(ss[k])
               /\ Len(words[k].before) \in Nat
               /\ Len(ss[k]) = Len(words[k].before) + 1
               /\ \A m \in 1 .. Len(words[k].before) : ss[k][m] = words[k].before[m]
               /\ ss[k][Len(words[k].before) + 1] = words[k].phrase
    <2> DEFINE b == words[k].before
               p == words[k].phrase
    <2>1. IsList(b) /\ ss[k] = Append(b, p)
      BY <1>2
    <2> HIDE DEF b, p
    <2>2. /\ IsList(Append(b, p)) /\ Len(Append(b, p)) = Len(b) + 1
          /\ \A i \in 1 .. Len(b) : Append(b, p)[i] = b[i]
          /\ Append(b, p)[Len(b) + 1] = p
      BY <2>1, AppendIs
    <2>3. Len(b) \in Nat
      BY <2>1, ListLen
    <2>4. QED
      BY <2>1, <2>2, <2>3 DEF b, p
  <1>4. AllLists(ss)
    BY <1>2, <1>3 DEF AllLists
  <1>5. IsList(FlattenSeq(ss))
    BY <1>4, FlattenList
  <1>6. QED
    BY <1>2, <1>3, <1>4, <1>5 DEF ss

\* The word k of a sum is a literal, after operators that end in its own.
IsLiteral(sum, k, i, j, b) ==
    /\ Written(sum)[k].phrase = sum[i][j].word
    /\ IsList(b) /\ Len(b) \in Nat
    /\ b = <<>> => k = 1 /\ SignOf(i, j, sum[i][j].neg) = "AND"
    /\ b # <<>> => /\ Len(b) \in 1 .. Len(b)
                   /\ b[Len(b)] = SignOf(i, j, sum[i][j].neg)
    /\ \A m \in 1 .. Len(b) : b[m] \in {"OR", "AND", "NOT"}
    /\ \A m \in 1 .. Len(b) : b[m] = "NOT" => sum[i][j].neg

\* The words of a sum are lists of operators and a word.
LEMMA WordsOfSum ==
    ASSUME NEW sum, SumOfClauses(sum), NEW k \in 1 .. Len(Written(sum)), NEW i, NEW j,
           i \in 1 .. Len(sum), j \in 1 .. Len(sum[i]), Written(sum)[k] = WordOf(sum, i, j),
           i = 1 /\ j = 1 => k = 1, NEW b, b = Written(sum)[k].before
    PROVE  IsLiteral(sum, k, i, j, b)
  <1>1. i \in Nat \ {0} /\ j \in Nat \ {0} /\ sum[i][j].neg \in BOOLEAN
    <2>1. Len(sum) \in Nat /\ Len(sum[i]) \in Nat /\ sum[i][j].neg \in BOOLEAN
      BY SumIsLists
    <2>2. QED
      BY <2>1
  <1>2. b = Before(i, j, sum[i][j].neg) /\ Written(sum)[k].phrase = sum[i][j].word
    BY DEF WordOf
  <1> DEFINE g == sum[i][j].neg
  <1>3. g \in BOOLEAN /\ b = Before(i, j, g)
    BY <1>1, <1>2
  <1> HIDE DEF g
  <1>4. /\ IsList(b) /\ Len(b) \in Nat
        /\ b = <<>> => i = 1 /\ j = 1 /\ SignOf(i, j, g) = "AND"
        /\ b # <<>> => Len(b) \in 1 .. Len(b) /\ b[Len(b)] = SignOf(i, j, g)
        /\ \A m \in 1 .. Len(b) : b[m] \in {"OR", "AND", "NOT"}
        /\ \A m \in 1 .. Len(b) : b[m] = "NOT" => g
    <2>1. i \in Nat \ {0}
      BY <1>1
    <2>2. j \in Nat \ {0}
      BY <1>1
    <2>3. g \in BOOLEAN
      BY <1>3
    <2>4. b = Before(i, j, g)
      BY <1>3
    <2>5. Leads(b, i, j, g)
      BY <2>1, <2>2, <2>3, <2>4, BeforeIs, Zenon
    <2>6. QED
      BY <2>5 DEF Leads
  <1>5. QED
    BY <1>2, <1>4 DEF g, IsLiteral

\* The operators before the words of a sum are lists.
LEMMA BeforesAreLists ==
    ASSUME NEW sum, SumOfClauses(sum)
    PROVE  \A m \in 1 .. Len(Written(sum)) : IsList(Written(sum)[m].before)
  <1> TAKE m \in 1 .. Len(Written(sum))
  <1>1. PICK i \in 1 .. Len(sum) : \E j \in 1 .. Len(sum[i]) :
            Written(sum)[m] = WordOf(sum, i, j) /\ (i = 1 /\ j = 1 => m = 1)
    BY WrittenLiteral
  <1>2. PICK j \in 1 .. Len(sum[i]) :
            Written(sum)[m] = WordOf(sum, i, j) /\ (i = 1 /\ j = 1 => m = 1)
    BY <1>1
  <1> DEFINE b == Written(sum)[m].before
  <1>3. b = Written(sum)[m].before
    OBVIOUS
  <1> HIDE DEF b
  <1>4. IsLiteral(sum, m, i, j, b)
    BY <1>2, <1>3, WordsOfSum
  <1>5. QED
    BY <1>4 DEF b, IsLiteral

\* The words of a sum as tokens: each is searched for with its operator.
LEMMA SumToken ==
    ASSUME NEW sum, SumOfClauses(sum), NEW k \in 1 .. Len(Written(sum)), NEW i, NEW j,
           i \in 1 .. Len(sum), j \in 1 .. Len(sum[i]), Written(sum)[k] = WordOf(sum, i, j),
           i = 1 /\ j = 1 => k = 1, IsWord(sum[i][j].word),
           NEW p, PlaceOf(TokenLists(Written(sum)), p, k, Len(Written(sum)[k].before) + 1)
    PROVE  /\ p \in 1 .. Len(SumTokens(sum))
           /\ SumTokens(sum)[p] = sum[i][j].word
           /\ IsTerm(SumTokens(sum)[p])
           /\ OperatorAt(SumTokens(sum), p) = SignOf(i, j, sum[i][j].neg)
  <1> DEFINE words == Written(sum)
             ss == TokenLists(words)
             t == SumTokens(sum)
             b == words[k].before
             n == Len(b)
             at == Ahead(ss, k)
             o == SignOf(i, j, sum[i][j].neg)
  <1>1. t = FlattenSeq(ss)
    BY DEF SumTokens, TokenLists
  <1>2. IsList(words) /\ \A m \in 1 .. Len(words) : IsList(words[m].before)
    BY WrittenIs, BeforesAreLists
  <1>3. /\ AllLists(ss) /\ Len(ss) = Len(words) /\ IsList(FlattenSeq(ss)) /\ n \in Nat
        /\ Len(ss[k]) = n + 1
        /\ \A m \in 1 .. n : ss[k][m] = b[m]
        /\ ss[k][n + 1] = words[k].phrase
    BY <1>2, TokensOfWord
  <1>4. /\ words[k].phrase = sum[i][j].word
        /\ b = <<>> => k = 1 /\ o = "AND"
        /\ b # <<>> => n \in 1 .. n /\ b[n] = o
        /\ \A m \in 1 .. n : b[m] \in {"OR", "AND", "NOT"}
    <2>1. b = Written(sum)[k].before
      OBVIOUS
    <2>2. words[k].phrase = Written(sum)[k].phrase
      OBVIOUS
    <2> HIDE DEF b
    <2>3. IsLiteral(sum, k, i, j, b)
      BY <2>1, WordsOfSum
    <2>4. QED
      BY <2>2, <2>3 DEF IsLiteral
  <1>5. k \in 1 .. Len(ss) /\ p = at + (n + 1)
    BY <1>3 DEF PlaceOf
  <1>6. Upto(ss, 0) = <<>>
    BY <1>3, UptoNone DEF AllLists
  <1>7. k = 1 => at = 0
    BY <1>6 DEF Ahead
  <1> HIDE DEF ss, words, b, n, at, t, o
  <1>8. \A m \in 1 .. n + 1 : /\ at \in Nat /\ at + m \in 1 .. Len(FlattenSeq(ss))
                              /\ FlattenSeq(ss)[at + m] = ss[k][m]
    BY <1>3, <1>5, FlatAt DEF at
  <1>9. n + 1 \in 1 .. n + 1
    BY <1>3
  <1>10. at \in Nat /\ p \in 1 .. Len(t) /\ t[p] = sum[i][j].word
    BY <1>1, <1>3, <1>4, <1>5, <1>8, <1>9
  <1>11. IsTerm(t[p]) /\ ~IsOperator(t[p])
    BY <1>10 DEF IsWord, IsTerm, IsOperator
  <1>12. OperatorAt(t, p) = o
    <2>1. p \in Nat
      BY <1>3, <1>5, <1>10
    <2>2. CASE b = <<>>
      <3>1. n = 0 /\ p = 1
        BY <2>2, <1>4, <1>5, <1>7 DEF n
      <3>2. \A m \in 1 .. p : ~IsOperator(t[m])
        BY <3>1, <1>11
      <3>3. QED
        BY <2>1, <2>2, <3>2, <1>4, OperatorNone
    <2>3. CASE b # <<>>
      <3>1. n \in 1 .. n + 1 /\ n \in 1 .. n /\ at + n = p - 1
        BY <2>3, <1>3, <1>4, <1>5, <1>10
      <3>2. t[p - 1] = o /\ o \in {"OR", "AND", "NOT"}
        BY <3>1, <2>3, <1>1, <1>3, <1>4, <1>8
      <3>3. p - 1 \in 1 .. p
        <4>1. n \in Nat /\ n >= 1 /\ at \in Nat /\ p = at + (n + 1)
          BY <3>1, <1>3, <1>5, <1>10
        <4>2. QED
          BY <2>1, <3>1, <4>1
      <3>4. \A m \in (p - 1) + 1 .. p : ~IsOperator(t[m])
        <4>1. \A m \in (p - 1) + 1 .. p : m = p
          BY <2>1
        <4>2. QED
          BY <4>1, <1>11
      <3>5. OperatorAt(t, p) = Operator(t[p - 1])
        <4> DEFINE q == p - 1
        <4>1. q \in 1 .. p /\ IsOperator(t[q]) /\ \A m \in q + 1 .. p : ~IsOperator(t[m])
          BY <3>2, <3>3, <3>4, OperatorIs
        <4> HIDE DEF q
        <4>2. OperatorAt(t, p) = Operator(t[q])
          BY <2>1, <4>1, OperatorNear
        <4>3. QED
          BY <4>2 DEF q
      <3>6. QED
        BY <3>2, <3>5, OperatorIs
    <2>4. QED
      BY <2>2, <2>3
  <1>13. QED
    BY <1>10, <1>11, <1>12 DEF t, o

\* The filter of a literal of a sum.
SumFilter(sum, i, j) == ContentFilter("exact", sum[i][j].word, SignOf(i, j, sum[i][j].neg))

\* The filters of a sum are those of its literals: the first word of a clause
\* is one of OR, but for the first, and the others of AND.
LEMMA SumFilters ==
    ASSUME NEW sum, SumOfClauses(sum),
           \A i \in 1 .. Len(sum) : \A j \in 1 .. Len(sum[i]) : IsWord(sum[i][j].word), NEW f
    PROVE  f \in ToSet(convertTokensToFilters(SumTokens(sum))) <=>
               \E i \in 1 .. Len(sum) : \E j \in 1 .. Len(sum[i]) : f = SumFilter(sum, i, j)
  <1> DEFINE words == Written(sum)
             ss == TokenLists(words)
             t == SumTokens(sum)
  <1>1. t = FlattenSeq(ss)
    BY DEF SumTokens, TokenLists
  <1>2. IsList(words) /\ \A m \in 1 .. Len(words) : IsList(words[m].before)
    BY WrittenIs, BeforesAreLists
  <1>3. /\ AllLists(ss) /\ Len(ss) = Len(words) /\ IsList(t)
        /\ \A k \in 1 .. Len(words) :
              /\ Len(words[k].before) \in Nat
              /\ Len(ss[k]) = Len(words[k].before) + 1
              /\ \A m \in 1 .. Len(words[k].before) : ss[k][m] = words[k].before[m]
    BY <1>1, <1>2, TokensOfWord
  <1>4. f \in ToSet(convertTokensToFilters(t)) <=>
            \E p \in 1 .. Len(t) :
                IsTerm(t[p]) /\ f = ContentFilter("exact", t[p], OperatorAt(t, p))
    <2> HIDE DEF t
    <2>1. QED
      BY <1>3, ConvertIs
  <1>5. ASSUME NEW i \in 1 .. Len(sum), NEW j \in 1 .. Len(sum[i]), f = SumFilter(sum, i, j)
        PROVE  f \in ToSet(convertTokensToFilters(t))
    <2>1. PICK k \in 1 .. Len(words) : words[k] = WordOf(sum, i, j) /\ (i = 1 /\ j = 1 => k = 1)
      BY LiteralWritten
    <2> DEFINE m == Len(words[k].before) + 1
               p == Ahead(ss, k) + m
    <2>2. m \in 1 .. Len(ss[k])
      BY <1>3
    <2>3. PlaceOf(ss, p, k, m)
      BY <1>3, <2>2 DEF PlaceOf
    <2> HIDE DEF p
    <2>4. /\ p \in 1 .. Len(t) /\ t[p] = sum[i][j].word /\ IsTerm(t[p])
          /\ OperatorAt(t, p) = SignOf(i, j, sum[i][j].neg)
      BY <2>1, <2>3, SumToken
    <2>5. QED
      BY <1>4, <1>5, <2>4 DEF SumFilter
  <1>6. ASSUME NEW p \in 1 .. Len(t), IsTerm(t[p]),
               f = ContentFilter("exact", t[p], OperatorAt(t, p))
        PROVE  \E i \in 1 .. Len(sum) : \E j \in 1 .. Len(sum[i]) : f = SumFilter(sum, i, j)
    <2>1. PICK k, m : PlaceOf(ss, p, k, m)
      BY <1>1, <1>3, FlatFrom
    <2>2. k \in 1 .. Len(words) /\ m \in 1 .. Len(ss[k]) /\ p = Ahead(ss, k) + m
      BY <1>3, <2>1 DEF PlaceOf
    <2>3. PICK i \in 1 .. Len(sum) : \E j \in 1 .. Len(sum[i]) :
              words[k] = WordOf(sum, i, j) /\ (i = 1 /\ j = 1 => k = 1)
      BY <2>2, WrittenLiteral
    <2>4. PICK j \in 1 .. Len(sum[i]) :
              words[k] = WordOf(sum, i, j) /\ (i = 1 /\ j = 1 => k = 1)
      BY <2>3
    <2>5. t[p] = ss[k][m]
      BY <1>1, <1>3, <2>2, FlatAt
    <2>6. m = Len(words[k].before) + 1
      <3>1. SUFFICES ASSUME m # Len(words[k].before) + 1
                     PROVE  FALSE
        OBVIOUS
      <3>2. m \in 1 .. Len(words[k].before)
        BY <1>3, <2>2, <3>1
      <3> DEFINE b == words[k].before
      <3>5. b = words[k].before
        OBVIOUS
      <3>6. t[p] = b[m] /\ m \in 1 .. Len(b)
        BY <1>3, <2>2, <2>5, <3>2
      <3> HIDE DEF b
      <3>7. \A x \in 1 .. Len(b) : b[x] \in {"OR", "AND", "NOT"}
        <4>1. IsLiteral(sum, k, i, j, b)
          BY <2>2, <2>4, <3>5, WordsOfSum
        <4>2. QED
          BY <4>1 DEF IsLiteral
      <3>3. t[p] \in {"OR", "AND", "NOT"}
        BY <3>6, <3>7
      <3>4. QED
        BY <3>3, <1>6, OperatorIs DEF IsTerm, IsOperator
    <2>7. PlaceOf(ss, p, k, Len(words[k].before) + 1)
      BY <2>1, <2>6
    <2>8. t[p] = sum[i][j].word /\ OperatorAt(t, p) = SignOf(i, j, sum[i][j].neg)
      BY <2>2, <2>4, <2>7, SumToken
    <2>9. QED
      BY <1>6, <2>8 DEF SumFilter
  <1>7. QED
    BY <1>4, <1>5, <1>6

-----------------------------------------------------------------------------
(* How a product is written *)

\* The words of a factor, any of which it asks for.
Either(f) ==
    FlattenSeq([i \in DOMAIN f.words |->
        IF i = 1 THEN <<FactorWord(f, i)>> ELSE <<"OR", FactorWord(f, i)>>])

\* They begin with the first.
LEMMA EitherFirst ==
    ASSUME NEW f, IsList(f.words), 1 \in 1 .. Len(f.words), NEW e, e = Either(f)
    PROVE  IsList(e) /\ 1 \in 1 .. Len(e) /\ e[1] = FactorWord(f, 1)
  <1> DEFINE W(i) == FactorWord(f, i)
             ss == [i \in DOMAIN f.words |-> IF i = 1 THEN <<W(i)>> ELSE <<"OR", W(i)>>]
  <1>1. e = FlattenSeq(ss)
    BY DEF Either
  <1>2. Len(f.words) \in Nat /\ DOMAIN f.words = 1 .. Len(f.words)
    BY ListLen
  <1> HIDE DEF W
  <1>3. /\ IsList(ss) /\ Len(ss) = Len(f.words)
        /\ \A i \in 1 .. Len(f.words) : ss[i] = IF i = 1 THEN <<W(i)>> ELSE <<"OR", W(i)>>
    BY <1>2, ListOf
  <1> HIDE DEF ss
  <1>4. AllLists(ss)
    <2>1. ASSUME NEW i \in 1 .. Len(ss)
          PROVE  IsList(ss[i])
      <3>1. IsList(<<W(i)>>) /\ IsList(<<"OR", W(i)>>)
        BY ListOne, ListTwo
      <3>2. QED
        BY <1>3, <3>1
    <2>2. QED
      BY <1>3, <2>1 DEF AllLists
  <1>5. ss[1] = <<W(1)>> /\ 1 \in 1 .. Len(ss)
    BY <1>3
  <1>6. Len(ss[1]) = 1 /\ ss[1][1] = W(1)
    BY <1>5, ListOne
  <1>7. Ahead(ss, 1) = 0
    <2>1. Upto(ss, 0) = <<>>
      BY <1>3, UptoNone
    <2>2. QED
      BY <2>1 DEF Ahead
  <1>8. 1 \in 1 .. Len(ss[1])
    BY <1>6
  <1>9. 0 + 1 \in 1 .. Len(FlattenSeq(ss)) /\ FlattenSeq(ss)[0 + 1] = ss[1][1]
    BY <1>4, <1>5, <1>7, <1>8, FlatAt
  <1>10. IsList(FlattenSeq(ss))
    BY <1>4, FlattenList
  <1>11. QED
    BY <1>1, <1>6, <1>9, <1>10 DEF W

\* A word that nothing but parentheses comes before.
FirstAt(b, m, w) ==
    /\ IsList(b) /\ m \in 1 .. Len(b) /\ b[m] = w
    /\ \A n \in 1 .. m - 1 : b[n] = "("

\* So it is with the first word of a factor that is not negated.
LEMMA FactorFirst ==
    ASSUME NEW f, IsList(f.words), 1 \in 1 .. Len(f.words), f.neg = FALSE,
           f.attached \in BOOLEAN
    PROVE  \E m : FirstAt(FactorTokens(f), m, FactorWord(f, 1))
  <1> DEFINE e == Either(f)
             p == <<"(">> \o e
             t == FactorTokens(f)
             w == FactorWord(f, 1)
  <1>1. IsList(e) /\ 1 \in 1 .. Len(e) /\ e[1] = w
    BY EitherFirst
  <1>2. t = <<>> \o (IF f.attached THEN e ELSE p \o <<")">>)
    BY DEF FactorTokens, Either
  <1> HIDE DEF e, w
  <1>3. IsList(p) /\ Len(p) = Len(e) + 1 /\ p[1] = "(" /\ p[2] = w
    <2>1. /\ IsList(p) /\ Len(p) = Len(e) + 1 /\ p[1] = "("
          /\ \A i \in 1 .. Len(e) : p[i + 1] = e[i]
      BY <1>1, OneBefore DEF Follows
    <2>2. p[1 + 1] = e[1]
      BY <1>1, <2>1
    <2>3. QED
      BY <1>1, <2>1, <2>2
  <1> HIDE DEF p, t
  <1>4. CASE f.attached
    <2>1. t = e
      BY <1>1, <1>2, <1>4, EmptyConcat
    <2>2. FirstAt(t, 1, w)
      BY <1>1, <2>1 DEF FirstAt
    <2>3. QED
      BY <2>2 DEF t, w
  <1>5. CASE ~f.attached
    <2> DEFINE q == p \o <<")">>
    <2>1. IsList(<<")">>) /\ Len(<<")">>) = 1
      BY ListOne
    <2>2. /\ IsList(q) /\ Len(q) = Len(p) + 1 /\ Len(p) \in Nat
          /\ \A i \in 1 .. Len(p) : q[i] = p[i]
      BY <1>3, <2>1, ListConcat
    <2>3. t = <<>> \o q
      BY <1>2, <1>5
    <2> HIDE DEF q
    <2>4. t = q
      BY <2>2, <2>3, EmptyConcat
    <2>5. 1 \in 1 .. Len(p) /\ 2 \in 1 .. Len(p)
      BY <1>1, <1>3, <2>2
    <2>6. q[1] = "(" /\ q[2] = w /\ 2 \in 1 .. Len(q)
      BY <1>3, <2>2, <2>5
    <2>7. \A n \in 1 .. 2 - 1 : n = 1
      OBVIOUS
    <2>8. FirstAt(t, 2, w)
      BY <2>2, <2>4, <2>6, <2>7 DEF FirstAt
    <2>9. QED
      BY <2>8 DEF t, w
  <1>6. QED
    BY <1>4, <1>5

\* The tokens of the factor i, with the operator before it.
Block(product, i) ==
    (IF i > 1 /\ ~product[i].neg THEN <<"AND">> ELSE <<>>) \o FactorTokens(product[i])

\* The tokens of each factor.
Blocks(product) == [i \in DOMAIN product |-> Block(product, i)]

\* A product without negations.
Factors(product) ==
    /\ IsList(product)
    /\ \A i \in 1 .. Len(product) :
          /\ IsList(product[i].words) /\ 1 \in 1 .. Len(product[i].words)
          /\ product[i].neg = FALSE /\ product[i].attached \in BOOLEAN
          /\ IsWord(FactorWord(product[i], 1))

\* A list of tokens in which a word follows an AND, unless it is the first.
Begins(b, first, m, w) ==
    /\ IsList(b) /\ m \in 1 .. Len(b) /\ b[m] = w
    /\ first => \A n \in 1 .. m - 1 : b[n] = "("
    /\ ~first => 1 < m /\ b[1] = "AND" /\ \A n \in 2 .. m - 1 : b[n] = "("

\* So do the tokens of a factor.
LEMMA BlockBegins ==
    ASSUME NEW product, Factors(product), NEW i \in 1 .. Len(product)
    PROVE  \E m : Begins(Block(product, i), i = 1, m, FactorWord(product[i], 1))
  <1> DEFINE f == product[i]
             t == FactorTokens(f)
             w == FactorWord(f, 1)
             b == Block(product, i)
  <1>1. PICK m : FirstAt(t, m, w)
    BY FactorFirst DEF Factors
  <1>2. IsList(t) /\ m \in 1 .. Len(t) /\ t[m] = w /\ \A n \in 1 .. m - 1 : t[n] = "("
    BY <1>1 DEF FirstAt
  <1>3. b = (IF i > 1 THEN <<"AND">> ELSE <<>>) \o t
    BY DEF Block, Factors
  <1>4. Len(product) \in Nat
    BY ListLen DEF Factors
  <1> HIDE DEF t, w, b
  <1>5. CASE i = 1
    <2>1. b = <<>> \o t
      BY <1>3, <1>5
    <2>2. b = t
      BY <1>2, <2>1, EmptyConcat
    <2>3. Begins(b, i = 1, m, w)
      BY <1>2, <1>5, <2>2 DEF Begins
    <2>4. QED
      BY <2>3 DEF b, w
  <1>6. CASE i # 1
    <2>1. b = <<"AND">> \o t
      BY <1>3, <1>4, <1>6
    <2>2. Follows(<<"AND">> \o t, "AND", t)
      BY <1>2, OneBefore
    <2>3. /\ IsList(b) /\ Len(b) = Len(t) + 1 /\ Len(t) \in Nat /\ b[1] = "AND"
          /\ \A n \in 1 .. Len(t) : b[n + 1] = t[n]
      BY <2>1, <2>2 DEF Follows
    <2>4. m \in Nat /\ 1 <= m /\ m <= Len(t)
      BY <1>2, <2>3
    <2>5. m + 1 \in 1 .. Len(b) /\ b[m + 1] = w /\ 1 < m + 1 /\ (m + 1) - 1 = m
      BY <1>2, <2>3, <2>4
    <2>6. ASSUME NEW n \in 2 .. (m + 1) - 1
          PROVE  b[n] = "("
      <3> DEFINE k == n - 1
      <3>1. k \in 1 .. m - 1 /\ k \in 1 .. Len(t) /\ k + 1 = n
        BY <2>3, <2>4, <2>6
      <3> HIDE DEF k
      <3>2. b[k + 1] = t[k] /\ t[k] = "("
        BY <1>2, <2>3, <3>1
      <3>3. QED
        BY <3>1, <3>2
    <2> DEFINE p == m + 1
    <2>7. IsList(b) /\ p \in 1 .. Len(b) /\ b[p] = w /\ 1 < p /\ b[1] = "AND"
          /\ \A n \in 2 .. p - 1 : b[n] = "("
      BY <2>3, <2>5, <2>6
    <2> HIDE DEF p
    <2>8. Begins(b, i = 1, p, w)
      BY <1>6, <2>7 DEF Begins
    <2>9. QED
      BY <2>8 DEF b, w
  <1>7. QED
    BY <1>5, <1>6

\* The tokens of a product are those of its factors.
LEMMA BlocksAre ==
    ASSUME NEW product, Factors(product)
    PROVE  /\ ProductTokens(product) = FlattenSeq(Blocks(product))
           /\ AllLists(Blocks(product)) /\ Len(Blocks(product)) = Len(product)
           /\ IsList(ProductTokens(product))
           /\ \A i \in 1 .. Len(product) : Blocks(product)[i] = Block(product, i)
  <1> DEFINE ss == Blocks(product)
  <1>1. ProductTokens(product) = FlattenSeq(ss)
    BY DEF ProductTokens, Blocks, Block
  <1>2. Len(product) \in Nat /\ DOMAIN product = 1 .. Len(product)
    BY ListLen DEF Factors
  <1>3. /\ IsList(ss) /\ Len(ss) = Len(product)
        /\ \A i \in 1 .. Len(product) : ss[i] = Block(product, i)
    BY <1>2, ListOf DEF Blocks
  <1> HIDE DEF ss
  <1>4. ASSUME NEW i \in 1 .. Len(ss)
        PROVE  IsList(ss[i])
    <2>1. \E m : Begins(Block(product, i), i = 1, m, FactorWord(product[i], 1))
      BY <1>3, BlockBegins
    <2>2. IsList(Block(product, i))
      BY <2>1 DEF Begins
    <2>3. QED
      BY <1>3, <2>2
  <1>5. AllLists(ss)
    BY <1>3, <1>4 DEF AllLists
  <1>6. IsList(FlattenSeq(ss))
    BY <1>5, FlattenList
  <1>7. QED
    BY <1>1, <1>3, <1>5, <1>6 DEF ss

\* A parenthesis is no operator, and a word is none either.
LEMMA NotOperators ==
    ASSUME NEW w, IsWord(w)
    PROVE  ~IsOperator("(") /\ ~IsOperator(w) /\ IsTerm(w)
  BY Symbols DEF IsOperator, IsWord, IsTerm

\* The first word of a factor is searched for with AND.
LEMMA ProductToken ==
    ASSUME NEW product, Factors(product), NEW i \in 1 .. Len(product),
           NEW t, t = ProductTokens(product)
    PROVE  \E p \in 1 .. Len(t) : /\ t[p] = FactorWord(product[i], 1)
                                  /\ IsTerm(t[p]) /\ OperatorAt(t, p) = "AND"
  <1> DEFINE w == FactorWord(product[i], 1)
             ss == Blocks(product)
             b == Block(product, i)
             at == Ahead(ss, i)
  <1>1. PICK m : Begins(b, i = 1, m, w)
    BY BlockBegins
  <1>2. /\ t = FlattenSeq(ss) /\ AllLists(ss) /\ i \in 1 .. Len(ss) /\ ss[i] = b
    BY BlocksAre
  <1>3. IsWord(w)
    BY DEF Factors
  <1>4. ~IsOperator("(") /\ ~IsOperator(w) /\ IsTerm(w)
    BY <1>3, NotOperators
  <1>5. i = 1 => at = 0
    <2>1. Upto(ss, 0) = <<>>
      BY <1>2, UptoNone DEF AllLists
    <2>2. QED
      BY <2>1 DEF Ahead
  <1> HIDE DEF w, ss, b, at
  <1>6. /\ IsList(b) /\ m \in 1 .. Len(b) /\ b[m] = w
        /\ i = 1 => \A n \in 1 .. m - 1 : b[n] = "("
        /\ i # 1 => 1 < m /\ b[1] = "AND" /\ \A n \in 2 .. m - 1 : b[n] = "("
    BY <1>1 DEF Begins
  <1>7. \A n \in 1 .. Len(b) : /\ at \in Nat /\ at + n \in 1 .. Len(FlattenSeq(ss))
                               /\ FlattenSeq(ss)[at + n] = ss[i][n]
    BY <1>2, FlatAt DEF at
  <1>8. Len(b) \in Nat /\ m \in Nat /\ 1 <= m /\ m <= Len(b)
    BY <1>6, ListLen
  <1>9. \A n \in 1 .. m : at \in Nat /\ at + n \in 1 .. Len(t) /\ t[at + n] = b[n]
    BY <1>2, <1>7, <1>8
  <1> DEFINE p == at + m
  <1>10. m \in 1 .. m /\ at \in Nat /\ p \in Nat
    BY <1>8, <1>9
  <1>11. p \in 1 .. Len(t) /\ t[p] = w
    BY <1>6, <1>9, <1>10
  <1>12. CASE i = 1
    <2>1. at = 0 /\ p = m
      BY <1>5, <1>10, <1>12
    <2>2. ASSUME NEW n \in 1 .. p
          PROVE  ~IsOperator(t[n])
      <3>1. n \in 1 .. m /\ at + n = n
        BY <2>1
      <3>2. t[n] = b[n]
        BY <1>9, <3>1
      <3>3. n = m \/ n \in 1 .. m - 1
        BY <1>8, <3>1
      <3>4. b[n] = w \/ b[n] = "("
        BY <1>6, <1>12, <3>3
      <3>5. QED
        BY <1>4, <3>2, <3>4
    <2> HIDE DEF p
    <2>3. OperatorAt(t, p) = "AND"
      BY <1>10, <2>2, OperatorNone
    <2>4. QED
      BY <1>4, <1>11, <2>3 DEF w
  <1>13. CASE i # 1
    <2> DEFINE q == at + 1
    <2>1. 1 \in 1 .. m /\ q \in 1 .. p /\ q \in Nat
      BY <1>8, <1>10
    <2>2. t[q] = "AND"
      BY <1>6, <1>9, <1>13, <2>1
    <2>3. ASSUME NEW n \in q + 1 .. p
          PROVE  ~IsOperator(t[n])
      <3> DEFINE k == n - at
      <3>1. k \in 2 .. m /\ k \in 1 .. m /\ at + k = n
        BY <1>8, <1>10, <2>3
      <3> HIDE DEF k, q, p
      <3>2. t[n] = b[k]
        BY <1>9, <3>1
      <3>3. k = m \/ k \in 2 .. m - 1
        BY <1>8, <3>1
      <3>4. b[k] = w \/ b[k] = "("
        BY <1>6, <1>13, <3>3
      <3>5. QED
        BY <1>4, <3>2, <3>4
    <2> HIDE DEF p, q
    <2>4. IsOperator(t[q]) /\ Operator(t[q]) = "AND"
      BY <2>2, OperatorIs
    <2>5. OperatorAt(t, p) = Operator(t[q])
      BY <1>10, <2>1, <2>3, <2>4, OperatorNear
    <2>6. OperatorAt(t, p) = "AND"
      BY <2>4, <2>5
    <2>7. QED
      BY <1>4, <1>11, <2>6 DEF w
  <1>14. QED
    BY <1>12, <1>13

\* Where AND is the only operator, it holds everywhere.
LEMMA OnlyAnd ==
    ASSUME NEW tokens, NEW n \in Nat,
           \A j \in 1 .. n : IsOperator(tokens[j]) => Operator(tokens[j]) = "AND"
    PROVE  \A k \in 0 .. n : OperatorAt(tokens, k) = "AND"
  <1> DEFINE K == {k \in Nat : k <= n => OperatorAt(tokens, k) = "AND"}
  <1>1. 0 \in K
    <2>1. OperatorAt(tokens, 0) = "AND"
      BY OperatorNone
    <2>2. QED
      BY <2>1
  <1>2. ASSUME NEW k \in K
        PROVE  k + 1 \in K
    <2> DEFINE m == k + 1
    <2>1. k \in Nat /\ m \in Nat
      OBVIOUS
    <2>2. ASSUME m <= n
          PROVE  OperatorAt(tokens, m) = "AND"
      <3>1. OperatorAt(tokens, k) = "AND"
        BY <2>1, <2>2
      <3>2. CASE IsOperator(tokens[m])
        <4>1. m \in 1 .. m /\ m \in 1 .. n /\ \A i \in m + 1 .. m : ~IsOperator(tokens[i])
          BY <2>1, <2>2
        <4> HIDE DEF m, K
        <4>2. OperatorAt(tokens, m) = Operator(tokens[m])
          BY <2>1, <3>2, <4>1, OperatorNear
        <4>3. QED
          BY <3>2, <4>1, <4>2
      <3>3. CASE ~IsOperator(tokens[m])
        <4>1. 1 .. m = 1 .. k \cup {m}
          BY <2>1
        <4> HIDE DEF m, K
        <4>2. {j \in 1 .. m : Operator(tokens[j]) # ""} = {j \in 1 .. k : Operator(tokens[j]) # ""}
          BY <3>3, <4>1 DEF IsOperator
        <4>3. OperatorAt(tokens, m) = OperatorAt(tokens, k)
          BY <4>2 DEF OperatorAt
        <4>4. QED
          BY <3>1, <4>3
      <3>4. QED
        BY <3>2, <3>3
    <2>3. QED
      BY <2>1, <2>2
  <1>3. K = Nat
    <2> HIDE DEF K
    <2>1. K \in SUBSET Nat
      BY DEF K
    <2>2. QED
      BY <1>1, <1>2, <2>1, EveryNumber
  <1>4. QED
    BY <1>3

\* A product of words that parentheses stand around.
SingleWords(product) ==
    /\ Factors(product)
    /\ \A i \in 1 .. Len(product) : Len(product[i].words) = 1 /\ ~product[i].attached

\* The tokens of one of its factors are the word, parentheses and an AND.
LEMMA SingleTokens ==
    ASSUME NEW product, SingleWords(product), NEW i \in 1 .. Len(product)
    PROVE  \A x \in ToSet(Block(product, i)) :
               x \in {"AND", "(", ")", product[i].words[1]}
  <1> DEFINE f == product[i]
             w == f.words[1]
             e == Either(f)
             ss == [j \in DOMAIN f.words |->
                       IF j = 1 THEN <<FactorWord(f, j)>> ELSE <<"OR", FactorWord(f, j)>>]
             p == <<"(">> \o e
             t == p \o <<")">>
             a == IF i > 1 THEN <<"AND">> ELSE <<>>
  <1>1. /\ IsList(f.words) /\ Len(f.words) = 1 /\ f.neg = FALSE /\ ~f.attached
        /\ DOMAIN f.words = 1 .. 1
    BY ListLen DEF SingleWords, Factors
  <1>2. FactorWord(f, 1) = w
    BY <1>1 DEF FactorWord
  <1>3. e = FlattenSeq(ss)
    BY DEF Either
  <1>4. ss = [j \in 1 .. 1 |-> ss[j]] /\ ss[1] = <<w>>
    BY <1>1, <1>2
  <1>5. Block(product, i) = a \o (<<>> \o t)
    BY <1>1 DEF Block, FactorTokens, Either
  <1> HIDE DEF ss, w, f
  <1>6. IsList(ss) /\ Len(ss) = 1
    BY <1>4, ListOf
  <1>7. IsList(<<w>>) /\ ToSet(<<w>>) = {w}
    BY ListOne, OneElement
  <1>8. \A j \in 1 .. Len(ss) : j = 1
    BY <1>6
  <1>9. AllLists(ss)
    BY <1>4, <1>6, <1>7, <1>8 DEF AllLists
  <1>10. IsList(e) /\ \A x : x \in ToSet(e) => x = w
    <2>1. \A x : x \in ToSet(FlattenSeq(ss)) <=> Among(x, ss, Len(ss))
      BY <1>9, FlattenElements
    <2>2. \A x : Among(x, ss, Len(ss)) => x \in ToSet(ss[1])
      BY <1>8 DEF Among
    <2>3. IsList(FlattenSeq(ss))
      BY <1>9, FlattenList
    <2>4. QED
      BY <1>3, <1>4, <1>7, <2>1, <2>2, <2>3
  <1> HIDE DEF e
  <1>11. /\ IsList(<<"(">>) /\ ToSet(<<"(">>) = {"("}
         /\ IsList(<<")">>) /\ ToSet(<<")">>) = {")"}
    BY ListOne, OneElement
  <1>12. IsList(p) /\ ToSet(p) = {"("} \cup ToSet(e)
    BY <1>10, <1>11, ListConcat, ConcatSet
  <1> HIDE DEF p
  <1>13. IsList(t) /\ ToSet(t) = ToSet(p) \cup {")"}
    BY <1>11, <1>12, ListConcat, ConcatSet
  <1>14. IsList(a) /\ ToSet(a) \subseteq {"AND"}
    BY ListOne, OneElement, ListEmpty
  <1> HIDE DEF t, a
  <1>15. ToSet(Block(product, i)) = ToSet(a) \cup ToSet(t)
    BY <1>5, <1>13, <1>14, EmptyConcat, ConcatSet
  <1>16. ASSUME NEW x \in ToSet(Block(product, i))
         PROVE  x \in {"AND", "(", ")", w}
    BY <1>10, <1>12, <1>13, <1>14, <1>15
  <1>17. QED
    BY <1>16 DEF w, f

\* So are all of its tokens, and AND holds everywhere.
LEMMA SingleProduct ==
    ASSUME NEW product, SingleWords(product), NEW t, t = ProductTokens(product)
    PROVE  \A k \in 1 .. Len(t) :
               /\ OperatorAt(t, k) = "AND"
               /\ IsTerm(t[k]) => \E i \in 1 .. Len(product) : t[k] = product[i].words[1]
  <1>1. /\ t = FlattenSeq(Blocks(product)) /\ IsList(t) /\ AllLists(Blocks(product))
        /\ Len(Blocks(product)) = Len(product)
        /\ \A i \in 1 .. Len(product) : Blocks(product)[i] = Block(product, i)
    BY BlocksAre DEF SingleWords
  <1>2. ASSUME NEW k \in 1 .. Len(t)
        PROVE  \E i \in 1 .. Len(product) : t[k] \in {"AND", "(", ")", product[i].words[1]}
    <2> DEFINE x == t[k]
    <2>1. x \in ToSet(t)
      BY <1>1, ListElements
    <2> HIDE DEF x
    <2>2. Among(x, Blocks(product), Len(Blocks(product)))
      BY <1>1, <2>1, FlattenElements
    <2>3. PICK i \in 1 .. Len(product) : x \in ToSet(Block(product, i))
      BY <1>1, <2>2 DEF Among
    <2>4. x \in {"AND", "(", ")", product[i].words[1]}
      BY <2>3, SingleTokens
    <2>5. QED
      BY <2>4 DEF x
  <1>3. ASSUME NEW i \in 1 .. Len(product)
        PROVE  ~IsOperator(product[i].words[1])
    <2>1. IsWord(FactorWord(product[i], 1)) /\ FactorWord(product[i], 1) = product[i].words[1]
      BY DEF SingleWords, Factors, FactorWord
    <2>2. QED
      BY <2>1, NotOperators
  <1>4. ASSUME NEW k \in 1 .. Len(t), IsOperator(t[k])
        PROVE  Operator(t[k]) = "AND"
    <2>1. PICK i \in 1 .. Len(product) : t[k] \in {"AND", "(", ")", product[i].words[1]}
      BY <1>2
    <2>2. ~IsOperator("(") /\ ~IsOperator(")") /\ Operator("AND") = "AND"
      BY Symbols DEF IsOperator
    <2>3. t[k] = "AND"
      BY <1>3, <1>4, <2>1, <2>2
    <2>4. QED
      BY <2>2, <2>3
  <1>5. ASSUME NEW k \in 1 .. Len(t), IsTerm(t[k])
        PROVE  \E i \in 1 .. Len(product) : t[k] = product[i].words[1]
    <2>1. PICK i \in 1 .. Len(product) : t[k] \in {"AND", "(", ")", product[i].words[1]}
      BY <1>2
    <2>2. t[k] \notin {"AND", "(", ")"}
      BY <1>5, Symbols DEF IsTerm
    <2>3. QED
      BY <2>1, <2>2
  <1>6. \A k \in 0 .. Len(t) : OperatorAt(t, k) = "AND"
    BY <1>1, <1>4, ListLen, OnlyAnd
  <1>7. QED
    BY <1>1, <1>5, <1>6, ListLen

-----------------------------------------------------------------------------
(* Phrases *)

\* What is left of a list of three, of which the last is not kept.
LEMMA OnlyOfThree ==
    ASSUME NEW x, NEW y, NEW z, NEW P, z \notin P, NEW a, NEW b,
           a = IF x \in P THEN <<x>> ELSE <<>>, b = IF y \in P THEN <<y>> ELSE <<>>
    PROVE  Only(<<x, y, z>>, P) = a \o b
  <1> DEFINE l == <<x, y, z>>
             ss == [i \in DOMAIN l |-> IF l[i] \in P THEN <<l[i]>> ELSE <<>>]
  <1>1. Only(l, P) = FlattenSeq(ss)
    BY DEF Only
  <1>2. IsList(ss) /\ Len(ss) = 3
    <2>1. DOMAIN l = 1 .. 3
      OBVIOUS
    <2>2. QED
      BY <2>1, ListOf
  <1>3. ss[1] = a /\ ss[2] = b /\ ss[3] = <<>>
    OBVIOUS
  <1>4. IsList(a) /\ IsList(b) /\ IsList(<<>>)
    BY ListOne, ListEmpty
  <1> HIDE DEF ss
  <1>5. AllLists(ss)
    <2>1. \A i \in 1 .. Len(ss) : i \in {1, 2, 3}
      BY <1>2
    <2>2. QED
      BY <1>2, <1>3, <1>4, <2>1 DEF AllLists
  <1>6. Upto(ss, 0) = <<>>
    BY <1>2, UptoNone
  <1>7. Upto(ss, 1) = a
    <2>1. Upto(ss, 0 + 1) = Upto(ss, 0) \o ss[0 + 1]
      BY <1>2, <1>5, UptoStep
    <2>2. Upto(ss, 1) = Upto(ss, 0) \o ss[1]
      BY <2>1
    <2>3. QED
      BY <1>3, <1>4, <1>6, <2>2, EmptyConcat
  <1>8. Upto(ss, 2) = a \o b
    <2>1. Upto(ss, 1 + 1) = Upto(ss, 1) \o ss[1 + 1]
      BY <1>2, <1>5, UptoStep
    <2>2. Upto(ss, 2) = Upto(ss, 1) \o ss[2]
      BY <2>1
    <2>3. QED
      BY <1>3, <1>7, <2>2
  <1>9. Upto(ss, 3) = a \o b
    <2>1. Upto(ss, 2 + 1) = Upto(ss, 2) \o ss[2 + 1]
      <3>1. 2 \in Nat /\ 2 < Len(ss)
        BY <1>2
      <3>2. QED
        BY <1>5, <3>1, UptoStep
    <2>2. Upto(ss, 3) = Upto(ss, 2) \o ss[3]
      BY <2>1
    <2>3. IsList(a \o b)
      BY <1>4, ListConcat
    <2>4. QED
      BY <1>3, <1>8, <2>2, <2>3, EmptyConcat
  <1>10. Upto(ss, 3) = FlattenSeq(ss)
    BY <1>2, UptoAll
  <1>11. QED
    BY <1>1, <1>9, <1>10

\* The operators that are given to phrases: one to the first, and AND to the
\* second when there is one.
Few(ops) ==
    /\ Len(ops) \in 0 .. 2
    /\ 1 \in 1 .. Len(ops) => ops[1] \in {"OR", "AND"}
    /\ 2 \in 1 .. Len(ops) => ops[2] = "AND"

\* A list of an OR and an AND, either of which may be missing.
LEMMA OrThenAnd ==
    ASSUME NEW a, NEW b, IsList(a), IsList(b), Len(a) \in 0 .. 1, Len(b) \in 0 .. 1,
           Len(a) = 1 => a[1] = "OR", Len(b) = 1 => b[1] = "AND"
    PROVE  Few(a \o b)
  <1> DEFINE c == a \o b
             m == Len(a)
             n == Len(b)
  <1>1. /\ Len(c) = m + n
        /\ \A i \in 1 .. m : c[i] = a[i]
        /\ \A i \in 1 .. n : c[m + i] = b[i]
    BY ListConcat
  <1>2. m \in 0 .. 1 /\ n \in 0 .. 1 /\ (m = 1 => a[1] = "OR") /\ (n = 1 => b[1] = "AND")
    OBVIOUS
  <1> HIDE DEF c, m, n
  <1>3. (m = 0 \/ m = 1) /\ (n = 0 \/ n = 1)
    BY <1>2
  <1>4. m = 1 => c[1] = "OR"
    BY <1>1, <1>2
  <1>5. n = 1 => c[m + 1] = "AND"
    BY <1>1, <1>2
  <1>6. CASE m = 0 /\ n = 0
    BY <1>1, <1>6 DEF Few, c
  <1>7. CASE m = 1 /\ n = 0
    BY <1>1, <1>4, <1>7 DEF Few, c
  <1>8. CASE m = 0 /\ n = 1
    BY <1>1, <1>5, <1>8 DEF Few, c
  <1>9. CASE m = 1 /\ n = 1
    BY <1>1, <1>4, <1>5, <1>9 DEF Few, c
  <1>10. QED
    BY <1>3, <1>6, <1>7, <1>8, <1>9

\* The operators of phrases that none is before a NOT.
LEMMA FewOperators ==
    ASSUME NEW P, "NOT" \notin P
    PROVE  Few(Only(<<"OR", "AND", "NOT">>, P))
  <1> DEFINE a == IF "OR" \in P THEN <<"OR">> ELSE <<>>
             b == IF "AND" \in P THEN <<"AND">> ELSE <<>>
  <1>1. Only(<<"OR", "AND", "NOT">>, P) = a \o b
    BY OnlyOfThree
  <1>2. /\ IsList(a) /\ Len(a) \in 0 .. 1 /\ (Len(a) = 1 => a[1] = "OR")
        /\ IsList(b) /\ Len(b) \in 0 .. 1 /\ (Len(b) = 1 => b[1] = "AND")
    BY ListOne, ListEmpty
  <1> HIDE DEF a, b
  <1>3. Few(a \o b)
    BY <1>2, OrThenAnd
  <1>4. QED
    BY <1>1, <1>3

\* No literal of a sum is negated.
Positive(sum) == \A i \in 1 .. Len(sum) : \A j \in 1 .. Len(sum[i]) : ~sum[i][j].neg

\* Then none of its words is behind a NOT.
LEMMA NoNegation ==
    ASSUME NEW sum, SumOfClauses(sum), Positive(sum)
    PROVE  \A k \in 1 .. Len(Written(sum)) : "NOT" \notin ToSet(Written(sum)[k].before)
  <1> TAKE k \in 1 .. Len(Written(sum))
  <1>1. PICK i \in 1 .. Len(sum) : \E j \in 1 .. Len(sum[i]) :
            Written(sum)[k] = WordOf(sum, i, j) /\ (i = 1 /\ j = 1 => k = 1)
    BY WrittenLiteral
  <1>2. PICK j \in 1 .. Len(sum[i]) :
            Written(sum)[k] = WordOf(sum, i, j) /\ (i = 1 /\ j = 1 => k = 1)
    BY <1>1
  <1> DEFINE b == Written(sum)[k].before
  <1>3. b = Written(sum)[k].before
    OBVIOUS
  <1> HIDE DEF b
  <1>4. IsLiteral(sum, k, i, j, b)
    BY <1>2, <1>3, WordsOfSum
  <1>5. ~sum[i][j].neg
    BY DEF Positive
  <1>6. IsList(b) /\ \A m \in 1 .. Len(b) : b[m] # "NOT"
    BY <1>4, <1>5 DEF IsLiteral
  <1>7. "NOT" \notin ToSet(b)
    BY <1>6, ListElements
  <1>8. QED
    BY <1>7 DEF b

\* A list of which everything is kept is the list.
LEMMA OnlyAll ==
    ASSUME NEW list, IsList(list), NEW S, \A i \in 1 .. Len(list) : list[i] \in S
    PROVE  Only(list, S) = list
  <1>1. DOMAIN list = 1 .. Len(list)
    BY ListLen
  <1>2. [i \in DOMAIN list |-> IF list[i] \in S THEN <<list[i]>> ELSE <<>>]
            = [i \in DOMAIN list |-> <<list[i]>>]
    BY <1>1
  <1>3. QED
    BY <1>2, FlattenSingles DEF Only

\* What a phrase search says that is as it reads: no phrase is blank or has an
\* operator inside.
Plainly(sum) ==
    \A i \in 1 .. Len(sum) : \A j \in 1 .. Len(sum[i]) :
        sum[i][j].word # "" /\ InsideOf(sum[i][j].word) = {}

\* Then no phrase of the search is blank or has one.
LEMMA PlainPhrases ==
    ASSUME NEW sum, SumOfClauses(sum), Plainly(sum)
    PROVE  \A k \in 1 .. Len(Written(sum)) :
              Written(sum)[k].phrase # "" /\ InsideOf(Written(sum)[k].phrase) = {}
  <1> TAKE k \in 1 .. Len(Written(sum))
  <1>1. PICK i \in 1 .. Len(sum) : \E j \in 1 .. Len(sum[i]) :
            Written(sum)[k] = WordOf(sum, i, j) /\ (i = 1 /\ j = 1 => k = 1)
    BY WrittenLiteral
  <1>2. PICK j \in 1 .. Len(sum[i]) : Written(sum)[k] = WordOf(sum, i, j)
    BY <1>1
  <1>3. Written(sum)[k].phrase = sum[i][j].word
    BY <1>2 DEF WordOf
  <1>4. QED
    BY <1>3 DEF Plainly

\* The operators between phrases, none of which is a NOT.
LEMMA BetweenPhrases ==
    ASSUME NEW s, NEW sum, SumOfClauses(sum), Positive(sum), s.phrases = Written(sum),
           NEW k \in 1 .. Len(Written(sum))
    PROVE  "NOT" \notin OperatorsBefore(s, k)
  <1> DEFINE b == Written(sum)[k].before
             r == SubSeq(b, 2, Len(b))
  <1>1. PICK i \in 1 .. Len(sum) : \E j \in 1 .. Len(sum[i]) :
            Written(sum)[k] = WordOf(sum, i, j) /\ (i = 1 /\ j = 1 => k = 1)
    BY WrittenLiteral
  <1>2. PICK j \in 1 .. Len(sum[i]) :
            Written(sum)[k] = WordOf(sum, i, j) /\ (i = 1 /\ j = 1 => k = 1)
    BY <1>1
  <1>3. b = Written(sum)[k].before
    OBVIOUS
  <1> HIDE DEF b
  <1>4. IsLiteral(sum, k, i, j, b)
    BY <1>2, <1>3, WordsOfSum
  <1>5. IsList(b)
    BY <1>4 DEF IsLiteral
  <1>6. "NOT" \notin ToSet(b)
    BY <1>3, NoNegation
  <1>7. Len(b) \in Nat /\ \A n \in 1 .. Len(b) : b[n] # "NOT"
    BY <1>5, <1>6, ListLen, ListElements
  <1>8. "NOT" \notin ToSet(r)
    <2>1. CASE Len(b) = 0
      <3>1. r = <<>>
        BY <1>5, <2>1 DEF IsList
      <3>2. QED
        BY <3>1, ListEmpty
    <2>2. CASE Len(b) # 0
      <3>1. 1 \in 0 .. Len(b) /\ 1 + 1 = 2
        BY <1>7, <2>2
      <3>2. IsList(r) /\ Len(r) = Len(b) - 1 /\ \A n \in 1 .. Len(b) - 1 : r[n] = b[1 + n]
        BY <1>5, <3>1, ListCut, ListPast
      <3>3. \A n \in 1 .. Len(b) - 1 : 1 + n \in 1 .. Len(b)
        BY <1>7
      <3>4. \A n \in 1 .. Len(r) : r[n] # "NOT"
        BY <1>7, <3>2, <3>3
      <3> HIDE DEF r
      <3>5. QED
        BY <3>2, <3>4, ListElements
    <2>3. QED
      BY <2>1, <2>2
  <1> HIDE DEF r
  <1>9. OperatorsBefore(s, k) = ToSet(IF k = 1 THEN r ELSE b)
    BY DEF OperatorsBefore, r, b
  <1>10. QED
    BY <1>6, <1>8, <1>9

\* The filters of phrases: one of them at most is of OR.
LEMMA PhraseList ==
    ASSUME NEW s, NEW sum, SumOfClauses(sum), Positive(sum), Plainly(sum), s.closed,
           s.phrases = Written(sum), NEW F, F = parsePhraseSearch(s).filters
    PROVE  /\ IsList(F) /\ Len(F) = Len(Written(sum))
           /\ \A k \in 1 .. Len(F) : \E o \in {"OR", "AND"} :
                 /\ F[k] = ContentFilter("phrase", Written(sum)[k].phrase, o)
                 /\ k # 1 => o = "AND"
  <1> DEFINE W == Written(sum)
             phrases == [i \in DOMAIN W |-> W[i].phrase]
             P == UNION {OperatorsBefore(s, i) \cup InsideOf(W[i].phrase) : i \in DOMAIN W}
             ops == extractOperators(s)
             G == [i \in DOMAIN phrases |->
                      ContentFilter("phrase", phrases[i],
                                    IF i <= Len(ops) THEN ops[i] ELSE "AND")]
  <1>1. Len(W) \in Nat /\ DOMAIN W = 1 .. Len(W)
    BY WrittenIs, ListLen
  <1>2. \A k \in 1 .. Len(W) : W[k].phrase # "" /\ InsideOf(W[k].phrase) = {}
    BY PlainPhrases
  <1>3. ops = Only(<<"OR", "AND", "NOT">>, P)
    BY DEF extractOperators
  <1>4. F = G
    <2>1. IsList(phrases) /\ Len(phrases) = Len(W)
      BY <1>1, ListOf
    <2>2. \A k \in 1 .. Len(phrases) : phrases[k] # ""
      BY <1>1, <1>2, <2>1
    <2>3. extractQuotedPhrases(s) = Only(phrases, ToSet(phrases) \ {""})
      BY DEF extractQuotedPhrases
    <2> HIDE DEF phrases
    <2>4. \A k \in 1 .. Len(phrases) : phrases[k] \in ToSet(phrases) \ {""}
      BY <2>1, <2>2, ListElements
    <2>5. extractQuotedPhrases(s) = phrases
      BY <2>1, <2>3, <2>4, OnlyAll
    <2> HIDE DEF ops
    <2>6. QED
      BY <2>5 DEF parsePhraseSearch, Accepted, ops
  <1>5. "NOT" \notin P
    BY <1>1, <1>2, BetweenPhrases
  <1>6. \A k \in 1 .. Len(W) : phrases[k] = W[k].phrase
    BY <1>1
  <1>7. DOMAIN phrases = 1 .. Len(W)
    BY <1>1
  <1> HIDE DEF W, P, ops, phrases
  <1>8. /\ IsList(G) /\ Len(G) = Len(W)
        /\ \A k \in 1 .. Len(W) :
              G[k] = ContentFilter("phrase", phrases[k], IF k <= Len(ops) THEN ops[k] ELSE "AND")
    BY <1>1, <1>7, ListOf
  <1>9. Few(ops)
    BY <1>3, <1>5, FewOperators
  <1> HIDE DEF G
  <1>10. ASSUME NEW k \in 1 .. Len(W)
         PROVE  \E o \in {"OR", "AND"} :
                    G[k] = ContentFilter("phrase", W[k].phrase, o) /\ (k # 1 => o = "AND")
    <2> DEFINE o == IF k <= Len(ops) THEN ops[k] ELSE "AND"
    <2>1. o \in {"OR", "AND"} /\ (k # 1 => o = "AND")
      <3>1. CASE k <= Len(ops)
        <4> DEFINE n == Len(ops)
        <4>5. n \in 0 .. 2
          BY <1>9 DEF Few
        <4> HIDE DEF n
        <4>1. n \in Nat /\ n <= 2 /\ k \in Nat /\ k >= 1
          BY <1>1, <4>5
        <4>2. k \in 1 .. Len(ops) /\ (k = 1 \/ k = 2)
          BY <3>1, <4>1 DEF n
        <4>3. o = ops[k]
          BY <3>1
        <4>4. QED
          BY <1>9, <4>2, <4>3 DEF Few
      <3>2. CASE ~(k <= Len(ops))
        BY <3>2
      <3>3. QED
        BY <3>1, <3>2
    <2>2. G[k] = ContentFilter("phrase", W[k].phrase, o)
      BY <1>6, <1>8
    <2> HIDE DEF o
    <2>3. QED
      BY <2>1, <2>2
  <1>11. QED
    BY <1>4, <1>8, <1>10 DEF W
=============================================================================
